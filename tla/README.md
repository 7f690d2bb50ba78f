# Innkeeper in TLA+

A specification of Innkeeper, checked with TLC on small instances and, for most
of its safety, proved with TLAPS for every instance. Innkeeper
watches a home network: a privileged **capture container** (`src/capture`)
turns packets into HTTP requests, a **FastAPI backend** (`src/backend/src`)
keeps the tables and derives what the user sees, a **Svelte dashboard**
(`src/frontend`) shows it.

## The system

### Components

| component | state | operations | modelled by |
|---|---|---|---|
| device registry (`modules/device_identity`, `modules/devices`) | `devices`, `discovered_identities`, `device_mac_history` | observe (ARP, DHCP, mDNS), register, merge, look up | `DeviceRegistry` |
| capture ingest API (`routes/capture.py`) | none of its own | seven routes, called by the capture container only | `DeviceRegistry`, `SecurityMonitor`, `ScanPipeline`, `TrafficPipeline` |
| security module (`modules/security`, `services/security_status.py`, `services/port_rules.py`) | `security_status`, `port_scan_results`, `security_alerts`, `pending_scan_requests` | scan result, rollup with malicious addresses, daily job, trigger, acknowledge | `SecurityMonitor` |
| scan listener (`capture/port_scan.py`) | the batch it claimed | poll, scan, POST; once a day the daily job | `ScanPipeline`; its end in `CaptureShutdown` |
| traffic sniffer (`capture/traffic_sniff.py`) | the flow table of the window, a DNS cache | count, flush | `TrafficPipeline` |
| traffic tables (`modules/traffic/models.py`, `services/bandwidth_source.py`) | `traffic_flows`, `bandwidth_metrics` | ingest a rollup; queries | `TrafficPipeline` |
| live feed (`modules/traffic/broadcaster.py`, `/stream` in `routes.py`) | `_latest_snapshot`, `last_sent` of each stream | recompute every 7 s, send on change | `TrafficPipeline` |
| database sessions (`database.py`) | one session per request | commit, rollback | in every module's atomicity |
| bandwidth anomaly (`services/bandwidth_anomaly.py`) | none | one verdict per device from 14 days of bandwidth | `BandwidthAnomaly`; its verdict is a free choice in `SecurityMonitor` |
| threat intelligence (`services/threat_intel_source.py`) | a static set | membership | a free choice in `SecurityMonitor` |
| module host (`host/`, `main.py`) | the registry of protocols, routers, collector tasks | order, load, wire, start, stop | `ModuleHost` |
| module toggling (`routes/modules.py`, `host/dependencies.py`) | `module_configs` | toggle with confirmation | `ModuleToggle` |
| authentication (`routes/auth.py`, `auth.py`) | `app_settings`, the session cookies | set up, log in, log out | `AuthSetup` |
| these three in one process | | start, requests, shutdown, kill | `Dashboard` |
| capture process (`capture/capture.py`) | six threads and the stop event | start, SIGTERM, join | `CaptureShutdown`; its packet handlers are the inputs of `DeviceRegistry` |
| identity inference, vendor catalog, linked apps, migrations, frontend, scripts | none that another part relies on | | not modelled |

### Interactions

- capture -> API: `POST /capture/{arp,dhcp,mdns,traffic,scan-result,queue-daily-scans}`,
  `GET /capture/pending-scans`. Every sender is a synchronous loop with a client
  timeout (5 s; 60 s for a scan result; 10 s for the daily job) and no retry;
  the API does not notice the timeout and works on. mDNS is the exception: its
  posts are concurrent tasks.
- dashboard -> API: register, merge, trigger a scan, acknowledge alerts, toggle
  modules; one server-sent-events stream per open page.
- The API is one asyncio process. Requests interleave at each `await` on the
  database, which runs READ COMMITTED; a request commits one to several times,
  and an exception rolls back to the last commit. Between commits it works with
  the attribute values it loaded, and the ORM writes only what differs from them.

### What is hard, and what must hold

- *Registry.* An observation is six to eight statements in up to five
  transactions, and the row it matched may be merged, re-keyed or joined by a
  second one meanwhile. The mDNS placeholder MAC, shared by all mDNS
  observations, must never reach a device; a device must never get the key,
  history or scan address of another device's MAC; a key must have one row.
- *Security.* Three kinds of writers of the status, each reading alerts first and
  writing later, and two of a kind after a client timeout; alerts raised after an
  existence check; readers that fail on two.
- *Scan queue.* A request is claimed before it is delivered: timeouts, overlapping
  polls and restarts on either side must not duplicate it.
- *Traffic.* A rollup may be stored although its sender has given up; flows and
  bandwidth commit separately; the feed must survive any failure.
- *Bandwidth.* The last 24 h do not begin at midnight, so the first and the last
  baseline day are cut short; days without rows are missing from the average.
- *Capture process.* Four threads look at the stop event within a bounded time,
  two only after a packet, and any may have died; main joins them one by one.
- *Host and toggles.* The load order is computed from the manifests; a capability
  that raises is swallowed, a factory that raises is not; collectors are started in
  two places. A toggle reads, asks, reads again and writes, and two may overlap; so
  may two first set-ups.

The complete list is `hazards` in `PROJECT.json`, each entry with its line.

## The modules

Each operation or statement of the code is an action with the code's name where
it has one. An operator marked `Defect:` is what the action after it would be
with a plausible mistake in it; no specification uses it. The mutant runs put it
in that action's place and show that the property fails then.

### DeviceRegistry (`MCDeviceRegistry`, `DeviceRegistryProofs`)

| model | code |
|---|---|
| `devices`, `identities`, `history` | the tables of `device_identity/models.py` |
| `req[h]` | a request in flight: its next statement and what it has loaded |
| `ArpObservation`, `DhcpObservation`, `MdnsObservation` | the packet handlers of `capture/capture.py` |
| `IngestArp`, `IngestDhcp`, `IngestMdns`, `Receive` | the routes up to `record_observation`'s first query |
| `MatchDevice`, `UpdateDevice`, `RecordMac` | `record_observation` for a known MAC (`service.py:201-210`) |
| `CheckIdentity`, `UpsertIdentity`, `RaiseUnknownAlert` | `upsert_discovered_identity` |
| `MatchIpDevice`, `SetIp` | the end of `ingest_arp` |
| `RegisterDevice`, `CreateDevice` | `register_device` and `register()` |
| `MergeDevice`, `LoadTarget`, `MergeIdentity` | `merge_device` and `merge()` |
| `Fail`, `Restart` | an exception in a request; the process ends |

History variables, which no guard reads, say what a request cannot know. `owned`
is every MAC a device ever had, `ipFrom` which sender an address came from, `alerts`
how often a row's alert was raised. `raced` are the requests between their check
and their upsert while another one added or removed a row of the key they checked
(`Overtake`); a row written by a raced request, or whose alert a failure cost, is
`excused`; `late` are the devices that got the observed MAC after a request had
looked for one (`RespondGiving`). With them the properties can say what holds under
overlap: the exception is the overlap itself, not the instance. A row id of
`discovered_identities` is its key with an *incarnation*, because keys are
immutable and ids are only compared; an id no row or request refers to any more
stands for a new one, which keeps the state space finite without losing the case
of a deleted and re-created row. When a MAC is on two devices the code's
`scalar_one_or_none` raises; `MatchDevice` ends the request there.

### SecurityMonitor (`MCSecurityMonitor`, `SecurityMonitorProofs`)

Per device: `status`, the findings of the `latest` scan, the number of `open`
alerts by type and of `pending` scan requests. In flight: any number of scan
results and rollups, since their senders give up after 60 and 5 s and go on while
the API still works, up to the bound `MaxInFlight`; and one daily job, whose thread
sleeps until the next 3:00 after each. `queue_daily_scans` is one transaction over
all devices, `ingest_scan_result` one of four statements, the malicious-address
check of `ingest_traffic` one SELECT per hit and a commit. A scan result's
`scanned_at` is its first statement's time, so one that commits after a later one
(`superseded`) does not become the latest. A set of ports is what
`evaluate_open_ports` says of it: clean, unexpected, risky or both. Acknowledged
alerts are read by nothing. A write that waits for a row lock has the effect of the
same step taken after the other commit, so locks need no state of their own.

A request is `overtaken` when another one commits a change of a device it has
loaded; `raced` are the devices an overtaken request wrote last. Both are history.

### ScanRequests and ScanPipeline (`MCScanPipeline`, `ScanPipelineProofs`)

`ScanRequests` is the promise: a request goes from the queue to the scanner to a
result, never backwards; it can be lost only from the claim on. `ScanPipeline`
is the code: `get_pending_scans` as SELECT, UPDATE-by-id with commit, and reply;
the listener's poll, batch, scan and POST; timeouts of both calls, failing scans
and requests, restarts of both processes. `Stage` maps each row to the promise,
and `OneWay` is the refinement `Abstract!Spec`.

### TrafficPipeline (`MCTrafficPipeline`, `TrafficPipelineProofs`)

`CountFrame`, `Quiet` and `FlushIfDue` are the loop of `run_traffic_sniff`; a
frame is one unit of a flow. `StoreFlows`, `WriteRollup`, `Respond` are
`ingest_traffic`'s transactions up to the malicious-address check, which is
`SecurityMonitor`'s. `UpdateSnapshot` is a tick of `update_snapshot_loop`,
`SendSnapshot` an iteration of a stream, `AgeOut` the five-minute window moving.
A sniffer restart clears the window; an API restart clears the snapshot and the
streams, which reconnect.

### BandwidthAnomaly (`BandwidthAnomalyProofs`)

`bytes` is the device's `bandwidth_metrics` of the window, one entry per slot of
time by age; `hour` is where in the calendar day the check happens. `SlotEnds`
lets time pass, so that every history and every time of day comes up.
`CheckBandwidthAnomaly` is the function: the trailing 24 h against the average of
the calendar days that have rows, if there are enough of them. Its two
properties say what a user means by it, in terms of the history and not of the
function's own sums. `NewcomerIsNotJudged` is what the code's sample guard amounts
to; it is proved, but it is a day less than the docstring asks for and therefore
listed under the divergences below.

### CaptureShutdown (`CaptureShutdownProofs`)

`main()` of the capture container: `StartThread`, `Sigterm`, `JoinThread`, and six
threads reduced to where they look at `stop_event` and what they may wait for: a
packet (`Packet`, then `StopFilter`), a client timeout, the poll interval, three
o'clock. `Setup` and `Die` are what is outside every `try`. `begun` counts the
requests a synchronous thread begins after the stop, the scan and POST of each
target included; `claimed` is how many targets the listener then has. The mDNS
thread is not counted: every lookup under way at the stop, and every service that
appears in the half second before the thread notices it, may still POST, and
nothing in the code bounds how many those are.

### ModuleHost, ModuleToggle, AuthSetup and Dashboard (`MCDashboard`, `DashboardProofs`)

| model | code |
|---|---|
| `Import`, `LoadOrders` | `build_load_order` with `graphlib`'s batches (`host/loader.py`) |
| `LoadModule` | one turn of `load()`: resolve, create, register, mount, start the collector if there is a loop |
| `Start`, `Shutdown`, `End` | the lifespan of `main.py`, and the end of the process |
| `Begin`, `ReadDependent`, `SelectRow`, `Commit` | `toggle_module`, one action per database access |
| `BeginSetup`, `InsertSettings`, `CommitSetup` | `setup()`: the check, the INSERT that waits for another's, the commit |
| `Login`, `Logout` | the session cookie, which outlives the process |

`ModuleHost!Systems` is the set of manifests a process may find, each with the
modules whose factory is missing or raises (`raising`), whose router raises
(`broken`), which have collectors, and whether the import runs in an event loop, as
under uvicorn. `CrashesIffUnloadable` compares the loader's batches with a definition
that does not mention them (a ranking of the modules). `Dashboard` composes the three:
requests are served while the process serves, toggling takes a session and uses
the host's manifests, and an `End` drops what is in flight.

## The runs

| run | question | instance |
|---|---|---|
| `registry_concurrent` | Does any interleaving of two requests, failing anywhere, break the registry's safety? Does a registered MAC file a card, or an identity have no alert or two, for any reason but the overlap of check and upsert? Is the invariant of the proofs true? | 2 requests, 1 MAC, 1 hostname, 2 devices, 2 incarnations |
| `registry_two_alerts` (violation) | Does each new identity get exactly one alert, as the docstring says? | 2 requests, no failures |
| `registry_shared_mac` (violation) | Is a MAC on one device only? | 1 request |
| `security_concurrent` | When everything overlaps, also two of a kind, is a status below its signals, or a guarded alert doubled, only where a request was overtaken? Are scan results and daily jobs lost for no other reason than doubled rows? | 1 device, 2 scan results, 1 rollup, 1 daily job, any two at once, clicks, failures |
| `security_lost_status` (violation) | Is a status never below what the latest scan and the open alerts call for, as the docstring says? | 1 device |
| `security_daily_aborts` (violation) | Does the daily job report every anomaly? | 2 devices |
| `scan_pipeline` | Is a scan request delivered at most once, never forgotten without a fault, in the end claimed, and the whole a refinement of `ScanRequests`? | 3 requests, 2 devices, 2 overlapping polls, 3 faults |
| `traffic_pipeline` | Is each frame stored at most once, is bandwidth consistent with the flows, are windows flushed, does the feed converge, and never fall back to the empty event? | 2 MACs, 3 flows, 2 frames, 2 overlapping rollups, 1 stream, 2 faults |
| `bandwidth_anomaly` | Is a daily habit never reported and a spike always, at every time of day? | 3 slots a day, 4 days, 3 amounts |
| `capture_stop` | Is "Stopped." the end of everything, does each synchronous thread stop within one request (the listener with its batch), and what can keep the process alive? | batches of up to 2, 1 mDNS task |
| `dashboard` | Does the host start exactly when the manifests and factories allow it, wired as they say? What do overlapping toggles and set-ups do? | 3 modules, 2 interfaces, 1459 sets of manifests, 2 browsers, 2 passwords |
| `dashboard_collectors` (violation) | Does a serving process run each collector once, as `main.py` says? | the same |

Sizes, in distinct states: `security_concurrent` 4.5 million and `dashboard` 3.8
million (over two minutes each), `bandwidth_anomaly` 2.1 million, `capture_stop` 760
thousand (over two minutes, for its liveness), `registry_concurrent` 460 thousand,
`traffic_pipeline` and `scan_pipeline` 110 thousand each.

### Bounds

`DeviceIds`, `Incarnations`, `MaxInFlight`, `MaxHits`, `MaxPending`, `Polls`, `Rollups`,
`MaxFrames` and `MaxFaults` are bounds of the model, each named in its module.
Two requests suffice for the registry's hazards, which are pairs: one holds a
loaded value while the other changes it. One MAC with one hostname gives three
keys (`mac:` of the MAC, `host:` and `mac:` of the placeholder, the last
unreachable), so two identities of one interface and two devices compete; a second MAC, for
replacement and re-registration, has been left to the proofs, which cover every
instance. In `SecurityMonitor` two open alerts are enough to trip
`scalar_one_or_none`, and what goes wrong with overlap goes wrong between two
requests, of different kinds or two scan results of one device (two rollups only
raise the status); one device suffices since
only the daily job relates devices, which `security_daily_aborts` has two for.
Three at once and more devices are covered by the proofs. In `ScanPipeline` two polls
let a poll overlap the one given up on, and three faults allow a timeout, a
restart and a failure in one behaviour. In `TrafficPipeline` two frames make
either one rollup of two flows (of one MAC or two) or two overlapping rollups.

`bandwidth_anomaly` keeps the code's shape at a size TLC can exhaust: with three
slots a day the trailing 24 h begin at, after and well after midnight, and four
days leave one full baseline day between two that are cut short; the constants of
the code (14 days, 7 samples, factor 3) become 4, 4 and 3. In `dashboard` every
set of manifests of three modules that provide and require one interface at most
is tried, with a good and with a raising factory of one of them and imported in a
loop, which has chains, cycles, conflicts and gaps; and one set where a module
provides two and another requires two, imported without a loop. Two browsers give every overlap of two
requests; each toggle is one bit, so nothing counts.

`registry_concurrent` uses symmetry of requests and MACs (no liveness property
is checked there) and a VIEW that counts alerts only for rows that are there and not
excused: what it drops was raised for a row that is gone, and a new row starts from
none. `security_concurrent` uses symmetry of scan results and a VIEW without the
number of faults, of which only the last step matters. The dashboard's runs use
symmetry of browsers and passwords. Deadlock is checked in all runs but
`capture_stop`, whose process ends.

### Fairness

The registry, the security monitor, the bandwidth check and the dashboard have
safety properties only.
`ScanPipeline!Fairness`: the listener is a loop that never ends before SIGTERM,
and the API finishes what it starts; clicks, ARP observations, timeouts and
restarts may or may not happen. `TrafficPipeline!Fairness`: time passes, the API
finishes its requests, the broadcaster ticks and a stream polls for ever. Nothing
is assumed of the sniffer's loop, since a frame that is not counted skips the
flush check by `continue`; `WindowFlushed` therefore says: *if* the check is
reached whenever it stays due, no window stays open for ever. `FeedConverges`
speaks of the time after the bounds are used up: no more traffic, no more faults.
`CaptureShutdown!Fairness` assumes only steps that a timeout of the code bounds
(and that nmap ends): nothing of packets, services, three o'clock or SIGTERM.
Hence `OnlySniffersLinger`: after a stop what may be left is an ARP or DHCP sniffer
that waits for a packet. `EndsWithPackets` has the missing assumption as its
premise.

## What is proved

Each proof module proves an inductive invariant of its specification for every
value of the constants that satisfies the `ConstantsAssumption`, and derives the
properties from it. Every invariant and action property that a passing run checks
is named below and holds, therefore, for any number of requests, devices, modules
and so on, overlapping and failing as they like.

| module | theorems (properties) | for |
|---|---|---|
| `DeviceRegistryProofs` | `RegistryInvariant` (`IInv`), `TypeCorrect`, `PlaceholderIsolated` (`PlaceholderNeverStored`), `MacKeysOwn` (`MacKeyIsOwn`), `HistoryOwn` (`HistoryOnlyOwnMacs`), `ScanTargetOwn` (`ScanTargetIsOwn`), `NoCardForDevices` (`NoPhantomCard`), `AlertedUnlessRaced` (`OneAlertUnlessRaced`) | any overlap and failures |
| `SecurityMonitorProofs` | `SecurityInvariant`, `TypeCorrect`, `StatusesCover` (`StatusCoversUnlessRaced`), `DoublesNeedOverlap` (`DoubledOnlyByOverlap`), `NothingElseIsLost` (`LostOnlyToDoubles`) | any overlap and failures; one daily job at a time |
| `ScanPipelineProofs` | `PipelineInvariant`, `TypeCorrect`, `AtMostOnce` (`DeliveredOnce`), `NoneForgotten` (`NothingForgotten`), `Implements` (`OneWay`) | any overlap, timeouts and restarts |
| `DashboardProofs` | `DashboardInvariant`, `TypeCorrect`, `ServesWired` (`WiredAsDeclared`), `CrashesOnlyUnloadable` (`CrashesIffUnloadable`), `CollectorsTwiceInALoop`, `TogglesLostToOverlapOnly` (`OnlyOverlapLosesToggles`), `DependentsProtected` (`UnconfirmedBreaksNothing`), `FirstPasswordStays` (`PasswordOnce`), `SessionsTrue` | finitely many modules |
| `TrafficPipelineProofs` | `Invariance`, `TypeCorrect`, `StoredOnce` (`FramesStoredOnce`), `BandwidthFollows` (`BandwidthFollowsFlows`), `NeverBlanked` (`EmptyOnlyFirst`) | any overlap, timeouts and restarts |
| `BandwidthAnomalyProofs` | `Invariance`, `HabitAccepted` (`HabitIsNoAnomaly`), `SpikeReported` (`SpikeIsAnomaly`), `NewcomerUnjudged` | any window, slots and amounts; `HabitAccepted` with `Outweighs` |
| `CaptureShutdownProofs` | `ShutdownInvariant`, `EverythingStopped` (`StoppedLast`), `StopTakesEffect` (`OneMoreRequest`) | any thread dying; any batch and number of mDNS tasks |

Three theorems have no run of their own: `CollectorsTwiceInALoop` says for every
set of modules what `dashboard_collectors` shows of one, `SessionsTrue` follows from
`PasswordOnce`'s invariant, and `NewcomerUnjudged` is the code's bound, not the
docstring's.

Why the properties need more than themselves:

- *Registry.* A request writes, several commits after it read, what it
  remembers. `RequestSound` says that what it remembers is still true: a matched
  device still exists and *owned* the observed MAC, even if a merge has replaced
  it since; a loaded identity's MAC still fits its key (`KeyFits`: an identity
  under a `mac:` key was seen with that MAC and never with the placeholder, since
  mDNS observations without a hostname are dropped). Both are stable because
  devices are not deleted and `owned` only grows (`SoundStable`). Steps that
  write no table share `ReadStep`.
- *Registry, checks and alerts.* `ChecksHold`: what a request has found of a key is
  still so when it upserts, unless it is in `raced`; so an insert is preceded by a
  check that found no row, and the alert follows it, unless the row is excused.
  `NoPhantomCard` and `OneAlertUnlessRaced` are inductive with it.
- *Security.* What a request has read still fits the tables unless it is overtaken
  (`ScanFresh`, `RollupSound`, `DailySound`): a scan result knows every open alert
  whose type it has read, a rollup will raise every device it hits that is not
  critical, and what the daily job is about to make of a status covers what it will
  have reported. Acknowledgements only take alerts away, so they disturb none of
  this. The daily job alone raises `suspicious_traffic`, and one is in flight, so
  there is never a second one (`AnomalyOnce`).
- *Scan pipeline.* A request is in one place: unclaimed, in a reply, in the batch,
  the target, or a POST the API works on (`HandedOnce`, `Polled`, `Listening`); what
  an awaited reply is about to deliver was never handed over, since a second poll
  that selected the same rows belongs to a listener that has given up on the
  first. The refinement maps each step to one step of `ScanRequests` or none.
- *Dashboard.* `Wiring`: registry, injections, routers and collectors are those of
  the modules loaded so far, which are the ones not in `order`, an enumeration
  without repetition. `Current` and `Checked`: what a toggle has read is still so
  unless another one has moved it since (`moved`). A setup is between its INSERT
  and its commit only while there is no password, and only one is.
- *Load order.* `LoadInv`: a process that came past `build_load_order` has manifests
  that can be loaded, a crashed one has not or has a bad factory, and while it
  loads, each module in `order` comes after those it requires
  (`PredecessorsFirst`). With `Wiring`, whatever `resolve()` is asked for is then
  registered, and nothing registered a second time, so the only crashes are the
  refusal and the factory's. The refusal is right because batches and rankings say
  the same (`LoadableIff`): by induction a module of rank *n* is done
  in batch *n* at the latest, and without a cycle the batch of a module is a rank
  of it (`Batches`), earlier batches being contained in later ones (`DoneGrows`).
- *Traffic.* `Inv` adds to the two conservation laws, `FramesStoredOnce` and
  `BandwidthFollowsFlows`, what makes them inductive: a rollup that waits to be
  stored lists exactly the MACs that have bytes in it (`MacsOfFlows`), so nothing
  is stored that will not be written; windows and the last minutes are part of
  what was seen and stored (`Bounded`); and streams have sent nothing while there is
  no snapshot (`NothingSentFirst`). Each step moves one rollup between two of the
  sums, whose other terms stay (`SumUpdate`).
- *Bandwidth check.* The invariant is small (no row is older than the first one);
  the work is in the arithmetic of days. A repeated day makes every whole baseline
  day as heavy as the last 24 h; the window and the trailing 24 h cut at most two
  more days short, which count in the average's divisor and may weigh nothing.
  With *n* whole days the check compares *T*(*n*+2) with *nTM* at worst. `Outweighs`,
  `MIN_SAMPLE_DAYS >= 4` and `(MULTIPLIER - 1) * (MIN_SAMPLE_DAYS - 3) >= 2`, says that
  the second is not smaller; the code's 3.0 and 7 satisfy it
  (`bandwidth_anomaly.py:11-13`), and so does the run. It is a condition the constants
  must keep: with a multiple of 2 and 4 sample days TLC finds a daily habit reported.
- *Capture process.* A thread that has begun a request after the stop is behind
  its last look at the event or on its way to the next (`AfterLastRequest`), what the
  listener has begun and what is left of its batch is its poll and what it claimed
  (`Counted`), and joined threads stay ended.

`InductionLemmas` holds what load order, traffic and bandwidth rest on. The library's induction
theorems take an operator as a parameter, which the installed provers cannot
instantiate; but the least element of a set of numbers (`NatMin`) and a smallest
set among subsets of a finite one (`SubsetMin`) are first-order facts, and
induction follows from each for a *set* of numbers or of subsets (`NatInduct`,
`SetInduct`). From them come the facts about `SumFunctionOnSet` (that its recursion
has a solution, that it adds, splits, grows and shifts) and about the batches of
`static_order()`.

Beyond counts and types the `ConstantsAssumption`s ask that `NONE`, and the
`EMPTY` snapshot, are none of the values they stand apart from; that modules,
flows, rollups and the like are finite; and that `MaxAge`, a bound of the model,
is not below the window.

## What the violation runs show

Each is a finding in `PROJECT.json` with the sentence it contradicts.

- `registry_two_alerts`: two observations of a new identity that both look for it
  before either upserts raise its alert twice (`service.py:48-52` promises exactly
  one). `registry_concurrent` shows what is left of the promise.
- `registry_shared_mac`: an interface known under a `mac:` and a `host:` identity
  can be registered twice; each later ARP or DHCP observation of it is a 500.
- `security_lost_status`: a scan result overwrites the critical status of a rollup
  that committed after the scan had read the alerts.
- `security_daily_aborts`: two unclaimed requests of one device make the daily job
  fail for all devices.
- `dashboard_collectors`: uvicorn imports the application inside its event loop
  (`docker-compose.yml:18`), so the loader's `create_task` succeeds and the lifespan
  starts every collector again; `main.py:32-41` takes the loader's to fail. The
  shutdown stops only the second of each.

Other places where code and comments part, seen while modelling and without a
run of their own:

- An observation that resolves to a registered device's key but does not carry its
  current MAC files an unknown identity under that key, although
  `02-CONTEXT.md:20` (D-04) calls the identity locked to the device.
- Register and merge set `last_known_mac` without a history row; a merge before the
  next observation loses the MAC, although `models.py:94-103` says the history has
  every one.
- Rollups add `malicious_ip` alerts without looking for open ones; with two open,
  every scan result of the device fails and is not persisted. It is the exception
  in `LostOnlyToDoubles`.
- `check_bandwidth_anomaly` promises "at least MIN_SAMPLE_DAYS distinct prior days"
  (`bandwidth_anomaly.py:53-56`); line 108 counts the trailing 24 h as one of the
  samples, so six prior days are enough, which a history of five days and a bit
  can have. `NewcomerIsNotJudged` is that bound and no confirmation of the
  docstring.
- A registration or merge that removes an unknown row between an observation's
  check and its upsert loses the alert of the row it then inserts anew: the other
  half of `registry_two_alerts`, excused in `OneAlertUnlessRaced`.
- A stream opened before the first snapshot is sent `{}`; `EmptyOnlyFirst` shows it
  confined to the start of a stream.

## Only model-checked, and not modelled

By TLC only: liveness (`ClaimedEventually`, `WindowFlushed`, `FeedConverges`,
`OnlySniffersLinger`, `EndsWithPackets`), which TLAPS does not prove.

Left out inside modelled parts: trusted-host and payload-size checks, the
append-only event tables, names and timestamps, the sniffer's WAN test, DNS cache
and hostname grouping, the history queries and continuous aggregates, the database
pool; UI routes, event subscriptions and the event bus, which no module uses;
routes that only read.

Not modelled: identity inference and the vendor catalog (stateless guesses shown
on a card), `linked_apps` (a static list), the migrations (run once, before the
API starts), the Svelte frontend (presentation; its requests are the user's
actions above) and the development scripts.

## Plan

Done: registry, security monitor, scan pipeline and its abstraction, traffic
pipeline, bandwidth check, capture process, host, toggles and authentication, each
with overlap, and a theorem for every invariant and action property the passing
runs check. Left, in order:

1. A composition of registry and traffic, for the device a talker is shown as
   when two devices share a MAC.
2. Runs of their own for two divergences that are only described: a window starved
   by uncounted frames, and the newcomer judged a day early.
