--------------------------- MODULE DeviceRegistry ---------------------------
(***************************************************************************)
(* The device registry of the backend: the capture routes that turn ARP,   *)
(* DHCP and mDNS observations into rows (routes/capture.py), the identity  *)
(* fusion behind them (modules/device_identity/service.py) and the two     *)
(* user operations, register and merge (modules/device_identity/module.py).*)
(*                                                                         *)
(* The API is one asyncio process: requests interleave at every await on   *)
(* the database, which runs READ COMMITTED.  Each request in flight is a   *)
(* record of what it has read so far, and each action is one statement or  *)
(* commit of it.  The ORM writes an attribute only when its new value      *)
(* differs from the value the request loaded, which the actions keep.      *)
(*                                                                         *)
(* Left out: the append-only arp/dhcp/mdns event rows, which nothing       *)
(* reads; names, owners, types and timestamps, which no property is about; *)
(* the security columns of Device, which SecurityMonitor models; and the   *)
(* "new_device" publish, which has no subscriber.                          *)
(***************************************************************************)
EXTENDS Naturals, FiniteSets

CONSTANTS
    Handlers,      \* requests the API can have in flight at once
    Macs,          \* MAC addresses of real interfaces
    Hosts,         \* hostnames, as strip().lower() leaves them; never blank
    Ips,           \* addresses an ARP sender may claim
    DeviceIds,     \* bound: primary keys of devices
    Incarnations,  \* bound: rows of one identity key some request still refers to
    Placeholder,   \* MDNS_PLACEHOLDER_MAC
    NONE,          \* SQL NULL, "no row", "nothing loaded"
    Failures       \* whether requests may fail and the process may restart

Keys == {<<"host", n>> : n \in Hosts} \cup {<<"mac", m>> : m \in Macs \cup {Placeholder}}

\* A row of discovered_identities never changes its key, and no row gets an id
\* a second time.  The row's id is therefore written as its key and the number
\* of its incarnation, and is only ever compared with other ids.
IdentityIds == Keys \X Incarnations
KeyOf(i) == i[1]

\* What a request remembers of a Device row.
DeviceView == [key : Keys, mac : Macs \cup {Placeholder, NONE}, ip : Ips \cup {NONE}]

\* The row; ipFrom is history: the ARP sender whose address ip is.
Device == [key : Keys, mac : Macs \cup {Placeholder, NONE},
           ip : Ips \cup {NONE}, ipFrom : Macs \cup {Placeholder, NONE}]

Observation == [source : {"arp", "dhcp", "mdns"}, mac : Macs \cup {Placeholder},
                host : Hosts \cup {NONE}, ip : Ips \cup {NONE}]

Steps == {"idle", "match", "update", "history", "check", "upsert", "alert",
          "matchIp", "setIp", "create", "target", "merge"}

\* late is history: the devices that got the observed MAC after the request had
\* looked for one with it.
Request == [pc : Steps, obs : Observation \cup {NONE}, isNew : BOOLEAN,
            row : IdentityIds \cup {NONE}, mac : Macs \cup {Placeholder, NONE},
            dev : DeviceIds \cup {NONE}, seen : DeviceView \cup {NONE},
           late : SUBSET DeviceIds]

ASSUME ConstantsAssumption ==
    /\ Placeholder \notin Macs
    /\ NONE \notin Macs \cup Hosts \cup Ips \cup DeviceIds \cup IdentityIds \cup {Placeholder}
    /\ NONE \notin Device \cup DeviceView \cup Observation
    /\ Failures \in BOOLEAN

VARIABLES
    devices,      \* device_identity.devices, NONE where there is no row
    identities,   \* device_identity.discovered_identities: the MAC of each row, likewise
    history,      \* device_identity.device_mac_history
    owned,        \* history variable: every MAC a device ever had as last_known_mac
    alerts,       \* history variable: unknown_device alerts raised for each identity row
    raced,        \* history variable: requests before their upsert that another one has
                  \* overtaken, adding or removing a row of the key they checked
    excused,      \* history variable: rows a raced request wrote, or whose alert a failure cost
    req           \* what each request in flight has read and where it stands

marks == <<alerts, raced, excused>>
tables == <<devices, identities, history, owned, marks>>
vars == <<devices, identities, history, owned, alerts, raced, excused, req>>

-----------------------------------------------------------------------------
Idle == [pc |-> "idle", obs |-> NONE, isNew |-> FALSE, row |-> NONE,
         mac |-> NONE, dev |-> NONE, seen |-> NONE, late |-> {}]

Init ==
    /\ devices = [d \in DeviceIds |-> NONE]
    /\ identities = [i \in IdentityIds |-> NONE]
    /\ history = {}
    /\ owned = {}
    /\ alerts = [i \in IdentityIds |-> 0]
    /\ raced = {}
    /\ excused = {}
    /\ req = [h \in Handlers |-> Idle]

\* HostnameFallbackResolver.resolve
Key(o) == IF o.host # NONE THEN <<"host", o.host>> ELSE <<"mac", o.mac>>

Registered == {d \in DeviceIds : devices[d] # NONE}
Unknown == {i \in IdentityIds : identities[i] # NONE}
WithMac(m) == {d \in Registered : devices[d].mac = m}
RowsOf(k) == {i \in Unknown : KeyOf(i) = k}

FreeDeviceIds == DeviceIds \ Registered

\* An id no row and no request refers to stands for one never used before, so
\* that the incarnations stay finite.
FreshIds(k) == ({k} \X Incarnations) \ (Unknown \cup {req[h].row : h \in Handlers})

LoadDevice(d) == [key |-> devices[d].key, mac |-> devices[d].mac, ip |-> devices[d].ip]

\* The unique constraint on devices.identity_key.
KeyTaken(k, d) == \E e \in Registered \ {d} : devices[e].key = k

Respond(h) == req' = [req EXCEPT ![h] = Idle]

\* The same, when the request has given device d the MAC m: those that have found
\* no device with m note it.
RespondGiving(h, d, m) ==
    req' = [g \in Handlers |->
        IF g = h THEN Idle
        ELSE IF req[g].pc \in {"check", "upsert"} /\ req[g].obs.mac = m
        THEN [req[g] EXCEPT !.late = @ \cup {d}] ELSE req[g]]

\* The request adds or removes a row of key k: those about to upsert it had checked
\* before.
Overtake(h, k) ==
    raced' = (raced \ {h}) \cup
                 {g \in Handlers \ {h} : req[g].pc = "upsert" /\ Key(req[g].obs) = k}

\* What is left of an ingest request once record_observation returns: only
\* ingest_arp goes on, to the device's address.
Observed(h) ==
    IF req[h].obs.source = "arp"
    THEN req' = [req EXCEPT ![h] = [Idle EXCEPT !.pc = "matchIp", !.obs = req[h].obs]]
    ELSE Respond(h)

-----------------------------------------------------------------------------
(* Observations.                                                           *)

\* Defect: only ARP looks for a registered device.
ReceiveMatchesArpOnly(h, o) ==
    /\ req[h].pc = "idle"
    /\ req' = [req EXCEPT ![h] =
          [Idle EXCEPT !.pc = IF o.source = "arp" THEN "match" ELSE "check", !.obs = o]]
    /\ UNCHANGED tables

Receive(h, o) ==
    /\ req[h].pc = "idle"
    /\ req' = [req EXCEPT ![h] =
          [Idle EXCEPT !.pc = IF o.mac = Placeholder THEN "check" ELSE "match", !.obs = o]]
    /\ UNCHANGED tables

\* What a captured packet becomes: an ARP request tells MAC and address, a DHCP
\* packet a hostname if it has the option, an mDNS service a hostname and no MAC.
ArpObservation(m, a) == [source |-> "arp", mac |-> m, host |-> NONE, ip |-> a]
DhcpObservation(m, n) == [source |-> "dhcp", mac |-> m, host |-> n, ip |-> NONE]
MdnsObservation(n) == [source |-> "mdns", mac |-> Placeholder, host |-> n, ip |-> NONE]

IngestArp(h) == \E m \in Macs, a \in Ips : Receive(h, ArpObservation(m, a))

IngestDhcp(h) == \E m \in Macs, n \in Hosts \cup {NONE} : Receive(h, DhcpObservation(m, n))

\* An mDNS event without a hostname stops after its event row.
IngestMdns(h) == \E n \in Hosts : Receive(h, MdnsObservation(n))

\* Defect: a device is also matched by the identity key of the observation.
MatchDeviceByKey(h) ==
    LET o == req[h].obs
        found == {d \in Registered : devices[d].mac = o.mac \/ devices[d].key = Key(o)}
    IN
    /\ req[h].pc = "match"
    /\ \/ /\ found = {}
          /\ req' = [req EXCEPT ![h].pc = "check"]
       \/ \E d \in found :
             req' = [req EXCEPT ![h].pc = "update", ![h].dev = d, ![h].seen = LoadDevice(d)]
    /\ UNCHANGED tables

\* scalar_one_or_none: no row, the row, or MultipleResultsFound and a 500.
MatchDevice(h) ==
    LET found == WithMac(req[h].obs.mac) IN
    /\ req[h].pc = "match"
    /\ \/ /\ found = {}
          /\ req' = [req EXCEPT ![h].pc = "check"]
       \/ \E d \in found :
             /\ found = {d}
             /\ req' = [req EXCEPT ![h].pc = "update", ![h].dev = d, ![h].seen = LoadDevice(d)]
       \/ /\ \E d, e \in found : d # e
          /\ Respond(h)
    /\ UNCHANGED tables

\* last_known_mac keeps the value it was matched by, so the UPDATE names
\* identity_key alone, and only if it changes.
UpdateDevice(h) ==
    LET r == req[h]
        k == Key(r.obs)
    IN
    /\ r.pc = "update"
    /\ IF r.seen.key = k
       THEN /\ req' = [req EXCEPT ![h].pc = "history"]
            /\ UNCHANGED devices
       ELSE IF KeyTaken(k, r.dev)
       THEN /\ Respond(h)
            /\ UNCHANGED devices
       ELSE /\ devices' = [devices EXCEPT ![r.dev].key = k]
            /\ req' = [req EXCEPT ![h].pc = "history"]
    /\ UNCHANGED <<identities, history, owned, marks>>

RecordMac(h) ==
    /\ req[h].pc = "history"
    /\ history' = history \cup {<<req[h].dev, req[h].obs.mac>>}
    /\ Observed(h)
    /\ UNCHANGED <<devices, identities, owned, marks>>

CheckIdentity(h) ==
    /\ req[h].pc = "check"
    /\ req' = [req EXCEPT ![h].pc = "upsert", ![h].isNew = RowsOf(Key(req[h].obs)) = {}]
    /\ UNCHANGED tables

\* Defect: every upsert raises the alert.
AfterUpsertAlertAlways(h, i) == req' = [req EXCEPT ![h].pc = "alert", ![h].row = i]

\* After the upsert the request raises the alert if its earlier SELECT,
\* not the upsert, found the identity new.
AfterUpsert(h, i) ==
    IF req[h].isNew
    THEN req' = [req EXCEPT ![h].pc = "alert", ![h].row = i]
    ELSE Observed(h)

\* INSERT ... ON CONFLICT (identity_key) DO UPDATE
UpsertIdentity(h) ==
    LET o == req[h].obs
        i == CHOOSE x \in FreshIds(Key(o)) : TRUE
    IN
    /\ req[h].pc = "upsert"
    /\ \/ \E j \in RowsOf(Key(o)) :
             /\ identities' = [identities EXCEPT ![j] = o.mac]
             /\ AfterUpsert(h, j)
             /\ raced' = raced \ {h}
             /\ excused' = IF h \in raced THEN excused \cup {j} ELSE excused
             /\ UNCHANGED alerts
       \/ /\ RowsOf(Key(o)) = {}
          /\ FreshIds(Key(o)) # {}
          /\ identities' = [identities EXCEPT ![i] = o.mac]
          /\ alerts' = [alerts EXCEPT ![i] = 0]
          /\ AfterUpsert(h, i)
          /\ Overtake(h, Key(o))
          /\ excused' = IF h \in raced THEN excused \cup {i} ELSE excused \ {i}
    /\ UNCHANGED <<devices, history, owned>>

\* The alert row names no device and no identity; the count it adds to is
\* that of the identity row it was raised for.
RaiseUnknownAlert(h) ==
    LET i == req[h].row IN
    /\ req[h].pc = "alert"
    /\ alerts' = [alerts EXCEPT ![i] = @ + 1]
    /\ Observed(h)
    /\ UNCHANGED <<devices, identities, history, owned, raced, excused>>

\* Defect: a device without a MAC matches any sender.
MatchIpDeviceOrNull(h) ==
    LET found == {d \in Registered : devices[d].mac \in {NONE, req[h].obs.mac}} IN
    /\ req[h].pc = "matchIp"
    /\ \/ \E d \in found :
             req' = [req EXCEPT ![h].pc = "setIp", ![h].dev = d, ![h].seen = LoadDevice(d)]
       \/ /\ found = {}
          /\ Respond(h)
    /\ UNCHANGED tables

MatchIpDevice(h) ==
    LET found == WithMac(req[h].obs.mac) IN
    /\ req[h].pc = "matchIp"
    /\ \/ \E d \in found :
             /\ found = {d}
             /\ req' = [req EXCEPT ![h].pc = "setIp", ![h].dev = d, ![h].seen = LoadDevice(d)]
       \/ /\ \A d \in found : found # {d}
          /\ Respond(h)
    /\ UNCHANGED tables

\* Defect: the sender's MAC is stored as its address.
SetIpToMac(h) ==
    LET r == req[h] IN
    /\ r.pc = "setIp"
    /\ devices' = [devices EXCEPT ![r.dev].ip = r.obs.mac, ![r.dev].ipFrom = r.obs.mac]
    /\ Respond(h)
    /\ UNCHANGED <<identities, history, owned, marks>>

SetIp(h) ==
    LET r == req[h] IN
    /\ r.pc = "setIp"
    /\ devices' = IF r.seen.ip = r.obs.ip THEN devices
                  ELSE [devices EXCEPT ![r.dev].ip = r.obs.ip, ![r.dev].ipFrom = r.obs.mac]
    /\ Respond(h)
    /\ UNCHANGED <<identities, history, owned, marks>>

-----------------------------------------------------------------------------
(* The user's operations on an unknown identity.                           *)

\* Bound: a registration starts only while a device id is left for it.
RoomForDevice ==
    Cardinality({h \in Handlers : req[h].pc = "create"}) < Cardinality(FreeDeviceIds)

RegisterDevice(h) ==
    /\ req[h].pc = "idle"
    /\ RoomForDevice
    /\ \E i \in Unknown :
          req' = [req EXCEPT ![h] = [Idle EXCEPT !.pc = "create", !.row = i, !.mac = identities[i]]]
    /\ UNCHANGED tables

\* One transaction: INSERT the device, DELETE the identity by its id, which
\* may be gone already.  A taken identity_key rolls both back.
CreateDevice(h) ==
    LET r == req[h]
        d == CHOOSE x \in FreeDeviceIds : TRUE
        mac == IF r.mac = Placeholder THEN NONE ELSE r.mac
    IN
    /\ r.pc = "create"
    /\ FreeDeviceIds # {}
    /\ IF KeyTaken(KeyOf(r.row), NONE)
       THEN Respond(h) /\ UNCHANGED <<devices, identities, owned, raced>>
       ELSE /\ RespondGiving(h, d, mac)
            /\ Overtake(h, KeyOf(r.row))
            /\ devices' = [devices EXCEPT ![d] =
                   [key |-> KeyOf(r.row), mac |-> mac, ip |-> NONE, ipFrom |-> NONE]]
            /\ identities' = [identities EXCEPT ![r.row] = NONE]
            /\ owned' = IF mac = NONE THEN owned ELSE owned \cup {<<d, mac>>}
    /\ UNCHANGED <<history, alerts, excused>>

MergeDevice(h) ==
    /\ req[h].pc = "idle"
    /\ \E i \in Unknown, d \in Registered :
          req' = [req EXCEPT ![h] = [Idle EXCEPT !.pc = "target", !.row = i,
                                                 !.mac = identities[i], !.dev = d]]
    /\ UNCHANGED tables

LoadTarget(h) ==
    /\ req[h].pc = "target"
    /\ req' = [req EXCEPT ![h].pc = "merge", ![h].seen = LoadDevice(req[h].dev)]
    /\ UNCHANGED tables

\* Defect: the merge takes over the placeholder like any MAC.
MergeAnyMac(h) ==
    LET r == req[h] IN
    /\ r.pc = "merge"
    /\ Respond(h)
    /\ devices' = [devices EXCEPT ![r.dev].mac = r.mac]
    /\ owned' = owned \cup {<<r.dev, r.mac>>}
    /\ identities' = [identities EXCEPT ![r.row] = NONE]
    /\ Overtake(h, KeyOf(r.row))
    /\ UNCHANGED <<history, alerts, excused>>

\* Defect: the merge takes over the identity's key and forgets its MAC.
MergeKeyOnly(h) ==
    LET r == req[h] IN
    /\ r.pc = "merge"
    /\ Respond(h)
    /\ ~KeyTaken(KeyOf(r.row), r.dev)
    /\ devices' = [devices EXCEPT ![r.dev].key = KeyOf(r.row)]
    /\ identities' = [identities EXCEPT ![r.row] = NONE]
    /\ Overtake(h, KeyOf(r.row))
    /\ UNCHANGED <<history, owned, alerts, excused>>

MergeIdentity(h) ==
    LET r == req[h] IN
    /\ r.pc = "merge"
    /\ IF r.mac \in {Placeholder, r.seen.mac}
       THEN Respond(h) /\ UNCHANGED <<devices, owned>>
       ELSE /\ RespondGiving(h, r.dev, r.mac)
            /\ devices' = [devices EXCEPT ![r.dev].mac = r.mac]
            /\ owned' = owned \cup {<<r.dev, r.mac>>}
    /\ identities' = [identities EXCEPT ![r.row] = NONE]
    /\ Overtake(h, KeyOf(r.row))
    /\ UNCHANGED <<history, alerts, excused>>

-----------------------------------------------------------------------------
(* Failures: one request's session raises and rolls back, or the process   *)
(* restarts; what was committed stays.                                     *)

\* An alert that one of these requests was about to raise never comes.
LosesAlert(H) ==
    /\ raced' = raced \ H
    /\ excused' = excused \cup {req[h].row : h \in {g \in H : req[g].pc = "alert"}}

Fail(h) ==
    /\ Failures
    /\ req[h].pc # "idle"
    /\ Respond(h)
    /\ LosesAlert({h})
    /\ UNCHANGED <<devices, identities, history, owned, alerts>>

Restart ==
    /\ Failures
    /\ \E h \in Handlers : req[h].pc # "idle"
    /\ req' = [h \in Handlers |-> Idle]
    /\ LosesAlert(Handlers)
    /\ UNCHANGED <<devices, identities, history, owned, alerts>>

Handle(h) ==
    \/ IngestArp(h) \/ IngestDhcp(h) \/ IngestMdns(h)
    \/ MatchDevice(h) \/ UpdateDevice(h) \/ RecordMac(h)
    \/ CheckIdentity(h) \/ UpsertIdentity(h) \/ RaiseUnknownAlert(h)
    \/ MatchIpDevice(h) \/ SetIp(h)
    \/ RegisterDevice(h) \/ CreateDevice(h)
    \/ MergeDevice(h) \/ LoadTarget(h) \/ MergeIdentity(h)
    \/ Fail(h)

Next == (\E h \in Handlers : Handle(h)) \/ Restart

Spec == Init /\ [][Next]_vars

-----------------------------------------------------------------------------
(* Properties.                                                             *)

\* Every row and every request in flight is well formed.
TypeOK ==
    /\ devices \in [DeviceIds -> Device \cup {NONE}]
    /\ identities \in [IdentityIds -> Macs \cup {Placeholder, NONE}]
    /\ history \subseteq DeviceIds \X (Macs \cup {Placeholder})
    /\ owned \subseteq DeviceIds \X (Macs \cup {Placeholder})
    /\ alerts \in [IdentityIds -> Nat]
    /\ raced \subseteq Handlers /\ excused \subseteq IdentityIds
    /\ req \in [Handlers -> Request]

\* CR-05: the MAC shared by all mDNS observations never becomes a device's
\* MAC, never enters its history and never chooses its scan target, however
\* registrations, merges and observations interleave.
PlaceholderNeverStored ==
    /\ \A d \in Registered : devices[d].mac # Placeholder /\ devices[d].ipFrom # Placeholder
    /\ \A d \in DeviceIds : <<d, Placeholder>> \notin history

\* A device is never filed under the MAC of another: a "mac:" identity key on
\* a device names a MAC that was this device's last_known_mac at some time.
MacKeyIsOwn ==
    \A d \in Registered, m \in Macs \cup {Placeholder} :
        devices[d].key = <<"mac", m>> => <<d, m>> \in owned

\* The MAC history a lookup adds to a device never holds a MAC the device did
\* not have, although the row is written one commit after the match.
HistoryOnlyOwnMacs == history \subseteq owned

\* The address the scanner is sent to was claimed by a MAC of this device,
\* although ingest_arp looks the device up again after its first commits.
ScanTargetIsOwn ==
    \A d \in Registered : devices[d].ip # NONE => <<d, devices[d].ipFrom>> \in owned

\* Pitfall 2 (service.py:174-178): an observation files an unknown identity only if
\* no registered device has its MAC, but one that got it, by a registration or
\* a merge, after the request had looked.
NoPhantomCard ==
    \A h \in Handlers :
        req[h].pc \in {"check", "upsert"} => WithMac(req[h].obs.mac) \subseteq req[h].late

\* The requests about to raise the alert of row i.
Alerting(i) == {h \in Handlers : req[h].pc = "alert" /\ req[h].row = i}

Alerted(i) == alerts[i] = 1 /\ Alerting(i) = {}

AboutToBe(i) == alerts[i] = 0 /\ \E h \in Handlers : Alerting(i) = {h}

\* SEC-02 (service.py:48-52): a brand-new identity, and no other, "fires exactly one
\* unknown_device SecurityAlert".
ExactlyOneAlert == \A i \in Unknown : Alerted(i) \/ AboutToBe(i)

\* What the code keeps of it: an unknown identity has exactly one alert, or one request
\* about to raise it, unless a row of its key came or went between the check and
\* the upsert of a request that wrote it, or a failure cost it the alert.
OneAlertUnlessRaced == \A i \in Unknown \ excused : Alerted(i) \/ AboutToBe(i)

\* record_observation and the routes read a device by its MAC with
\* scalar_one_or_none: no two devices share one.
MacMatchesOneDevice ==
    \A m \in Macs : \A d, e \in WithMac(m) : d = e

-----------------------------------------------------------------------------
(* The inductive invariant: what a request carries from one commit to the  *)
(* next stays true of the tables, whatever the other requests commit.      *)

ObservationSound(o) ==
    /\ o \in Observation
    /\ o.mac = Placeholder => o.host # NONE
    /\ o.source = "arp" => o.mac \in Macs /\ o.ip \in Ips

\* An identity of a "mac:" key was always seen with that MAC.
KeyFits(k, m) ==
    /\ m \in Macs \cup {Placeholder}
    /\ \A x \in Macs \cup {Placeholder} : k = <<"mac", x>> => m = x /\ x # Placeholder

RequestSound(r) ==
    /\ r.pc \notin {"idle", "create", "target", "merge"} => ObservationSound(r.obs)
    /\ r.pc \in {"match", "update", "history", "matchIp", "setIp"} => r.obs.mac \in Macs
    /\ r.pc \in {"matchIp", "setIp"} => r.obs.source = "arp"
    /\ r.pc \in {"update", "history", "setIp"} => r.dev \in Registered /\ <<r.dev, r.obs.mac>> \in owned
    /\ r.pc \in {"alert", "create", "target", "merge"} => r.row \in IdentityIds
    /\ r.pc \in {"create", "target", "merge"} => KeyFits(KeyOf(r.row), r.mac)
    /\ r.pc \in {"target", "merge"} => r.dev \in Registered

\* The upsert keeps one row of an identity key.
IdentityKeysUnique ==
    \A i, j \in Unknown : KeyOf(i) = KeyOf(j) => i = j

\* What a request has found of the key is still so when it upserts, unless it is raced.
ChecksHold ==
    /\ \A h \in Handlers : req[h].pc = "upsert" /\ h \notin raced =>
           (req[h].isNew <=> RowsOf(Key(req[h].obs)) = {})
    /\ \A h \in raced : req[h].pc = "upsert"

CurrentMacOwned == \A d \in Registered : devices[d].mac # NONE => <<d, devices[d].mac>> \in owned

\* What the tables and the requests in flight owe each other.
TablesSound ==
    /\ TypeOK
    /\ CurrentMacOwned
    /\ \A h \in Handlers : RequestSound(req[h])
    /\ \A i \in Unknown : KeyFits(KeyOf(i), identities[i])
    /\ PlaceholderNeverStored
    /\ MacKeyIsOwn
    /\ HistoryOnlyOwnMacs
    /\ ScanTargetIsOwn
    /\ IdentityKeysUnique

IInv == TablesSound /\ NoPhantomCard /\ ChecksHold /\ OneAlertUnlessRaced
=============================================================================
