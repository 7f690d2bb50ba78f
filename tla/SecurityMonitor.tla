--------------------------- MODULE SecurityMonitor ---------------------------
(***************************************************************************)
(* Security status, alerts and the scan queue of the registered devices:   *)
(* ingest_traffic's malicious-address check, ingest_scan_result,           *)
(* get_pending_scans and queue_daily_scans (routes/capture.py), and the    *)
(* user's trigger_scan, ack_alert and ack_all_alerts                       *)
(* (modules/security/routes.py).                                           *)
(*                                                                         *)
(* Requests interleave at every await on the database (READ COMMITTED).    *)
(* Scan results overlap, and so do rollups: their threads wait for an      *)
(* answer, but give up after 60 and 5 s, and a restarted capture process   *)
(* knows nothing of the requests of the last one.  The daily job overlaps  *)
(* with no other: its thread sleeps to the next 3:00 after each, and so    *)
(* does a restarted one.  A request writes security_status when it         *)
(* commits, and only if the value differs from the one it loaded: the ORM  *)
(* leaves an unchanged attribute out of the UPDATE.  The UPDATE may go out *)
(* with a later query of the request and then locks the row; a step that   *)
(* waits for the lock has the effect it has here before or after the       *)
(* commit, and a deadlock of two requests is a failure of one of them.     *)
(*                                                                         *)
(* A set of open ports is abstracted to what evaluate_open_ports says of   *)
(* it, a rollup to the number of malicious addresses each device reached,  *)
(* and an acknowledged alert, which no code reads, to nothing.             *)
(***************************************************************************)
EXTENDS Naturals, FiniteSets

CONSTANTS
    Devices,      \* the registered devices
    Reachable,    \* those with a last_known_ip, which alone are handed to the scanner
    Scans,        \* scan results the API can have in flight at once
    Rollups,      \* traffic rollups, likewise
    MaxInFlight,  \* bound: all requests that are in flight at once
    MaxHits,      \* bound: malicious addresses in one rollup, and open alerts of them
                  \* that a rollup may add to
    MaxPending,   \* bound: unclaimed scan requests of a device that a click may add to
    Failures,     \* whether requests may fail and the process may restart
    NONE

Statuses == {"good", "warning", "critical"}

\* What evaluate_open_ports finds: risky ports, unexpected ones, both or neither.
Findings == {"clean", "unexpected", "risky", "both"}

ASSUME ConstantsAssumption ==
    /\ Reachable \subseteq Devices
    /\ MaxInFlight \in Nat /\ MaxHits \in Nat /\ MaxPending \in Nat
    /\ Failures \in BOOLEAN
    /\ NONE \notin Devices \cup Statuses \cup Findings

Risky(f) == f \in {"risky", "both"}
Unexpected(f) == f \in {"unexpected", "both"}

AlertTypes == {"malicious_ip", "suspicious_traffic", "unexpected_port"}

VARIABLES
    status,    \* Device.security_status
    latest,    \* the findings of the device's latest PortScanResult; NONE: not scanned
    open,      \* number of unacknowledged alerts, by device and type
    pending,   \* number of unclaimed PendingScanRequest rows
    scan,      \* each ingest_scan_result in flight
    rollup,    \* each ingest_traffic in flight
    daily,     \* queue_daily_scans in flight
    raced,     \* history variable: devices last written by a request that another one
               \* had overtaken, changing the device after the request had loaded it
    faults     \* history variable: number of failures so far

rows == <<status, latest, open, pending, raced>>
tables == <<rows, faults>>
requests == <<scan, rollup, daily>>
vars == <<status, latest, open, pending, scan, rollup, daily, raced, faults>>

\* older: the scans of the device that began before, and so have the earlier
\* scanned_at; superseded: one that began later has committed.  overtaken is
\* history, here and below: another request has changed the device since.
NoScan == [pc |-> "idle", dev |-> NONE, found |-> NONE, loaded |-> NONE,
           malicious |-> FALSE, suspicious |-> FALSE, alert |-> FALSE,
           older |-> {}, superseded |-> FALSE, overtaken |-> FALSE]
NoRollup == [pc |-> "idle", todo |-> [d \in Devices |-> 0],
             hits |-> [d \in Devices |-> 0], flip |-> {}, overtaken |-> {}]
NoDaily == [pc |-> "idle", todo |-> {}, dev |-> NONE, found |-> NONE, loaded |-> NONE,
            anomalous |-> {}, queue |-> {}, alert |-> {}, write |-> NONE, overtaken |-> {}]

Init ==
    /\ status = [d \in Devices |-> "good"]
    /\ latest = [d \in Devices |-> NONE]
    /\ open = [d \in Devices |-> [t \in AlertTypes |-> 0]]
    /\ pending = [d \in Devices |-> 0]
    /\ scan = [s \in Scans |-> NoScan]
    /\ rollup = [r \in Rollups |-> NoRollup]
    /\ daily = NoDaily
    /\ raced = {}
    /\ faults = 0

ScansInFlight == {s \in Scans : scan[s].pc # "idle"}
RollupsInFlight == {r \in Rollups : rollup[r].pc # "idle"}

\* The bound on the requests in flight.
Admitted ==
    Cardinality(ScansInFlight) + Cardinality(RollupsInFlight)
        + (IF daily.pc = "idle" THEN 0 ELSE 1) < MaxInFlight

\* derive_status
DeriveStatus(risky, unexpected, malicious, anomaly) ==
    CASE risky \/ malicious -> "critical"
      [] ~(risky \/ malicious) /\ (unexpected \/ anomaly) -> "warning"
      [] OTHER -> "good"

\* Requests that have loaded a device of D are overtaken by the commit of another.
ScansOvertaken(D) ==
    [s \in Scans |-> IF scan[s].dev \in D THEN [scan[s] EXCEPT !.overtaken = TRUE] ELSE scan[s]]

RollupsOvertaken(D) ==
    [r \in Rollups |->
        [rollup[r] EXCEPT !.overtaken = @ \cup {d \in D : rollup[r].hits[d] > 0}]]

DailyOvertaken(D) == IF daily.pc = "idle" THEN daily ELSE [daily EXCEPT !.overtaken = @ \cup D]

-----------------------------------------------------------------------------
(* ingest_scan_result.  scalar_one_or_none raises on a second matching     *)
(* alert: the request ends in a 500 and its transaction is rolled back.    *)

\* The device is loaded by the first statement, whose time is the row's scanned_at.
IngestScan(s, d, f) ==
    /\ scan[s].pc = "idle"
    /\ Admitted
    /\ scan' = [scan EXCEPT ![s] =
          [NoScan EXCEPT !.pc = "malicious", !.dev = d, !.found = f, !.loaded = status[d],
                         !.older = {t \in Scans : scan[t].dev = d}]]
    /\ UNCHANGED <<tables, rollup, daily>>

\* A scan that ends is no longer older than another.
EndScan(s) ==
    scan' = [t \in Scans |-> IF t = s THEN NoScan ELSE [scan[t] EXCEPT !.older = @ \ {s}]]

\* Defect: scalar_one, which raises on no alert too.
ScanReadsOne(s, pc, type, next) ==
    /\ scan[s].pc = pc
    /\ IF open[scan[s].dev][type] # 1 THEN EndScan(s) ELSE scan' = [scan EXCEPT ![s] = next]
    /\ UNCHANGED <<tables, rollup, daily>>

\* The read of one type of alert, and what the request does when it has it.
ScanReads(s, pc, type, next) ==
    /\ scan[s].pc = pc
    /\ IF open[scan[s].dev][type] > 1 THEN EndScan(s) ELSE scan' = [scan EXCEPT ![s] = next]
    /\ UNCHANGED <<tables, rollup, daily>>

ScanReadsMalicious(s) ==
    ScanReads(s, "malicious", "malicious_ip",
        [scan[s] EXCEPT !.pc = "suspicious",
                        !.malicious = open[scan[s].dev]["malicious_ip"] = 1])

ScanReadsSuspicious(s) ==
    ScanReads(s, "suspicious", "suspicious_traffic",
        [scan[s] EXCEPT !.pc = IF Unexpected(scan[s].found) THEN "unexpected" ELSE "commit",
                        !.suspicious = open[scan[s].dev]["suspicious_traffic"] = 1])

\* Defect: the alert is raised whether or not one is open.
ScanAlertsAlways(s) ==
    ScanReads(s, "unexpected", "unexpected_port", [scan[s] EXCEPT !.pc = "commit", !.alert = TRUE])

ScanReadsUnexpected(s) ==
    ScanReads(s, "unexpected", "unexpected_port",
        [scan[s] EXCEPT !.pc = "commit", !.alert = open[scan[s].dev]["unexpected_port"] = 0])

\* The other scans of the device have read it before this one commits.
ScansAfter(s) ==
    [t \in Scans |->
        IF t = s THEN NoScan
        ELSE IF scan[t].dev # scan[s].dev THEN scan[t]
        ELSE [scan[t] EXCEPT !.older = @ \ {s}, !.overtaken = TRUE,
                             !.superseded = @ \/ t \in scan[s].older]]

\* Defect: the status is what the ports say, whatever alerts are open.
ScanCommitsPortsOnly(s) ==
    LET r == scan[s]
        d == r.dev
    IN
    /\ r.pc = "commit"
    /\ latest' = [latest EXCEPT ![d] = r.found]
    /\ status' = [status EXCEPT ![d] = DeriveStatus(Risky(r.found), Unexpected(r.found), FALSE, FALSE)]
    /\ open' = IF r.alert THEN [open EXCEPT ![d]["unexpected_port"] = @ + 1] ELSE open
    /\ scan' = ScansAfter(s)
    /\ rollup' = RollupsOvertaken({d})
    /\ daily' = DailyOvertaken({d})
    /\ raced' = IF r.overtaken THEN raced \cup {d} ELSE raced \ {d}
    /\ UNCHANGED <<pending, faults>>

ScanCommits(s) ==
    LET r == scan[s]
        d == r.dev
        derived == DeriveStatus(Risky(r.found), Unexpected(r.found), r.malicious, r.suspicious)
    IN
    /\ r.pc = "commit"
    /\ latest' = IF r.superseded THEN latest ELSE [latest EXCEPT ![d] = r.found]
    /\ status' = IF derived = r.loaded THEN status ELSE [status EXCEPT ![d] = derived]
    /\ open' = IF r.alert THEN [open EXCEPT ![d]["unexpected_port"] = @ + 1] ELSE open
    /\ scan' = ScansAfter(s)
    /\ rollup' = RollupsOvertaken({d})
    /\ daily' = DailyOvertaken({d})
    /\ raced' = IF r.overtaken THEN raced \cup {d} ELSE raced \ {d}
    /\ UNCHANGED <<pending, faults>>

-----------------------------------------------------------------------------
(* ingest_traffic, from the malicious-address check on.  The flows come in *)
(* any order; each address of a device counts once.                        *)

\* Bound: the alerts of a rollup leave no device with more than MaxHits open
\* when it begins.
IngestTraffic(r) ==
    /\ rollup[r].pc = "idle"
    /\ Admitted
    /\ \E hits \in [Devices -> 0..MaxHits] :
          /\ \E d \in Devices : hits[d] > 0
          /\ \A d \in Devices : hits[d] + open[d]["malicious_ip"] <= MaxHits
          /\ rollup' = [rollup EXCEPT ![r] = [NoRollup EXCEPT !.pc = "check", !.todo = hits]]
    /\ UNCHANGED <<tables, scan, daily>>

\* The device is selected for each hit, but a row the session still holds keeps what
\* it was loaded with.  A status already critical is not written.
CheckFlow(r) ==
    /\ rollup[r].pc = "check"
    /\ \E d \in Devices, held \in BOOLEAN :
          /\ rollup[r].todo[d] > 0
          /\ held => rollup[r].hits[d] > 0
          /\ rollup' = [rollup EXCEPT
                ![r].todo[d] = @ - 1, ![r].hits[d] = @ + 1,
                ![r].flip = IF held \/ status[d] = "critical" THEN @ ELSE @ \cup {d}]
    /\ UNCHANGED <<tables, scan, daily>>

RollupCommits(r) ==
    LET q == rollup[r]
        hit == {d \in Devices : q.hits[d] > 0}
    IN
    /\ q.pc = "check"
    /\ \A d \in Devices : q.todo[d] = 0
    /\ open' = [d \in Devices |-> [open[d] EXCEPT !["malicious_ip"] = @ + q.hits[d]]]
    /\ status' = [d \in Devices |-> IF d \in q.flip THEN "critical" ELSE status[d]]
    /\ rollup' = [RollupsOvertaken(hit) EXCEPT ![r] = NoRollup]
    /\ scan' = ScansOvertaken(hit)
    /\ daily' = DailyOvertaken(hit)
    /\ raced' = (raced \ hit) \cup (q.overtaken \ q.flip)
    /\ UNCHANGED <<latest, pending, faults>>

-----------------------------------------------------------------------------
(* queue_daily_scans: one transaction over all devices, each device loaded *)
(* at the start.  An exception for one device rolls back all.              *)

StartDaily ==
    /\ daily.pc = "idle"
    /\ Admitted
    /\ \E anomalous \in SUBSET Devices :
          daily' = [NoDaily EXCEPT !.pc = "next", !.todo = Devices, !.anomalous = anomalous,
                                   !.loaded = status, !.write = [d \in Devices |-> NONE]]
    /\ UNCHANGED <<tables, scan, rollup>>

\* The device's unclaimed request, queued unless there is one, and the anomaly check.
DailyVisits(d) ==
    /\ daily.pc = "next"
    /\ d \in daily.todo
    /\ daily' = IF pending[d] > 1 THEN NoDaily
                ELSE [daily EXCEPT !.todo = @ \ {d},
                                   !.queue = IF pending[d] = 0 THEN @ \cup {d} ELSE @,
                                   !.pc = IF d \in daily.anomalous THEN "suspicious" ELSE "next",
                                   !.dev = IF d \in daily.anomalous THEN d ELSE NONE]
    /\ UNCHANGED <<tables, scan, rollup>>

DailyReadsSuspicious ==
    LET n == open[daily.dev]["suspicious_traffic"] IN
    /\ daily.pc = "suspicious"
    /\ daily' = CASE n > 1 -> NoDaily
                  [] n = 1 -> [daily EXCEPT !.pc = "next", !.dev = NONE]
                  [] n = 0 -> [daily EXCEPT !.pc = "latest", !.alert = @ \cup {daily.dev}]
    /\ UNCHANGED <<tables, scan, rollup>>

DailyReadsLatest ==
    /\ daily.pc = "latest"
    /\ daily' = [daily EXCEPT !.pc = "malicious", !.found = latest[daily.dev]]
    /\ UNCHANGED <<tables, scan, rollup>>

DailyReadsMalicious ==
    LET d == daily.dev
        s == DeriveStatus(Risky(daily.found), Unexpected(daily.found),
                          open[d]["malicious_ip"] = 1, TRUE)
    IN
    /\ daily.pc = "malicious"
    /\ daily' = IF open[d]["malicious_ip"] > 1 THEN NoDaily
                ELSE [daily EXCEPT !.pc = "next", !.dev = NONE, !.found = NONE,
                                   !.write[d] = IF s = daily.loaded[d] THEN NONE ELSE s]
    /\ UNCHANGED <<tables, scan, rollup>>

\* Defect: the status is assigned for every device, derived or not.
DailyWritesEvery ==
    /\ daily.pc = "next"
    /\ daily.todo = {}
    /\ status' = daily.write
    /\ daily' = NoDaily
    /\ UNCHANGED <<latest, open, pending, scan, rollup, raced, faults>>

DailyCommits ==
    /\ daily.pc = "next"
    /\ daily.todo = {}
    /\ pending' = [d \in Devices |-> IF d \in daily.queue THEN pending[d] + 1 ELSE pending[d]]
    /\ open' = [d \in Devices |-> IF d \in daily.alert
                                  THEN [open[d] EXCEPT !["suspicious_traffic"] = @ + 1] ELSE open[d]]
    /\ status' = [d \in Devices |-> IF daily.write[d] = NONE THEN status[d] ELSE daily.write[d]]
    /\ daily' = NoDaily
    /\ scan' = ScansOvertaken(daily.alert)
    /\ rollup' = RollupsOvertaken(daily.alert)
    /\ raced' = (raced \ daily.alert) \cup (daily.alert \cap daily.overtaken)
    /\ UNCHANGED <<latest, faults>>

-----------------------------------------------------------------------------
(* Requests of one statement: the user's, and the scanner's poll.          *)

TriggerScan(d) ==
    /\ pending[d] < MaxPending
    /\ pending' = [pending EXCEPT ![d] = @ + 1]
    /\ UNCHANGED <<status, latest, open, raced, faults, requests>>

ClaimScans ==
    /\ \E d \in Reachable : pending[d] > 0
    /\ pending' = [d \in Devices |-> IF d \in Reachable THEN 0 ELSE pending[d]]
    /\ UNCHANGED <<status, latest, open, raced, faults, requests>>

\* Acknowledging an alert recomputes no status.
AckAlert(d, t) ==
    /\ open[d][t] > 0
    /\ open' = [open EXCEPT ![d][t] = @ - 1]
    /\ UNCHANGED <<status, latest, pending, raced, faults, requests>>

\* It acknowledges the alerts its SELECT returned; for one raised before its
\* commit it is a series of AckAlert steps.
AckAll ==
    /\ \E d \in Devices, t \in AlertTypes : open[d][t] > 0
    /\ open' = [d \in Devices |-> [t \in AlertTypes |-> 0]]
    /\ UNCHANGED <<status, latest, pending, raced, faults, requests>>

-----------------------------------------------------------------------------
(* Failures: a request's session raises and rolls back, or the process     *)
(* restarts.                                                               *)

Fault ==
    /\ Failures
    /\ faults' = faults + 1
    /\ UNCHANGED rows

FailScan(s) ==
    /\ scan[s].pc # "idle"
    /\ EndScan(s)
    /\ Fault
    /\ UNCHANGED <<rollup, daily>>

FailRollup(r) ==
    /\ rollup[r].pc # "idle"
    /\ rollup' = [rollup EXCEPT ![r] = NoRollup]
    /\ Fault
    /\ UNCHANGED <<scan, daily>>

FailDaily ==
    /\ daily.pc # "idle"
    /\ daily' = NoDaily
    /\ Fault
    /\ UNCHANGED <<scan, rollup>>

Restart ==
    /\ daily.pc # "idle" \/ ScansInFlight # {} \/ RollupsInFlight # {}
    /\ scan' = [s \in Scans |-> NoScan]
    /\ rollup' = [r \in Rollups |-> NoRollup]
    /\ daily' = NoDaily
    /\ Fault

IngestScanResult(s) ==
    \/ \E d \in Devices, f \in Findings : IngestScan(s, d, f)
    \/ ScanReadsMalicious(s) \/ ScanReadsSuspicious(s) \/ ScanReadsUnexpected(s)
    \/ ScanCommits(s)
    \/ FailScan(s)

IngestRollup(r) == IngestTraffic(r) \/ CheckFlow(r) \/ RollupCommits(r) \/ FailRollup(r)

QueueDailyScans ==
    \/ StartDaily
    \/ \E d \in Devices : DailyVisits(d)
    \/ DailyReadsSuspicious \/ DailyReadsLatest \/ DailyReadsMalicious \/ DailyCommits
    \/ FailDaily

Next ==
    \/ \E s \in Scans : IngestScanResult(s)
    \/ \E r \in Rollups : IngestRollup(r)
    \/ QueueDailyScans
    \/ \E d \in Devices : TriggerScan(d)
    \/ ClaimScans
    \/ \E d \in Devices, t \in AlertTypes : AckAlert(d, t)
    \/ AckAll
    \/ Restart

Spec == Init /\ [][Next]_vars

-----------------------------------------------------------------------------
(* Properties.                                                             *)

\* Every row and every request in flight is well formed.
TypeOK ==
    /\ status \in [Devices -> Statuses]
    /\ latest \in [Devices -> Findings \cup {NONE}]
    /\ open \in [Devices -> [AlertTypes -> Nat]]
    /\ pending \in [Devices -> Nat]
    /\ \A s \in Scans : scan[s].pc \in {"idle", "malicious", "suspicious", "unexpected", "commit"}
    /\ \A r \in Rollups : rollup[r].pc \in {"idle", "check"} /\ rollup[r].flip \subseteq Devices
    /\ daily.pc \in {"idle", "next", "suspicious", "latest", "malicious"}
    /\ raced \subseteq Devices /\ faults \in Nat

\* The status of d is not below what its latest scan and its open alerts call for.
Covered(d) ==
    /\ Risky(latest[d]) \/ open[d]["malicious_ip"] > 0 => status[d] = "critical"
    /\ Unexpected(latest[d]) \/ open[d]["suspicious_traffic"] > 0 => status[d] # "good"

\* D-07 (capture.py:333-335): the status of a device is never below what its
\* latest scan and its unacknowledged alerts call for.
StatusCoversSignals == \A d \in Devices : Covered(d)

\* What the code keeps of it: a status is below its signals only from a request that
\* wrote the device after another had changed what it had loaded, and only
\* until the next request that nothing overtakes.
StatusCoversUnlessRaced == \A d \in Devices \ raced : Covered(d)

\* An alert that is raised only when none is open gets a second one beside it only
\* from a scan result that another request has overtaken; the daily job, which
\* overlaps with no other, never raises a second one.
DoubledOnlyByOverlap ==
    [][\A d \in Devices :
          /\ open[d]["suspicious_traffic"] > 0 =>
                open'[d]["suspicious_traffic"] <= open[d]["suspicious_traffic"]
          /\ open[d]["unexpected_port"] > 0 =>
                \/ open'[d]["unexpected_port"] <= open[d]["unexpected_port"]
                \/ \E s \in Scans : scan[s].dev = d /\ scan[s].overtaken /\ scan'[s] = NoScan]_vars

\* capture.py:316-317, 428-431: a scan result is persisted and the daily job goes
\* through when they end, unless a failure or a scalar_one_or_none that meets two
\* rows: two open malicious_ip or unexpected_port alerts, or two unclaimed
\* requests.  No other reason turns up, however the requests interleave.
LostOnlyToDoubles ==
    [][faults' = faults =>
       /\ \A s \in Scans : scan[s].pc # "idle" /\ scan'[s].pc = "idle" =>
             \/ scan[s].pc = "commit" /\ (scan[s].superseded \/ latest'[scan[s].dev] = scan[s].found)
             \/ \E t \in {"malicious_ip", "unexpected_port"} : open[scan[s].dev][t] > 1
       /\ daily.pc # "idle" /\ daily'.pc = "idle" =>
             \/ daily.pc = "next" /\ daily.todo = {}
             \/ \E d \in Devices : open[d]["malicious_ip"] > 1 \/ pending[d] > 1]_vars

\* queue_daily_scans' docstring (capture.py:428-431): every device with an
\* anomaly has its alert when the job ends.
AnomaliesReported ==
    [][daily.pc # "idle" /\ daily'.pc = "idle" =>
          \A d \in daily.anomalous : open'[d]["suspicious_traffic"] > 0]_vars
=============================================================================
