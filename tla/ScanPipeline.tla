---------------------------- MODULE ScanPipeline ----------------------------
(***************************************************************************)
(* A port scan from the click to its result: trigger_scan and              *)
(* queue_daily_scans queue it, the scan listener of the capture container  *)
(* (capture/port_scan.py) polls get_pending_scans, which claims what it    *)
(* returns, runs nmap on each target and POSTs the result to               *)
(* ingest_scan_result.  What that request does to the device's status is   *)
(* SecurityMonitor's; here it records the result or fails.                 *)
(*                                                                         *)
(* The client gives up on a poll after 5 s and on a POST after 60 s; the   *)
(* API works on to the end.  Either process may restart: the API loses its *)
(* requests, the capture container what it has claimed and not POSTed.     *)
(* Left out: the order of a batch, which the query leaves open, and the    *)
(* stop event, which ends the loop between two polls.                      *)
(***************************************************************************)
EXTENDS Naturals, FiniteSets

CONSTANTS
    Requests,    \* PendingScanRequest rows ever inserted
    Devices,     \* the registered devices
    DeviceOf,    \* the device a request is for
    Polls,       \* bound: polls the API can have in flight at once
    MaxFaults,   \* bound: timeouts, failed scans and POSTs, and restarts
    NONE

ASSUME ConstantsAssumption ==
    /\ DeviceOf \in [Requests -> Devices]
    /\ MaxFaults \in Nat
    /\ NONE \notin Requests \cup Polls

VARIABLES
    row,        \* the request's row: absent, unclaimed or claimed
    located,    \* devices with a last_known_ip
    get,        \* get_pending_scans in flight: its step and the rows it selected
    awaited,    \* the poll the listener waits for
    listener,   \* run_scan_listener: its step, what is left of the batch, the target
    posting,    \* ingest_scan_result in flight
    handed,     \* history: how often the request was handed to the listener
    recorded,   \* the PortScanResult rows of the request
    faults

vars == <<row, located, get, awaited, listener, posting, handed, recorded, faults>>
backend == <<row, located, get, posting, recorded>>

NoPoll == [pc |-> "idle", rows |-> {}]
Waiting == [pc |-> "idle", batch |-> {}, target |-> NONE]

Init ==
    /\ row = [r \in Requests |-> "absent"]
    /\ located = {}
    /\ get = [p \in Polls |-> NoPoll]
    /\ awaited = NONE
    /\ listener = Waiting
    /\ posting = {}
    /\ handed = [r \in Requests |-> 0]
    /\ recorded = [r \in Requests |-> 0]
    /\ faults = 0

\* Bound: at most MaxFaults faults.
Fault == faults < MaxFaults /\ faults' = faults + 1

-----------------------------------------------------------------------------
(* The backend.                                                            *)

QueueScan(r) ==
    /\ row[r] = "absent"
    /\ row' = [row EXCEPT ![r] = "unclaimed"]
    /\ UNCHANGED <<located, get, awaited, listener, posting, handed, recorded, faults>>

\* The device's first ARP observation.
LocateDevice(d) ==
    /\ d \notin located
    /\ located' = located \cup {d}
    /\ UNCHANGED <<row, get, awaited, listener, posting, handed, recorded, faults>>

Unclaimed == {r \in Requests : row[r] = "unclaimed" /\ DeviceOf[r] \in located}

\* Defect: a claimed row is selected again.
SelectLocated(p) ==
    /\ get[p].pc = "select"
    /\ get' = [get EXCEPT ![p] = [pc |-> "commit",
                 rows |-> {r \in Requests : row[r] # "absent" /\ DeviceOf[r] \in located}]]
    /\ UNCHANGED <<row, located, awaited, listener, posting, handed, recorded, faults>>

\* Defect: one device without an address holds up the queue.
SelectIfAllLocated(p) ==
    /\ get[p].pc = "select"
    /\ get' = [get EXCEPT ![p] = IF \E r \in Requests : row[r] = "unclaimed" /\ r \notin Unclaimed
                                 THEN [pc |-> "reply", rows |-> {}]
                                 ELSE [pc |-> "commit", rows |-> Unclaimed]]
    /\ UNCHANGED <<row, located, awaited, listener, posting, handed, recorded, faults>>

SelectUnclaimed(p) ==
    /\ get[p].pc = "select"
    /\ get' = [get EXCEPT ![p] = [pc |-> IF Unclaimed = {} THEN "reply" ELSE "commit",
                                  rows |-> Unclaimed]]
    /\ UNCHANGED <<row, located, awaited, listener, posting, handed, recorded, faults>>

\* Defect: nothing is claimed.
CommitNothing(p) ==
    /\ get[p].pc = "commit"
    /\ get' = [get EXCEPT ![p].pc = "reply"]
    /\ UNCHANGED <<row, located, awaited, listener, posting, handed, recorded, faults>>

\* The UPDATE names the rows by their ids: a row claimed since is claimed again.
CommitClaims(p) ==
    /\ get[p].pc = "commit"
    /\ row' = [r \in Requests |-> IF r \in get[p].rows THEN "claimed" ELSE row[r]]
    /\ get' = [get EXCEPT ![p].pc = "reply"]
    /\ UNCHANGED <<located, awaited, listener, posting, handed, recorded, faults>>

\* Only a poll the listener still waits for reaches it.
Reply(p) ==
    /\ get[p].pc = "reply"
    /\ get' = [get EXCEPT ![p] = NoPoll]
    /\ IF awaited = p
       THEN /\ awaited' = NONE
            /\ listener' = [Waiting EXCEPT !.pc = "batch", !.batch = get[p].rows]
            /\ handed' = [r \in Requests |-> IF r \in get[p].rows THEN handed[r] + 1 ELSE handed[r]]
       ELSE UNCHANGED <<awaited, listener, handed>>
    /\ UNCHANGED <<row, located, posting, recorded, faults>>

RecordResult(r) ==
    /\ r \in posting
    /\ posting' = posting \ {r}
    /\ recorded' = [recorded EXCEPT ![r] = @ + 1]
    /\ listener' = IF listener.pc = "post" /\ listener.target = r
                   THEN [listener EXCEPT !.pc = "batch", !.target = NONE] ELSE listener
    /\ UNCHANGED <<row, located, get, awaited, handed, faults>>

-----------------------------------------------------------------------------
(* The scan listener.                                                      *)

Poll(p) ==
    /\ listener.pc = "idle"
    /\ get[p].pc = "idle"
    /\ get' = [get EXCEPT ![p].pc = "select"]
    /\ awaited' = p
    /\ listener' = [listener EXCEPT !.pc = "poll"]
    /\ UNCHANGED <<row, located, posting, handed, recorded, faults>>

\* Defect: the first scan ends the batch.
FirstTargetOnly ==
    /\ listener.pc = "batch"
    /\ \/ \E r \in listener.batch : listener' = [pc |-> "scan", batch |-> {}, target |-> r]
       \/ listener.batch = {} /\ listener' = Waiting
    /\ UNCHANGED <<backend, awaited, handed, faults>>

NextTarget ==
    /\ listener.pc = "batch"
    /\ \/ \E r \in listener.batch :
             listener' = [pc |-> "scan", batch |-> listener.batch \ {r}, target |-> r]
       \/ listener.batch = {} /\ listener' = Waiting
    /\ UNCHANGED <<backend, awaited, handed, faults>>

\* Defect: the target is cleared before it is posted.
PostCleared ==
    /\ listener.pc = "scan"
    /\ listener' = [listener EXCEPT !.pc = "post", !.target = NONE]
    /\ posting' = posting \cup {listener'.target}
    /\ UNCHANGED <<row, located, get, awaited, handed, recorded, faults>>

PostResult ==
    /\ listener.pc = "scan"
    /\ listener' = [listener EXCEPT !.pc = "post"]
    /\ posting' = posting \cup {listener.target}
    /\ UNCHANGED <<row, located, get, awaited, handed, recorded, faults>>

-----------------------------------------------------------------------------
(* Faults.                                                                 *)

PollTimesOut ==
    /\ listener.pc = "poll"
    /\ awaited' = NONE
    /\ listener' = Waiting
    /\ Fault
    /\ UNCHANGED <<backend, handed>>

\* nmap raises, or the target is no IP address: the listener goes on.
ScanFails ==
    /\ listener.pc = "scan"
    /\ listener' = [listener EXCEPT !.pc = "batch", !.target = NONE]
    /\ Fault
    /\ UNCHANGED <<backend, awaited, handed>>

PostTimesOut ==
    /\ listener.pc = "post"
    /\ listener' = [listener EXCEPT !.pc = "batch", !.target = NONE]
    /\ Fault
    /\ UNCHANGED <<backend, awaited, handed>>

\* What the listener does when its request breaks off.
Disconnected ==
    /\ awaited' = NONE
    /\ listener' = CASE listener.pc = "poll" -> Waiting
                     [] listener.pc = "post" -> [listener EXCEPT !.pc = "batch", !.target = NONE]
                     [] OTHER -> listener

\* A 500: the request is rolled back.
IngestFails(r) ==
    /\ r \in posting
    /\ posting' = posting \ {r}
    /\ listener' = IF listener.pc = "post" /\ listener.target = r
                   THEN [listener EXCEPT !.pc = "batch", !.target = NONE] ELSE listener
    /\ Fault
    /\ UNCHANGED <<row, located, get, awaited, handed, recorded>>

RestartApi ==
    /\ get' = [p \in Polls |-> NoPoll]
    /\ posting' = {}
    /\ Disconnected
    /\ Fault
    /\ UNCHANGED <<row, located, handed, recorded>>

RestartCapture ==
    /\ listener' = Waiting
    /\ awaited' = NONE
    /\ Fault
    /\ UNCHANGED <<backend, handed>>

Next ==
    \/ \E r \in Requests : QueueScan(r) \/ RecordResult(r) \/ IngestFails(r)
    \/ \E d \in Devices : LocateDevice(d)
    \/ \E p \in Polls : SelectUnclaimed(p) \/ CommitClaims(p) \/ Reply(p) \/ Poll(p)
    \/ NextTarget \/ PostResult
    \/ PollTimesOut \/ ScanFails \/ PostTimesOut
    \/ RestartApi \/ RestartCapture

\* The listener loops for ever and the API finishes its requests.
Fairness ==
    /\ \A p \in Polls : WF_vars(SelectUnclaimed(p)) /\ WF_vars(CommitClaims(p)) /\ WF_vars(Reply(p))
    /\ \A r \in Requests : WF_vars(RecordResult(r))
    /\ WF_vars(\E p \in Polls : Poll(p))
    /\ WF_vars(NextTarget) /\ WF_vars(PostResult)

Spec == Init /\ [][Next]_vars

FairSpec == Spec /\ Fairness

-----------------------------------------------------------------------------
(* Properties.                                                             *)

\* Every row and every request in flight is well formed.
TypeOK ==
    /\ row \in [Requests -> {"absent", "unclaimed", "claimed"}]
    /\ located \subseteq Devices
    /\ get \in [Polls -> [pc : {"idle", "select", "commit", "reply"}, rows : SUBSET Requests]]
    /\ awaited \in Polls \cup {NONE}
    /\ listener \in [pc : {"idle", "poll", "batch", "scan", "post"},
                     batch : SUBSET Requests, target : Requests \cup {NONE}]
    /\ posting \subseteq Requests
    /\ handed \in [Requests -> Nat] /\ recorded \in [Requests -> Nat]
    /\ faults \in 0..MaxFaults

\* get_pending_scans' docstring: a second poll delivers no request again,
\* although two polls of a listener that gave up on the first may both have
\* selected it; and what is delivered once is recorded at most once.
DeliveredOnce == \A r \in Requests : handed[r] <= 1 /\ recorded[r] <= handed[r]

\* The requests the scanner has: in a reply it waits for, in its batch, under
\* scan, or in a POST the API works on.
InScanner ==
    (IF awaited # NONE /\ get[awaited].pc \in {"commit", "reply"} THEN get[awaited].rows ELSE {})
        \cup listener.batch \cup {listener.target} \cup posting

\* As long as nothing times out, fails or restarts, a claimed request is with
\* the scanner or has its result.
NothingForgotten ==
    faults = 0 => \A r \in Requests :
        row[r] = "claimed" => r \in InScanner \/ recorded[r] = 1

\* models.py:82-87: a request survives restarts until it is claimed, and a
\* device without an address neither loses its own nor holds up the others':
\* every request for a located device is claimed in the end.
ClaimedEventually ==
    \A r \in Requests :
        row[r] = "unclaimed" /\ DeviceOf[r] \in located ~> row[r] = "claimed"

Stage == [r \in Requests |->
    CASE row[r] = "absent" -> "none"
      [] row[r] = "unclaimed" -> "queued"
      [] row[r] = "claimed" /\ recorded[r] > 0 -> "done"
      [] row[r] = "claimed" /\ recorded[r] = 0 /\ r \in InScanner -> "handed"
      [] OTHER -> "lost"]

Abstract == INSTANCE ScanRequests WITH stage <- Stage

\* The pipeline implements ScanRequests: no interleaving of polls, timeouts
\* and restarts moves a request backwards.
OneWay == Abstract!Spec
=============================================================================
