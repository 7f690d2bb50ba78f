-------------------------- MODULE TrafficPipeline --------------------------
(***************************************************************************)
(* WAN traffic from the wire to the browser: run_traffic_sniff             *)
(* (capture/traffic_sniff.py) counts frames by flow and POSTs a rollup per *)
(* window, ingest_traffic (routes/capture.py) stores its flows and then,   *)
(* in a transaction per MAC, their bandwidth, the broadcaster              *)
(* (modules/traffic/broadcaster.py) recomputes one snapshot of the recent  *)
(* flows, and every open traffic_stream (modules/traffic/routes.py) sends  *)
(* it when it differs from the one it sent last.                           *)
(*                                                                         *)
(* A frame is one unit of a flow; ports, protocols, sizes and hostnames    *)
(* are left out, and so is what the snapshot says beyond the bytes of each *)
(* MAC.  The malicious-address check that ends ingest_traffic is           *)
(* SecurityMonitor's.  A frame that is not counted (LAN, DNS, not IPv4)    *)
(* changes nothing: its `continue` also skips the flush.                   *)
(* The broadcaster reads the flows and assigns the snapshot one query      *)
(* later; no one else writes it, so the two are one step.                  *)
(***************************************************************************)
EXTENDS Naturals, FiniteSets, Functions

CONSTANTS
    Macs,        \* source MACs of WAN-bound frames
    Flows,       \* keys of the flow table: a source MAC and a destination
    Rollups,     \* bound: ingest_traffic requests in flight at once
    Clients,     \* open traffic_stream requests
    MaxFrames,   \* bound: frames seen
    MaxFaults,   \* bound: failed requests and restarts
    EMPTY, NONE

ASSUME ConstantsAssumption ==
    /\ \A k \in Flows : k[1] \in Macs
    /\ IsFiniteSet(Flows) /\ IsFiniteSet(Rollups)
    /\ MaxFrames \in Nat /\ MaxFaults \in Nat
    /\ NONE \notin Rollups
    /\ NONE # EMPTY /\ {NONE, EMPTY} \cap [Macs -> Nat] = {}

VARIABLES
    window,      \* flows of run_traffic_sniff
    due,         \* whether FLUSH_INTERVAL has passed since the last flush
    posted,      \* the rollup whose POST the sniffer waits for
    ingest,      \* ingest_traffic in flight
    stored,      \* bytes of each flow in traffic_flows
    recent,      \* those of the last five minutes
    bandwidth,   \* bytes of each MAC in bandwidth_metrics
    snapshot,    \* _latest_snapshot: the bytes of each talker, EMPTY before the first
    sent,        \* last_sent of each stream, NONE before its first event
    seen,        \* history: the frames counted, by flow
    faults

sniffer == <<window, due, posted, seen>>
tables == <<stored, recent, bandwidth>>
feed == <<snapshot, sent>>
vars == <<sniffer, ingest, tables, feed, faults>>

Nothing == [k \in Flows |-> 0]
Plus(a, b) == [k \in Flows |-> a[k] + b[k]]
OfMac(a, m) == SumFunctionOnSet(a, {k \in Flows : k[1] = m})
ByMac(a) == [m \in Macs |-> OfMac(a, m)]
Silent == [m \in Macs |-> 0]

NoIngest == [pc |-> "idle", flows |-> Nothing, macs |-> {}]

Init ==
    /\ window = Nothing /\ due = FALSE /\ posted = NONE
    /\ ingest = [q \in Rollups |-> NoIngest]
    /\ stored = Nothing /\ recent = Nothing /\ bandwidth = Silent
    /\ snapshot = EMPTY /\ sent = [c \in Clients |-> NONE]
    /\ seen = Nothing
    /\ faults = 0

\* Bound: at most MaxFaults faults.
Fault == faults < MaxFaults /\ faults' = faults + 1

-----------------------------------------------------------------------------
(* The sniffer.                                                            *)

IntervalPasses ==
    /\ ~due
    /\ due' = TRUE
    /\ UNCHANGED <<window, posted, seen, ingest, tables, feed, faults>>

\* The check after a counted frame, a timeout of recvfrom or a failed parse.
\* An empty window is not POSTed.
FlushIfDue(counted) ==
    IF ~due
    THEN window' = counted /\ UNCHANGED <<due, posted, ingest>>
    ELSE /\ due' = FALSE
         /\ IF counted = Nothing
            THEN window' = counted /\ UNCHANGED <<posted, ingest>>
            ELSE \E q \in Rollups :
                    /\ ingest[q].pc = "idle"
                    /\ ingest' = [ingest EXCEPT ![q] =
                          [pc |-> "flows", flows |-> counted, macs |-> {m \in Macs : OfMac(counted, m) > 0}]]
                    /\ posted' = q
                    /\ window' = counted

\* Bound: at most MaxFrames frames are seen.
CountFrame(k) ==
    /\ posted = NONE
    /\ SumFunction(seen) < MaxFrames
    /\ seen' = [seen EXCEPT ![k] = @ + 1]
    /\ FlushIfDue([window EXCEPT ![k] = @ + 1])
    /\ UNCHANGED <<tables, feed, faults>>

\* Defect: a timeout of recvfrom skips the check.
QuietContinues ==
    /\ posted = NONE
    /\ due
    /\ UNCHANGED vars

Quiet ==
    /\ posted = NONE
    /\ due
    /\ FlushIfDue(window)
    /\ UNCHANGED <<seen, tables, feed, faults>>

-----------------------------------------------------------------------------
(* ingest_traffic.                                                         *)

StoreFlows(q) ==
    /\ ingest[q].pc = "flows"
    /\ ingest' = [ingest EXCEPT ![q].pc = "bandwidth"]
    /\ stored' = Plus(stored, ingest[q].flows)
    /\ recent' = Plus(recent, ingest[q].flows)
    /\ UNCHANGED <<sniffer, bandwidth, feed, faults>>

\* Defect: a MAC's bytes are assigned flow by flow, not summed.
WriteRollupLastFlow(q, m) ==
    /\ ingest[q].pc = "bandwidth"
    /\ m \in ingest[q].macs
    /\ \E k \in Flows :
          /\ k[1] = m /\ ingest[q].flows[k] > 0
          /\ bandwidth' = [bandwidth EXCEPT ![m] = @ + ingest[q].flows[k]]
    /\ ingest' = [ingest EXCEPT ![q].macs = @ \ {m}]
    /\ UNCHANGED <<sniffer, stored, recent, feed, faults>>

\* Defect: a row per flow, each with the MAC's sum.
WriteRollupPerFlow(q, m) ==
    /\ ingest[q].pc = "bandwidth"
    /\ m \in ingest[q].macs
    /\ bandwidth' = [bandwidth EXCEPT ![m] = @ + OfMac(ingest[q].flows, m) *
                        Cardinality({k \in Flows : k[1] = m /\ ingest[q].flows[k] > 0})]
    /\ ingest' = [ingest EXCEPT ![q].macs = @ \ {m}]
    /\ UNCHANGED <<sniffer, stored, recent, feed, faults>>

WriteRollup(q, m) ==
    /\ ingest[q].pc = "bandwidth"
    /\ m \in ingest[q].macs
    /\ bandwidth' = [bandwidth EXCEPT ![m] = @ + OfMac(ingest[q].flows, m)]
    /\ ingest' = [ingest EXCEPT ![q].macs = @ \ {m}]
    /\ UNCHANGED <<sniffer, stored, recent, feed, faults>>

\* Back in the sniffer, flows.clear() follows the POST however it ended.
Cleared(q) ==
    IF posted = q THEN posted' = NONE /\ window' = Nothing ELSE UNCHANGED <<posted, window>>

Respond(q) ==
    /\ ingest[q].pc = "bandwidth"
    /\ ingest[q].macs = {}
    /\ ingest' = [ingest EXCEPT ![q] = NoIngest]
    /\ Cleared(q)
    /\ UNCHANGED <<due, seen, tables, feed, faults>>

-----------------------------------------------------------------------------
(* The feed.                                                               *)

\* A row turns five minutes old.
AgeOut(k) ==
    /\ recent[k] > 0
    /\ recent' = [recent EXCEPT ![k] = @ - 1]
    /\ UNCHANGED <<sniffer, ingest, stored, bandwidth, feed, faults>>

UpdateSnapshot ==
    /\ snapshot' = ByMac(recent)
    /\ UNCHANGED <<sniffer, ingest, tables, sent, faults>>

\* Defect: last_sent is compared with None only.
SendFirst(c) ==
    /\ sent[c] = NONE
    /\ sent' = [sent EXCEPT ![c] = snapshot]
    /\ UNCHANGED <<sniffer, ingest, tables, snapshot, faults>>

\* computed_at makes two snapshots of the same flows differ; sending such a one
\* changes nothing here.
SendSnapshot(c) ==
    /\ snapshot # sent[c]
    /\ sent' = [sent EXCEPT ![c] = snapshot]
    /\ UNCHANGED <<sniffer, ingest, tables, snapshot, faults>>

-----------------------------------------------------------------------------
(* Faults.                                                                 *)

\* A transaction raises, or the request is refused.
IngestFails(q) ==
    /\ ingest[q].pc # "idle"
    /\ ingest' = [ingest EXCEPT ![q] = NoIngest]
    /\ Cleared(q)
    /\ Fault
    /\ UNCHANGED <<due, seen, tables, feed>>

\* Defect: a window whose POST failed is kept for the next one.
PostTimesOutKeeping ==
    /\ posted # NONE
    /\ posted' = NONE
    /\ Fault
    /\ UNCHANGED <<window, due, seen, ingest, tables, feed>>

\* The client gives up after 5 s; the API works on.
PostTimesOut ==
    /\ posted # NONE
    /\ Cleared(posted)
    /\ Fault
    /\ UNCHANGED <<due, seen, ingest, tables, feed>>

\* Defect: a failed computation leaves an empty snapshot.
UpdateFailsEmpty ==
    /\ snapshot' = EMPTY
    /\ Fault
    /\ UNCHANGED <<sniffer, ingest, tables, sent>>

\* The session fails; the loop prints the error and ticks on.
UpdateFails ==
    /\ Fault
    /\ UNCHANGED <<sniffer, ingest, tables, feed>>

RestartApi ==
    /\ ingest' = [q \in Rollups |-> NoIngest]
    /\ IF posted = NONE THEN UNCHANGED <<posted, window>> ELSE Cleared(posted)
    /\ snapshot' = EMPTY
    /\ sent' = [c \in Clients |-> NONE]
    /\ Fault
    /\ UNCHANGED <<due, seen, tables>>

\* The window open at the restart is lost; a POST the API has is not.
RestartSniffer ==
    /\ window' = Nothing
    /\ due' = FALSE
    /\ posted' = NONE
    /\ Fault
    /\ UNCHANGED <<seen, ingest, tables, feed>>

Next ==
    \/ IntervalPasses \/ Quiet
    \/ \E k \in Flows : CountFrame(k) \/ AgeOut(k)
    \/ \E q \in Rollups : StoreFlows(q) \/ (\E m \in Macs : WriteRollup(q, m)) \/ Respond(q)
    \/ UpdateSnapshot
    \/ \E c \in Clients : SendSnapshot(c)
    \/ \E q \in Rollups : IngestFails(q)
    \/ PostTimesOut \/ UpdateFails \/ RestartApi \/ RestartSniffer

\* Time passes, the API finishes its requests, the broadcaster ticks for ever
\* and every stream polls.  Nothing is assumed of the sniffer: whether its loop
\* ever reaches the flush check depends on the traffic.
Fairness ==
    /\ WF_vars(IntervalPasses)
    /\ \A q \in Rollups :
          WF_vars(StoreFlows(q)) /\ WF_vars(\E m \in Macs : WriteRollup(q, m)) /\ WF_vars(Respond(q))
    /\ WF_vars(UpdateSnapshot)
    /\ \A c \in Clients : WF_vars(SendSnapshot(c))

Spec == Init /\ [][Next]_vars

FairSpec == Spec /\ Fairness

-----------------------------------------------------------------------------
(* Properties.                                                             *)

\* No table, request or snapshot ever holds more bytes than were seen.
TypeOK ==
    /\ {window, stored, recent, seen} \subseteq [Flows -> 0..MaxFrames]
    /\ due \in BOOLEAN
    /\ posted \in Rollups \cup {NONE}
    /\ ingest \in [Rollups -> [pc : {"idle", "flows", "bandwidth"},
                               flows : [Flows -> 0..MaxFrames], macs : SUBSET Macs]]
    /\ bandwidth \in [Macs -> 0..MaxFrames]
    /\ snapshot \in [Macs -> 0..MaxFrames] \cup {EMPTY}
    /\ sent \in [Clients -> [Macs -> 0..MaxFrames] \cup {EMPTY, NONE}]
    /\ faults \in 0..MaxFaults

\* A frame of the flow that is on its way to traffic_flows.
OnTheWay(k) ==
    (IF posted = NONE THEN window[k] ELSE 0)
        + SumFunction([q \in Rollups |-> IF ingest[q].pc = "flows" THEN ingest[q].flows[k] ELSE 0])

\* flows.clear() after every POST, failed or not (traffic_sniff.py:149): a frame
\* is stored at most once, also when the sniffer gives up on a POST the API
\* still works on, and exactly once when nothing fails.
FramesStoredOnce ==
    \A k \in Flows :
        /\ stored[k] + OnTheWay(k) <= seen[k]
        /\ faults = 0 => stored[k] + OnTheWay(k) = seen[k]

\* ingest_traffic writes a MAC's bandwidth after its flows and in a transaction
\* of its own: the metric is never ahead of the flows, and without a fault it is
\* behind by the rollups in flight only.
BandwidthFollowsFlows ==
    \A m \in Macs :
        LET pending == [q \in Rollups |-> IF m \in ingest[q].macs /\ ingest[q].pc = "bandwidth"
                                         THEN OfMac(ingest[q].flows, m) ELSE 0]
            accounted == bandwidth[m] + SumFunction(pending)
        IN  accounted <= OfMac(stored, m) /\ (faults = 0 => accounted = OfMac(stored, m))

\* The flush check (traffic_sniff.py:147) follows a timeout of recvfrom too: where
\* the traffic lets the loop reach it, no window stays open for ever.
WindowFlushed == WF_vars(Quiet) => (window # Nothing ~> window = Nothing)

\* A stream's events show the feed or, before the first snapshot of a new process,
\* nothing: a view that has shown talkers is never blanked by a failed tick
\* (broadcaster.py:113); the empty event, which has none of the fields the view
\* reads (routes.py:91), can only be the first of a stream.
EmptyOnlyFirst ==
    [][\A c \in Clients : sent[c] # NONE /\ sent'[c] = EMPTY => sent[c] = EMPTY]_vars

\* The loop outlives database errors (broadcaster.py:113) and a stream sends
\* whatever differs from its last event: once the traffic has settled (here, when
\* the bounds are used up), every client shows the flows of the last minutes,
\* whichever requests failed and processes restarted before.
FeedConverges == \A c \in Clients : <>[](sent[c] = ByMac(recent))
=============================================================================
