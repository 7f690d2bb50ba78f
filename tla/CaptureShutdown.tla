-------------------------- MODULE CaptureShutdown --------------------------
(***************************************************************************)
(* The capture container from main() to "Stopped." (capture/capture.py):   *)
(* six threads, the stop event that SIGTERM sets, and main, which starts   *)
(* the threads and joins them one after the other.  Each thread is its     *)
(* loop, reduced to where it looks at the stop event and what it may wait  *)
(* for: a packet, a client timeout, a poll interval, three o'clock.        *)
(*                                                                         *)
(* What the requests do is the business of the other modules; here one is  *)
(* a step between two looks at the event.  The kill that follows if the    *)
(* container is not gone after Docker's grace period is left out:          *)
(* ScanPipeline and TrafficPipeline have it as a restart.                  *)
(***************************************************************************)
EXTENDS Naturals, Sequences

CONSTANTS
    MaxBatch,    \* bound: scan requests a poll returns
    MaxTasks     \* bound: mDNS lookups in progress at once

ASSUME BoundsAssumption == MaxBatch \in Nat /\ MaxTasks \in Nat

StartOrder == <<"mdns", "dhcp", "arp", "traffic", "listener", "daily">>
JoinOrder == <<"arp", "dhcp", "mdns", "traffic", "listener", "daily">>
Threads == {"arp", "dhcp", "mdns", "traffic", "listener", "daily"}
Sniffers == {"arp", "dhcp"}
Synchronous == Threads \ {"mdns"}

VARIABLES
    stop,      \* stop_event
    pc,        \* where each thread is
    started,   \* how many threads main has started
    joined,    \* how many it has joined
    batch,     \* claimed scan requests the listener has yet to scan
    tasks,     \* _post_service_info tasks of the mDNS loop
    claimed,   \* history: claimed scan requests left at the stop, or returned after it
    begun      \* history: requests each synchronous thread has begun since the stop

vars == <<stop, pc, started, joined, batch, tasks, claimed, begun>>
main == <<started, joined>>
scans == <<batch, claimed>>

Init ==
    /\ stop = FALSE
    /\ pc = [t \in Threads |-> "new"]
    /\ started = 0 /\ joined = 0
    /\ batch = 0 /\ tasks = 0 /\ claimed = 0
    /\ begun = [t \in Synchronous |-> 0]

Exited == joined = Len(JoinOrder)

Goto(t, step) == pc' = [pc EXCEPT ![t] = step]

\* A request begun after the stop counts (bound: counted up to one more than a
\* batch and its poll).
Begin(t) == begun' = [begun EXCEPT ![t] = IF stop /\ @ < MaxBatch + 2 THEN @ + 1 ELSE @]

-----------------------------------------------------------------------------
(* main                                                                    *)

\* The handler runs in the main thread, between two starts or in a join.
Sigterm ==
    /\ ~stop /\ ~Exited
    /\ stop' = TRUE
    /\ claimed' = batch
    /\ UNCHANGED <<pc, main, batch, tasks, begun>>

StartThread ==
    /\ started < Len(StartOrder)
    /\ started' = started + 1
    /\ Goto(StartOrder[started + 1], "setup")
    /\ UNCHANGED <<stop, joined, scans, tasks, begun>>

JoinThread ==
    /\ started = Len(StartOrder) /\ ~Exited
    /\ pc[JoinOrder[joined + 1]] = "ended"
    /\ joined' = joined + 1
    /\ UNCHANGED <<stop, pc, started, scans, tasks, begun>>

-----------------------------------------------------------------------------
(* The threads.                                                            *)

\* Opening the sockets, the zeroconf instance, the nmap wrapper.
Setup(t) ==
    /\ pc[t] = "setup"
    /\ Goto(t, IF t \in Sniffers THEN "recv" ELSE IF t = "mdns" THEN "browse" ELSE "check")
    /\ UNCHANGED <<stop, main, scans, tasks, begun>>

\* What is outside every try: setting up, and sniff() itself.  Only that thread ends.
Die(t) ==
    /\ \/ pc[t] = "setup" /\ t # "daily"
       \/ pc[t] = "recv" /\ t \in Sniffers
    /\ Goto(t, "ended")
    /\ UNCHANGED <<stop, main, scans, tasks, begun>>

\* while not stop_event.is_set(): the head of three of the loops.
Check(t) ==
    /\ pc[t] = "check"
    /\ Goto(t, IF stop THEN "ended" ELSE CASE t = "traffic" -> "recv"
                                           [] t = "listener" -> "poll"
                                           [] t = "daily" -> "wait")
    /\ UNCHANGED <<stop, main, scans, tasks, begun>>

\* sniff() calls prn for each packet of the filter: the callback POSTs some and
\* returns from the others.
Packet(t) ==
    /\ pc[t] = "recv"
    /\ \/ Goto(t, "post") /\ Begin(t)
       \/ Goto(t, "ignore") /\ UNCHANGED begun
    /\ UNCHANGED <<stop, main, scans, tasks>>

\* Defect: the event is looked at only after a packet that was POSTed.
StopFilterPosted(t) ==
    /\ pc[t] \in {"post", "ignore"}
    /\ Goto(t, IF stop /\ pc[t] = "post" THEN "ended" ELSE "recv")
    /\ UNCHANGED <<stop, main, scans, tasks, begun>>

\* The callback ends, a POST after 5 s at the latest, and stop_filter follows it.
StopFilter(t) ==
    /\ pc[t] \in {"post", "ignore"}
    /\ Goto(t, IF stop THEN "ended" ELSE "recv")
    /\ UNCHANGED <<stop, main, scans, tasks, begun>>

\* The browser's callback starts a task for each service that appears.
ServiceAdded ==
    /\ pc["mdns"] = "browse"
    /\ tasks < MaxTasks
    /\ tasks' = tasks + 1
    /\ UNCHANGED <<stop, pc, main, scans, begun>>

\* After up to 3 s of lookup a task POSTs what it has found, or ends with nothing,
\* before the stop, after it and while the browser closes.  Its POST is not counted.
TaskEnds ==
    /\ tasks > 0
    /\ tasks' = tasks - 1
    /\ UNCHANGED <<stop, pc, main, scans, begun>>

\* _watch_stop_event polls the event twice a second and sets the asyncio one.
NoticeStop ==
    /\ pc["mdns"] = "browse" /\ stop
    /\ Goto("mdns", "close")
    /\ UNCHANGED <<stop, main, scans, tasks, begun>>

\* asyncio.run cancels the tasks that are left.
CloseBrowser ==
    /\ pc["mdns"] = "close"
    /\ Goto("mdns", "ended")
    /\ tasks' = 0
    /\ UNCHANGED <<stop, main, scans, begun>>

\* recvfrom returns a frame, times out after a second or raises; the window may
\* be due for its POST then.
Receive ==
    /\ pc["traffic"] = "recv"
    /\ \/ Goto("traffic", "post") /\ Begin("traffic")
       \/ Goto("traffic", "check") /\ UNCHANGED begun
    /\ UNCHANGED <<stop, main, scans, tasks>>

PostedWindow ==
    /\ pc["traffic"] = "post"
    /\ Goto("traffic", "check")
    /\ UNCHANGED <<stop, main, scans, tasks, begun>>

\* get_pending_scans answers, or the poll fails (n = 0) after 5 s.
Poll ==
    /\ pc["listener"] = "poll"
    /\ \E n \in 0..MaxBatch :
          /\ batch' = n
          /\ claimed' = IF stop THEN n ELSE claimed
          /\ Goto("listener", IF n = 0 THEN "wait" ELSE "scan")
    /\ Begin("listener")
    /\ UNCHANGED <<stop, main, tasks>>

\* Defect: the batch is dropped when the event is set.
ScanUnlessStopped ==
    /\ pc["listener"] = "scan"
    /\ batch' = IF stop THEN batch ELSE batch - 1
    /\ Goto("listener", IF stop \/ batch' = 0 THEN "wait" ELSE "scan")
    /\ UNCHANGED <<stop, main, tasks, claimed, begun>>

\* One target: nmap, and a POST of what it found, counted here even when the
\* address is refused or nmap raises.
Scan ==
    /\ pc["listener"] = "scan"
    /\ batch' = batch - 1
    /\ Goto("listener", IF batch' = 0 THEN "wait" ELSE "scan")
    /\ Begin("listener")
    /\ UNCHANGED <<stop, main, tasks, claimed>>

\* Defect: the loop goes on polling without a look at the event.
PollAgain ==
    /\ pc["listener"] = "wait"
    /\ Goto("listener", "poll")
    /\ UNCHANGED <<stop, main, scans, tasks, begun>>

\* stop_event.wait(3): three seconds, or the event.
PollInterval ==
    /\ pc["listener"] = "wait"
    /\ Goto("listener", "check")
    /\ UNCHANGED <<stop, main, scans, tasks, begun>>

\* Defect: time.sleep until three o'clock.
SleepThrough ==
    /\ pc["daily"] = "wait" /\ stop
    /\ UNCHANGED vars

\* stop_event.wait(seconds to three o'clock) returns true.
StopWaiting ==
    /\ pc["daily"] = "wait" /\ stop
    /\ Goto("daily", "ended")
    /\ UNCHANGED <<stop, main, scans, tasks, begun>>

\* It times out, perhaps just as the event is set; queue-daily-scans is POSTed.
ThreeOClock ==
    /\ pc["daily"] = "wait"
    /\ Goto("daily", "post")
    /\ Begin("daily")
    /\ UNCHANGED <<stop, main, scans, tasks>>

PostedDaily ==
    /\ pc["daily"] = "post"
    /\ Goto("daily", "check")
    /\ UNCHANGED <<stop, main, scans, tasks, begun>>

Next ==
    \/ Sigterm \/ StartThread \/ JoinThread
    \/ \E t \in Threads : Setup(t) \/ Die(t) \/ Check(t)
    \/ \E t \in Sniffers : Packet(t) \/ StopFilter(t)
    \/ ServiceAdded \/ TaskEnds \/ NoticeStop \/ CloseBrowser
    \/ Receive \/ PostedWindow
    \/ Poll \/ Scan \/ PollInterval
    \/ StopWaiting \/ ThreeOClock \/ PostedDaily

\* Every step that a timeout bounds is taken in the end; nmap is taken to end.
\* Nothing is assumed of packets, services, three o'clock and SIGTERM.
Fairness ==
    /\ WF_vars(StartThread) /\ WF_vars(JoinThread)
    /\ \A t \in Threads : WF_vars(Setup(t)) /\ WF_vars(Check(t))
    /\ \A t \in Sniffers : WF_vars(StopFilter(t))
    /\ WF_vars(NoticeStop) /\ WF_vars(CloseBrowser)
    /\ WF_vars(Receive) /\ WF_vars(PostedWindow)
    /\ WF_vars(Poll) /\ WF_vars(Scan) /\ WF_vars(PollInterval)
    /\ WF_vars(StopWaiting) /\ WF_vars(PostedDaily)

Spec == Init /\ [][Next]_vars

FairSpec == Spec /\ Fairness

-----------------------------------------------------------------------------
(* Properties.                                                             *)

\* Every thread is at a step of its loop.
TypeOK ==
    /\ stop \in BOOLEAN
    /\ pc \in [Threads -> {"new", "setup", "check", "recv", "ignore", "post", "browse", "close",
                          "poll", "scan", "wait", "ended"}]
    /\ started \in 0..Len(StartOrder) /\ joined \in 0..Len(JoinOrder)
    /\ batch \in 0..MaxBatch
    /\ tasks \in 0..MaxTasks
    /\ claimed \in 0..MaxBatch
    /\ begun \in [Synchronous -> 0..(MaxBatch + 2)]

\* "Stopped." is the end of everything (capture.py:198-205): no thread is at work
\* when main says so, whichever died before, no mDNS task is left, and no scan
\* request the listener has claimed is dropped by a stop (port_scan.py:66), which
\* the backend would never hand out again.
StoppedLast ==
    Exited => (\A t \in Threads : pc[t] = "ended") /\ batch = 0 /\ tasks = 0

\* The stop event takes effect within one request: after it a thread begins at
\* most one more, wherever in its loop the signal finds it, and the listener one
\* for each target of the batch it has then claimed (port_scan.py:65-66).  The mDNS
\* thread has no such bound: every lookup in progress, and every service that
\* appears in the half second before it notices the event, may still POST.
OneMoreRequest ==
    /\ \A t \in Synchronous \ {"listener"} : begun[t] <= 1
    /\ begun["listener"] <= 1 + claimed

\* capture.py:41-43: SIGTERM ends the process promptly.  Without a packet that holds
\* for four threads of six: after a stop everything that is left in the end is
\* a sniffer waiting for a packet, and main waiting for it.
OnlySniffersLinger ==
    stop ~> [](\A t \in Threads : pc[t] = "ended" \/ (t \in Sniffers /\ pc[t] = "recv"))

\* As soon as ARP and DHCP packets come, any packet of the filter at all, the
\* process ends.
EndsWithPackets ==
    (\A t \in Sniffers : WF_vars(Packet(t))) => (stop ~> Exited)
=============================================================================
