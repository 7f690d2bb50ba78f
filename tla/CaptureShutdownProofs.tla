------------------------ MODULE CaptureShutdownProofs ------------------------
(* Proofs about CaptureShutdown for any size of a batch and any number of  *)
(* mDNS tasks: main says "Stopped." last, and the stop event takes effect   *)
(* within one request, and the scans already claimed.                      *)
EXTENDS CaptureShutdown, TLAPS

\* Where a thread can be before it is started.
NotStarted(t) == \E i \in 1..6 : i > started /\ StartOrder[i] = t

\* Where each thread can be once it has begun a request after the stop: behind
\* its last look at the event, or on the way to the next.
AfterLastRequest(t) ==
    IF t \in Sniffers THEN {"post", "ended"}
    ELSE IF t = "listener" THEN {"scan", "wait", "check", "ended"}
    ELSE {"post", "check", "ended"}

Places == {"new", "setup", "check", "recv", "ignore", "post", "browse", "close",
           "poll", "scan", "wait", "ended"}

\* The steps of each thread's loop.
Loop(t) ==
    {"new", "setup", "ended"} \cup
    (IF t \in Sniffers THEN {"recv", "post", "ignore"}
     ELSE IF t = "mdns" THEN {"browse", "close"}
     ELSE IF t = "traffic" THEN {"check", "recv", "post"}
     ELSE IF t = "listener" THEN {"check", "poll", "scan", "wait"}
     ELSE {"check", "wait", "post"})

Counted ==
    /\ \A t \in Synchronous : begun[t] > 0 => stop /\ pc[t] \in AfterLastRequest(t)
    /\ \A t \in Synchronous \ {"listener"} : begun[t] <= 1
    /\ stop => begun["listener"] + batch <= 1 + claimed

Inv ==
    /\ TypeOK
    /\ \A t \in Threads : pc[t] \in Loop(t)
    /\ \A t \in Threads : NotStarted(t) => pc[t] = "new"
    /\ joined > 0 => started = 6
    /\ \A i \in 1..6 : i <= joined => pc[JoinOrder[i]] = "ended"
    /\ batch > 0 <=> pc["listener"] = "scan"
    /\ tasks > 0 => pc["mdns"] \in {"browse", "close"}
    /\ Counted

(* The two orders are enumerations of the same six threads.                 *)
LEMMA Orders ==
    /\ Len(StartOrder) = 6 /\ Len(JoinOrder) = 6
    /\ \A i \in 1..6 : StartOrder[i] \in Threads /\ JoinOrder[i] \in Threads
    /\ \A i, j \in 1..6 : StartOrder[i] = StartOrder[j] => i = j
    /\ \A t \in Threads : \E i \in 1..6 : JoinOrder[i] = t
BY DEF StartOrder, JoinOrder, Threads

LEMMA SynchronousThreads ==
    /\ Synchronous \subseteq Threads /\ Sniffers \subseteq Synchronous \ {"listener"}
    /\ {"traffic", "daily"} \subseteq Synchronous \ {"listener"} /\ "listener" \in Synchronous
    /\ \A t \in Threads : t = "mdns" \/ t \in Synchronous
BY DEF Synchronous, Threads, Sniffers

(* A synchronous thread that has begun no request, or is behind its last.   *)
LEMMA BegunOrNot ==
    ASSUME Inv
    PROVE  /\ begun \in [Synchronous -> 0..(MaxBatch + 2)] /\ MaxBatch \in Nat
           /\ \A t \in Synchronous : begun[t] = 0 \/ (stop /\ pc[t] \in AfterLastRequest(t))
BY BoundsAssumption DEF Inv, TypeOK, Counted

(* A thread that takes a step of its loop, begins at most one request       *)
(* rightly and touches neither batch nor tasks keeps the invariant.         *)
LEMMA LoopStep ==
    ASSUME Inv, NEW t \in Threads, NEW s \in Loop(t),
           pc[t] \notin {"new", "ended", "scan"}, s \notin {"new", "scan"},
           t = "mdns" => s \in {"browse", "close"} \/ pc[t] = "setup",
           pc' = [pc EXCEPT ![t] = s],
           UNCHANGED <<stop, started, joined, batch, claimed, tasks>>,
           \/ begun' = begun /\ (pc[t] \in AfterLastRequest(t) => s \in AfterLastRequest(t))
           \/ begun' = begun /\ (t = "mdns" \/ begun[t] = 0)
           \/ /\ t \in Synchronous \ {"listener"} /\ begun[t] = 0 /\ s \in AfterLastRequest(t)
              /\ begun' = [begun EXCEPT ![t] = IF stop /\ @ < MaxBatch + 2 THEN @ + 1 ELSE @]
    PROVE  Inv'
<1>1. /\ pc \in [Threads -> Places] /\ begun \in [Synchronous -> 0..(MaxBatch + 2)]
      /\ stop \in BOOLEAN
  BY DEF Inv, TypeOK, Places
<1>2. pc'[t] = s /\ \A u \in Threads : u # t => pc'[u] = pc[u]
  BY <1>1
<1>3. pc' \in [Threads -> Places]
  BY <1>1 DEF Places, Loop
<1>4. /\ begun' \in [Synchronous -> 0..(MaxBatch + 2)]
      /\ \A u \in Synchronous : u # t => begun'[u] = begun[u]
      /\ t \in Synchronous => \/ begun'[t] = begun[t]
                              \/ /\ t # "listener" /\ begun[t] = 0 /\ begun'[t] = 1
                                 /\ stop /\ s \in AfterLastRequest(t)
  BY <1>1, BoundsAssumption
<1>5. TypeOK'
  BY <1>3, <1>4 DEF Inv, TypeOK, Places
<1>6. \A u \in Threads : pc'[u] \in Loop(u)
  BY <1>2 DEF Inv
<1>7. \A u \in Threads : NotStarted(u)' => pc'[u] = "new"
  BY <1>2 DEF Inv, NotStarted
<1>8. \A i \in 1..6 : i <= joined => pc'[JoinOrder[i]] = "ended"
  BY <1>2, Orders DEF Inv
<1>9. pc'["listener"] = "scan" <=> pc["listener"] = "scan"
  BY <1>2 DEF Threads
<1>10. tasks > 0 => pc'["mdns"] \in {"browse", "close"}
  BY <1>2 DEF Inv, Threads
<1>11. \A u \in Synchronous : /\ begun'[u] > 0 => stop /\ pc'[u] \in AfterLastRequest(u)
                              /\ u # "listener" => begun'[u] <= 1
  <2> USE DEF Counted
  <2> SUFFICES ASSUME NEW u \in Synchronous
               PROVE  /\ begun'[u] > 0 => stop /\ pc'[u] \in AfterLastRequest(u)
                      /\ u # "listener" => begun'[u] <= 1
    OBVIOUS
  <2>1. CASE u # t
    BY <1>2, <1>4, <2>1 DEF Inv, Synchronous
  <2>2. CASE u = t
    BY <1>1, <1>2, <1>4, <2>2 DEF Inv, Synchronous
  <2> QED
    BY <2>1, <2>2
<1>12. begun'["listener"] = begun["listener"]
  BY <1>4, SynchronousThreads
<1>13. Counted'
  <2>0. (stop' <=> stop) /\ UNCHANGED <<batch, claimed>>
    OBVIOUS
  <2>1. \A u \in Synchronous : begun'[u] > 0 => stop' /\ pc'[u] \in AfterLastRequest(u)
    BY <1>11, <2>0
  <2>2. stop' => begun'["listener"] + batch' <= 1 + claimed'
    BY <1>12, <2>0 DEF Inv, Counted
  <2>3. \A u \in Synchronous \ {"listener"} : begun'[u] <= 1
    BY <1>11
  <2> QED
    BY <2>1, <2>2, <2>3 DEF Counted, AfterLastRequest
<1>14. /\ joined > 0 => started = 6
       /\ batch > 0 <=> pc["listener"] = "scan"
  BY DEF Inv
<1> QED
  BY <1>5, <1>6, <1>7, <1>8, <1>9, <1>10, <1>13, <1>14 DEF Inv, NotStarted, Loop

LEMMA InitInv == Init => Inv
<1> SUFFICES ASSUME Init PROVE Inv
  OBVIOUS
<1>1. TypeOK
  <2>1. started \in 0..Len(StartOrder) /\ joined \in 0..Len(JoinOrder)
    BY Orders DEF Init
  <2>2. batch \in 0..MaxBatch /\ claimed \in 0..MaxBatch /\ tasks \in 0..MaxTasks
    <3>1. batch = 0 /\ claimed = 0 /\ tasks = 0
      BY DEF Init
    <3> QED
      BY <3>1, BoundsAssumption
  <2>3. begun \in [Synchronous -> 0..(MaxBatch + 2)] /\ pc \in [Threads -> Places]
    BY BoundsAssumption DEF Init, Places
  <2> QED
    BY <2>1, <2>2, <2>3 DEF Init, TypeOK, Places
<1> QED
  BY <1>1, SynchronousThreads, Orders DEF Init, Inv, Counted, Loop, NotStarted, Threads

(* Setting up, dying and looking at the event.                              *)
LEMMA LifeInv ==
    ASSUME Inv, NEW t \in Threads, Setup(t) \/ Die(t) \/ Check(t)
    PROVE  Inv'
<1>1. t = "mdns" \/ begun[t] = 0 \/ (stop /\ pc[t] \in AfterLastRequest(t))
  BY BegunOrNot, SynchronousThreads
<1>2. pc[t] \in Loop(t)
  BY DEF Inv
<1>3. CASE Setup(t)
  <2> DEFINE s == IF t \in Sniffers THEN "recv" ELSE IF t = "mdns" THEN "browse" ELSE "check"
  <2>1. /\ pc[t] = "setup" /\ pc' = [pc EXCEPT ![t] = s]
        /\ UNCHANGED <<stop, started, joined, batch, claimed, tasks, begun>>
    BY <1>3 DEF Setup, Goto, main, scans
  <2>2. s \in Loop(t)
    BY DEF Loop, Threads, Sniffers
  <2>3. t = "mdns" \/ begun[t] = 0
    BY <1>1, <2>1 DEF AfterLastRequest
  <2>4. s \notin {"new", "scan"} /\ (t = "mdns" => s \in {"browse", "close"})
    BY DEF Sniffers
  <2> HIDE DEF s
  <2> QED
    BY <2>1, <2>2, <2>3, <2>4, LoopStep
<1>4. CASE Die(t)
  <2>1. /\ pc[t] \in {"setup", "recv"} /\ pc' = [pc EXCEPT ![t] = "ended"]
        /\ UNCHANGED <<stop, started, joined, batch, claimed, tasks, begun>>
        /\ t = "mdns" => pc[t] = "setup"
    BY <1>4 DEF Die, Goto, main, scans, Sniffers
  <2>2. t = "mdns" \/ begun[t] = 0
    BY <1>1, <2>1 DEF AfterLastRequest
  <2> QED
    BY <2>1, <2>2, LoopStep DEF Loop
<1>5. CASE Check(t)
  <2>1. /\ pc[t] = "check" /\ t \in {"traffic", "listener", "daily"}
        /\ UNCHANGED <<stop, started, joined, batch, claimed, tasks, begun>>
    BY <1>2, <1>5 DEF Check, main, scans, Loop, Threads, Sniffers
  <2>2. CASE stop
    <3>1. pc' = [pc EXCEPT ![t] = "ended"]
      BY <1>5, <2>2 DEF Check, Goto
    <3>2. "ended" \in AfterLastRequest(t)
      BY <2>1 DEF AfterLastRequest, Sniffers
    <3> QED
      BY <2>1, <3>1, <3>2, LoopStep DEF Loop
  <2>3. CASE ~stop
    <3>1. begun[t] = 0
      BY <1>1, <2>1, <2>3
    <3>2. PICK s \in {"recv", "poll", "wait"} : pc' = [pc EXCEPT ![t] = s] /\ s \in Loop(t)
      BY <1>5, <2>1, <2>3 DEF Check, Goto, Loop, Sniffers
    <3> QED
      BY <2>1, <3>1, <3>2, LoopStep
  <2> QED
    BY <2>2, <2>3
<1> QED
  BY <1>3, <1>4, <1>5

(* A sniffer's packets.                                                     *)
LEMMA SnifferInv ==
    ASSUME Inv, NEW t \in Sniffers, Packet(t) \/ StopFilter(t)
    PROVE  Inv'
<1>1. t \in Threads /\ t # "mdns" /\ {"recv", "post", "ignore", "ended"} \subseteq Loop(t)
      /\ AfterLastRequest(t) = {"post", "ended"}
  BY DEF Sniffers, Threads, Loop, AfterLastRequest
<1>2. t \in Synchronous \ {"listener"} /\ (begun[t] = 0 \/ (stop /\ pc[t] \in AfterLastRequest(t)))
  BY BegunOrNot, SynchronousThreads
<1>3. CASE Packet(t)
  <2>1. /\ pc[t] = "recv" /\ begun[t] = 0
        /\ UNCHANGED <<stop, started, joined, batch, claimed, tasks>>
    BY <1>1, <1>2, <1>3 DEF Packet, main, scans
  <2>2. CASE Goto(t, "post") /\ Begin(t)
    BY <1>1, <1>2, <2>1, <2>2, LoopStep DEF Goto, Begin
  <2>3. CASE Goto(t, "ignore") /\ UNCHANGED begun
    BY <1>1, <2>1, <2>3, LoopStep DEF Goto
  <2> QED
    BY <1>3, <2>2, <2>3 DEF Packet
<1>4. CASE StopFilter(t)
  <2>1. /\ pc[t] \in {"post", "ignore"}
        /\ UNCHANGED <<stop, started, joined, batch, claimed, tasks, begun>>
    BY <1>4 DEF StopFilter, main, scans
  <2>2. CASE stop
    <3>1. pc' = [pc EXCEPT ![t] = "ended"]
      BY <1>4, <2>2 DEF StopFilter, Goto
    <3> QED
      BY <1>1, <2>1, <3>1, LoopStep
  <2>3. CASE ~stop
    <3>1. pc' = [pc EXCEPT ![t] = "recv"]
      BY <1>4, <2>3 DEF StopFilter, Goto
    <3> QED
      BY <1>1, <1>2, <2>1, <2>3, <3>1, LoopStep
  <2> QED
    BY <2>2, <2>3
<1> QED
  BY <1>3, <1>4

(* The window's POST, the daily wait and the listener's pause.              *)
LEMMA PlainInv ==
    ASSUME Inv, Receive \/ PostedWindow \/ PollInterval \/ StopWaiting \/ ThreeOClock \/ PostedDaily \/ NoticeStop
    PROVE  Inv'
<1>1. \A t \in Synchronous : begun[t] = 0 \/ pc[t] \in AfterLastRequest(t)
  BY BegunOrNot
<1>2. {"mdns", "traffic", "listener", "daily"} \subseteq Threads
      /\ {"traffic", "daily"} \subseteq Synchronous \ {"listener"}
  BY SynchronousThreads DEF Threads
<1>3. /\ AfterLastRequest("traffic") = {"post", "check", "ended"}
      /\ AfterLastRequest("daily") = {"post", "check", "ended"}
      /\ AfterLastRequest("listener") = {"scan", "wait", "check", "ended"}
  BY DEF AfterLastRequest, Sniffers
<1>4. /\ {"check", "recv", "post"} \subseteq Loop("traffic")
      /\ {"check", "wait", "post", "ended"} \subseteq Loop("daily")
      /\ {"check", "wait"} \subseteq Loop("listener")
      /\ {"browse", "close"} \subseteq Loop("mdns")
  BY DEF Loop, Sniffers
<1>5. CASE Receive
  <2>1. pc["traffic"] = "recv" /\ begun["traffic"] = 0 /\ UNCHANGED <<stop, started, joined, batch, claimed, tasks>>
    BY <1>1, <1>2, <1>3, <1>5 DEF Receive, main, scans
  <2>2. CASE Goto("traffic", "post") /\ Begin("traffic")
    BY <1>2, <1>3, <1>4, <2>1, <2>2, LoopStep DEF Goto, Begin
  <2>3. CASE Goto("traffic", "check") /\ UNCHANGED begun
    BY <1>2, <1>3, <1>4, <2>1, <2>3, LoopStep DEF Goto
  <2> QED
    BY <1>5, <2>2, <2>3 DEF Receive
<1>6. CASE PostedWindow
  BY <1>2, <1>3, <1>4, <1>6, LoopStep DEF PostedWindow, Goto, main, scans
<1>7. CASE PollInterval
  BY <1>2, <1>3, <1>4, <1>7, LoopStep DEF PollInterval, Goto, main, scans
<1>8. CASE StopWaiting
  BY <1>1, <1>2, <1>3, <1>4, <1>8, LoopStep DEF StopWaiting, Goto, main, scans
<1>9. CASE ThreeOClock
  <2>1. pc["daily"] = "wait" /\ begun["daily"] = 0
    BY <1>1, <1>2, <1>3, <1>9 DEF ThreeOClock
  <2> QED
    BY <1>2, <1>3, <1>4, <1>9, <2>1, LoopStep DEF ThreeOClock, Goto, Begin, main, scans
<1>10. CASE PostedDaily
  BY <1>2, <1>3, <1>4, <1>10, LoopStep DEF PostedDaily, Goto, main, scans
<1>11. CASE NoticeStop
  BY <1>1, <1>2, <1>3, <1>4, <1>11, LoopStep DEF NoticeStop, Goto, main, scans
<1> QED
  BY <1>5, <1>6, <1>7, <1>8, <1>9, <1>10, <1>11

(* main: the signal, the starts and the joins.                              *)
LEMMA SigtermInv == ASSUME Inv, Sigterm PROVE Inv'
<1>1. /\ stop' = TRUE /\ ~stop /\ claimed' = batch
      /\ UNCHANGED <<pc, started, joined, batch, tasks, begun>>
  BY DEF Sigterm, main
<1>2. \A t \in Synchronous : begun[t] = 0
  BY <1>1, BegunOrNot
<1>3. TypeOK'
  BY <1>1 DEF Inv, TypeOK
<1>4. Counted'
  <2>1. batch \in Nat
    BY BoundsAssumption DEF Inv, TypeOK
  <2> QED
    BY <1>1, <1>2, <2>1, SynchronousThreads DEF Counted
<1> QED
  BY <1>1, <1>3, <1>4 DEF Inv, NotStarted, Loop

LEMMA StartThreadInv == ASSUME Inv, StartThread PROVE Inv'
<1> DEFINE t == StartOrder[started + 1]
<1>1. /\ started \in 0..5 /\ started' = started + 1
      /\ pc' = [pc EXCEPT ![t] = "setup"]
      /\ UNCHANGED <<stop, joined, batch, claimed, tasks, begun>>
  BY Orders DEF Inv, TypeOK, StartThread, Goto, scans
<1>2. t \in Threads /\ pc \in [Threads -> Places]
  BY <1>1, Orders DEF Inv, TypeOK, Places
<1>3. NotStarted(t)
  BY <1>1 DEF NotStarted
<1>4. pc[t] = "new" /\ joined = 0
  BY <1>1, <1>2, <1>3, Orders DEF Inv, TypeOK
<1>5. pc'[t] = "setup" /\ \A u \in Threads : u # t => pc'[u] = pc[u]
  BY <1>1, <1>2
<1>6. TypeOK'
  <2>1. pc' \in [Threads -> Places]
    BY <1>1, <1>2 DEF Places
  <2>2. started' \in 0..Len(StartOrder)
    BY <1>1, Orders
  <2> QED
    BY <1>1, <2>1, <2>2 DEF Inv, TypeOK, Places
<1>7. \A u \in Threads : pc'[u] \in Loop(u)
  BY <1>5 DEF Inv, Loop
<1>8. \A u \in Threads : NotStarted(u)' => u # t /\ NotStarted(u)
  BY <1>1, Orders DEF NotStarted
<1>9. \A u \in Threads : NotStarted(u)' => pc'[u] = "new"
  BY <1>5, <1>8 DEF Inv
<1>10. batch > 0 <=> pc'["listener"] = "scan"
  BY <1>4, <1>5 DEF Inv, Threads
<1>11. tasks > 0 => pc'["mdns"] \in {"browse", "close"}
  BY <1>4, <1>5 DEF Inv, Threads
<1>12. Counted'
  <2>1. \A u \in Synchronous : begun[u] > 0 => stop /\ pc'[u] \in AfterLastRequest(u)
    <3>1. t \in Synchronous => begun[t] = 0
      BY <1>4, BegunOrNot DEF AfterLastRequest
    <3> QED
      BY <1>5, <3>1, BegunOrNot, SynchronousThreads
  <2> QED
    BY <1>1, <2>1 DEF Inv, Counted, AfterLastRequest
<1> QED
  BY <1>1, <1>4, <1>6, <1>7, <1>9, <1>10, <1>11, <1>12 DEF Inv, Loop

LEMMA JoinThreadInv == ASSUME Inv, JoinThread PROVE Inv'
<1>1. /\ joined \in 0..5 /\ started = 6 /\ joined' = joined + 1
      /\ pc[JoinOrder[joined + 1]] = "ended"
      /\ UNCHANGED <<stop, pc, started, batch, claimed, tasks, begun>>
  BY Orders DEF Inv, TypeOK, JoinThread, Exited, scans
<1>2. TypeOK'
  BY <1>1, Orders DEF Inv, TypeOK
<1>3. \A i \in 1..6 : i <= joined' => pc[JoinOrder[i]] = "ended"
  BY <1>1 DEF Inv
<1> QED
  BY <1>1, <1>2, <1>3 DEF Inv, Counted, Loop, AfterLastRequest, NotStarted

(* The tasks of the mDNS loop.                                              *)
LEMMA TasksInv == ASSUME Inv, ServiceAdded \/ TaskEnds PROVE Inv'
<1>1. UNCHANGED <<stop, pc, started, joined, batch, claimed, begun>>
  BY DEF ServiceAdded, TaskEnds, main, scans
<1>2. tasks' \in 0..MaxTasks /\ (tasks' > 0 => pc["mdns"] \in {"browse", "close"})
  BY BoundsAssumption DEF Inv, TypeOK, ServiceAdded, TaskEnds
<1> QED
  BY <1>1, <1>2 DEF Inv, TypeOK, Counted, Loop, AfterLastRequest, NotStarted

(* Steps that move one thread and change batch or tasks with it.            *)
LEMMA MoveStep ==
    ASSUME Inv, NEW t \in Threads, NEW s \in Loop(t),
           pc[t] \notin {"new", "ended"}, s # "new",
           pc' = [pc EXCEPT ![t] = s],
           UNCHANGED <<stop, started, joined>>,
           batch' \in 0..MaxBatch, claimed' \in 0..MaxBatch, tasks' \in 0..MaxTasks,
           batch' > 0 <=> pc'["listener"] = "scan",
           tasks' > 0 => pc'["mdns"] \in {"browse", "close"},
           begun' \in [Synchronous -> 0..(MaxBatch + 2)],
           \A u \in Synchronous \ {t} : begun'[u] = begun[u],
           t \in Synchronous /\ begun'[t] > 0 => stop /\ s \in AfterLastRequest(t),
           t \in {"listener", "mdns"},
           stop => begun'["listener"] + batch' <= 1 + claimed'
    PROVE  Inv'
<1>1. pc \in [Threads -> Places]
  BY DEF Inv, TypeOK, Places
<1>2. pc'[t] = s /\ \A u \in Threads : u # t => pc'[u] = pc[u]
  BY <1>1
<1>3. pc' \in [Threads -> Places]
  BY <1>1 DEF Places, Loop
<1>4. TypeOK'
  BY <1>3 DEF Inv, TypeOK, Places
<1>5. \A u \in Threads : pc'[u] \in Loop(u)
  BY <1>2 DEF Inv
<1>6. \A u \in Threads : NotStarted(u)' => pc'[u] = "new"
  BY <1>2 DEF Inv, NotStarted
<1>7. \A i \in 1..6 : i <= joined => pc'[JoinOrder[i]] = "ended"
  BY <1>2, Orders DEF Inv
<1>8. Counted'
  <2>1. \A u \in Synchronous : begun'[u] > 0 => stop /\ pc'[u] \in AfterLastRequest(u)
    <3>1. \A u \in Synchronous \ {t} : begun'[u] > 0 => stop /\ pc'[u] \in AfterLastRequest(u)
      BY <1>2, SynchronousThreads DEF Inv, Counted
    <3> QED
      BY <1>2, <3>1
  <2>2. \A u \in Synchronous \ {"listener"} : begun'[u] <= 1
    BY DEF Inv, Counted, Synchronous
  <2> QED
    BY <2>1, <2>2 DEF Counted, AfterLastRequest
<1> QED
  BY <1>4, <1>5, <1>6, <1>7, <1>8 DEF Inv, NotStarted, Loop

LEMMA CloseBrowserInv == ASSUME Inv, CloseBrowser PROVE Inv'
<1>1. /\ pc["mdns"] = "close" /\ pc' = [pc EXCEPT !["mdns"] = "ended"] /\ tasks' = 0
      /\ UNCHANGED <<stop, started, joined, batch, claimed, begun>>
  BY DEF CloseBrowser, Goto, main, scans
<1>2. "mdns" \in Threads /\ "listener" \in Threads /\ "ended" \in Loop("mdns")
  BY DEF Threads, Loop
<1>3. begun \in [Synchronous -> 0..(MaxBatch + 2)] /\ "mdns" \notin Synchronous
  BY BegunOrNot DEF Synchronous
<1>4. batch' \in 0..MaxBatch /\ claimed' \in 0..MaxBatch /\ tasks' \in 0..MaxTasks
  BY <1>1, BoundsAssumption DEF Inv, TypeOK
<1>5. pc'["listener"] = pc["listener"] /\ (batch' > 0 <=> pc["listener"] = "scan")
  BY <1>1, <1>2 DEF Inv, TypeOK
<1>6. pc["mdns"] \notin {"new", "ended"} /\ "ended" # "new" /\ (tasks' > 0 => pc'["mdns"] \in {"browse", "close"})
  BY <1>1
<1>7. begun' = begun
  BY <1>1
<1>8. batch' > 0 <=> pc'["listener"] = "scan"
  BY <1>5
<1>9. stop => begun'["listener"] + batch' <= 1 + claimed'
  BY <1>1 DEF Inv, Counted
<1> QED
  BY <1>1, <1>2, <1>3, <1>4, <1>6, <1>7, <1>8, <1>9, MoveStep

LEMMA PollInv == ASSUME Inv, Poll PROVE Inv'
<1> DEFINE t == "listener"
<1>1. PICK n \in 0..MaxBatch : /\ batch' = n /\ claimed' = IF stop THEN n ELSE claimed
                              /\ pc' = [pc EXCEPT ![t] = IF n = 0 THEN "wait" ELSE "scan"]
  BY DEF Poll, Goto
<1>2. /\ pc[t] = "poll"
      /\ begun' = [begun EXCEPT ![t] = IF stop /\ @ < MaxBatch + 2 THEN @ + 1 ELSE @]
      /\ UNCHANGED <<stop, started, joined, tasks>>
  BY DEF Poll, Begin, main
<1> DEFINE s == IF n = 0 THEN "wait" ELSE "scan"
<1>3. t \in Threads /\ "mdns" \in Threads /\ s \in Loop(t) /\ s \in AfterLastRequest(t)
  BY DEF Threads, Loop, AfterLastRequest, Sniffers
<1>4. begun \in [Synchronous -> 0..(MaxBatch + 2)] /\ MaxBatch \in Nat /\ t \in Synchronous /\ begun[t] = 0
  BY <1>2, BegunOrNot, SynchronousThreads DEF AfterLastRequest, Sniffers
<1>5. /\ begun' \in [Synchronous -> 0..(MaxBatch + 2)]
      /\ \A u \in Synchronous \ {t} : begun'[u] = begun[u]
      /\ begun'[t] = IF stop THEN 1 ELSE 0
  BY <1>2, <1>4
<1>6. pc'[t] = s /\ pc'["mdns"] = pc["mdns"]
  BY <1>1, <1>3 DEF Inv, TypeOK
<1>7. /\ batch' > 0 <=> pc'[t] = "scan"
      /\ batch' \in 0..MaxBatch /\ claimed' \in 0..MaxBatch /\ tasks' \in 0..MaxTasks
  BY <1>1, <1>2, <1>6 DEF Inv, TypeOK
<1>8. tasks' > 0 => pc'["mdns"] \in {"browse", "close"}
  BY <1>2, <1>6 DEF Inv
<1>9. pc' = [pc EXCEPT ![t] = s] /\ s # "new"
  BY <1>1
<1>10. stop => begun'[t] + batch' <= 1 + claimed'
  BY <1>1, <1>5
<1>11. begun'[t] > 0 => stop /\ s \in AfterLastRequest(t)
  BY <1>3, <1>5
<1> HIDE DEF s
<1> QED
  BY <1>2, <1>3, <1>5, <1>7, <1>8, <1>9, <1>10, <1>11, MoveStep

LEMMA ScanInv == ASSUME Inv, Scan PROVE Inv'
<1> DEFINE t == "listener"
           s == IF batch' = 0 THEN "wait" ELSE "scan"
<1>1. /\ pc[t] = "scan" /\ batch' = batch - 1 /\ pc' = [pc EXCEPT ![t] = s]
      /\ begun' = [begun EXCEPT ![t] = IF stop /\ @ < MaxBatch + 2 THEN @ + 1 ELSE @]
      /\ UNCHANGED <<stop, started, joined, tasks, claimed>>
  BY DEF Scan, Begin, Goto, main
<1>2. t \in Threads /\ "mdns" \in Threads /\ s \in Loop(t) /\ s \in AfterLastRequest(t) /\ s # "new"
  BY DEF Threads, Loop, AfterLastRequest, Sniffers
<1>3. batch \in 1..MaxBatch /\ MaxBatch \in Nat /\ claimed \in 0..MaxBatch
  BY <1>1, BoundsAssumption DEF Inv, TypeOK
<1>4. pc'[t] = s /\ pc'["mdns"] = pc["mdns"]
  BY <1>1, <1>2 DEF Inv, TypeOK
<1>5. (batch' > 0 <=> pc'[t] = "scan") /\ batch' \in 0..MaxBatch /\ tasks' \in 0..MaxTasks
  BY <1>1, <1>3, <1>4 DEF Inv, TypeOK
<1>6. begun \in [Synchronous -> 0..(MaxBatch + 2)] /\ t \in Synchronous /\ (begun[t] > 0 => stop)
      /\ (stop => begun[t] + batch <= 1 + claimed)
  BY BegunOrNot, SynchronousThreads DEF Inv, Counted
<1>7. /\ begun' \in [Synchronous -> 0..(MaxBatch + 2)] /\ (begun'[t] > 0 => stop)
      /\ \A u \in Synchronous \ {t} : begun'[u] = begun[u]
      /\ begun'[t] \in Nat /\ begun'[t] <= begun[t] + 1
  BY <1>1, <1>3, <1>6
<1>8. stop => begun'[t] + batch' <= 1 + claimed'
  BY <1>1, <1>3, <1>6, <1>7
<1>9. tasks' > 0 => pc'["mdns"] \in {"browse", "close"}
  BY <1>1, <1>4 DEF Inv
<1>10. claimed' \in 0..MaxBatch
  BY <1>1, <1>3
<1> HIDE DEF s
<1> QED
  BY <1>1, <1>2, <1>5, <1>7, <1>8, <1>9, <1>10, MoveStep

-----------------------------------------------------------------------------
(* The invariant of every run of the container, whichever threads die.      *)
THEOREM ShutdownInvariant == Spec => []Inv
<1>1. Inv /\ [Next]_vars => Inv'
  <2> SUFFICES ASSUME Inv, [Next]_vars PROVE Inv'
    OBVIOUS
  <2>1. CASE UNCHANGED vars
    BY <2>1 DEF vars, main, Inv, Counted, TypeOK, Loop, AfterLastRequest, NotStarted
  <2> QED
    BY <2>1, SigtermInv, StartThreadInv, JoinThreadInv, LifeInv, SnifferInv, TasksInv, PlainInv,
       CloseBrowserInv, PollInv, ScanInv DEF Next
<1> QED
  BY <1>1, InitInv, PTL DEF Spec

(* main()'s "Stopped." is the end of everything: all threads have ended,    *)
(* no claimed scan request is left and no mDNS task.                        *)
THEOREM EverythingStopped == Spec => []StoppedLast
<1>1. Inv => StoppedLast
  <2> SUFFICES ASSUME Inv, Exited PROVE (\A t \in Threads : pc[t] = "ended") /\ batch = 0 /\ tasks = 0
    BY DEF StoppedLast
  <2>1. joined = 6
    BY Orders DEF Exited
  <2>2. \A t \in Threads : pc[t] = "ended"
    BY <2>1, Orders DEF Inv
  <2>3. batch = 0 /\ tasks = 0
    BY <2>2 DEF Inv, TypeOK, Threads
  <2> QED
    BY <2>2, <2>3
<1> QED
  BY <1>1, ShutdownInvariant, PTL

(* After the stop event each thread but the mDNS one begins at most one     *)
(* more request, and the listener the scans it has then claimed.            *)
THEOREM StopTakesEffect == Spec => []OneMoreRequest
<1>1. Inv => OneMoreRequest
  <2> SUFFICES ASSUME Inv PROVE OneMoreRequest
    OBVIOUS
  <2>1. batch \in Nat /\ claimed \in Nat /\ begun["listener"] \in Nat
    BY BegunOrNot, BoundsAssumption, SynchronousThreads DEF Inv, TypeOK
  <2>2. begun["listener"] <= 1 + claimed
    <3>1. CASE stop
      BY <2>1, <3>1 DEF Inv, Counted
    <3>2. CASE ~stop
      BY <2>1, <3>2, BegunOrNot, SynchronousThreads
    <3> QED
      BY <3>1, <3>2
  <2> QED
    BY <2>2 DEF Inv, Counted, OneMoreRequest
<1> QED
  BY <1>1, ShutdownInvariant, PTL
=============================================================================
