------------------------- MODULE ScanPipelineProofs -------------------------
(* Proofs about ScanPipeline, for any number of requests, devices, polls   *)
(* in flight and faults: what the scanner is handed it is handed once, no  *)
(* request is forgotten without a fault, and the pipeline implements       *)
(* ScanRequests.                                                           *)
EXTENDS ScanPipeline, TLAPS

(* The listener waits for a poll exactly while it polls, has a target from *)
(* the scan to the answer of the POST, and the API works on that POST.     *)
Listening ==
    /\ listener.pc = "poll" <=> awaited # NONE
    /\ awaited # NONE => get[awaited].pc # "idle"
    /\ listener.pc \in {"idle", "poll"} => listener.batch = {}
    /\ listener.pc \in {"scan", "post"} <=> listener.target # NONE
    /\ listener.pc = "scan" => listener.target \notin posting
    /\ listener.pc = "post" => listener.target \in posting

(* A poll has rows once it has selected, and answers when they are claimed.*)
Polled ==
    \A p \in Polls :
        /\ get[p].pc \in {"idle", "select"} => get[p].rows = {}
        /\ get[p].pc = "commit" => \A r \in get[p].rows : row[r] # "absent"
        /\ get[p].pc = "reply" => \A r \in get[p].rows : row[r] = "claimed"

(* What the listener holds was handed to it once and has no result yet;    *)
(* what the awaited poll is about to deliver never was.                    *)
Held == listener.batch \cup posting \cup (IF listener.target = NONE THEN {} ELSE {listener.target})

HandedOnce ==
    /\ \A r \in Held : handed[r] = 1 /\ recorded[r] = 0
    /\ \A r \in listener.batch : r \notin posting /\ r # listener.target
    /\ \A r \in Requests : handed[r] = 1 => row[r] = "claimed"
    /\ awaited # NONE => \A r \in get[awaited].rows : handed[r] = 0

(* Without a fault no poll but the awaited one is in flight.               *)
Faultless ==
    faults = 0 => \A p \in Polls : get[p].pc # "idle" => p = awaited

Inv == TypeOK /\ Listening /\ Polled /\ DeliveredOnce /\ HandedOnce /\ Faultless /\ NothingForgotten

-----------------------------------------------------------------------------
(* The invariant is kept: the backend's steps.                             *)

LEMMA NewDataInv ==
    ASSUME Inv, (\E r \in Requests : QueueScan(r)) \/ (\E d \in Devices : LocateDevice(d))
    PROVE  Inv'
<1>1. UNCHANGED <<get, awaited, listener, posting, handed, recorded, faults>>
  BY DEF QueueScan, LocateDevice
<1>2. /\ row' \in [Requests -> {"absent", "unclaimed", "claimed"}] /\ located' \subseteq Devices
      /\ \A r \in Requests : row'[r] = row[r] \/ (row[r] = "absent" /\ row'[r] = "unclaimed")
  <2>1. CASE \E r \in Requests : QueueScan(r)
    BY <2>1 DEF Inv, TypeOK, QueueScan
  <2>2. CASE \E d \in Devices : LocateDevice(d)
    BY <2>2 DEF Inv, TypeOK, LocateDevice
  <2> QED
    BY <2>1, <2>2
<1>3. TypeOK' /\ Listening' /\ Faultless' /\ DeliveredOnce'
  BY <1>1, <1>2 DEF Inv, TypeOK, Listening, Faultless, DeliveredOnce
<1>4. Polled'
  BY <1>1, <1>2 DEF Inv, TypeOK, Polled
<1>5. HandedOnce'
  BY <1>1, <1>2 DEF Inv, TypeOK, HandedOnce, Held
<1>6. NothingForgotten'
  BY <1>1, <1>2 DEF Inv, NothingForgotten, InScanner
<1> QED
  BY <1>3, <1>4, <1>5, <1>6 DEF Inv

LEMMA SelectInv == ASSUME Inv, NEW p \in Polls, SelectUnclaimed(p) PROVE Inv'
<1> DEFINE next == IF Unclaimed = {} THEN "reply" ELSE "commit"
<1>1. /\ get[p].pc = "select" /\ get[p].rows = {} /\ next \in {"reply", "commit"}
      /\ get' = [get EXCEPT ![p] = [pc |-> next, rows |-> Unclaimed]]
      /\ UNCHANGED <<row, located, awaited, listener, posting, handed, recorded, faults>>
  BY DEF SelectUnclaimed, Inv, Polled
<1>2. /\ Unclaimed \subseteq Requests /\ (next = "reply" => Unclaimed = {})
      /\ \A r \in Unclaimed : row[r] = "unclaimed" /\ handed[r] = 0
  <2>1. next = "reply" => Unclaimed = {}
    OBVIOUS
  <2>2. \A r \in Requests : row[r] = "unclaimed" => handed[r] = 0
    BY DEF Inv, TypeOK, HandedOnce, DeliveredOnce
  <2> QED
    BY <2>1, <2>2 DEF Unclaimed
<1> HIDE DEF next
<1>3. TypeOK'
  BY <1>1, <1>2 DEF Inv, TypeOK
<1>4. \A q \in Polls : /\ q # p => get'[q] = get[q]
                       /\ q = p => get'[q] = [pc |-> next, rows |-> Unclaimed]
  BY <1>1 DEF Inv, TypeOK
<1>5. Listening' /\ Polled' /\ Faultless' /\ DeliveredOnce'
  BY <1>1, <1>2, <1>4 DEF Inv, TypeOK, Listening, Polled, Faultless, DeliveredOnce
<1>6. HandedOnce' /\ NothingForgotten'
  BY <1>1, <1>2, <1>4 DEF Inv, TypeOK, HandedOnce, Held, NothingForgotten, InScanner
<1> QED
  BY <1>3, <1>5, <1>6 DEF Inv

LEMMA CommitInv == ASSUME Inv, NEW p \in Polls, CommitClaims(p) PROVE Inv'
<1>1. /\ get[p].pc = "commit"
      /\ row' = [r \in Requests |-> IF r \in get[p].rows THEN "claimed" ELSE row[r]]
      /\ get' = [get EXCEPT ![p].pc = "reply"]
      /\ UNCHANGED <<located, awaited, listener, posting, handed, recorded, faults>>
  BY DEF CommitClaims
<1>2. \A q \in Polls : /\ get'[q].rows = get[q].rows
                       /\ get'[q].pc = IF q = p THEN "reply" ELSE get[q].pc
  BY <1>1 DEF Inv, TypeOK
<1>3. TypeOK'
  BY <1>1 DEF Inv, TypeOK
<1>4. Listening' /\ Faultless' /\ DeliveredOnce'
  BY <1>1, <1>2 DEF Inv, TypeOK, Listening, Faultless, DeliveredOnce
<1>5. Polled'
  BY <1>1, <1>2 DEF Inv, TypeOK, Polled
<1>6. HandedOnce'
  BY <1>1, <1>2 DEF Inv, TypeOK, HandedOnce, Held
<1>7. NothingForgotten'
  <2> SUFFICES ASSUME faults = 0, NEW r \in Requests, row'[r] = "claimed"
               PROVE  r \in InScanner' \/ recorded'[r] = 1
    BY <1>1 DEF NothingForgotten
  <2>1. awaited = p
    BY <1>1 DEF Inv, Faultless
  <2>2. InScanner' = get[p].rows \cup listener.batch \cup {listener.target} \cup posting
    BY <1>1, <1>2, <2>1, ConstantsAssumption DEF InScanner
  <2>3. InScanner = InScanner'
    BY <1>1, <2>1, <2>2, ConstantsAssumption DEF InScanner
  <2> QED
    BY <1>1, <2>2, <2>3 DEF Inv, NothingForgotten
<1> QED
  BY <1>3, <1>4, <1>5, <1>6, <1>7 DEF Inv

LEMMA ReplyInv == ASSUME Inv, NEW p \in Polls, Reply(p) PROVE Inv'
<1>1. /\ get[p].pc = "reply" /\ get' = [get EXCEPT ![p] = NoPoll]
      /\ UNCHANGED <<row, located, posting, recorded, faults>>
  BY DEF Reply
<1>2. \A q \in Polls : /\ q # p => get'[q] = get[q]
                       /\ get'[p].pc = "idle" /\ get'[p].rows = {}
  BY <1>1 DEF Inv, TypeOK, NoPoll
<1>3. Polled' /\ get' \in [Polls -> [pc : {"idle", "select", "commit", "reply"}, rows : SUBSET Requests]]
  BY <1>1, <1>2 DEF Inv, TypeOK, Polled, NoPoll
<1>4. CASE awaited # p
  <2>1. UNCHANGED <<awaited, listener, handed>>
    BY <1>4 DEF Reply
  <2> QED
    BY <1>1, <1>2, <1>3, <1>4, <2>1 DEF Inv, TypeOK, Listening, DeliveredOnce, HandedOnce, Held, Faultless,
       NothingForgotten, InScanner
<1>5. CASE awaited = p
  <2> DEFINE rows == get[p].rows
  <2>1. /\ awaited' = NONE
        /\ listener' = [pc |-> "batch", batch |-> rows, target |-> NONE]
        /\ handed' = [r \in Requests |-> IF r \in rows THEN handed[r] + 1 ELSE handed[r]]
    BY <1>5 DEF Reply, Waiting
  <2>2. listener.batch = {} /\ listener.target = NONE /\ awaited # NONE
    BY <1>5, ConstantsAssumption DEF Inv, Listening
  <2>3. /\ rows \subseteq Requests
        /\ \A r \in rows : handed[r] = 0 /\ recorded[r] = 0 /\ row[r] = "claimed"
    BY <1>1, <1>5, <2>2 DEF Inv, TypeOK, Polled, DeliveredOnce, HandedOnce
  <2>4. \A r \in rows : r \notin posting
    BY <2>3 DEF Inv, HandedOnce, Held
  <2>5. TypeOK' /\ Listening' /\ Faultless'
    BY <1>1, <1>2, <1>3, <1>5, <2>1, <2>2, <2>3 DEF Inv, TypeOK, Listening, Faultless
  <2>6. DeliveredOnce' /\ HandedOnce'
    BY <1>1, <2>1, <2>2, <2>3, <2>4, ConstantsAssumption DEF Inv, TypeOK, DeliveredOnce, HandedOnce, Held
  <2>7. NothingForgotten'
    BY <1>1, <1>5, <2>1, <2>2 DEF Inv, NothingForgotten, InScanner
  <2> QED
    BY <1>3, <2>5, <2>6, <2>7 DEF Inv
<1> QED
  BY <1>4, <1>5

LEMMA RecordInv == ASSUME Inv, NEW r \in Requests, RecordResult(r) PROVE Inv'
<1>1. /\ r \in posting /\ posting' = posting \ {r}
      /\ recorded' = [recorded EXCEPT ![r] = @ + 1]
      /\ UNCHANGED <<row, located, get, awaited, handed, faults>>
  BY DEF RecordResult
<1>2. handed[r] = 1 /\ recorded[r] = 0 /\ r \notin listener.batch /\ r # NONE
  BY <1>1, ConstantsAssumption DEF Inv, HandedOnce, Held
<1>3. /\ listener'.batch = listener.batch
      /\ IF listener.pc = "post" /\ listener.target = r
         THEN listener'.pc = "batch" /\ listener'.target = NONE
         ELSE listener' = listener
      /\ listener' \in [pc : {"idle", "poll", "batch", "scan", "post"},
                        batch : SUBSET Requests, target : Requests \cup {NONE}]
  BY DEF RecordResult, Inv, TypeOK
<1>4. TypeOK' /\ Listening' /\ Polled' /\ Faultless'
  BY <1>1, <1>2, <1>3 DEF Inv, TypeOK, Listening, Polled, Faultless
<1>5. DeliveredOnce'
  BY <1>1, <1>2 DEF Inv, TypeOK, DeliveredOnce
<1>6. HandedOnce'
  <2>1. Held' \subseteq Held \ {r}
    BY <1>1, <1>2, <1>3 DEF Inv, Listening, Held
  <2>2. \A q \in Held' : handed[q] = 1 /\ recorded'[q] = 0
    <3> SUFFICES ASSUME NEW q \in Held' PROVE handed[q] = 1 /\ recorded'[q] = 0
      OBVIOUS
    <3>1. q \in Held /\ q # r
      BY <2>1
    <3>2. q \in Requests
      BY <3>1, ConstantsAssumption DEF Held, Inv, TypeOK
    <3> QED
      BY <1>1, <3>1, <3>2 DEF Inv, TypeOK, HandedOnce
  <2>3. \A q \in listener'.batch : q \notin posting' /\ q # listener'.target
    BY <1>1, <1>3, ConstantsAssumption DEF Inv, TypeOK, HandedOnce
  <2> QED
    BY <1>1, <2>2, <2>3 DEF Inv, HandedOnce
<1>7. NothingForgotten'
  BY <1>1, <1>2, <1>3 DEF Inv, TypeOK, NothingForgotten, InScanner
<1> QED
  BY <1>4, <1>5, <1>6, <1>7 DEF Inv

-----------------------------------------------------------------------------
(* The listener's steps, and the faults.                                   *)

LEMMA PollInv == ASSUME Inv, NEW p \in Polls, Poll(p) PROVE Inv'
<1>1. /\ listener.pc = "idle" /\ get[p].pc = "idle" /\ awaited' = p
      /\ get' = [get EXCEPT ![p].pc = "select"]
      /\ listener' = [listener EXCEPT !.pc = "poll"]
      /\ UNCHANGED <<row, located, posting, handed, recorded, faults>>
  BY DEF Poll
<1>2. \A q \in Polls : /\ get'[q].rows = get[q].rows
                       /\ get'[q].pc = IF q = p THEN "select" ELSE get[q].pc
  BY <1>1 DEF Inv, TypeOK
<1>3. /\ listener'.pc = "poll" /\ listener'.batch = listener.batch /\ listener'.target = listener.target
      /\ awaited = NONE /\ p # NONE /\ get[p].rows = {}
  BY <1>1, ConstantsAssumption DEF Inv, TypeOK, Listening, Polled
<1>4. TypeOK'
  BY <1>1 DEF Inv, TypeOK
<1>5. Listening' /\ Polled' /\ DeliveredOnce'
  BY <1>1, <1>2, <1>3 DEF Inv, TypeOK, Listening, Polled, DeliveredOnce
<1>6. HandedOnce'
  BY <1>1, <1>2, <1>3 DEF Inv, HandedOnce, Held
<1>7. Faultless'
  BY <1>1, <1>2, <1>3, ConstantsAssumption DEF Inv, Faultless
<1>8. NothingForgotten'
  BY <1>1, <1>2, <1>3 DEF Inv, NothingForgotten, InScanner
<1> QED
  BY <1>4, <1>5, <1>6, <1>7, <1>8 DEF Inv

LEMMA ListenerInv == ASSUME Inv, NextTarget \/ PostResult PROVE Inv'
<1>1. CASE NextTarget
  <2>1. /\ listener.pc = "batch" /\ listener.target = NONE /\ awaited = NONE
        /\ UNCHANGED <<row, located, get, posting, recorded, awaited, handed, faults>>
    BY <1>1 DEF NextTarget, backend, Inv, Listening
  <2>2. CASE \E r \in listener.batch :
               listener' = [pc |-> "scan", batch |-> listener.batch \ {r}, target |-> r]
    <3>1. PICK r \in listener.batch :
            listener' = [pc |-> "scan", batch |-> listener.batch \ {r}, target |-> r]
      BY <2>2
    <3>2. r \in Requests /\ r # NONE /\ r \notin posting
      BY ConstantsAssumption DEF Inv, TypeOK, HandedOnce
    <3>3. TypeOK' /\ Listening' /\ Polled' /\ DeliveredOnce' /\ Faultless'
      BY <2>1, <3>1, <3>2 DEF Inv, TypeOK, Listening, Polled, DeliveredOnce, Faultless
    <3>4. HandedOnce'
      BY <2>1, <3>1, <3>2 DEF Inv, HandedOnce, Held
    <3>5. NothingForgotten'
      BY <2>1, <3>1, <3>2, ConstantsAssumption DEF Inv, NothingForgotten, InScanner
    <3> QED
      BY <3>3, <3>4, <3>5 DEF Inv
  <2>3. CASE listener.batch = {} /\ listener' = Waiting
    <3>1. listener'.pc = "idle" /\ listener'.batch = {} /\ listener'.target = NONE
      BY <2>3 DEF Waiting
    <3>2. TypeOK' /\ Listening' /\ Polled' /\ DeliveredOnce' /\ Faultless'
      BY <2>1, <2>3 DEF Inv, TypeOK, Listening, Polled, DeliveredOnce, Faultless, Waiting
    <3>3. HandedOnce' /\ NothingForgotten'
      BY <2>1, <2>3, <3>1 DEF Inv, HandedOnce, Held, NothingForgotten, InScanner
    <3> QED
      BY <3>2, <3>3 DEF Inv
  <2> QED
    BY <1>1, <2>2, <2>3 DEF NextTarget
<1>2. CASE PostResult
  <2>1. /\ listener.pc = "scan" /\ listener' = [listener EXCEPT !.pc = "post"]
        /\ posting' = posting \cup {listener.target}
        /\ UNCHANGED <<row, located, get, awaited, handed, recorded, faults>>
    BY <1>2 DEF PostResult
  <2>2. /\ listener'.pc = "post" /\ listener'.batch = listener.batch /\ listener'.target = listener.target
        /\ listener.target # NONE /\ listener.target \in Requests /\ listener.target \notin listener.batch
    BY <2>1 DEF Inv, TypeOK, Listening, HandedOnce
  <2>3. TypeOK' /\ Listening' /\ Polled' /\ DeliveredOnce' /\ Faultless'
    BY <2>1, <2>2 DEF Inv, TypeOK, Listening, Polled, DeliveredOnce, Faultless
  <2>4. HandedOnce'
    BY <2>1, <2>2 DEF Inv, HandedOnce, Held
  <2>5. NothingForgotten'
    BY <2>1, <2>2 DEF Inv, NothingForgotten, InScanner
  <2> QED
    BY <2>3, <2>4, <2>5 DEF Inv
<1> QED
  BY <1>1, <1>2

(* A fault leaves what is stored and handed as it is, takes something from *)
(* the scanner's hands and claims nothing.                                 *)
LEMMA FaultInv ==
    ASSUME Inv, TypeOK', Listening', Polled', Fault, UNCHANGED <<row, handed, recorded>>,
           listener'.batch \subseteq listener.batch, posting' \subseteq posting,
           listener'.target \in {listener.target, NONE},
           awaited' # NONE => awaited' = awaited /\ get'[awaited].rows = get[awaited].rows
    PROVE  Inv'
<1>1. faults' # 0
  BY DEF Fault, Inv, TypeOK
<1>2. DeliveredOnce' /\ Faultless' /\ NothingForgotten'
  BY <1>1 DEF Inv, DeliveredOnce, Faultless, NothingForgotten
<1>3. Held' \subseteq Held
  BY DEF Held
<1>4. \A r \in listener'.batch : r \notin posting' /\ r # listener'.target
  BY ConstantsAssumption DEF Inv, TypeOK, HandedOnce
<1>5. HandedOnce'
  BY <1>3, <1>4 DEF Inv, HandedOnce
<1> QED
  BY <1>2, <1>5 DEF Inv

LEMMA TimeoutsInv == ASSUME Inv, PollTimesOut \/ ScanFails \/ PostTimesOut PROVE Inv'
<1>1. UNCHANGED <<row, located, get, posting, handed, recorded>> /\ Fault
  BY DEF PollTimesOut, ScanFails, PostTimesOut, backend
<1>2. CASE PollTimesOut
  <2>1. /\ awaited' = NONE /\ listener' = Waiting
        /\ listener'.pc = "idle" /\ listener'.batch = {} /\ listener'.target = NONE
    BY <1>2 DEF PollTimesOut, Waiting
  <2>2. TypeOK'
    BY <1>1, <2>1, ConstantsAssumption DEF Inv, TypeOK, Fault, Waiting
  <2>3. Listening' /\ Polled'
    BY <1>1, <2>1 DEF Inv, Listening, Polled
  <2> QED
    BY <1>1, <2>1, <2>2, <2>3, FaultInv
<1>3. CASE ScanFails \/ PostTimesOut
  <2>1. /\ awaited' = awaited /\ awaited = NONE /\ listener.pc \in {"scan", "post"}
        /\ listener' = [listener EXCEPT !.pc = "batch", !.target = NONE]
    BY <1>3 DEF ScanFails, PostTimesOut, Inv, Listening
  <2>2. /\ listener'.pc = "batch" /\ listener'.batch = listener.batch /\ listener'.target = NONE
    BY <2>1 DEF Inv, TypeOK
  <2>3. TypeOK'
    <3>1. listener' \in [pc : {"idle", "poll", "batch", "scan", "post"},
                         batch : SUBSET Requests, target : Requests \cup {NONE}]
      BY <2>1 DEF Inv, TypeOK
    <3>2. faults' \in 0..MaxFaults
      BY <1>1, ConstantsAssumption DEF Inv, TypeOK, Fault
    <3> QED
      BY <1>1, <2>1, <3>1, <3>2 DEF Inv, TypeOK
  <2>4. Listening' /\ Polled'
    BY <1>1, <2>1, <2>2 DEF Inv, Listening, Polled
  <2> QED
    BY <1>1, <2>1, <2>2, <2>3, <2>4, FaultInv
<1> QED
  BY <1>2, <1>3

LEMMA IngestFailsInv == ASSUME Inv, NEW r \in Requests, IngestFails(r) PROVE Inv'
<1>1. /\ r \in posting /\ posting' = posting \ {r} /\ Fault
      /\ UNCHANGED <<row, located, get, awaited, handed, recorded>>
  BY DEF IngestFails
<1>2. /\ listener'.batch = listener.batch
      /\ IF listener.pc = "post" /\ listener.target = r
         THEN listener'.pc = "batch" /\ listener'.target = NONE
         ELSE listener' = listener
      /\ listener' \in [pc : {"idle", "poll", "batch", "scan", "post"},
                        batch : SUBSET Requests, target : Requests \cup {NONE}]
  BY DEF IngestFails, Inv, TypeOK
<1>3. TypeOK'
  BY <1>1, <1>2, ConstantsAssumption DEF Inv, TypeOK, Fault
<1>4. Listening' /\ Polled'
  BY <1>1, <1>2 DEF Inv, TypeOK, Listening, Polled
<1>5. listener'.target \in {listener.target, NONE}
  BY <1>2
<1> QED
  BY <1>1, <1>2, <1>3, <1>4, <1>5, FaultInv

LEMMA RestartsInv == ASSUME Inv, RestartApi \/ RestartCapture PROVE Inv'
<1>1. UNCHANGED <<row, located, handed, recorded>> /\ Fault /\ awaited' = NONE
  BY DEF RestartApi, RestartCapture, Disconnected, backend
<1>2. CASE RestartApi
  <2>1. /\ get' = [p \in Polls |-> NoPoll] /\ posting' = {}
        /\ listener' = CASE listener.pc = "poll" -> Waiting
                         [] listener.pc = "post" -> [listener EXCEPT !.pc = "batch", !.target = NONE]
                         [] OTHER -> listener
    BY <1>2 DEF RestartApi, Disconnected
  <2>2. /\ listener'.batch \subseteq listener.batch
        /\ \/ listener'.pc \in {"idle", "batch"} /\ listener'.target = NONE
           \/ listener' = listener /\ listener.pc \notin {"poll", "post"}
        /\ listener' \in [pc : {"idle", "poll", "batch", "scan", "post"},
                          batch : SUBSET Requests, target : Requests \cup {NONE}]
        /\ listener'.pc = "idle" => listener'.batch = {}
    BY <2>1 DEF Waiting, Inv, TypeOK, Listening
  <2>3. TypeOK' /\ Polled'
    BY <1>1, <2>1, <2>2, ConstantsAssumption DEF Inv, TypeOK, Polled, Fault, NoPoll
  <2>4. Listening'
    BY <1>1, <2>1, <2>2 DEF Inv, TypeOK, Listening
  <2> QED
    BY <1>1, <2>1, <2>2, <2>3, <2>4, FaultInv
<1>3. CASE RestartCapture
  <2>1. /\ listener' = Waiting /\ UNCHANGED <<get, posting>>
        /\ listener'.pc = "idle" /\ listener'.batch = {} /\ listener'.target = NONE
    BY <1>3 DEF RestartCapture, Waiting, backend
  <2>2. TypeOK'
    BY <1>1, <2>1, ConstantsAssumption DEF Inv, TypeOK, Fault, Waiting
  <2>3. Listening' /\ Polled'
    BY <1>1, <2>1 DEF Inv, Listening, Polled
  <2> QED
    BY <1>1, <2>1, <2>2, <2>3, FaultInv
<1> QED
  BY <1>2, <1>3

-----------------------------------------------------------------------------
(* What follows from the invariant.                                        *)

LEMMA InvNext == ASSUME Inv, [Next]_vars PROVE Inv'
<1>1. CASE UNCHANGED vars
  BY <1>1 DEF vars, Inv, TypeOK, Listening, Polled, DeliveredOnce, HandedOnce, Held, Faultless,
     NothingForgotten, InScanner
<1> QED
  BY <1>1, NewDataInv, SelectInv, CommitInv, ReplyInv, RecordInv, PollInv, ListenerInv, TimeoutsInv,
     IngestFailsInv, RestartsInv DEF Next

THEOREM PipelineInvariant == Spec => []Inv
<1>1. Init => Inv
  <2> SUFFICES ASSUME Init PROVE Inv
    OBVIOUS
  <2>1. TypeOK
    BY ConstantsAssumption DEF Init, TypeOK, NoPoll, Waiting
  <2>2. Listening /\ Polled /\ Faultless
    BY DEF Init, Listening, Polled, Faultless, NoPoll, Waiting
  <2>3. DeliveredOnce /\ HandedOnce /\ NothingForgotten
    BY DEF Init, DeliveredOnce, HandedOnce, Held, NothingForgotten, NoPoll, Waiting
  <2> QED
    BY <2>1, <2>2, <2>3 DEF Inv
<1> QED
  BY <1>1, InvNext, PTL DEF Spec

(* No row and no request in flight is malformed.                           *)
THEOREM TypeCorrect == Spec => []TypeOK
  BY PipelineInvariant, PTL DEF Inv

(* However polls time out, overlap and are cut off, a request is handed to *)
(* the listener once at most and recorded once at most.                    *)
THEOREM AtMostOnce == Spec => []DeliveredOnce
  BY PipelineInvariant, PTL DEF Inv

(* Without a fault a claimed request is with the scanner or recorded.      *)
THEOREM NoneForgotten == Spec => []NothingForgotten
  BY PipelineInvariant, PTL DEF Inv

-----------------------------------------------------------------------------
(* The pipeline implements ScanRequests.  A step that neither claims nor   *)
(* records can at most lose what the scanner had.                          *)

LEMMA LosesOnly ==
    ASSUME recorded \in [Requests -> Nat], UNCHANGED <<row, recorded>>,
           \A r \in Requests : row[r] = "claimed" /\ r \in InScanner' => r \in InScanner
    PROVE  Abstract!Lose
<1> DEFINE S == {r \in Requests : row[r] = "claimed" /\ ~(recorded[r] > 0) /\ r \in InScanner /\ r \notin InScanner'}
<1>1. \A r \in S : Stage[r] = "handed"
  <2> SUFFICES ASSUME NEW r \in S PROVE Stage[r] = "handed"
    OBVIOUS
  <2>1. r \in Requests /\ row[r] = "claimed" /\ ~(recorded[r] > 0) /\ recorded[r] = 0 /\ r \in InScanner
    OBVIOUS
  <2> HIDE DEF S
  <2> QED
    BY <2>1 DEF Stage
<1>2. \A r \in Requests : Stage'[r] = IF r \in S THEN "lost" ELSE Stage[r]
  BY DEF Stage
<1>3. Stage' = [r \in Requests |-> IF r \in S THEN "lost" ELSE Stage[r]]
  BY <1>2 DEF Stage
<1>4. S \in SUBSET Requests
  OBVIOUS
<1> HIDE DEF S
<1> QED
  BY <1>1, <1>3, <1>4 DEF Abstract!Lose

LEMMA QueueMaps == ASSUME Inv, NEW r \in Requests, QueueScan(r) PROVE Abstract!Queue
<1>1. /\ row[r] = "absent" /\ row' = [row EXCEPT ![r] = "unclaimed"]
      /\ UNCHANGED <<get, awaited, listener, posting, recorded>>
  BY DEF QueueScan
<1>2. Stage[r] = "none"
  BY <1>1 DEF Stage
<1>3. InScanner' = InScanner
  BY <1>1 DEF InScanner
<1>4. \A q \in Requests : row'[q] = IF q = r THEN "unclaimed" ELSE row[q]
  BY <1>1 DEF Inv, TypeOK
<1>5. Stage' = [q \in Requests |-> IF q = r THEN "queued" ELSE Stage[q]]
  <2> SUFFICES ASSUME NEW q \in Requests PROVE Stage'[q] = IF q = r THEN "queued" ELSE Stage[q]
    BY DEF Stage
  <2> QED
    BY <1>1, <1>3, <1>4 DEF Stage
<1>6. Stage' = [Stage EXCEPT ![r] = "queued"]
  BY <1>5 DEF Stage
<1> QED
  BY <1>2, <1>6 DEF Abstract!Queue

LEMMA CommitMaps == ASSUME Inv, NEW p \in Polls, CommitClaims(p) PROVE Abstract!Claim
<1> DEFINE S == {r \in get[p].rows : row[r] = "unclaimed"}
           T == {r \in S : r \in InScanner}
<1>1. /\ get[p].pc = "commit" /\ UNCHANGED <<awaited, listener, posting, recorded>>
      /\ row' = [r \in Requests |-> IF r \in get[p].rows THEN "claimed" ELSE row[r]]
      /\ get' = [get EXCEPT ![p].pc = "reply"]
  BY DEF CommitClaims
<1>2. InScanner' = InScanner
  BY <1>1 DEF InScanner, Inv, TypeOK
<1>3. /\ get[p].rows \subseteq Requests
      /\ \A r \in get[p].rows : row[r] \in {"unclaimed", "claimed"}
  BY <1>1 DEF Inv, TypeOK, Polled
<1>4. \A r \in S : r \in Requests /\ recorded[r] = 0 /\ row[r] = "unclaimed" /\ row'[r] = "claimed"
  <2>1. \A r \in Requests : row[r] = "unclaimed" => recorded[r] = 0
    BY DEF Inv, TypeOK, DeliveredOnce, HandedOnce
  <2> QED
    BY <1>1, <1>3, <2>1
<1>5. \A r \in Requests : r \notin S => row'[r] = row[r]
  BY <1>1, <1>3
<1>6. \A r \in S : Stage[r] = "queued"
  BY <1>4 DEF Stage
<1>7. \A r \in Requests : Stage'[r] = IF r \in T THEN "handed" ELSE IF r \in S THEN "lost" ELSE Stage[r]
  <2> SUFFICES ASSUME NEW r \in Requests
               PROVE  Stage'[r] = IF r \in T THEN "handed" ELSE IF r \in S THEN "lost" ELSE Stage[r]
    OBVIOUS
  <2>1. CASE r \in S
    <3>1. row'[r] = "claimed" /\ recorded'[r] = 0 /\ (r \in T <=> r \in InScanner')
      BY <1>1, <1>2, <1>4, <2>1
    <3> HIDE DEF S, T
    <3> QED
      BY <2>1, <3>1 DEF Stage
  <2>2. CASE r \notin S
    <3>1. row'[r] = row[r] /\ recorded'[r] = recorded[r] /\ r \notin T
      BY <1>1, <1>5, <2>2
    <3> HIDE DEF S, T
    <3> QED
      BY <1>2, <2>2, <3>1 DEF Stage
  <2> QED
    BY <2>1, <2>2
<1>8. Stage' = [r \in Requests |-> IF r \in T THEN "handed" ELSE IF r \in S THEN "lost" ELSE Stage[r]]
  BY <1>7 DEF Stage
<1>9. S \in SUBSET Requests /\ T \in SUBSET S
  BY <1>3
<1> HIDE DEF S, T
<1> QED
  BY <1>6, <1>8, <1>9 DEF Abstract!Claim

LEMMA RecordMaps == ASSUME Inv, NEW r \in Requests, RecordResult(r) PROVE Abstract!Record
<1>1. /\ r \in posting /\ posting' = posting \ {r} /\ recorded' = [recorded EXCEPT ![r] = @ + 1]
      /\ UNCHANGED <<row, get, awaited>>
      /\ listener'.batch = listener.batch
      /\ listener'.target = IF listener.pc = "post" /\ listener.target = r THEN NONE ELSE listener.target
  BY DEF RecordResult, Inv, TypeOK
<1>2. row[r] = "claimed" /\ recorded[r] = 0 /\ r \in InScanner
  BY <1>1 DEF Inv, HandedOnce, Held, InScanner
<1>3. \A q \in Requests : /\ recorded'[q] = IF q = r THEN 1 ELSE recorded[q]
                          /\ q # r => (q \in InScanner' <=> q \in InScanner)
  BY <1>1, <1>2, ConstantsAssumption DEF InScanner, Inv, TypeOK
<1>4. Stage[r] = "handed"
  BY <1>2 DEF Stage
<1>5. Stage' = [q \in Requests |-> IF q = r THEN "done" ELSE Stage[q]]
  <2> SUFFICES ASSUME NEW q \in Requests PROVE Stage'[q] = IF q = r THEN "done" ELSE Stage[q]
    BY DEF Stage
  <2> QED
    BY <1>1, <1>2, <1>3 DEF Stage
<1>6. Stage' = [Stage EXCEPT ![r] = "done"]
  BY <1>5 DEF Stage
<1> QED
  BY <1>4, <1>6 DEF Abstract!Record

LEMMA OtherStepsMap ==
    ASSUME Inv,
           \/ \E d \in Devices : LocateDevice(d)
           \/ \E p \in Polls : SelectUnclaimed(p) \/ Reply(p) \/ Poll(p)
           \/ NextTarget \/ PostResult \/ PollTimesOut \/ ScanFails \/ PostTimesOut
           \/ (\E r \in Requests : IngestFails(r)) \/ RestartApi \/ RestartCapture
    PROVE  Abstract!Lose
<1>1. UNCHANGED <<row, recorded>> /\ recorded \in [Requests -> Nat]
  BY DEF Inv, TypeOK, LocateDevice, SelectUnclaimed, Reply, Poll, NextTarget, PostResult, PollTimesOut,
     ScanFails, PostTimesOut, IngestFails, RestartApi, RestartCapture, backend
<1> SUFFICES ASSUME NEW r \in Requests, row[r] = "claimed", r \in InScanner' PROVE r \in InScanner
  BY <1>1, LosesOnly
<1>2. r # NONE
  BY ConstantsAssumption
<1>3. CASE \E d \in Devices : LocateDevice(d)
  BY <1>3 DEF LocateDevice, InScanner
<1>4. CASE \E p \in Polls : SelectUnclaimed(p)
  <2>1. PICK p \in Polls : SelectUnclaimed(p)
    BY <1>4
  <2>2. r \notin Unclaimed
    BY DEF Unclaimed
  <2>3. /\ \A q \in Polls : /\ q # p => get'[q] = get[q]
                            /\ q = p => get'[q].rows = Unclaimed
        /\ UNCHANGED <<awaited, listener, posting>>
    BY <2>1 DEF SelectUnclaimed, Inv, TypeOK
  <2> QED
    BY <2>2, <2>3 DEF InScanner, Inv, TypeOK
<1>5. CASE \E p \in Polls : Reply(p)
  <2>1. PICK p \in Polls : Reply(p)
    BY <1>5
  <2>2. CASE awaited = p
    BY <1>2, <2>1, <2>2, ConstantsAssumption DEF Reply, InScanner, Waiting
  <2>3. CASE awaited # p
    BY <2>1, <2>3 DEF Reply, InScanner, Inv, TypeOK
  <2> QED
    BY <2>2, <2>3
<1>6. CASE \E p \in Polls : Poll(p)
  <2>1. PICK p \in Polls : Poll(p)
    BY <1>6
  <2>2. /\ awaited' = p /\ get'[p].pc = "select" /\ posting' = posting
        /\ listener'.batch = listener.batch /\ listener'.target = listener.target
    BY <2>1 DEF Poll, Inv, TypeOK
  <2> QED
    BY <2>2 DEF InScanner
<1>7. CASE NextTarget \/ PostResult
  <2>1. UNCHANGED <<get, awaited>>
    BY <1>7 DEF NextTarget, PostResult, backend
  <2>2. CASE NextTarget
    BY <1>2, <2>1, <2>2 DEF NextTarget, InScanner, Waiting, backend
  <2>3. CASE PostResult
    <3>1. listener'.batch = listener.batch /\ listener'.target = listener.target
          /\ posting' = posting \cup {listener.target}
      BY <2>3 DEF PostResult, Inv, TypeOK
    <3> QED
      BY <2>1, <3>1 DEF InScanner
  <2> QED
    BY <1>7, <2>2, <2>3
<1>8. CASE PollTimesOut \/ RestartCapture
  BY <1>2, <1>8 DEF PollTimesOut, RestartCapture, InScanner, Waiting, backend
<1>9. CASE ScanFails \/ PostTimesOut \/ (\E q \in Requests : IngestFails(q)) \/ RestartApi
  <2>1. /\ listener'.batch \subseteq listener.batch
        /\ listener'.target \in {listener.target, NONE}
    <3>1. CASE ScanFails \/ PostTimesOut
      BY <3>1 DEF ScanFails, PostTimesOut, Inv, TypeOK
    <3>2. CASE \E q \in Requests : IngestFails(q)
      BY <3>2 DEF IngestFails, Inv, TypeOK
    <3>3. CASE RestartApi
      BY <3>3 DEF RestartApi, Disconnected, Waiting, Inv, TypeOK
    <3> QED
      BY <1>9, <3>1, <3>2, <3>3
  <2>2. /\ posting' \subseteq posting
        /\ (awaited' = awaited /\ get' = get) \/ awaited' = NONE
    BY <1>9 DEF ScanFails, PostTimesOut, IngestFails, RestartApi, Disconnected, backend
  <2> QED
    BY <1>2, <2>1, <2>2 DEF InScanner
<1> QED
  BY <1>3, <1>4, <1>5, <1>6, <1>7, <1>8, <1>9

(* The rows, the batches and the results, read as the stages of a request, *)
(* only ever do what ScanRequests allows.                                  *)
THEOREM Implements == Spec => OneWay
<1>1. Init => Abstract!Init
  <2> SUFFICES ASSUME Init PROVE Stage = [r \in Requests |-> "none"]
    BY DEF Abstract!Init
  <2> QED
    BY DEF Init, Stage
<1>2. ASSUME Inv, [Next]_vars PROVE [Abstract!Next]_Stage
  <2>1. CASE UNCHANGED vars
    <3>1. Stage' = Stage
      BY <2>1 DEF vars, Stage, InScanner
    <3> QED
      BY <3>1
  <2>2. CASE Next
    BY <1>2, <2>2, QueueMaps, CommitMaps, RecordMaps, OtherStepsMap DEF Next, Abstract!Next
  <2> QED
    BY <1>2, <2>1, <2>2
<1> QED
  BY <1>1, <1>2, PipelineInvariant, PTL DEF Spec, OneWay, Abstract!Spec
=============================================================================
