----------------------- MODULE TrafficPipelineProofs -----------------------
(* Proofs about TrafficPipeline, for any number of MACs, flows, requests   *)
(* and streams: no frame is stored twice and no bandwidth metric is ahead  *)
(* of the flows, whatever fails; a view that has shown talkers is never    *)
(* blanked.                                                                *)
EXTENDS TrafficPipeline, InductionLemmas

Bytes == [Flows -> Nat]
IngestType == [pc : {"idle", "flows", "bandwidth"}, flows : Bytes, macs : SUBSET Macs]
Shown == [Macs -> 0..MaxFrames]

Typed ==
    /\ {window, stored, recent, seen} \subseteq Bytes
    /\ due \in BOOLEAN
    /\ posted \in Rollups \cup {NONE}
    /\ ingest \in [Rollups -> IngestType]
    /\ bandwidth \in [Macs -> Nat]
    /\ snapshot \in Shown \cup {EMPTY}
    /\ sent \in [Clients -> Shown \cup {EMPTY, NONE}]
    /\ faults \in 0..MaxFaults

(* What is counted, sent or kept is part of what was seen or stored.       *)
Bounded ==
    /\ SumFunctionOnSet(seen, Flows) <= MaxFrames
    /\ \A k \in Flows : window[k] <= seen[k] /\ recent[k] <= stored[k]
    /\ \A q \in Rollups, k \in Flows : ingest[q].flows[k] <= seen[k]

(* The MACs whose bandwidth is to be written are those with bytes.         *)
MacsOfFlows ==
    \A q \in Rollups :
        ingest[q].pc = "flows" => ingest[q].macs = {m \in Macs : OfMac(ingest[q].flows, m) > 0}

(* As long as a process has no snapshot no stream has sent one.            *)
NothingSentFirst == snapshot = EMPTY => \A c \in Clients : sent[c] \in {EMPTY, NONE}

Inv == Typed /\ Bounded /\ MacsOfFlows /\ FramesStoredOnce /\ BandwidthFollowsFlows /\ NothingSentFirst

-----------------------------------------------------------------------------
(* The bytes of a MAC.                                                     *)

(* They are a number, 0 where every flow has none.                         *)
LEMMA OfMacType ==
    ASSUME NEW a \in Bytes, NEW m
    PROVE  OfMac(a, m) \in Nat
<1>1. IsFiniteSet({k \in Flows : k[1] = m})
  BY ConstantsAssumption, FS_Subset
<1>2. \A k \in {j \in Flows : j[1] = m} : a[k] \in Nat
  BY DEF Bytes
<1> QED BY <1>1, <1>2, SumType DEF OfMac

LEMMA OfMacNothing == Nothing \in Bytes /\ \A m : OfMac(Nothing, m) = 0
<1>1. \A m : IsFiniteSet({k \in Flows : k[1] = m})
  BY ConstantsAssumption, FS_Subset
<1>2. \A k \in Flows : Nothing[k] = 0
  BY DEF Nothing
<1> QED BY <1>1, <1>2, SumZero DEF OfMac, Nothing, Bytes

(* They add up as the flows do.                                            *)
LEMMA OfMacPlus ==
    ASSUME NEW a \in Bytes, NEW b \in Bytes, NEW m
    PROVE  Plus(a, b) \in Bytes /\ OfMac(Plus(a, b), m) = OfMac(a, m) + OfMac(b, m)
<1> DEFINE S == {k \in Flows : k[1] = m}
<1>1. IsFiniteSet(S)
  BY ConstantsAssumption, FS_Subset
<1>2. \A k \in S : a[k] \in Int /\ b[k] \in Int /\ Plus(a, b)[k] = a[k] + b[k]
  BY DEF Bytes, Plus
<1>3. SumFunctionOnSet(Plus(a, b), S) = SumFunctionOnSet(a, S) + SumFunctionOnSet(b, S)
  BY <1>1, <1>2, SumPlus
<1> QED BY <1>3 DEF OfMac, Plus, Bytes

(* They grow with the flows, and never exceed the frames seen.             *)
LEMMA OfMacBound ==
    ASSUME NEW a \in Bytes, NEW b \in Bytes, \A k \in Flows : a[k] <= b[k], NEW m
    PROVE  OfMac(a, m) <= OfMac(b, m) /\ OfMac(b, m) <= SumFunctionOnSet(b, Flows)
<1> DEFINE S == {k \in Flows : k[1] = m}
<1>1. IsFiniteSet(S) /\ S \subseteq Flows /\ IsFiniteSet(Flows)
  BY ConstantsAssumption, FS_Subset
<1>2. \A k \in Flows : a[k] \in Nat /\ b[k] \in Nat
  BY DEF Bytes
<1>3. SumFunctionOnSet(a, S) <= SumFunctionOnSet(b, S)
  BY <1>1, <1>2, SumMonotone
<1>4. SumFunctionOnSet(b, S) <= SumFunctionOnSet(b, Flows)
  BY <1>1, <1>2, SumSubset
<1> QED BY <1>3, <1>4 DEF OfMac

-----------------------------------------------------------------------------
(* What the requests still have to write.                                  *)

InFlight(i, k) == [q \in Rollups |-> IF i[q].pc = "flows" THEN i[q].flows[k] ELSE 0]
Owed(i, m) == [q \in Rollups |-> IF m \in i[q].macs /\ i[q].pc = "bandwidth"
                                 THEN OfMac(i[q].flows, m) ELSE 0]
ToStore(i, k) == SumFunctionOnSet(InFlight(i, k), Rollups)
ToWrite(i, m) == SumFunctionOnSet(Owed(i, m), Rollups)
Counted(k) == IF posted = NONE THEN window[k] ELSE 0

LEMMA OwedType ==
    ASSUME NEW i \in [Rollups -> IngestType]
    PROVE  /\ \A k \in Flows : /\ \A q \in Rollups : InFlight(i, k)[q] \in Nat
                               /\ ToStore(i, k) \in Nat
           /\ \A m \in Macs : /\ \A q \in Rollups : Owed(i, m)[q] \in Nat
                              /\ ToWrite(i, m) \in Nat
<1>1. \A q \in Rollups : i[q] \in IngestType /\ i[q].flows \in Bytes
  BY DEF IngestType
<1>2. \A k \in Flows, q \in Rollups : InFlight(i, k)[q] \in Nat
  BY <1>1 DEF InFlight, Bytes
<1>3. \A m \in Macs, q \in Rollups : Owed(i, m)[q] \in Nat
  BY <1>1, OfMacType DEF Owed
<1>4. \A k \in Flows : ToStore(i, k) \in Nat
  BY <1>2, ConstantsAssumption, SumType DEF ToStore
<1>5. \A m \in Macs : ToWrite(i, m) \in Nat
  BY <1>3, ConstantsAssumption, SumType DEF ToWrite
<1> QED BY <1>2, <1>3, <1>4, <1>5

(* One request's step changes both sums by its own share.                  *)
LEMMA OwedStep ==
    ASSUME NEW i \in [Rollups -> IngestType], NEW j \in [Rollups -> IngestType], NEW q \in Rollups,
           \A p \in Rollups : p # q => j[p] = i[p]
    PROVE  /\ \A k \in Flows : ToStore(j, k) = ToStore(i, k) - InFlight(i, k)[q] + InFlight(j, k)[q]
           /\ \A m \in Macs : ToWrite(j, m) = ToWrite(i, m) - Owed(i, m)[q] + Owed(j, m)[q]
<1>1. IsFiniteSet(Rollups)
  BY ConstantsAssumption
<1>2. ASSUME NEW k \in Flows
      PROVE  ToStore(j, k) = ToStore(i, k) - InFlight(i, k)[q] + InFlight(j, k)[q]
  <2>1. \A p \in Rollups : /\ InFlight(i, k)[p] \in Int /\ InFlight(j, k)[p] \in Int
                           /\ p # q => InFlight(j, k)[p] = InFlight(i, k)[p]
    BY OwedType DEF InFlight
  <2> QED BY <1>1, <2>1, SumUpdate DEF ToStore
<1>3. ASSUME NEW m \in Macs
      PROVE  ToWrite(j, m) = ToWrite(i, m) - Owed(i, m)[q] + Owed(j, m)[q]
  <2>1. \A p \in Rollups : Owed(i, m)[p] \in Int /\ Owed(j, m)[p] \in Int
    BY OwedType
  <2>2. \A p \in Rollups : p # q => Owed(j, m)[p] = Owed(i, m)[p]
    BY DEF Owed
  <2> QED BY <1>1, <2>1, <2>2, SumUpdate DEF ToWrite
<1> QED BY <1>2, <1>3

(* Idle requests owe nothing.                                              *)
LEMMA IdleOwesNothing ==
    LET i == [q \in Rollups |-> NoIngest]
    IN  /\ i \in [Rollups -> IngestType]
        /\ \A k \in Flows : ToStore(i, k) = 0
        /\ \A m \in Macs : ToWrite(i, m) = 0
<1> DEFINE i == [q \in Rollups |-> NoIngest]
<1>1. i \in [Rollups -> IngestType]
  BY OfMacNothing DEF NoIngest, IngestType
<1>2. /\ \A k \in Flows, q \in Rollups : InFlight(i, k)[q] = 0
      /\ \A m \in Macs, q \in Rollups : Owed(i, m)[q] = 0
  BY DEF InFlight, Owed, NoIngest
<1>3. \A k \in Flows : ToStore(i, k) = 0
  BY <1>2, SumZero, ConstantsAssumption DEF ToStore
<1>4. \A m \in Macs : ToWrite(i, m) = 0
  BY <1>2, SumZero, ConstantsAssumption DEF ToWrite
<1> QED BY <1>1, <1>3, <1>4

(* The two invariants in these terms.                                      *)
LEMMA StoredOnceIs ==
    FramesStoredOnce <=>
        \A k \in Flows :
            /\ stored[k] + (Counted(k) + ToStore(ingest, k)) <= seen[k]
            /\ faults = 0 => stored[k] + (Counted(k) + ToStore(ingest, k)) = seen[k]
<1>1. \A k \in Flows : OnTheWay(k) = Counted(k) + ToStore(ingest, k)
  BY DEF OnTheWay, Counted, ToStore, InFlight, SumFunction
<1> QED BY <1>1 DEF FramesStoredOnce

LEMMA FollowsIs ==
    BandwidthFollowsFlows <=>
        \A m \in Macs :
            /\ bandwidth[m] + ToWrite(ingest, m) <= OfMac(stored, m)
            /\ faults = 0 => bandwidth[m] + ToWrite(ingest, m) = OfMac(stored, m)
BY DEF BandwidthFollowsFlows, ToWrite, Owed, SumFunction

LEMMA StoredOnceIsNext ==
    FramesStoredOnce' <=>
        \A k \in Flows :
            /\ stored'[k] + (Counted(k)' + ToStore(ingest', k)) <= seen'[k]
            /\ faults' = 0 => stored'[k] + (Counted(k)' + ToStore(ingest', k)) = seen'[k]
<1>1. \A k \in Flows : OnTheWay(k)' = Counted(k)' + ToStore(ingest', k)
  BY DEF OnTheWay, Counted, ToStore, InFlight, SumFunction
<1> QED BY <1>1 DEF FramesStoredOnce

LEMMA FollowsIsNext ==
    BandwidthFollowsFlows' <=>
        \A m \in Macs :
            /\ bandwidth'[m] + ToWrite(ingest', m) <= OfMac(stored', m)
            /\ faults' = 0 => bandwidth'[m] + ToWrite(ingest', m) = OfMac(stored', m)
BY DEF BandwidthFollowsFlows, ToWrite, Owed, SumFunction

-----------------------------------------------------------------------------
(* The steps of the sniffer.                                               *)

(* A flush moves what was counted to a request, or to no one.              *)
LEMMA Flushes ==
    ASSUME Inv, posted = NONE, NEW counted \in Bytes, FlushIfDue(counted)
    PROVE  /\ window' = counted /\ due' \in BOOLEAN /\ posted' \in Rollups \cup {NONE}
           /\ ingest' \in [Rollups -> IngestType] /\ MacsOfFlows'
           /\ \A q \in Rollups : ingest'[q] = ingest[q] \/ ingest'[q].flows = counted
           /\ \A k \in Flows : Counted(k)' + ToStore(ingest', k) = counted[k] + ToStore(ingest, k)
           /\ \A m \in Macs : ToWrite(ingest', m) = ToWrite(ingest, m)
<1>1. window' = counted /\ due' \in BOOLEAN
  BY DEF Inv, Typed, FlushIfDue
<1>2. CASE UNCHANGED <<posted, ingest>>
  BY <1>1, <1>2 DEF Inv, Typed, MacsOfFlows, Counted
<1>3. ASSUME NEW q \in Rollups, ingest[q].pc = "idle", posted' = q,
             ingest' = [ingest EXCEPT ![q] =
                [pc |-> "flows", flows |-> counted, macs |-> {m \in Macs : OfMac(counted, m) > 0}]]
      PROVE  /\ posted' \in Rollups \cup {NONE}
             /\ ingest' \in [Rollups -> IngestType] /\ MacsOfFlows'
             /\ \A p \in Rollups : ingest'[p] = ingest[p] \/ ingest'[p].flows = counted
             /\ \A k \in Flows : Counted(k)' + ToStore(ingest', k) = counted[k] + ToStore(ingest, k)
             /\ \A m \in Macs : ToWrite(ingest', m) = ToWrite(ingest, m)
  <2> DEFINE r == [pc |-> "flows", flows |-> counted, macs |-> {m \in Macs : OfMac(counted, m) > 0}]
  <2>1. r \in IngestType
    BY DEF IngestType
  <2>2. ingest \in [Rollups -> IngestType]
    BY DEF Inv, Typed
  <2>3. /\ ingest' \in [Rollups -> IngestType] /\ ingest'[q] = r
        /\ \A p \in Rollups : p # q => ingest'[p] = ingest[p]
    BY <1>3, <2>1, <2>2
  <2>4. MacsOfFlows'
    BY <2>3 DEF Inv, MacsOfFlows
  <2>5. ASSUME NEW k \in Flows
        PROVE  Counted(k)' + ToStore(ingest', k) = counted[k] + ToStore(ingest, k)
    <3>1. InFlight(ingest, k)[q] = 0 /\ InFlight(ingest', k)[q] = counted[k]
      BY <1>3, <2>3 DEF InFlight
    <3>2. ToStore(ingest', k) = ToStore(ingest, k) - InFlight(ingest, k)[q] + InFlight(ingest', k)[q]
      BY <2>2, <2>3, OwedStep
    <3>3. ToStore(ingest, k) \in Nat /\ counted[k] \in Nat
      BY <2>2, OwedType DEF Bytes
    <3>4. Counted(k)' = 0
      BY <1>3, ConstantsAssumption DEF Counted
    <3> QED BY <3>1, <3>2, <3>3, <3>4
  <2>6. ASSUME NEW m \in Macs
        PROVE  ToWrite(ingest', m) = ToWrite(ingest, m)
    <3>1. Owed(ingest, m)[q] = 0 /\ Owed(ingest', m)[q] = 0
      BY <1>3, <2>3 DEF Owed
    <3>2. \A p \in Rollups : Owed(ingest', m)[p] = Owed(ingest, m)[p]
      BY <2>3, <3>1 DEF Owed
    <3>3. Owed(ingest', m) = Owed(ingest, m)
      BY <3>2 DEF Owed
    <3> QED BY <3>3 DEF ToWrite
  <2> QED BY <1>3, <2>3, <2>4, <2>5, <2>6
<1>4. CASE due /\ counted # Nothing
  BY <1>1, <1>3, <1>4 DEF FlushIfDue
<1>5. CASE ~(due /\ counted # Nothing)
  BY <1>2, <1>5 DEF FlushIfDue
<1> QED BY <1>4, <1>5

LEMMA CountFrameInv == ASSUME Inv, NEW j \in Flows, CountFrame(j) PROVE Inv'
<1> DEFINE counted == [window EXCEPT ![j] = @ + 1]
<1>1. /\ posted = NONE /\ FlushIfDue(counted) /\ UNCHANGED <<tables, feed, faults>>
      /\ seen' = [seen EXCEPT ![j] = @ + 1]
      /\ SumFunctionOnSet(seen, DOMAIN seen) < MaxFrames
  BY DEF CountFrame, SumFunction
<1>2. window \in Bytes /\ seen \in Bytes /\ stored \in Bytes
  BY DEF Inv, Typed
<1>3. /\ counted \in Bytes /\ seen' \in Bytes
      /\ \A k \in Flows : /\ counted[k] = window[k] + (IF k = j THEN 1 ELSE 0)
                          /\ seen'[k] = seen[k] + (IF k = j THEN 1 ELSE 0)
                          /\ {window[k], seen[k], stored[k]} \subseteq Nat
  BY <1>1, <1>2 DEF Bytes
<1> HIDE DEF counted
<1>4. /\ window' = counted /\ due' \in BOOLEAN /\ posted' \in Rollups \cup {NONE}
      /\ ingest' \in [Rollups -> IngestType] /\ MacsOfFlows'
      /\ \A q \in Rollups : ingest'[q] = ingest[q] \/ ingest'[q].flows = counted
      /\ \A k \in Flows : Counted(k)' + ToStore(ingest', k) = counted[k] + ToStore(ingest, k)
      /\ \A m \in Macs : ToWrite(ingest', m) = ToWrite(ingest, m)
  BY <1>1, <1>3, Flushes
<1>5. Typed'
  BY <1>1, <1>3, <1>4 DEF Inv, Typed, tables, feed
<1>6. Bounded'
  <2>1. DOMAIN seen = Flows /\ IsFiniteSet(Flows) /\ MaxFrames \in Nat
    BY <1>2, ConstantsAssumption DEF Bytes
  <2>2. \A k \in Flows : seen[k] \in Int /\ seen'[k] \in Int /\ (k # j => seen'[k] = seen[k])
    BY <1>3
  <2>3. SumFunctionOnSet(seen', Flows) = SumFunctionOnSet(seen, Flows) - seen[j] + seen'[j]
    BY <2>1, <2>2, SumUpdate
  <2>4. SumFunctionOnSet(seen, Flows) \in Int
    BY <2>1, <2>2, SumType
  <2>5. SumFunctionOnSet(seen', Flows) <= MaxFrames
    BY <1>1, <1>3, <2>1, <2>3, <2>4
  <2>6. \A k \in Flows : window'[k] <= seen'[k] /\ seen[k] <= seen'[k]
    BY <1>3, <1>4 DEF Inv, Bounded
  <2>7. \A q \in Rollups, k \in Flows : ingest'[q].flows[k] <= seen'[k]
    <3> SUFFICES ASSUME NEW q \in Rollups, NEW k \in Flows
                 PROVE  ingest'[q].flows[k] <= seen'[k]
      OBVIOUS
    <3>1. ingest[q].flows[k] <= seen[k] /\ ingest[q].flows[k] \in Nat /\ seen[k] \in Nat /\ seen'[k] \in Nat
      BY <1>3 DEF Inv, Typed, Bounded, IngestType, Bytes
    <3> QED BY <1>4, <2>6, <3>1
  <2> QED BY <1>1, <2>5, <2>6, <2>7 DEF Inv, Bounded, tables
<1>7. FramesStoredOnce'
  <2>1. \A k \in Flows :
            /\ stored[k] + (Counted(k) + ToStore(ingest, k)) <= seen[k]
            /\ faults = 0 => stored[k] + (Counted(k) + ToStore(ingest, k)) = seen[k]
    BY StoredOnceIs DEF Inv
  <2>2. \A k \in Flows : ToStore(ingest, k) \in Nat
    BY OwedType DEF Inv, Typed
  <2>3. \A k \in Flows : Counted(k) = window[k]
    BY <1>1 DEF Counted
  <2>4. stored' = stored /\ faults' = faults
    BY <1>1 DEF tables
  <2>5. ASSUME NEW k \in Flows
        PROVE  /\ stored'[k] + (Counted(k)' + ToStore(ingest', k)) <= seen'[k]
               /\ faults' = 0 => stored'[k] + (Counted(k)' + ToStore(ingest', k)) = seen'[k]
    BY <1>3, <1>4, <2>1, <2>2, <2>3, <2>4
  <2> QED BY <2>5, StoredOnceIsNext
<1>8. BandwidthFollowsFlows'
  BY <1>1, <1>4, FollowsIs, FollowsIsNext DEF Inv, tables
<1>9. NothingSentFirst'
  BY <1>1 DEF Inv, NothingSentFirst, feed
<1> QED BY <1>4, <1>5, <1>6, <1>7, <1>8, <1>9 DEF Inv

LEMMA QuietInv == ASSUME Inv, Quiet PROVE Inv'
<1>1. posted = NONE /\ FlushIfDue(window) /\ UNCHANGED <<seen, tables, feed, faults>> /\ window \in Bytes
  BY DEF Quiet, Inv, Typed
<1>2. /\ window' = window /\ due' \in BOOLEAN /\ posted' \in Rollups \cup {NONE}
      /\ ingest' \in [Rollups -> IngestType] /\ MacsOfFlows'
      /\ \A q \in Rollups : ingest'[q] = ingest[q] \/ ingest'[q].flows = window
      /\ \A k \in Flows : Counted(k)' + ToStore(ingest', k) = window[k] + ToStore(ingest, k)
      /\ \A m \in Macs : ToWrite(ingest', m) = ToWrite(ingest, m)
  BY <1>1, Flushes
<1>3. Typed'
  BY <1>1, <1>2 DEF Inv, Typed, tables, feed
<1>4. Bounded'
  BY <1>1, <1>2 DEF Inv, Bounded, tables
<1>5. FramesStoredOnce'
  <2>1. \A k \in Flows : Counted(k)' + ToStore(ingest', k) = Counted(k) + ToStore(ingest, k)
    BY <1>1, <1>2 DEF Counted
  <2> QED BY <1>1, <2>1, StoredOnceIs, StoredOnceIsNext DEF Inv, tables
<1>6. BandwidthFollowsFlows'
  BY <1>1, <1>2, FollowsIs, FollowsIsNext DEF Inv, tables
<1>7. NothingSentFirst'
  BY <1>1 DEF Inv, NothingSentFirst, feed
<1> QED BY <1>2, <1>3, <1>4, <1>5, <1>6, <1>7 DEF Inv

-----------------------------------------------------------------------------
(* The steps of a request.                                                 *)

LEMMA StoreFlowsInv == ASSUME Inv, NEW q \in Rollups, StoreFlows(q) PROVE Inv'
<1> DEFINE r == [ingest[q] EXCEPT !.pc = "bandwidth"]
           fl == ingest[q].flows
<1>1. /\ ingest[q].pc = "flows" /\ stored' = Plus(stored, fl) /\ recent' = Plus(recent, fl)
      /\ ingest' = [ingest EXCEPT ![q] = r]
      /\ UNCHANGED <<sniffer, bandwidth, feed, faults>>
  BY DEF StoreFlows
<1>2. /\ ingest \in [Rollups -> IngestType] /\ ingest[q] \in IngestType /\ fl \in Bytes
      /\ {window, stored, recent, seen} \subseteq Bytes
  BY DEF Inv, Typed, IngestType
<1>3. r \in IngestType /\ r.pc = "bandwidth" /\ r.flows = fl /\ r.macs = ingest[q].macs
  BY <1>2 DEF IngestType
<1> HIDE DEF r
<1>4. /\ ingest' \in [Rollups -> IngestType] /\ ingest'[q] = r
      /\ \A p \in Rollups : p # q => ingest'[p] = ingest[p]
  BY <1>1, <1>2, <1>3
<1>5. /\ stored' \in Bytes /\ recent' \in Bytes
      /\ \A m \in Macs : OfMac(stored', m) = OfMac(stored, m) + OfMac(fl, m)
  BY <1>1, <1>2, OfMacPlus
<1>6. \A k \in Flows : /\ stored'[k] = stored[k] + fl[k] /\ recent'[k] = recent[k] + fl[k]
                       /\ {stored[k], recent[k], fl[k], seen[k], window[k]} \subseteq Nat
  BY <1>1, <1>2 DEF Plus, Bytes
<1>7. Typed'
  BY <1>1, <1>4, <1>5 DEF Inv, Typed, sniffer, feed
<1>8. Bounded'
  <2>1. \A p \in Rollups : ingest'[p].flows = ingest[p].flows
    BY <1>3, <1>4
  <2>2. \A k \in Flows : recent'[k] <= stored'[k]
    BY <1>6 DEF Inv, Bounded
  <2> QED BY <1>1, <2>1, <2>2 DEF Inv, Bounded, sniffer
<1>9. MacsOfFlows'
  BY <1>3, <1>4 DEF Inv, MacsOfFlows
<1>10. FramesStoredOnce'
  <2>1. ASSUME NEW k \in Flows
        PROVE  ToStore(ingest', k) = ToStore(ingest, k) - fl[k] /\ ToStore(ingest, k) \in Nat
    <3>1. InFlight(ingest, k)[q] = fl[k] /\ InFlight(ingest', k)[q] = 0
      BY <1>1, <1>3, <1>4 DEF InFlight
    <3>2. ToStore(ingest', k) = ToStore(ingest, k) - InFlight(ingest, k)[q] + InFlight(ingest', k)[q]
      BY <1>2, <1>4, OwedStep
    <3>3. ToStore(ingest, k) \in Nat
      BY <1>2, OwedType
    <3> QED BY <1>6, <3>1, <3>2, <3>3
  <2>2. \A k \in Flows : Counted(k)' = Counted(k) /\ Counted(k) \in Nat
    BY <1>1, <1>6 DEF Counted, sniffer
  <2>3. seen' = seen /\ faults' = faults
    BY <1>1 DEF sniffer
  <2>4. ASSUME NEW k \in Flows
        PROVE  stored'[k] + (Counted(k)' + ToStore(ingest', k)) = stored[k] + (Counted(k) + ToStore(ingest, k))
    BY <1>6, <2>1, <2>2
  <2> QED BY <2>3, <2>4, StoredOnceIs, StoredOnceIsNext DEF Inv
<1>11. BandwidthFollowsFlows'
  <2>1. ASSUME NEW m \in Macs
        PROVE  ToWrite(ingest', m) = ToWrite(ingest, m) + OfMac(fl, m)
    <3>1. OfMac(fl, m) \in Nat /\ ToWrite(ingest, m) \in Nat
      BY <1>2, OfMacType, OwedType
    <3>2. m \notin ingest[q].macs => OfMac(fl, m) = 0
      BY <1>1, <3>1 DEF Inv, MacsOfFlows
    <3>3. Owed(ingest, m)[q] = 0 /\ Owed(ingest', m)[q] = OfMac(fl, m)
      BY <1>1, <1>3, <1>4, <3>2 DEF Owed
    <3>4. ToWrite(ingest', m) = ToWrite(ingest, m) - Owed(ingest, m)[q] + Owed(ingest', m)[q]
      BY <1>2, <1>4, OwedStep
    <3> QED BY <3>1, <3>3, <3>4
  <2>2. \A m \in Macs : {OfMac(fl, m), OfMac(stored, m), bandwidth[m], ToWrite(ingest, m)} \subseteq Nat
    BY <1>2, OfMacType, OwedType DEF Inv, Typed
  <2>3. bandwidth' = bandwidth /\ faults' = faults
    BY <1>1
  <2>4. \A m \in Macs :
            /\ bandwidth[m] + ToWrite(ingest, m) <= OfMac(stored, m)
            /\ faults = 0 => bandwidth[m] + ToWrite(ingest, m) = OfMac(stored, m)
    BY FollowsIs DEF Inv
  <2>5. ASSUME NEW m \in Macs
        PROVE  /\ bandwidth'[m] + ToWrite(ingest', m) <= OfMac(stored', m)
               /\ faults' = 0 => bandwidth'[m] + ToWrite(ingest', m) = OfMac(stored', m)
    BY <1>5, <2>1, <2>2, <2>3, <2>4
  <2> QED BY <2>5, FollowsIsNext
<1>12. NothingSentFirst'
  BY <1>1 DEF Inv, NothingSentFirst, feed
<1> QED BY <1>7, <1>8, <1>9, <1>10, <1>11, <1>12 DEF Inv

LEMMA WriteRollupInv == ASSUME Inv, NEW q \in Rollups, NEW n \in Macs, WriteRollup(q, n) PROVE Inv'
<1> DEFINE r == [ingest[q] EXCEPT !.macs = @ \ {n}]
           fl == ingest[q].flows
<1>1. /\ ingest[q].pc = "bandwidth" /\ n \in ingest[q].macs
      /\ ingest' = [ingest EXCEPT ![q] = r]
      /\ bandwidth' = [bandwidth EXCEPT ![n] = @ + OfMac(fl, n)]
      /\ UNCHANGED <<sniffer, stored, recent, feed, faults>>
  BY DEF WriteRollup
<1>2. /\ ingest \in [Rollups -> IngestType] /\ ingest[q] \in IngestType /\ fl \in Bytes
      /\ bandwidth \in [Macs -> Nat]
  BY DEF Inv, Typed, IngestType
<1>3. r \in IngestType /\ r.pc = "bandwidth" /\ r.flows = fl /\ r.macs = ingest[q].macs \ {n}
  BY <1>1, <1>2 DEF IngestType
<1> HIDE DEF r
<1>4. /\ ingest' \in [Rollups -> IngestType] /\ ingest'[q] = r
      /\ \A p \in Rollups : p # q => ingest'[p] = ingest[p]
  BY <1>1, <1>2, <1>3
<1>5. \A m \in Macs : OfMac(fl, m) \in Nat /\ OfMac(stored, m) \in Nat /\ ToWrite(ingest, m) \in Nat
  BY <1>2, OfMacType, OwedType DEF Inv, Typed
<1>6. /\ bandwidth' \in [Macs -> Nat]
      /\ \A m \in Macs : bandwidth'[m] = bandwidth[m] + (IF m = n THEN OfMac(fl, n) ELSE 0)
  BY <1>1, <1>2, <1>5
<1>7. Typed'
  BY <1>1, <1>4, <1>6 DEF Inv, Typed, sniffer, feed
<1>8. Bounded'
  <2>1. \A p \in Rollups : ingest'[p].flows = ingest[p].flows
    BY <1>3, <1>4
  <2> QED BY <1>1, <2>1 DEF Inv, Bounded, sniffer
<1>9. MacsOfFlows'
  BY <1>3, <1>4 DEF Inv, MacsOfFlows
<1>10. FramesStoredOnce'
  <2>1. ASSUME NEW k \in Flows
        PROVE  ToStore(ingest', k) = ToStore(ingest, k)
    <3>1. \A p \in Rollups : InFlight(ingest', k)[p] = InFlight(ingest, k)[p]
      BY <1>1, <1>3, <1>4 DEF InFlight
    <3>2. InFlight(ingest', k) = InFlight(ingest, k)
      BY <3>1 DEF InFlight
    <3> QED BY <3>2 DEF ToStore
  <2>2. \A k \in Flows : Counted(k)' = Counted(k)
    BY <1>1 DEF Counted, sniffer
  <2> QED BY <1>1, <2>1, <2>2, StoredOnceIs, StoredOnceIsNext DEF Inv, sniffer
<1>11. BandwidthFollowsFlows'
  <2>1. ASSUME NEW m \in Macs
        PROVE  ToWrite(ingest', m) = ToWrite(ingest, m) - (IF m = n THEN OfMac(fl, n) ELSE 0)
    <3>1. Owed(ingest, m)[q] = Owed(ingest', m)[q] + (IF m = n THEN OfMac(fl, n) ELSE 0)
      BY <1>1, <1>3, <1>4, <1>5 DEF Owed
    <3>2. ToWrite(ingest', m) = ToWrite(ingest, m) - Owed(ingest, m)[q] + Owed(ingest', m)[q]
      BY <1>2, <1>4, OwedStep
    <3>3. Owed(ingest', m)[q] \in Nat
      BY <1>4, OwedType
    <3> QED BY <1>5, <3>1, <3>2, <3>3
  <2>2. ASSUME NEW m \in Macs
        PROVE  bandwidth'[m] + ToWrite(ingest', m) = bandwidth[m] + ToWrite(ingest, m)
    <3>1. bandwidth[m] \in Nat
      BY <1>2
    <3> QED BY <1>5, <1>6, <2>1, <3>1
  <2> QED BY <1>1, <2>2, FollowsIs, FollowsIsNext DEF Inv
<1>12. NothingSentFirst'
  BY <1>1 DEF Inv, NothingSentFirst, feed
<1> QED BY <1>7, <1>8, <1>9, <1>10, <1>11, <1>12 DEF Inv

(* A request that ends drops what it had not written; the sniffer that     *)
(* waits for it clears its window.                                         *)
Ends(q) == ingest' = [ingest EXCEPT ![q] = NoIngest]

LEMMA RequestEndsInv ==
    ASSUME Inv, NEW q \in Rollups, Ends(q), Cleared(q),
           faults' \in 0..MaxFaults,
           \/ faults' # 0
           \/ faults' = faults /\ ingest[q].pc = "bandwidth" /\ ingest[q].macs = {},
           UNCHANGED <<due, seen, tables, feed>>
    PROVE  Inv'
<1>1. ingest \in [Rollups -> IngestType] /\ NoIngest \in IngestType
  BY OfMacNothing DEF Inv, Typed, NoIngest, IngestType
<1>2. /\ ingest' \in [Rollups -> IngestType] /\ ingest'[q] = NoIngest
      /\ \A p \in Rollups : p # q => ingest'[p] = ingest[p]
  BY <1>1 DEF Ends
<1>3. \/ posted' = NONE /\ window' = Nothing /\ posted = q
      \/ UNCHANGED <<posted, window>>
  BY DEF Cleared
<1>4. Nothing \in Bytes /\ \A k \in Flows : Nothing[k] = 0
  BY OfMacNothing DEF Nothing
<1>5. Typed'
  BY <1>2, <1>3, <1>4 DEF Inv, Typed, tables, feed
<1>6. Bounded'
  <2>1. \A k \in Flows : seen[k] \in Nat
    BY DEF Inv, Typed, Bytes
  <2>2. \A k \in Flows : window'[k] <= seen'[k]
    BY <1>3, <1>4, <2>1 DEF Inv, Bounded
  <2>3. \A p \in Rollups, k \in Flows : ingest'[p].flows[k] <= seen'[k]
    BY <1>2, <1>4, <2>1 DEF Inv, Bounded, NoIngest
  <2> QED BY <2>2, <2>3 DEF Inv, Bounded, tables
<1>7. MacsOfFlows'
  BY <1>2 DEF Inv, MacsOfFlows, NoIngest
<1>8. FramesStoredOnce'
  <2>1. ASSUME NEW k \in Flows
        PROVE  /\ ToStore(ingest', k) = ToStore(ingest, k) - InFlight(ingest, k)[q]
               /\ InFlight(ingest, k)[q] \in Nat /\ ToStore(ingest', k) \in Nat /\ ToStore(ingest, k) \in Nat
               /\ ingest[q].pc = "bandwidth" => InFlight(ingest, k)[q] = 0
    <3>1. InFlight(ingest', k)[q] = 0
      BY <1>2 DEF InFlight, NoIngest
    <3>2. ToStore(ingest', k) = ToStore(ingest, k) - InFlight(ingest, k)[q] + InFlight(ingest', k)[q]
      BY <1>1, <1>2, OwedStep
    <3>3. InFlight(ingest, k)[q] \in Nat /\ ToStore(ingest', k) \in Nat /\ ToStore(ingest, k) \in Nat
      BY <1>1, <1>2, OwedType
    <3>4. ingest[q].pc = "bandwidth" => InFlight(ingest, k)[q] = 0
      BY DEF InFlight
    <3> QED BY <3>1, <3>2, <3>3, <3>4
  <2>2. \A k \in Flows : Counted(k)' = Counted(k) /\ {Counted(k), stored[k], seen[k]} \subseteq Nat
    BY <1>3, <1>4, ConstantsAssumption DEF Counted, Inv, Typed, Bytes
  <2>3. stored' = stored /\ seen' = seen
    BY DEF tables
  <2>4. \A k \in Flows :
            /\ stored[k] + (Counted(k) + ToStore(ingest, k)) <= seen[k]
            /\ faults = 0 => stored[k] + (Counted(k) + ToStore(ingest, k)) = seen[k]
    BY StoredOnceIs DEF Inv
  <2>5. ASSUME NEW k \in Flows
        PROVE  /\ stored'[k] + (Counted(k)' + ToStore(ingest', k)) <= seen'[k]
               /\ faults' = 0 => stored'[k] + (Counted(k)' + ToStore(ingest', k)) = seen'[k]
    BY <2>1, <2>2, <2>3, <2>4
  <2> QED BY <2>5, StoredOnceIsNext
<1>9. BandwidthFollowsFlows'
  <2>1. ASSUME NEW m \in Macs
        PROVE  /\ ToWrite(ingest', m) = ToWrite(ingest, m) - Owed(ingest, m)[q]
               /\ Owed(ingest, m)[q] \in Nat /\ ToWrite(ingest', m) \in Nat /\ ToWrite(ingest, m) \in Nat
               /\ ingest[q].macs = {} => Owed(ingest, m)[q] = 0
    <3>1. Owed(ingest', m)[q] = 0
      BY <1>2 DEF Owed, NoIngest
    <3>2. ToWrite(ingest', m) = ToWrite(ingest, m) - Owed(ingest, m)[q] + Owed(ingest', m)[q]
      BY <1>1, <1>2, OwedStep
    <3>3. Owed(ingest, m)[q] \in Nat /\ ToWrite(ingest', m) \in Nat /\ ToWrite(ingest, m) \in Nat
      BY <1>1, <1>2, OwedType
    <3>4. ingest[q].macs = {} => Owed(ingest, m)[q] = 0
      BY DEF Owed
    <3> QED BY <3>1, <3>2, <3>3, <3>4
  <2>2. stored' = stored /\ bandwidth' = bandwidth
    BY DEF tables
  <2>3. \A m \in Macs : bandwidth[m] \in Nat /\ OfMac(stored, m) \in Nat
    BY OfMacType DEF Inv, Typed
  <2>4. \A m \in Macs :
            /\ bandwidth[m] + ToWrite(ingest, m) <= OfMac(stored, m)
            /\ faults = 0 => bandwidth[m] + ToWrite(ingest, m) = OfMac(stored, m)
    BY FollowsIs DEF Inv
  <2>5. ASSUME NEW m \in Macs
        PROVE  /\ bandwidth'[m] + ToWrite(ingest', m) <= OfMac(stored', m)
               /\ faults' = 0 => bandwidth'[m] + ToWrite(ingest', m) = OfMac(stored', m)
    BY <2>1, <2>2, <2>3, <2>4
  <2> QED BY <2>5, FollowsIsNext
<1>10. NothingSentFirst'
  BY DEF Inv, NothingSentFirst, feed
<1> QED BY <1>5, <1>6, <1>7, <1>8, <1>9, <1>10 DEF Inv

LEMMA RespondInv == ASSUME Inv, NEW q \in Rollups, Respond(q) \/ IngestFails(q) PROVE Inv'
<1>1. CASE Respond(q)
  BY <1>1, RequestEndsInv DEF Respond, Ends, Inv, Typed
<1>2. CASE IngestFails(q)
  <2>1. faults' \in 0..MaxFaults /\ faults' # 0
    BY <1>2, ConstantsAssumption DEF IngestFails, Fault, Inv, Typed
  <2> QED BY <1>2, <2>1, RequestEndsInv DEF IngestFails, Ends
<1> QED BY <1>1, <1>2

-----------------------------------------------------------------------------
(* The feed and the other faults.                                          *)

(* What the tables do not show of a step that leaves the requests alone:   *)
(* both sums may lose what was on its way, when there is a fault.          *)
LEMMA LosesInv ==
    ASSUME Inv, Typed', MacsOfFlows', NothingSentFirst', UNCHANGED <<stored, recent, bandwidth, seen>>,
           \A k \in Flows : window'[k] <= seen[k] /\ \A q \in Rollups : ingest'[q].flows[k] <= seen[k],
           \A k \in Flows : Counted(k)' <= Counted(k) /\ ToStore(ingest', k) <= ToStore(ingest, k),
           \A m \in Macs : ToWrite(ingest', m) <= ToWrite(ingest, m),
           faults' # 0
    PROVE  Inv'
<1>1. Bounded'
  BY DEF Inv, Bounded
<1>2. ASSUME NEW k \in Flows
      PROVE  stored'[k] + (Counted(k)' + ToStore(ingest', k)) <= seen'[k]
  <2>1. ToStore(ingest, k) \in Nat /\ ToStore(ingest', k) \in Nat
    BY OwedType DEF Inv, Typed
  <2>2. {stored[k], seen[k], Counted(k), Counted(k)'} \subseteq Nat
    BY DEF Inv, Typed, Bytes, Counted
  <2>3. stored[k] + (Counted(k) + ToStore(ingest, k)) <= seen[k]
    BY StoredOnceIs DEF Inv
  <2> QED BY <2>1, <2>2, <2>3
<1>3. FramesStoredOnce'
  BY <1>2, StoredOnceIsNext
<1>4. ASSUME NEW m \in Macs
      PROVE  bandwidth'[m] + ToWrite(ingest', m) <= OfMac(stored', m)
  <2>1. /\ ToWrite(ingest, m) \in Nat /\ ToWrite(ingest', m) \in Nat /\ OfMac(stored, m) \in Nat
        /\ bandwidth[m] \in Nat
    BY OfMacType, OwedType DEF Inv, Typed
  <2>2. bandwidth[m] + ToWrite(ingest, m) <= OfMac(stored, m)
    BY FollowsIs DEF Inv
  <2> QED BY <2>1, <2>2
<1>5. BandwidthFollowsFlows'
  BY <1>4, FollowsIsNext
<1> QED BY <1>1, <1>3, <1>5 DEF Inv

LEMMA FaultInv == ASSUME Inv, PostTimesOut \/ UpdateFails \/ RestartApi \/ RestartSniffer PROVE Inv'
<1>1. faults' \in 0..MaxFaults /\ faults' # 0 /\ UNCHANGED <<stored, recent, bandwidth, seen>>
  BY ConstantsAssumption
     DEF PostTimesOut, UpdateFails, RestartApi, RestartSniffer, Fault, Inv, Typed, tables, sniffer
<1>2. /\ Nothing \in Bytes /\ \A k \in Flows : Nothing[k] = 0
      /\ NoIngest \in IngestType
  BY OfMacNothing DEF Nothing, NoIngest, IngestType
<1>3. \A k \in Flows : {seen[k], window[k], Counted(k)} \subseteq Nat
  BY DEF Inv, Typed, Bytes, Counted
<1>4. /\ \A k \in Flows : ToStore(ingest, k) \in Nat
      /\ \A m \in Macs : ToWrite(ingest, m) \in Nat
  BY OwedType DEF Inv, Typed
<1>5. /\ \A k \in Flows : window'[k] <= seen[k] /\ Counted(k)' <= Counted(k)
      /\ window' \in Bytes /\ posted' \in Rollups \cup {NONE}
  <2>1. \/ posted' = NONE /\ window' = Nothing
        \/ UNCHANGED <<posted, window>>
    BY DEF PostTimesOut, UpdateFails, RestartApi, RestartSniffer, Cleared, sniffer
  <2> QED BY <1>2, <1>3, <2>1 DEF Inv, Typed, Bounded, Counted
<1>6. ASSUME UNCHANGED ingest, UNCHANGED feed
      PROVE  Inv'
  <2>1. Typed'
    BY <1>1, <1>5, <1>6 DEF PostTimesOut, UpdateFails, RestartApi, RestartSniffer, Inv, Typed, feed, sniffer
  <2>2. MacsOfFlows' /\ NothingSentFirst'
    BY <1>6 DEF Inv, MacsOfFlows, NothingSentFirst, feed
  <2>3. /\ \A k \in Flows : ToStore(ingest', k) <= ToStore(ingest, k)
        /\ \A m \in Macs : ToWrite(ingest', m) <= ToWrite(ingest, m)
    BY <1>4, <1>6
  <2>4. \A k \in Flows, q \in Rollups : ingest'[q].flows[k] <= seen[k]
    BY <1>6 DEF Inv, Bounded
  <2> QED BY <1>1, <1>5, <2>1, <2>2, <2>3, <2>4, LosesInv
<1>7. CASE RestartApi
  <2>1. /\ ingest' = [q \in Rollups |-> NoIngest]
        /\ snapshot' = EMPTY /\ sent' = [c \in Clients |-> NONE] /\ due' = due
    BY <1>7 DEF RestartApi
  <2>2. Typed'
    BY <1>1, <1>2, <1>5, <2>1 DEF Inv, Typed
  <2>3. MacsOfFlows' /\ NothingSentFirst'
    BY <2>1 DEF MacsOfFlows, NothingSentFirst, NoIngest
  <2>4. /\ \A k \in Flows : ToStore(ingest', k) <= ToStore(ingest, k)
        /\ \A m \in Macs : ToWrite(ingest', m) <= ToWrite(ingest, m)
    BY <1>4, <2>1, IdleOwesNothing
  <2>5. \A k \in Flows, q \in Rollups : ingest'[q].flows[k] <= seen[k]
    BY <1>2, <1>3, <2>1 DEF NoIngest
  <2> QED BY <1>1, <1>5, <2>2, <2>3, <2>4, <2>5, LosesInv
<1>8. UNCHANGED <<ingest, feed>> \/ RestartApi
  BY DEF PostTimesOut, UpdateFails, RestartSniffer
<1> QED BY <1>6, <1>7, <1>8

LEMMA FeedInv ==
    ASSUME Inv, \/ IntervalPasses \/ UpdateSnapshot
                \/ \E k \in Flows : AgeOut(k)
                \/ \E c \in Clients : SendSnapshot(c)
    PROVE  Inv'
<1>1. UNCHANGED <<window, posted, seen, ingest, stored, bandwidth, faults>>
  BY DEF IntervalPasses, UpdateSnapshot, AgeOut, SendSnapshot, sniffer, tables
<1>2. /\ recent' \in Bytes
      /\ \A k \in Flows : recent'[k] <= stored[k]
  BY DEF IntervalPasses, UpdateSnapshot, AgeOut, SendSnapshot, tables, Inv, Typed, Bounded, Bytes
<1>3. ByMac(recent) \in Shown
  <2> SUFFICES ASSUME NEW m \in Macs PROVE OfMac(recent, m) \in 0..MaxFrames
    BY DEF ByMac, Shown
  <2>1. \A k \in Flows : recent[k] <= seen[k]
    <3> SUFFICES ASSUME NEW k \in Flows PROVE recent[k] <= seen[k]
      OBVIOUS
    <3>1. recent[k] <= stored[k] /\ {recent[k], stored[k], seen[k], Counted(k)} \subseteq Nat
      BY DEF Inv, Typed, Bounded, Bytes, Counted
    <3>2. ToStore(ingest, k) \in Nat
      BY OwedType DEF Inv, Typed
    <3>3. stored[k] + (Counted(k) + ToStore(ingest, k)) <= seen[k]
      BY StoredOnceIs DEF Inv
    <3> QED BY <3>1, <3>2, <3>3
  <2>2. OfMac(recent, m) <= OfMac(seen, m) /\ OfMac(seen, m) <= SumFunctionOnSet(seen, Flows)
    BY <2>1, OfMacBound DEF Inv, Typed
  <2>3. SumFunctionOnSet(seen, Flows) <= MaxFrames /\ SumFunctionOnSet(seen, Flows) \in Nat
    <3>1. \A k \in Flows : seen[k] \in Nat
      BY DEF Inv, Typed, Bytes
    <3> QED BY <3>1, ConstantsAssumption, SumType DEF Inv, Bounded
  <2>4. OfMac(recent, m) \in Nat /\ OfMac(seen, m) \in Nat
    BY OfMacType DEF Inv, Typed
  <2> QED BY <2>2, <2>3, <2>4, ConstantsAssumption
<1>4. ByMac(recent) # EMPTY
  BY <1>3, ConstantsAssumption DEF Shown
<1>5. Typed'
  <2>1. snapshot' \in Shown \cup {EMPTY}
    BY <1>3 DEF IntervalPasses, UpdateSnapshot, AgeOut, SendSnapshot, feed, Inv, Typed
  <2>2. sent' \in [Clients -> Shown \cup {EMPTY, NONE}]
    BY DEF IntervalPasses, UpdateSnapshot, AgeOut, SendSnapshot, feed, Inv, Typed
  <2>3. due' \in BOOLEAN
    BY DEF IntervalPasses, UpdateSnapshot, AgeOut, SendSnapshot, sniffer, Inv, Typed
  <2> QED BY <1>1, <1>2, <2>1, <2>2, <2>3 DEF Inv, Typed
<1>6. Bounded'
  BY <1>1, <1>2 DEF Inv, Bounded
<1>7. FramesStoredOnce'
  <2>1. \A k \in Flows : Counted(k)' = Counted(k)
    BY <1>1 DEF Counted
  <2> QED BY <1>1, <2>1, StoredOnceIs, StoredOnceIsNext DEF Inv
<1>8. BandwidthFollowsFlows'
  BY <1>1, FollowsIs, FollowsIsNext DEF Inv
<1>9. MacsOfFlows'
  BY <1>1 DEF Inv, MacsOfFlows
<1>10. NothingSentFirst'
  BY <1>4 DEF IntervalPasses, UpdateSnapshot, AgeOut, SendSnapshot, feed, Inv, Typed, NothingSentFirst
<1> QED BY <1>5, <1>6, <1>7, <1>8, <1>9, <1>10 DEF Inv

-----------------------------------------------------------------------------
(* Every step, and the invariant.                                          *)

LEMMA InitInv == Init => Inv
<1> SUFFICES ASSUME Init PROVE Inv
  OBVIOUS
<1>1. /\ Nothing \in Bytes /\ \A k \in Flows : Nothing[k] = 0
      /\ \A m \in Macs : OfMac(Nothing, m) = 0
  BY OfMacNothing DEF Nothing
<1>2. /\ ingest \in [Rollups -> IngestType]
      /\ \A k \in Flows : ToStore(ingest, k) = 0
      /\ \A m \in Macs : ToWrite(ingest, m) = 0
  BY IdleOwesNothing DEF Init
<1>3. Typed
  <2>1. {window, stored, recent, seen} \subseteq Bytes
    BY <1>1 DEF Init
  <2>2. bandwidth \in [Macs -> Nat] /\ sent \in [Clients -> Shown \cup {EMPTY, NONE}]
    BY DEF Init, Silent
  <2>3. posted = NONE /\ snapshot = EMPTY /\ faults \in 0..MaxFaults
    BY ConstantsAssumption DEF Init
  <2>4. due \in BOOLEAN
    BY DEF Init
  <2> QED BY <1>2, <2>1, <2>2, <2>3, <2>4 DEF Typed
<1>4. Bounded
  <2>1. SumFunctionOnSet(seen, Flows) = 0
    BY <1>1, ConstantsAssumption, SumZero DEF Init
  <2> QED BY <1>1, <2>1, ConstantsAssumption DEF Init, Bounded, NoIngest
<1>5. MacsOfFlows /\ NothingSentFirst
  BY DEF Init, MacsOfFlows, NothingSentFirst, NoIngest
<1>6. FramesStoredOnce
  <2>1. \A k \in Flows : Counted(k) = 0 /\ stored[k] = 0 /\ seen[k] = 0
    BY <1>1 DEF Init, Counted
  <2> QED BY <1>2, <2>1, StoredOnceIs
<1>7. BandwidthFollowsFlows
  <2>1. \A m \in Macs : bandwidth[m] = 0 /\ OfMac(stored, m) = 0
    BY <1>1 DEF Init, Silent
  <2> QED BY <1>2, <2>1, FollowsIs
<1> QED BY <1>3, <1>4, <1>5, <1>6, <1>7 DEF Inv

LEMMA NextInv == Inv /\ [Next]_vars => Inv'
<1> SUFFICES ASSUME Inv, [Next]_vars PROVE Inv'
  OBVIOUS
<1>1. CASE UNCHANGED vars
  <2>1. UNCHANGED <<window, due, posted, seen, ingest, stored, recent, bandwidth, snapshot, sent, faults>>
    BY <1>1 DEF vars, sniffer, tables, feed
  <2>2. Typed' /\ Bounded' /\ MacsOfFlows' /\ NothingSentFirst'
    BY <2>1 DEF Inv, Typed, Bounded, MacsOfFlows, NothingSentFirst
  <2>3. FramesStoredOnce'
    <3>1. \A k \in Flows : Counted(k)' = Counted(k)
      BY <2>1 DEF Counted
    <3> QED BY <2>1, <3>1, StoredOnceIs, StoredOnceIsNext DEF Inv
  <2>4. BandwidthFollowsFlows'
    BY <2>1, FollowsIs, FollowsIsNext DEF Inv
  <2> QED BY <2>2, <2>3, <2>4 DEF Inv
<1>2. ASSUME NEW k \in Flows, CountFrame(k) PROVE Inv'
  BY <1>2, CountFrameInv
<1>3. CASE Quiet
  BY <1>3, QuietInv
<1>4. ASSUME NEW q \in Rollups, StoreFlows(q) PROVE Inv'
  BY <1>4, StoreFlowsInv
<1>5. ASSUME NEW q \in Rollups, NEW m \in Macs, WriteRollup(q, m) PROVE Inv'
  BY <1>5, WriteRollupInv
<1>6. ASSUME NEW q \in Rollups, Respond(q) \/ IngestFails(q) PROVE Inv'
  BY <1>6, RespondInv
<1>7. CASE \/ IntervalPasses \/ UpdateSnapshot
           \/ \E k \in Flows : AgeOut(k)
           \/ \E c \in Clients : SendSnapshot(c)
  BY <1>7, FeedInv
<1>8. CASE PostTimesOut \/ UpdateFails \/ RestartApi \/ RestartSniffer
  BY <1>8, FaultInv
<1> QED BY <1>1, <1>2, <1>3, <1>4, <1>5, <1>6, <1>7, <1>8 DEF Next

(* Inv is an invariant.                                                    *)
THEOREM Invariance == Spec => []Inv
BY InitInv, NextInv, PTL DEF Spec

(* Nothing ever holds more bytes than were seen.                           *)
LEMMA InvTypeOK == Inv => TypeOK
<1> SUFFICES ASSUME Inv PROVE TypeOK
  OBVIOUS
<1>1. \A k \in Flows : seen[k] <= MaxFrames
  <2> SUFFICES ASSUME NEW k \in Flows PROVE seen[k] <= MaxFrames
    OBVIOUS
  <2>1. \A j \in Flows : seen[j] \in Nat
    BY DEF Inv, Typed, Bytes
  <2>2. IsFiniteSet(Flows) /\ IsFiniteSet(Flows \ {k})
    BY ConstantsAssumption, FS_RemoveElement
  <2>3. SumFunctionOnSet(seen, Flows) = seen[k] + SumFunctionOnSet(seen, Flows \ {k})
    BY <2>1, <2>2, SumRemove
  <2>4. SumFunctionOnSet(seen, Flows \ {k}) \in Nat
    BY <2>1, <2>2, SumType
  <2> QED BY <2>1, <2>3, <2>4, ConstantsAssumption DEF Inv, Bounded
<1>2. \A k \in Flows : stored[k] <= seen[k]
  <2> SUFFICES ASSUME NEW k \in Flows PROVE stored[k] <= seen[k]
    OBVIOUS
  <2>1. ToStore(ingest, k) \in Nat /\ {stored[k], seen[k], Counted(k)} \subseteq Nat
    BY OwedType DEF Inv, Typed, Bytes, Counted
  <2>2. stored[k] + (Counted(k) + ToStore(ingest, k)) <= seen[k]
    BY StoredOnceIs DEF Inv
  <2> QED BY <2>1, <2>2
<1>3. \A a \in Bytes : (\A k \in Flows : a[k] <= seen[k]) => a \in [Flows -> 0..MaxFrames]
  BY <1>1, ConstantsAssumption DEF Bytes, Inv, Typed
<1>4. {window, stored, recent, seen} \subseteq [Flows -> 0..MaxFrames]
  <2>1. \A k \in Flows : recent[k] <= seen[k]
    BY <1>2 DEF Inv, Typed, Bounded, Bytes
  <2> QED BY <1>2, <1>3, <2>1 DEF Inv, Typed, Bounded, Bytes
<1>5. ingest \in [Rollups -> [pc : {"idle", "flows", "bandwidth"},
                              flows : [Flows -> 0..MaxFrames], macs : SUBSET Macs]]
  <2>1. \A q \in Rollups : ingest[q] \in IngestType /\ ingest[q].flows \in [Flows -> 0..MaxFrames]
    BY <1>3 DEF Inv, Typed, Bounded, IngestType
  <2> QED BY <2>1 DEF Inv, Typed, IngestType
<1>6. bandwidth \in [Macs -> 0..MaxFrames]
  <2> SUFFICES ASSUME NEW m \in Macs PROVE bandwidth[m] <= MaxFrames
    BY ConstantsAssumption DEF Inv, Typed
  <2>1. OfMac(stored, m) <= OfMac(seen, m) /\ OfMac(seen, m) <= SumFunctionOnSet(seen, Flows)
    BY <1>2, OfMacBound DEF Inv, Typed
  <2>2. /\ ToWrite(ingest, m) \in Nat /\ OfMac(stored, m) \in Nat /\ OfMac(seen, m) \in Nat
        /\ bandwidth[m] \in Nat
    BY OwedType, OfMacType DEF Inv, Typed
  <2>3. bandwidth[m] + ToWrite(ingest, m) <= OfMac(stored, m)
    BY FollowsIs DEF Inv
  <2>4. SumFunctionOnSet(seen, Flows) <= MaxFrames /\ SumFunctionOnSet(seen, Flows) \in Int
    <3>1. \A k \in Flows : seen[k] \in Int
      BY DEF Inv, Typed, Bytes
    <3> QED BY <3>1, ConstantsAssumption, SumType DEF Inv, Bounded
  <2> QED BY <2>1, <2>2, <2>3, <2>4, ConstantsAssumption
<1> QED BY <1>4, <1>5, <1>6 DEF Inv, Typed, TypeOK, Shown

(* Every request, table and view stays within the frames seen.             *)
THEOREM TypeCorrect == Spec => []TypeOK
BY Invariance, InvTypeOK, PTL

(* A frame of a window is stored at most once, whatever fails, and exactly *)
(* once while nothing does.                                                *)
THEOREM StoredOnce == Spec => []FramesStoredOnce
<1>1. Inv => FramesStoredOnce
  BY DEF Inv
<1> QED BY <1>1, Invariance, PTL

(* The metric of a MAC is never ahead of its flows.                        *)
THEOREM BandwidthFollows == Spec => []BandwidthFollowsFlows
<1>1. Inv => BandwidthFollowsFlows
  BY DEF Inv
<1> QED BY <1>1, Invariance, PTL

(* No stream blanks a view that has shown talkers.                         *)
THEOREM NeverBlanked == Spec => EmptyOnlyFirst
<1>1. Inv /\ [Next]_vars => [\A c \in Clients : sent[c] # NONE /\ sent'[c] = EMPTY => sent[c] = EMPTY]_vars
  <2> SUFFICES ASSUME Inv, Next, NEW c \in Clients, sent[c] # NONE, sent'[c] = EMPTY
               PROVE  sent[c] = EMPTY
    OBVIOUS
  <2>1. CASE sent' = sent
    BY <2>1
  <2>2. CASE \E d \in Clients : SendSnapshot(d)
    BY <2>2 DEF SendSnapshot, Inv, Typed, NothingSentFirst
  <2>3. CASE RestartApi
    BY <2>3, ConstantsAssumption DEF RestartApi
  <2> QED
    BY <2>1, <2>2, <2>3
       DEF Next, IntervalPasses, Quiet, CountFrame, AgeOut, StoreFlows, WriteRollup, Respond,
           UpdateSnapshot, IngestFails, PostTimesOut, UpdateFails, RestartSniffer, feed
<1> QED BY <1>1, Invariance, PTL DEF Spec, EmptyOnlyFirst
=============================================================================
