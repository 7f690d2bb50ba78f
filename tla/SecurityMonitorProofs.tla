------------------------ MODULE SecurityMonitorProofs ------------------------
(* Proofs about SecurityMonitor, for any number of devices and of requests *)
(* in flight, failures included: a status is below its signals only after  *)
(* a request that another had overtaken; an alert raised on an existence   *)
(* check gets a second one only from such a scan result; and a request is  *)
(* lost only to a failure or to the duplicates nothing prevents.           *)
EXTENDS SecurityMonitor, TLAPS

ScanRequest == [pc : {"idle", "malicious", "suspicious", "unexpected", "commit"},
                dev : Devices \cup {NONE}, found : Findings \cup {NONE}, loaded : Statuses \cup {NONE},
                malicious : BOOLEAN, suspicious : BOOLEAN, alert : BOOLEAN,
                older : SUBSET Scans, superseded : BOOLEAN, overtaken : BOOLEAN]
RollupRequest == [pc : {"idle", "check"}, todo : [Devices -> Nat], hits : [Devices -> Nat],
                  flip : SUBSET Devices, overtaken : SUBSET Devices]
DailyRequest == [pc : {"idle", "next", "suspicious", "latest", "malicious"}, todo : SUBSET Devices,
                 dev : Devices \cup {NONE}, found : Findings \cup {NONE},
                 loaded : {NONE} \cup [Devices -> Statuses], anomalous : SUBSET Devices,
                 queue : SUBSET Devices, alert : SUBSET Devices,
                 write : {NONE} \cup [Devices -> Statuses \cup {NONE}], overtaken : SUBSET Devices]

Tables ==
    /\ status \in [Devices -> Statuses]
    /\ latest \in [Devices -> Findings \cup {NONE}]
    /\ open \in [Devices -> [AlertTypes -> Nat]]
    /\ pending \in [Devices -> Nat]
    /\ raced \subseteq Devices /\ faults \in Nat

(* A scan result that nothing has overtaken still has the device as it     *)
(* found it, and misses no alert of a type it has read.                    *)
ScanFresh(s) ==
    LET d == scan[s].dev IN
    /\ scan[s].loaded = status[d]
    /\ scan[s].alert => open[d]["unexpected_port"] = 0
    /\ scan[s].pc # "malicious" /\ open[d]["malicious_ip"] > 0 => scan[s].malicious
    /\ scan[s].pc \in {"unexpected", "commit"} /\ open[d]["suspicious_traffic"] > 0 => scan[s].suspicious

ScanSound(s) ==
    /\ scan[s].pc # "idle" => scan[s].dev \in Devices /\ scan[s].found \in Findings
    /\ scan[s].superseded => scan[s].overtaken
    /\ scan[s].pc # "idle" /\ ~scan[s].overtaken => ScanFresh(s)

(* A rollup knows the devices whose status is to be raised.                *)
RollupSound(r) ==
    /\ \A d \in rollup[r].flip : rollup[r].hits[d] > 0
    /\ \A d \in Devices \ rollup[r].overtaken :
          rollup[r].hits[d] > 0 => d \in rollup[r].flip \/ status[d] = "critical"

(* What the daily job's commit makes of a status, and what it is to cover. *)
Outcome(d) == IF daily.write[d] = NONE THEN status[d] ELSE daily.write[d]
Covers(s, d) == /\ Risky(latest[d]) \/ open[d]["malicious_ip"] > 0 => s = "critical"
                /\ s # "good"

DailyTyped ==
    /\ daily \in DailyRequest
    /\ daily.pc \in {"suspicious", "latest", "malicious"} => daily.dev \in Devices
    /\ daily.pc # "idle" => /\ daily.write \in [Devices -> Statuses \cup {NONE}]
                            /\ daily.loaded \in [Devices -> Statuses]

(* The daily job writes only devices it raises an alert for, and that are  *)
(* still without one; for each it has left, unless overtaken, the status   *)
(* covers what it is about to be.                                          *)
DailySound ==
    daily.pc # "idle" =>
        /\ \A d \in daily.alert : open[d]["suspicious_traffic"] = 0
        /\ \A d \in Devices : daily.write[d] # NONE => d \in daily.alert
        /\ daily.pc \in {"latest", "malicious"} => daily.dev \in daily.alert
        /\ \A d \in Devices \ daily.overtaken : daily.loaded[d] = status[d]
        /\ daily.pc = "malicious" /\ daily.dev \notin daily.overtaken => daily.found = latest[daily.dev]
        /\ \A d \in daily.alert \ daily.overtaken :
              Covers(Outcome(d), d) \/ (d = daily.dev /\ daily.pc \in {"latest", "malicious"})

AnomalyOnce == \A d \in Devices : open[d]["suspicious_traffic"] <= 1

Inv ==
    /\ Tables /\ AnomalyOnce /\ StatusCoversUnlessRaced
    /\ scan \in [Scans -> ScanRequest] /\ \A s \in Scans : ScanSound(s)
    /\ rollup \in [Rollups -> RollupRequest] /\ \A r \in Rollups : RollupSound(r)
    /\ DailyTyped /\ DailySound

-----------------------------------------------------------------------------
(* The requests a step leaves alone.                                       *)

(* The step changes the devices of D; of the others it may acknowledge     *)
(* alerts.  Only the daily job's own commit reports suspicious traffic.    *)
Touches(D) ==
    /\ \A e \in Devices \ D :
          /\ status'[e] = status[e] /\ latest'[e] = latest[e]
          /\ \A t \in AlertTypes : /\ open'[e][t] > 0 => open[e][t] > 0
                                   /\ open[e][t] = 0 => open'[e][t] = 0
ReportsNone ==
    \A e \in Devices : open[e]["suspicious_traffic"] = 0 => open'[e]["suspicious_traffic"] = 0

ScanKept(t, D) ==
    \E o \in SUBSET Scans, v \in BOOLEAN, w \in BOOLEAN :
        /\ scan'[t] = [scan[t] EXCEPT !.older = o, !.overtaken = v, !.superseded = w]
        /\ ~v => ~w /\ ~scan[t].overtaken /\ scan[t].dev \notin D
RollupKept(r, D) ==
    \E o \in SUBSET Devices :
        /\ rollup'[r] = [rollup[r] EXCEPT !.overtaken = o]
        /\ rollup[r].overtaken \subseteq o
        /\ \A d \in D : rollup[r].hits[d] > 0 => d \in o
DailyKept(D) ==
    daily.pc # "idle" => \E o \in SUBSET Devices :
        daily' = [daily EXCEPT !.overtaken = o] /\ daily.overtaken \cup D \subseteq o

LEMMA IdleTyped == NoScan \in ScanRequest /\ NoRollup \in RollupRequest /\ NoDaily \in DailyRequest
BY DEF NoScan, NoRollup, NoDaily, ScanRequest, RollupRequest, DailyRequest

LEMMA DerivedStatus == \A r, u, m, a : DeriveStatus(r, u, m, a) \in Statuses
BY DEF DeriveStatus, Statuses

LEMMA TouchesNothing == ASSUME UNCHANGED <<status, latest, open>> PROVE Touches({})
BY DEF Touches

LEMMA KeptScan ==
    ASSUME scan \in [Scans -> ScanRequest], NEW t \in Scans, NEW D, ScanKept(t, D), Touches(D), ScanSound(t)
    PROVE  scan'[t] \in ScanRequest /\ ScanSound(t)'
<1>1. PICK o \in SUBSET Scans, v \in BOOLEAN, w \in BOOLEAN :
        /\ scan'[t] = [scan[t] EXCEPT !.older = o, !.overtaken = v, !.superseded = w]
        /\ ~v => ~w /\ ~scan[t].overtaken /\ scan[t].dev \notin D
  BY DEF ScanKept
<1> DEFINE q == scan[t]
<1>2. q \in ScanRequest
  OBVIOUS
<1>3. scan'[t] = [q EXCEPT !.older = o, !.overtaken = v, !.superseded = w]
  BY <1>1
<1> HIDE DEF q
<1>4. scan'[t] \in ScanRequest
  BY <1>2, <1>3 DEF ScanRequest
<1>5. /\ scan'[t].pc = q.pc /\ scan'[t].dev = q.dev /\ scan'[t].found = q.found
      /\ scan'[t].loaded = q.loaded /\ scan'[t].malicious = q.malicious
      /\ scan'[t].suspicious = q.suspicious /\ scan'[t].alert = q.alert
      /\ scan'[t].overtaken = v /\ scan'[t].superseded = w
  BY <1>2, <1>3 DEF ScanRequest
<1>6. ASSUME q.pc # "idle", ~v PROVE ScanFresh(t)'
  <2>1. q.dev \in Devices \ D /\ ScanFresh(t)
    BY <1>1, <1>6 DEF ScanSound, q
  <2>2. /\ status'[q.dev] = status[q.dev]
        /\ \A a \in AlertTypes : /\ open'[q.dev][a] > 0 => open[q.dev][a] > 0
                                 /\ open[q.dev][a] = 0 => open'[q.dev][a] = 0
    BY <2>1 DEF Touches
  <2>3. /\ q.loaded = status[q.dev]
        /\ q.alert => open[q.dev]["unexpected_port"] = 0
        /\ q.pc # "malicious" /\ open[q.dev]["malicious_ip"] > 0 => q.malicious
        /\ q.pc \in {"unexpected", "commit"} /\ open[q.dev]["suspicious_traffic"] > 0 => q.suspicious
    BY <2>1 DEF ScanFresh, q
  <2> QED
    BY <1>5, <2>1, <2>2, <2>3 DEF ScanFresh, AlertTypes
<1>7. scan'[t].pc # "idle" => scan'[t].dev \in Devices /\ scan'[t].found \in Findings
  BY <1>5 DEF ScanSound, q
<1> QED
  BY <1>1, <1>4, <1>5, <1>6, <1>7 DEF ScanSound

LEMMA KeptRollup ==
    ASSUME rollup \in [Rollups -> RollupRequest], NEW r \in Rollups, NEW D, RollupKept(r, D), Touches(D),
           RollupSound(r)
    PROVE  rollup'[r] \in RollupRequest /\ RollupSound(r)'
<1>1. PICK o \in SUBSET Devices :
        /\ rollup'[r] = [rollup[r] EXCEPT !.overtaken = o]
        /\ rollup[r].overtaken \subseteq o
        /\ \A d \in D : rollup[r].hits[d] > 0 => d \in o
  BY DEF RollupKept
<1>2. /\ rollup'[r] \in RollupRequest /\ rollup'[r].overtaken = o
      /\ rollup'[r].hits = rollup[r].hits /\ rollup'[r].flip = rollup[r].flip
  BY <1>1 DEF RollupRequest
<1> QED
  BY <1>1, <1>2 DEF RollupSound, Touches

LEMMA KeptDaily ==
    ASSUME NEW D, DailyKept(D), daily.pc # "idle", Touches(D), ReportsNone, DailyTyped, DailySound
    PROVE  DailyTyped' /\ DailySound'
<1>1. PICK o \in SUBSET Devices : daily' = [daily EXCEPT !.overtaken = o] /\ daily.overtaken \cup D \subseteq o
  BY DEF DailyKept
<1>2. /\ daily' \in DailyRequest
      /\ daily'.pc = daily.pc /\ daily'.dev = daily.dev /\ daily'.found = daily.found
      /\ daily'.loaded = daily.loaded /\ daily'.alert = daily.alert /\ daily'.write = daily.write
      /\ daily'.overtaken = o
  BY <1>1 DEF DailyTyped, DailyRequest
<1>3. DailyTyped'
  BY <1>2 DEF DailyTyped
<1>4. daily.alert \subseteq Devices
  BY DEF DailyTyped, DailyRequest
<1>5. \A d \in Devices \ o : /\ d \in Devices \ D /\ d \notin daily.overtaken
                             /\ status'[d] = status[d] /\ latest'[d] = latest[d]
                             /\ open'[d]["malicious_ip"] > 0 => open[d]["malicious_ip"] > 0
  BY <1>1 DEF Touches, AlertTypes
<1>6. \A d \in Devices \ o : Covers(Outcome(d), d) => Covers(Outcome(d), d)'
  BY <1>2, <1>5 DEF Covers, Outcome
<1>7. \A d \in daily'.alert : open'[d]["suspicious_traffic"] = 0
  BY <1>2, <1>4 DEF DailySound, ReportsNone
<1>8. daily'.pc = "malicious" /\ daily'.dev \notin daily'.overtaken => daily'.found = latest'[daily'.dev]
  BY <1>2, <1>5 DEF DailySound, DailyTyped
<1>9. \A d \in Devices \ daily'.overtaken : daily'.loaded[d] = status'[d]
  BY <1>2, <1>5 DEF DailySound
<1>10. \A d \in daily'.alert \ daily'.overtaken :
          Covers(Outcome(d), d)' \/ (d = daily'.dev /\ daily'.pc \in {"latest", "malicious"})
  BY <1>2, <1>4, <1>5, <1>6 DEF DailySound
<1> QED
  BY <1>2, <1>3, <1>7, <1>8, <1>9, <1>10 DEF DailySound

(* A step that leaves a request as it is keeps it.                         *)
LEMMA SameKept ==
    ASSUME Inv
    PROVE  /\ \A t \in Scans : scan'[t] = scan[t] => ScanKept(t, {})
           /\ \A r \in Rollups : rollup'[r] = rollup[r] => RollupKept(r, {})
           /\ daily' = daily => DailyKept({})
<1>1. ASSUME NEW t \in Scans, scan'[t] = scan[t] PROVE ScanKept(t, {})
  <2> DEFINE q == scan[t]
  <2>1. q \in ScanRequest /\ (q.superseded => q.overtaken)
    BY DEF Inv, ScanSound
  <2>2. q = [q EXCEPT !.older = q.older, !.overtaken = q.overtaken, !.superseded = q.superseded]
    BY <2>1 DEF ScanRequest
  <2>3. q.older \in SUBSET Scans /\ q.overtaken \in BOOLEAN /\ q.superseded \in BOOLEAN
    BY <2>1 DEF ScanRequest
  <2> QED
    BY <1>1, <2>1, <2>2, <2>3 DEF ScanKept
<1>2. ASSUME NEW r \in Rollups, rollup'[r] = rollup[r] PROVE RollupKept(r, {})
  <2>1. rollup[r] \in RollupRequest
    BY DEF Inv
  <2>2. rollup[r] = [rollup[r] EXCEPT !.overtaken = rollup[r].overtaken]
    BY <2>1 DEF RollupRequest
  <2> QED
    BY <1>2, <2>1, <2>2 DEF RollupKept, RollupRequest
<1>3. ASSUME daily' = daily PROVE DailyKept({})
  <2>1. daily \in DailyRequest
    BY DEF Inv, DailyTyped
  <2>2. daily = [daily EXCEPT !.overtaken = daily.overtaken]
    BY <2>1 DEF DailyRequest
  <2> QED
    BY <1>3, <2>1, <2>2 DEF DailyKept, DailyRequest
<1> QED
  BY <1>1, <1>2, <1>3

-----------------------------------------------------------------------------
(* Steps that change no row: they need only leave the requests sound.      *)

LEMMA RowsKept ==
    ASSUME Inv, UNCHANGED rows, faults' \in Nat
    PROVE  Tables' /\ AnomalyOnce' /\ StatusCoversUnlessRaced' /\ Touches({})
BY TouchesNothing DEF Inv, Tables, AnomalyOnce, StatusCoversUnlessRaced, Covered, rows

LEMMA OneScanMoves ==
    ASSUME Inv, NEW s \in Scans, UNCHANGED <<rows, rollup, daily>>, faults' \in Nat,
           scan' = [t \in Scans |-> scan'[t]], \A t \in Scans \ {s} : ScanKept(t, {}),
           scan'[s] \in ScanRequest, ScanSound(s)'
    PROVE  Inv'
<1>1. Tables' /\ AnomalyOnce' /\ StatusCoversUnlessRaced' /\ Touches({})
  BY RowsKept
<1>2. ASSUME NEW t \in Scans \ {s} PROVE scan'[t] \in ScanRequest /\ ScanSound(t)'
  BY <1>1, <1>2, KeptScan DEF Inv
<1>3. scan' \in [Scans -> ScanRequest] /\ \A t \in Scans : ScanSound(t)'
  <2>1. ASSUME NEW t \in Scans PROVE scan'[t] \in ScanRequest /\ ScanSound(t)'
    BY <1>2, <2>1
  <2> QED
    BY <2>1
<1>4. rollup' \in [Rollups -> RollupRequest] /\ \A r \in Rollups : RollupSound(r)'
  BY DEF Inv, RollupSound, rows
<1>5. DailyTyped' /\ DailySound'
  BY DEF Inv, DailyTyped, DailySound, Covers, Outcome, rows
<1> QED
  BY <1>1, <1>3, <1>4, <1>5 DEF Inv

(* A scan that ends leaves the others, which it is no longer older than.   *)
LEMMA ScanEndsInv ==
    ASSUME Inv, NEW s \in Scans, EndScan(s), UNCHANGED <<rows, rollup, daily>>, faults' \in Nat
    PROVE  Inv'
<1>1. scan' = [t \in Scans |-> IF t = s THEN NoScan ELSE [scan[t] EXCEPT !.older = @ \ {s}]]
  BY DEF EndScan
<1>2. ASSUME NEW t \in Scans \ {s} PROVE ScanKept(t, {})
  <2> DEFINE q == scan[t]
  <2>1. q \in ScanRequest /\ (q.superseded => q.overtaken)
    BY DEF Inv, ScanSound
  <2>2. scan'[t] = [q EXCEPT !.older = q.older \ {s}]
    BY <1>1
  <2>3. scan'[t] = [q EXCEPT !.older = q.older \ {s}, !.overtaken = q.overtaken, !.superseded = q.superseded]
    BY <2>1, <2>2 DEF ScanRequest
  <2>4. q.older \ {s} \in SUBSET Scans /\ q.overtaken \in BOOLEAN /\ q.superseded \in BOOLEAN
    BY <2>1 DEF ScanRequest
  <2> QED
    BY <2>1, <2>3, <2>4 DEF ScanKept
<1>3. scan'[s] = NoScan
  BY <1>1
<1>4. scan'[s] \in ScanRequest /\ ScanSound(s)'
  BY <1>3, IdleTyped DEF ScanSound, NoScan
<1> QED
  BY <1>1, <1>2, <1>4, OneScanMoves

(* What a scan that has read something knows; the fields are those the     *)
(* step gives it.                                                          *)
LEMMA ScanMoves ==
    ASSUME Inv, NEW s \in Scans, UNCHANGED <<tables, rollup, daily>>, scan[s].pc # "idle",
           NEW c \in {"suspicious", "unexpected", "commit"},
           NEW m \in BOOLEAN, NEW u \in BOOLEAN, NEW a \in BOOLEAN,
           scan' = [scan EXCEPT ![s] =
               [scan[s] EXCEPT !.pc = c, !.malicious = m, !.suspicious = u, !.alert = a]],
           ~scan[s].overtaken =>
               /\ a => open[scan[s].dev]["unexpected_port"] = 0
               /\ open[scan[s].dev]["malicious_ip"] > 0 => m
               /\ c # "suspicious" /\ open[scan[s].dev]["suspicious_traffic"] > 0 => u
    PROVE  Inv'
<1> DEFINE q == scan[s]
<1>1. /\ q \in ScanRequest /\ q.dev \in Devices /\ q.found \in Findings
      /\ q.superseded => q.overtaken
      /\ ~q.overtaken => q.loaded = status[q.dev]
  BY DEF Inv, ScanSound, ScanFresh
<1>2. /\ scan'[s] = [q EXCEPT !.pc = c, !.malicious = m, !.suspicious = u, !.alert = a]
      /\ scan' = [t \in Scans |-> scan'[t]]
      /\ \A t \in Scans \ {s} : scan'[t] = scan[t]
  BY DEF Inv
<1> HIDE DEF q
<1>3. /\ scan'[s] \in ScanRequest /\ scan'[s].pc = c /\ scan'[s].dev = q.dev /\ scan'[s].found = q.found
      /\ scan'[s].loaded = q.loaded /\ scan'[s].malicious = m /\ scan'[s].suspicious = u
      /\ scan'[s].alert = a /\ scan'[s].superseded = q.superseded /\ scan'[s].overtaken = q.overtaken
  BY <1>1, <1>2 DEF ScanRequest
<1>4. UNCHANGED <<status, open>>
  BY DEF tables, rows
<1>5. ASSUME ~q.overtaken PROVE ScanFresh(s)'
  <2>1. /\ a => open[q.dev]["unexpected_port"] = 0
        /\ open[q.dev]["malicious_ip"] > 0 => m
        /\ c # "suspicious" /\ open[q.dev]["suspicious_traffic"] > 0 => u
        /\ q.loaded = status[q.dev]
    BY <1>1, <1>5 DEF q
  <2> QED
    BY <1>3, <1>4, <2>1 DEF ScanFresh
<1>6. ScanSound(s)'
  BY <1>1, <1>3, <1>5 DEF ScanSound
<1>7. UNCHANGED rows /\ faults' \in Nat
  BY DEF tables, Inv, Tables
<1> QED
  BY <1>2, <1>3, <1>6, <1>7, SameKept, OneScanMoves

LEMMA ScanReadsInv ==
    ASSUME Inv, NEW s \in Scans, ScanReadsMalicious(s) \/ ScanReadsSuspicious(s) \/ ScanReadsUnexpected(s)
    PROVE  Inv'
<1> DEFINE q == scan[s]
           d == q.dev
<1>1. UNCHANGED <<tables, rollup, daily>> /\ q.pc # "idle"
  BY DEF ScanReadsMalicious, ScanReadsSuspicious, ScanReadsUnexpected, ScanReads
<1>2. CASE EndScan(s)
  <2>1. UNCHANGED rows /\ faults' \in Nat
    BY <1>1 DEF tables, Inv, Tables
  <2> QED
    BY <1>1, <1>2, <2>1, ScanEndsInv
<1>3. ASSUME ~EndScan(s) PROVE Inv'
  <2>1. q \in ScanRequest /\ d \in Devices
    BY <1>1 DEF Inv, ScanSound
  <2>2. \A t \in AlertTypes : open[d][t] \in Nat
    BY <2>1 DEF Inv, Tables
  <2>3. ~q.overtaken => /\ q.alert => open[d]["unexpected_port"] = 0
                        /\ q.pc # "malicious" /\ open[d]["malicious_ip"] > 0 => q.malicious
                        /\ q.pc \in {"unexpected", "commit"} /\ open[d]["suspicious_traffic"] > 0 => q.suspicious
    BY <1>1 DEF Inv, ScanSound, ScanFresh
  <2>4. CASE ScanReadsMalicious(s)
    <3> DEFINE b == open[d]["malicious_ip"] = 1
    <3>1. q.pc = "malicious" /\ ~(open[d]["malicious_ip"] > 1)
          /\ scan' = [scan EXCEPT ![s] = [q EXCEPT !.pc = "suspicious", !.malicious = b]]
      BY <1>3, <2>4 DEF ScanReadsMalicious, ScanReads
    <3>2. b \in BOOLEAN /\ q.suspicious \in BOOLEAN /\ q.alert \in BOOLEAN
      BY <2>1 DEF ScanRequest
    <3>3. open[d]["malicious_ip"] > 0 => b
      BY <2>2, <3>1 DEF AlertTypes
    <3> HIDE DEF b, q, d
    <3>4. [q EXCEPT !.pc = "suspicious", !.malicious = b]
            = [q EXCEPT !.pc = "suspicious", !.malicious = b, !.suspicious = q.suspicious, !.alert = q.alert]
      BY <2>1 DEF ScanRequest
    <3> QED
      BY <1>1, <2>3, <3>1, <3>2, <3>3, <3>4, ScanMoves DEF q, d
  <2>5. CASE ScanReadsSuspicious(s)
    <3> DEFINE b == open[d]["suspicious_traffic"] = 1
               c == IF Unexpected(q.found) THEN "unexpected" ELSE "commit"
    <3>1. q.pc = "suspicious" /\ ~(open[d]["suspicious_traffic"] > 1)
          /\ scan' = [scan EXCEPT ![s] = [q EXCEPT !.pc = c, !.suspicious = b]]
      BY <1>3, <2>5 DEF ScanReadsSuspicious, ScanReads
    <3>2. b \in BOOLEAN /\ q.malicious \in BOOLEAN /\ q.alert \in BOOLEAN /\ c \in {"unexpected", "commit"}
      BY <2>1 DEF ScanRequest
    <3>3. open[d]["suspicious_traffic"] > 0 => b
      BY <2>2, <3>1 DEF AlertTypes
    <3> HIDE DEF b, c, q, d
    <3>4. [q EXCEPT !.pc = c, !.suspicious = b]
            = [q EXCEPT !.pc = c, !.malicious = q.malicious, !.suspicious = b, !.alert = q.alert]
      BY <2>1 DEF ScanRequest
    <3> QED
      BY <1>1, <2>3, <3>1, <3>2, <3>3, <3>4, ScanMoves DEF q, d
  <2>6. CASE ScanReadsUnexpected(s)
    <3> DEFINE b == open[d]["unexpected_port"] = 0
    <3>1. q.pc = "unexpected" /\ scan' = [scan EXCEPT ![s] = [q EXCEPT !.pc = "commit", !.alert = b]]
      BY <1>3, <2>6 DEF ScanReadsUnexpected, ScanReads
    <3>2. b \in BOOLEAN /\ q.malicious \in BOOLEAN /\ q.suspicious \in BOOLEAN
      BY <2>1 DEF ScanRequest
    <3>3. b => open[d]["unexpected_port"] = 0
      OBVIOUS
    <3> HIDE DEF b, q, d
    <3>4. [q EXCEPT !.pc = "commit", !.alert = b]
            = [q EXCEPT !.pc = "commit", !.malicious = q.malicious, !.suspicious = q.suspicious, !.alert = b]
      BY <2>1 DEF ScanRequest
    <3> QED
      BY <1>1, <2>3, <3>1, <3>2, <3>3, <3>4, ScanMoves DEF q, d
  <2> QED
    BY <2>4, <2>5, <2>6
<1> QED
  BY <1>2, <1>3

LEMMA IngestScanInv ==
    ASSUME Inv, NEW s \in Scans, NEW d \in Devices, NEW f \in Findings, IngestScan(s, d, f)
    PROVE  Inv'
<1> DEFINE q == [NoScan EXCEPT !.pc = "malicious", !.dev = d, !.found = f, !.loaded = status[d],
                               !.older = {t \in Scans : scan[t].dev = d}]
<1>1. scan' = [scan EXCEPT ![s] = q] /\ UNCHANGED <<tables, rollup, daily>>
  BY DEF IngestScan
<1>2. status[d] \in Statuses
  BY DEF Inv, Tables
<1>3. /\ q \in ScanRequest /\ q.pc = "malicious" /\ q.dev = d /\ q.found = f /\ q.loaded = status[d]
      /\ ~q.alert /\ ~q.superseded
  BY <1>2 DEF NoScan, ScanRequest
<1> HIDE DEF q
<1>4. /\ scan'[s] = q /\ scan' = [t \in Scans |-> scan'[t]]
      /\ \A t \in Scans \ {s} : scan'[t] = scan[t]
  BY <1>1 DEF Inv
<1>5. UNCHANGED rows /\ faults' \in Nat
  BY <1>1 DEF tables, Inv, Tables
<1>6. ScanSound(s)'
  BY <1>3, <1>4, <1>5 DEF ScanSound, ScanFresh, rows
<1> QED
  BY <1>1, <1>3, <1>4, <1>5, <1>6, SameKept, OneScanMoves

LEMMA OneRollupMoves ==
    ASSUME Inv, NEW r \in Rollups, UNCHANGED <<rows, scan, daily>>, faults' \in Nat,
           NEW q \in RollupRequest, rollup' = [rollup EXCEPT ![r] = q],
           \A d \in q.flip : q.hits[d] > 0,
           \A d \in Devices \ q.overtaken : q.hits[d] > 0 => d \in q.flip \/ status[d] = "critical"
    PROVE  Inv'
<1>1. Tables' /\ AnomalyOnce' /\ StatusCoversUnlessRaced' /\ Touches({})
  BY RowsKept
<1>2. rollup' \in [Rollups -> RollupRequest] /\ rollup'[r] = q
      /\ \A t \in Rollups \ {r} : rollup'[t] = rollup[t]
  BY DEF Inv
<1>3. status' = status
  BY DEF rows
<1>4. ASSUME NEW t \in Rollups PROVE RollupSound(t)'
  <2>1. CASE t = r
    BY <1>2, <1>3, <2>1 DEF RollupSound
  <2>2. CASE t # r
    BY <1>2, <1>3, <2>2 DEF Inv, RollupSound
  <2> QED
    BY <2>1, <2>2
<1>5. scan' \in [Scans -> ScanRequest] /\ \A t \in Scans : ScanSound(t)'
  BY DEF Inv, ScanSound, ScanFresh, rows
<1>6. DailyTyped' /\ DailySound'
  BY DEF Inv, DailyTyped, DailySound, Covers, Outcome, rows
<1> QED
  BY <1>1, <1>2, <1>4, <1>5, <1>6 DEF Inv

LEMMA RollupMovesInv ==
    ASSUME Inv, NEW r \in Rollups, IngestTraffic(r) \/ CheckFlow(r) \/ FailRollup(r)
    PROVE  Inv'
<1>1. UNCHANGED <<rows, scan, daily>> /\ faults' \in Nat
  <2>1. CASE IngestTraffic(r) \/ CheckFlow(r)
    BY <2>1 DEF IngestTraffic, CheckFlow, tables, Inv, Tables
  <2>2. CASE FailRollup(r)
    BY <2>2 DEF FailRollup, Fault, Inv, Tables
  <2> QED
    BY <2>1, <2>2
<1>2. NoRollup \in RollupRequest /\ NoRollup.flip = {} /\ \A d \in Devices : ~(NoRollup.hits[d] > 0)
  BY IdleTyped DEF NoRollup
<1>3. CASE IngestTraffic(r)
  <2>1. PICK hits \in [Devices -> 0..MaxHits] :
          rollup' = [rollup EXCEPT ![r] = [NoRollup EXCEPT !.pc = "check", !.todo = hits]]
    BY <1>3 DEF IngestTraffic
  <2> DEFINE q == [NoRollup EXCEPT !.pc = "check", !.todo = hits]
  <2>2. hits \in [Devices -> Nat]
    BY ConstantsAssumption
  <2>3. q \in RollupRequest /\ q.hits = NoRollup.hits /\ q.flip = {}
    BY <1>2, <2>2 DEF RollupRequest
  <2> HIDE DEF q
  <2> QED
    BY <1>1, <1>2, <2>1, <2>3, OneRollupMoves DEF q
<1>4. CASE CheckFlow(r)
  <2> DEFINE p == rollup[r]
  <2>1. PICK d \in Devices, held \in BOOLEAN :
          /\ p.todo[d] > 0 /\ (held => p.hits[d] > 0)
          /\ rollup' = [rollup EXCEPT
                ![r].todo[d] = @ - 1, ![r].hits[d] = @ + 1,
                ![r].flip = IF held \/ status[d] = "critical" THEN @ ELSE @ \cup {d}]
    BY <1>4 DEF CheckFlow
  <2>2. p \in RollupRequest /\ RollupSound(r)
    BY DEF Inv
  <2> DEFINE todo == [p.todo EXCEPT ![d] = @ - 1]
             hits == [p.hits EXCEPT ![d] = @ + 1]
             flip == IF held \/ status[d] = "critical" THEN p.flip ELSE p.flip \cup {d}
             q == [p EXCEPT !.todo = todo, !.hits = hits, !.flip = flip]
  <2>3. rollup' = [rollup EXCEPT ![r] = q]
    BY <2>1, <2>2 DEF Inv, RollupRequest
  <2>4. todo \in [Devices -> Nat] /\ hits \in [Devices -> Nat] /\ flip \in SUBSET Devices
    BY <2>1, <2>2 DEF RollupRequest
  <2>5. /\ \A e \in flip : hits[e] > 0
        /\ \A e \in Devices \ p.overtaken : hits[e] > 0 => e \in flip \/ status[e] = "critical"
    BY <2>1, <2>2 DEF RollupSound, RollupRequest
  <2> HIDE DEF todo, hits, flip
  <2>6. q \in RollupRequest /\ q.overtaken = p.overtaken /\ q.hits = hits /\ q.flip = flip
    BY <2>2, <2>4 DEF RollupRequest
  <2> HIDE DEF q
  <2> QED
    BY <1>1, <2>3, <2>5, <2>6, OneRollupMoves
<1>5. CASE FailRollup(r)
  <2>1. rollup' = [rollup EXCEPT ![r] = NoRollup]
    BY <1>5 DEF FailRollup
  <2> QED
    BY <1>1, <1>2, <2>1, OneRollupMoves
<1> QED
  BY <1>3, <1>4, <1>5

LEMMA DailyMoves ==
    ASSUME Inv, UNCHANGED <<tables, scan, rollup>> \/ (UNCHANGED <<rows, scan, rollup>> /\ faults' \in Nat),
           DailyTyped', DailySound'
    PROVE  Inv'
<1>1. UNCHANGED <<rows, scan, rollup>> /\ faults' \in Nat
  BY DEF tables, Inv, Tables
<1>2. Tables' /\ AnomalyOnce' /\ StatusCoversUnlessRaced' /\ Touches({})
  BY <1>1, RowsKept
<1>3. scan' \in [Scans -> ScanRequest] /\ \A t \in Scans : ScanSound(t)'
  BY <1>1 DEF Inv, ScanSound, ScanFresh, rows
<1>4. rollup' \in [Rollups -> RollupRequest] /\ \A r \in Rollups : RollupSound(r)'
  BY <1>1 DEF Inv, RollupSound, rows
<1> QED
  BY <1>2, <1>3, <1>4 DEF Inv

(* A job that ends leaves nothing to know.                                 *)
LEMMA DailyEnds == ASSUME daily' = NoDaily PROVE DailyTyped' /\ DailySound'
BY IdleTyped DEF DailyTyped, DailySound, NoDaily

LEMMA StartDailyInv == ASSUME Inv, StartDaily PROVE Inv'
<1>1. UNCHANGED <<tables, scan, rollup>> /\ status \in [Devices -> Statuses]
  BY DEF StartDaily, Inv, Tables
<1>2. PICK a \in SUBSET Devices :
        daily' = [NoDaily EXCEPT !.pc = "next", !.todo = Devices, !.anomalous = a,
                                 !.loaded = status, !.write = [d \in Devices |-> NONE]]
  BY DEF StartDaily
<1>3. /\ daily'.pc = "next" /\ daily'.alert = {} /\ daily'.overtaken = {}
      /\ daily'.loaded = status /\ daily'.write = [d \in Devices |-> NONE]
  BY <1>2 DEF NoDaily
<1>4. daily' \in DailyRequest
  BY <1>1, <1>2 DEF NoDaily, DailyRequest
<1>5. DailyTyped' /\ DailySound'
  BY <1>1, <1>3, <1>4 DEF DailyTyped, DailySound, tables, rows
<1> QED
  BY <1>1, <1>5, DailyMoves

(* A job that goes on, having written nothing, still covers the devices it *)
(* has left, and owes the one it is at.                                    *)
LEMMA DailyGoesOn ==
    ASSUME Inv, daily.pc # "idle", UNCHANGED <<tables, scan, rollup>>,
           daily' \in DailyRequest, daily'.pc # "idle",
           daily'.pc \in {"suspicious", "latest", "malicious"} => daily'.dev \in Devices,
           daily'.loaded = daily.loaded, daily'.write = daily.write, daily'.overtaken = daily.overtaken,
           daily.alert \subseteq daily'.alert,
           \A e \in daily'.alert : open[e]["suspicious_traffic"] = 0,
           \A e \in daily'.alert \ daily.overtaken :
               Covers(Outcome(e), e) \/ (e = daily'.dev /\ daily'.pc \in {"latest", "malicious"}),
           daily'.pc \in {"latest", "malicious"} => daily'.dev \in daily'.alert,
           daily'.pc = "malicious" /\ daily'.dev \notin daily.overtaken => daily'.found = latest[daily'.dev]
    PROVE  Inv'
<1>1. UNCHANGED <<status, latest, open>>
  BY DEF tables, rows
<1>2. DailyTyped'
  BY DEF Inv, DailyTyped
<1>3. daily'.alert \subseteq Devices
  BY DEF DailyRequest
<1>4. \A e \in Devices : Covers(Outcome(e), e)' <=> Covers(Outcome(e), e)
  BY <1>1 DEF Covers, Outcome
<1>5. /\ \A d \in Devices : daily.write[d] # NONE => d \in daily.alert
      /\ \A d \in Devices \ daily.overtaken : daily.loaded[d] = status[d]
  BY DEF Inv, DailySound
<1>6. \A d \in daily'.alert \ daily'.overtaken :
          Covers(Outcome(d), d)' \/ (d = daily'.dev /\ daily'.pc \in {"latest", "malicious"})
  BY <1>3, <1>4
<1>7. DailySound'
  BY <1>1, <1>5, <1>6 DEF DailySound
<1> QED
  BY <1>2, <1>7, DailyMoves

LEMMA DailyReadsInv ==
    ASSUME Inv, (\E d \in Devices : DailyVisits(d)) \/ DailyReadsSuspicious \/ DailyReadsLatest
    PROVE  Inv'
<1>1. UNCHANGED <<tables, scan, rollup>> /\ daily.pc # "idle"
  BY DEF DailyVisits, DailyReadsSuspicious, DailyReadsLatest
<1>2. /\ daily \in DailyRequest
      /\ daily.pc \in {"suspicious", "latest", "malicious"} => daily.dev \in Devices
      /\ \A e \in daily.alert : open[e]["suspicious_traffic"] = 0
      /\ \A d \in daily.alert \ daily.overtaken :
            Covers(Outcome(d), d) \/ (d = daily.dev /\ daily.pc \in {"latest", "malicious"})
      /\ daily.pc \in {"latest", "malicious"} => daily.dev \in daily.alert
  BY <1>1 DEF Inv, DailyTyped, DailySound
<1>3. CASE daily' = NoDaily
  BY <1>1, <1>3, DailyEnds, DailyMoves
<1>4. ASSUME NEW d \in Devices, DailyVisits(d), daily' # NoDaily PROVE Inv'
  <2>1. daily.pc = "next" /\
        daily' = [daily EXCEPT !.todo = @ \ {d},
                               !.queue = IF pending[d] = 0 THEN @ \cup {d} ELSE @,
                               !.pc = IF d \in daily.anomalous THEN "suspicious" ELSE "next",
                               !.dev = IF d \in daily.anomalous THEN d ELSE NONE]
    BY <1>4 DEF DailyVisits
  <2>2. /\ daily' \in DailyRequest /\ daily'.pc \in {"suspicious", "next"}
        /\ daily'.pc = "suspicious" => daily'.dev = d
        /\ daily'.loaded = daily.loaded /\ daily'.write = daily.write /\ daily'.alert = daily.alert
        /\ daily'.overtaken = daily.overtaken
    BY <1>2, <2>1 DEF DailyRequest
  <2> QED
    BY <1>1, <1>2, <2>1, <2>2, DailyGoesOn
<1>5. ASSUME DailyReadsSuspicious, daily' # NoDaily PROVE Inv'
  <2> DEFINE n == open[daily.dev]["suspicious_traffic"]
  <2>1. daily.pc = "suspicious" /\ daily.dev \in Devices /\ n \in Nat
    BY <1>2, <1>5 DEF DailyReadsSuspicious, Inv, Tables, AlertTypes
  <2>2. \/ daily' = [daily EXCEPT !.pc = "next", !.dev = NONE]
        \/ n = 0 /\ daily' = [daily EXCEPT !.pc = "latest", !.alert = @ \cup {daily.dev}]
    BY <1>5, <2>1 DEF DailyReadsSuspicious
  <2>3. CASE daily' = [daily EXCEPT !.pc = "next", !.dev = NONE]
    <3>1. /\ daily' \in DailyRequest /\ daily'.pc = "next"
          /\ daily'.loaded = daily.loaded /\ daily'.write = daily.write /\ daily'.alert = daily.alert
          /\ daily'.overtaken = daily.overtaken
      BY <1>2, <2>3 DEF DailyRequest
    <3> QED
      BY <1>1, <1>2, <2>1, <3>1, DailyGoesOn
  <2>4. CASE n = 0 /\ daily' = [daily EXCEPT !.pc = "latest", !.alert = @ \cup {daily.dev}]
    <3>1. /\ daily' \in DailyRequest /\ daily'.pc = "latest" /\ daily'.dev = daily.dev
          /\ daily'.loaded = daily.loaded /\ daily'.write = daily.write
          /\ daily'.alert = daily.alert \cup {daily.dev} /\ daily'.overtaken = daily.overtaken
      BY <1>2, <2>1, <2>4 DEF DailyRequest
    <3>2. \A e \in daily'.alert : open[e]["suspicious_traffic"] = 0
      BY <1>2, <2>4, <3>1
    <3>3. \A e \in daily'.alert \ daily.overtaken : Covers(Outcome(e), e) \/ e = daily'.dev
      BY <1>2, <2>1, <3>1
    <3> HIDE DEF n
    <3> QED
      BY <1>1, <2>1, <3>1, <3>2, <3>3, DailyGoesOn
  <2> QED
    BY <2>2, <2>3, <2>4
<1>6. ASSUME DailyReadsLatest PROVE Inv'
  <2>1. daily.pc = "latest" /\ daily' = [daily EXCEPT !.pc = "malicious", !.found = latest[daily.dev]]
    BY <1>6 DEF DailyReadsLatest
  <2>2. latest[daily.dev] \in Findings \cup {NONE}
    BY <1>2, <2>1 DEF Inv, Tables
  <2>3. /\ daily' \in DailyRequest /\ daily'.pc = "malicious" /\ daily'.dev = daily.dev
        /\ daily'.found = latest[daily.dev] /\ daily'.loaded = daily.loaded
        /\ daily'.write = daily.write /\ daily'.alert = daily.alert /\ daily'.overtaken = daily.overtaken
    BY <1>2, <2>1, <2>2 DEF DailyRequest
  <2> QED
    BY <1>1, <1>2, <2>1, <2>3, DailyGoesOn
<1> QED
  BY <1>3, <1>4, <1>5, <1>6

(* The status derived for a device covers what the job has just read.      *)
LEMMA DailyReadsMaliciousInv == ASSUME Inv, DailyReadsMalicious PROVE Inv'
<1> DEFINE d == daily.dev
           s == DeriveStatus(Risky(daily.found), Unexpected(daily.found), open[d]["malicious_ip"] = 1, TRUE)
           w == [daily.write EXCEPT ![d] = IF s = daily.loaded[d] THEN NONE ELSE s]
<1>1. UNCHANGED <<tables, scan, rollup>> /\ daily.pc = "malicious"
  BY DEF DailyReadsMalicious
<1>2. /\ daily \in DailyRequest /\ d \in Devices /\ open[d]["malicious_ip"] \in Nat
      /\ daily.write \in [Devices -> Statuses \cup {NONE}] /\ daily.loaded \in [Devices -> Statuses]
  BY <1>1 DEF Inv, Tables, DailyTyped, AlertTypes
<1>3. CASE daily' = NoDaily
  BY <1>1, <1>3, DailyEnds, DailyMoves
<1>4. ASSUME daily' # NoDaily PROVE Inv'
  <2>1. daily' = [daily EXCEPT !.pc = "next", !.dev = NONE, !.found = NONE, !.write = w]
        /\ ~(open[d]["malicious_ip"] > 1)
    BY <1>4 DEF DailyReadsMalicious
  <2>2. /\ \A e \in daily.alert : open[e]["suspicious_traffic"] = 0
        /\ \A e \in Devices : daily.write[e] # NONE => e \in daily.alert
        /\ d \in daily.alert
        /\ \A e \in Devices \ daily.overtaken : daily.loaded[e] = status[e]
        /\ d \notin daily.overtaken => daily.found = latest[d]
        /\ \A e \in daily.alert \ daily.overtaken : Covers(Outcome(e), e) \/ e = d
    BY <1>1 DEF Inv, DailySound
  <2>3. s # "good" /\ s \in Statuses
        /\ (Risky(daily.found) \/ open[d]["malicious_ip"] > 0 => s = "critical")
    BY <1>2, <2>1, DerivedStatus DEF DeriveStatus
  <2> HIDE DEF s
  <2>4. w \in [Devices -> Statuses \cup {NONE}]
        /\ \A e \in Devices : w[e] = IF e = d THEN IF s = daily.loaded[d] THEN NONE ELSE s ELSE daily.write[e]
    BY <1>2, <2>3
  <2> HIDE DEF w
  <2>5. /\ daily' \in DailyRequest /\ daily'.pc = "next" /\ daily'.write = w
        /\ daily'.loaded = daily.loaded /\ daily'.alert = daily.alert /\ daily'.overtaken = daily.overtaken
    BY <1>2, <2>1, <2>4 DEF DailyRequest
  <2>6. UNCHANGED <<status, latest, open>>
    BY <1>1 DEF tables, rows
  <2>7. \A e \in Devices \ daily.overtaken : Outcome(e)' = IF e = d THEN s ELSE Outcome(e)
    <3>1. NONE \notin Statuses
      BY ConstantsAssumption
    <3> QED
      BY <2>2, <2>3, <2>4, <2>5, <2>6, <3>1 DEF Outcome
  <2>8. daily.alert \subseteq Devices
    BY <1>2 DEF DailyRequest
  <2>9. ASSUME NEW e \in daily.alert \ daily.overtaken PROVE Covers(Outcome(e), e)'
    <3>1. CASE e = d
      <4>1. Outcome(e)' = s
        BY <2>7, <2>8, <2>9, <3>1
      <4> QED
        BY <2>2, <2>3, <2>6, <2>9, <3>1, <4>1 DEF Covers
    <3>2. CASE e # d
      <4>1. Outcome(e)' = Outcome(e) /\ Covers(Outcome(e), e)
        BY <2>2, <2>7, <2>8, <2>9, <3>2
      <4> QED
        BY <2>6, <4>1 DEF Covers
    <3> QED
      BY <3>1, <3>2
  <2>10. DailyTyped'
    BY <1>2, <2>4, <2>5 DEF DailyTyped
  <2>11. \A e \in Devices : w[e] # NONE => e \in daily.alert
    BY <2>2, <2>4
  <2>12. DailySound'
    <3> HIDE DEF d
    <3> QED
      BY <2>2, <2>5, <2>6, <2>9, <2>11 DEF DailySound
  <2> QED
    BY <1>1, <2>10, <2>12, DailyMoves
<1> QED
  BY <1>3, <1>4

-----------------------------------------------------------------------------
(* Steps that write rows, and end or overtake requests.                    *)

LEMMA RequestsKept ==
    ASSUME Inv, NEW D \in SUBSET Devices, Touches(D),
           Tables', AnomalyOnce', StatusCoversUnlessRaced',
           scan' = [t \in Scans |-> scan'[t]], \A t \in Scans : scan'[t] = NoScan \/ ScanKept(t, D),
           rollup' = [r \in Rollups |-> rollup'[r]],
           \A r \in Rollups : rollup'[r] = NoRollup \/ RollupKept(r, D),
           \/ daily' = NoDaily
           \/ daily.pc = "idle" /\ daily' = daily
           \/ daily.pc # "idle" /\ DailyKept(D) /\ ReportsNone
    PROVE  Inv'
<1>1. ASSUME NEW t \in Scans PROVE scan'[t] \in ScanRequest /\ ScanSound(t)'
  <2>1. CASE scan'[t] = NoScan
    BY <2>1, IdleTyped DEF ScanSound, NoScan
  <2>2. CASE ScanKept(t, D)
    BY <2>2, KeptScan DEF Inv
  <2> QED
    BY <2>1, <2>2
<1>2. ASSUME NEW r \in Rollups PROVE rollup'[r] \in RollupRequest /\ RollupSound(r)'
  <2>1. CASE rollup'[r] = NoRollup
    BY <2>1, IdleTyped DEF RollupSound, NoRollup
  <2>2. CASE RollupKept(r, D)
    BY <2>2, KeptRollup DEF Inv
  <2> QED
    BY <2>1, <2>2
<1>3. DailyTyped' /\ DailySound'
  <2>1. CASE daily' = NoDaily
    BY <2>1, DailyEnds
  <2>2. CASE daily.pc = "idle" /\ daily' = daily
    BY <2>2 DEF Inv, DailyTyped, DailySound
  <2>3. CASE daily.pc # "idle" /\ DailyKept(D) /\ ReportsNone
    BY <2>3, KeptDaily DEF Inv
  <2> QED
    BY <2>1, <2>2, <2>3
<1>4. scan' \in [Scans -> ScanRequest] /\ rollup' \in [Rollups -> RollupRequest]
  BY <1>1, <1>2
<1> QED
  BY <1>1, <1>2, <1>3, <1>4 DEF Inv

(* Whom a commit overtakes.                                                *)
LEMMA Overtakes ==
    ASSUME Inv, NEW D \in SUBSET Devices
    PROVE  /\ \A t \in Scans : scan'[t] = ScansOvertaken(D)[t] => ScanKept(t, D)
           /\ \A r \in Rollups : rollup'[r] = RollupsOvertaken(D)[r] => RollupKept(r, D)
           /\ daily' = DailyOvertaken(D) /\ daily.pc = "idle" => daily' = daily
           /\ daily' = DailyOvertaken(D) /\ daily.pc # "idle" => DailyKept(D)
<1>1. ASSUME NEW t \in Scans, scan'[t] = ScansOvertaken(D)[t] PROVE ScanKept(t, D)
  <2> DEFINE q == scan[t]
             v == IF q.dev \in D THEN TRUE ELSE q.overtaken
  <2>1. q \in ScanRequest /\ (q.superseded => q.overtaken)
    BY DEF Inv, ScanSound
  <2>2. scan'[t] = IF q.dev \in D THEN [q EXCEPT !.overtaken = TRUE] ELSE q
    BY <1>1 DEF ScansOvertaken
  <2>3. scan'[t] = [q EXCEPT !.older = q.older, !.overtaken = v, !.superseded = q.superseded]
    BY <2>1, <2>2 DEF ScanRequest
  <2>4. q.older \in SUBSET Scans /\ v \in BOOLEAN /\ q.superseded \in BOOLEAN
    BY <2>1 DEF ScanRequest
  <2>5. ~v => ~q.superseded /\ ~q.overtaken /\ q.dev \notin D
    BY <2>1
  <2> HIDE DEF v
  <2> QED
    BY <2>3, <2>4, <2>5 DEF ScanKept
<1>2. ASSUME NEW r \in Rollups, rollup'[r] = RollupsOvertaken(D)[r] PROVE RollupKept(r, D)
  <2>1. rollup'[r] = [rollup[r] EXCEPT !.overtaken = @ \cup {d \in D : rollup[r].hits[d] > 0}]
    BY <1>2 DEF RollupsOvertaken
  <2>2. rollup[r].overtaken \cup {d \in D : rollup[r].hits[d] > 0} \in SUBSET Devices
    BY DEF Inv, RollupRequest
  <2> QED
    BY <2>1, <2>2 DEF RollupKept
<1>3. ASSUME daily' = DailyOvertaken(D), daily.pc # "idle" PROVE DailyKept(D)
  <2>1. daily' = [daily EXCEPT !.overtaken = daily.overtaken \cup D]
    BY <1>3 DEF DailyOvertaken
  <2>2. daily.overtaken \cup D \in SUBSET Devices
    BY DEF Inv, DailyTyped, DailyRequest
  <2> QED
    BY <2>1, <2>2 DEF DailyKept
<1>4. ASSUME daily' = DailyOvertaken(D), daily.pc = "idle" PROVE daily' = daily
  BY <1>4 DEF DailyOvertaken
<1> QED
  BY <1>1, <1>2, <1>3, <1>4

LEMMA ScanCommitsInv == ASSUME Inv, NEW s \in Scans, ScanCommits(s) PROVE Inv'
<1> DEFINE q == scan[s]
           d == q.dev
           v == DeriveStatus(Risky(q.found), Unexpected(q.found), q.malicious, q.suspicious)
<1>1. q.pc = "commit" /\ q \in ScanRequest /\ d \in Devices /\ q.found \in Findings
  BY DEF Inv, ScanSound, ScanCommits
<1>2. v \in Statuses
  BY DerivedStatus
<1>3. /\ latest' = IF q.superseded THEN latest ELSE [latest EXCEPT ![d] = q.found]
      /\ status' = IF v = q.loaded THEN status ELSE [status EXCEPT ![d] = v]
      /\ open' = IF q.alert THEN [open EXCEPT ![d]["unexpected_port"] = @ + 1] ELSE open
      /\ scan' = ScansAfter(s) /\ rollup' = RollupsOvertaken({d}) /\ daily' = DailyOvertaken({d})
      /\ raced' = IF q.overtaken THEN raced \cup {d} ELSE raced \ {d}
      /\ UNCHANGED <<pending, faults>>
  BY DEF ScanCommits
<1>4. ~q.overtaken => ScanFresh(s) /\ ~q.superseded
  BY <1>1 DEF Inv, ScanSound
<1>5. /\ Risky(q.found) => v = "critical"
      /\ Unexpected(q.found) => v # "good"
      /\ q.malicious => v = "critical"
      /\ q.suspicious => v # "good"
  BY DEF DeriveStatus
<1>6. \A t \in Scans : scan'[t] = NoScan \/ ScanKept(t, {d})
  <2> SUFFICES ASSUME NEW t \in Scans, t # s PROVE ScanKept(t, {d})
    BY <1>3 DEF ScansAfter
  <2> DEFINE p == scan[t]
  <2>1. p \in ScanRequest /\ (p.superseded => p.overtaken)
    BY DEF Inv, ScanSound
  <2>2. scan'[t] = IF p.dev # d THEN p
                   ELSE [p EXCEPT !.older = @ \ {s}, !.overtaken = TRUE, !.superseded = @ \/ t \in q.older]
    BY <1>3 DEF ScansAfter
  <2>3. CASE p.dev # d
    <3>1. p = [p EXCEPT !.older = p.older, !.overtaken = p.overtaken, !.superseded = p.superseded]
      BY <2>1 DEF ScanRequest
    <3>2. p.older \in SUBSET Scans /\ p.overtaken \in BOOLEAN /\ p.superseded \in BOOLEAN
      BY <2>1 DEF ScanRequest
    <3> HIDE DEF d
    <3> QED
      BY <2>1, <2>2, <2>3, <3>1, <3>2 DEF ScanKept
  <2>4. CASE p.dev = d
    <3> DEFINE w == p.superseded \/ t \in q.older
               o == p.older \ {s}
    <3>1. w \in BOOLEAN /\ o \in SUBSET Scans
      BY <2>1 DEF ScanRequest
    <3>2. scan'[t] = [p EXCEPT !.older = o, !.overtaken = TRUE, !.superseded = w]
      BY <2>2, <2>4
    <3> HIDE DEF w, o
    <3> QED
      BY <3>1, <3>2 DEF ScanKept
  <2> QED
    BY <2>3, <2>4
<1> HIDE DEF v
<1>7. \A e \in Devices : \A t \in AlertTypes :
          open'[e][t] = IF q.alert /\ e = d /\ t = "unexpected_port" THEN open[e][t] + 1 ELSE open[e][t]
  <2>1. open \in [Devices -> [AlertTypes -> Nat]]
    BY DEF Inv, Tables
  <2>2. CASE q.alert
    BY <1>1, <1>3, <2>1, <2>2
  <2>3. CASE ~q.alert
    BY <1>3, <2>3
  <2> QED
    BY <2>2, <2>3
<1>8. Touches({d}) /\ ReportsNone
  BY <1>1, <1>2, <1>3, <1>7 DEF Touches, ReportsNone, Inv, Tables, AlertTypes
<1>9. Tables'
  <2>1. open' \in [Devices -> [AlertTypes -> Nat]]
    BY <1>1, <1>3 DEF Inv, Tables, AlertTypes
  <2> QED
    BY <1>1, <1>2, <1>3, <2>1 DEF Inv, Tables
<1>10. AnomalyOnce'
  BY <1>7 DEF Inv, AnomalyOnce, AlertTypes
<1>11. StatusCoversUnlessRaced'
  <2> SUFFICES ASSUME NEW e \in Devices \ raced' PROVE Covered(e)'
    BY DEF StatusCoversUnlessRaced
  <2>1. CASE e = d
    <3>1. ~q.overtaken
      BY <1>1, <1>3, <2>1
    <3>2. status'[d] = v /\ latest'[d] = q.found
      BY <1>1, <1>3, <1>4, <3>1 DEF ScanFresh, Inv, Tables
    <3>3. /\ open[d]["malicious_ip"] > 0 => v = "critical"
          /\ open[d]["suspicious_traffic"] > 0 => v # "good"
      <4>1. /\ open[d]["malicious_ip"] > 0 => q.malicious
            /\ open[d]["suspicious_traffic"] > 0 => q.suspicious
        BY <1>1, <1>4, <3>1 DEF ScanFresh
      <4> QED
        BY <1>5, <4>1
    <3>4. /\ open'[d]["malicious_ip"] = open[d]["malicious_ip"]
          /\ open'[d]["suspicious_traffic"] = open[d]["suspicious_traffic"]
      BY <1>1, <1>7 DEF AlertTypes
    <3> QED
      BY <1>5, <2>1, <3>2, <3>3, <3>4 DEF Covered
  <2>2. CASE e # d
    <3>1. e \in Devices \ raced
      BY <1>3, <2>2
    <3>2. /\ status'[e] = status[e] /\ latest'[e] = latest[e]
          /\ open'[e]["malicious_ip"] = open[e]["malicious_ip"]
          /\ open'[e]["suspicious_traffic"] = open[e]["suspicious_traffic"]
      BY <1>3, <1>7, <2>2 DEF AlertTypes, Inv, Tables
    <3> QED
      BY <3>1, <3>2 DEF Inv, StatusCoversUnlessRaced, Covered
  <2> QED
    BY <2>1, <2>2
<1>12. /\ scan' = [t \in Scans |-> scan'[t]]
       /\ rollup' = [r \in Rollups |-> rollup'[r]] /\ \A r \in Rollups : RollupKept(r, {d})
       /\ \/ daily.pc = "idle" /\ daily' = daily
          \/ daily.pc # "idle" /\ DailyKept({d}) /\ ReportsNone
  <2>1. {d} \in SUBSET Devices
    BY <1>1
  <2> HIDE DEF d
  <2> QED
    <3>1. /\ scan' = [t \in Scans |-> scan'[t]] /\ rollup' = [r \in Rollups |-> rollup'[r]]
          /\ \A r \in Rollups : rollup'[r] = RollupsOvertaken({d})[r]
      BY <1>3 DEF ScansAfter, RollupsOvertaken
    <3>2. \A r \in Rollups : RollupKept(r, {d})
      BY <2>1, <3>1, Overtakes
    <3>3. CASE daily.pc = "idle"
      BY <1>3, <2>1, <3>1, <3>2, <3>3, Overtakes
    <3>4. CASE daily.pc # "idle"
      BY <1>3, <1>8, <2>1, <3>1, <3>2, <3>4, Overtakes
    <3> QED
      BY <3>3, <3>4
<1> QED
  <2>1. {d} \in SUBSET Devices
    BY <1>1
  <2> HIDE DEF d
  <2> QED
    BY <1>6, <1>8, <1>9, <1>10, <1>11, <1>12, <2>1, RequestsKept

LEMMA RollupCommitsInv == ASSUME Inv, NEW r \in Rollups, RollupCommits(r) PROVE Inv'
<1> DEFINE q == rollup[r]
           hit == {d \in Devices : q.hits[d] > 0}
<1>1. /\ open' = [d \in Devices |-> [open[d] EXCEPT !["malicious_ip"] = @ + q.hits[d]]]
      /\ status' = [d \in Devices |-> IF d \in q.flip THEN "critical" ELSE status[d]]
      /\ rollup' = [RollupsOvertaken(hit) EXCEPT ![r] = NoRollup]
      /\ scan' = ScansOvertaken(hit) /\ daily' = DailyOvertaken(hit)
      /\ raced' = (raced \ hit) \cup (q.overtaken \ q.flip)
      /\ UNCHANGED <<latest, pending, faults>>
  BY DEF RollupCommits
<1>2. q \in RollupRequest /\ RollupSound(r)
  BY DEF Inv
<1>3. q.hits \in [Devices -> Nat] /\ q.overtaken \subseteq Devices
  BY <1>2 DEF RollupRequest
<1>4. \A d \in Devices : /\ open[d] \in [AlertTypes -> Nat]
                         /\ open'[d] = [open[d] EXCEPT !["malicious_ip"] = @ + q.hits[d]]
  BY <1>1 DEF Inv, Tables
<1> HIDE DEF q
<1>5. \A d \in Devices :
        /\ open'[d]["suspicious_traffic"] = open[d]["suspicious_traffic"]
        /\ open'[d]["unexpected_port"] = open[d]["unexpected_port"]
        /\ open'[d]["malicious_ip"] = open[d]["malicious_ip"] + q.hits[d]
        /\ open[d]["malicious_ip"] \in Nat
  BY <1>4 DEF AlertTypes
<1>6. \A d \in Devices : status'[d] = IF d \in q.flip THEN "critical" ELSE status[d]
  BY <1>1
<1>7. \A d \in Devices : q.hits[d] > 0 /\ d \notin q.overtaken => status'[d] = "critical"
  BY <1>2, <1>6 DEF RollupSound, q
<1>8. Tables'
  <2>1. open' \in [Devices -> [AlertTypes -> Nat]]
    BY <1>1, <1>3, <1>4 DEF AlertTypes
  <2> QED
    BY <1>1, <1>3, <2>1 DEF Inv, Tables, Statuses
<1>9. AnomalyOnce'
  BY <1>5 DEF Inv, AnomalyOnce
<1>10. StatusCoversUnlessRaced'
  <2> SUFFICES ASSUME NEW e \in Devices \ raced' PROVE Covered(e)'
    BY DEF StatusCoversUnlessRaced
  <2>1. CASE status'[e] = "critical"
    BY <2>1 DEF Covered
  <2>2. CASE status'[e] # "critical"
    <3>1. e \notin q.flip /\ e \notin q.overtaken /\ ~(q.hits[e] > 0) /\ e \in Devices \ raced
      BY <1>1, <1>6, <1>7, <2>2
    <3>2. /\ status'[e] = status[e] /\ latest'[e] = latest[e]
          /\ open'[e]["malicious_ip"] = open[e]["malicious_ip"]
          /\ open'[e]["suspicious_traffic"] = open[e]["suspicious_traffic"]
      BY <1>1, <1>3, <1>5, <1>6, <3>1
    <3> QED
      BY <3>1, <3>2 DEF Inv, StatusCoversUnlessRaced, Covered
  <2> QED
    BY <2>1, <2>2
<1>11. Touches(hit) /\ ReportsNone
  <2>1. \A e \in Devices \ hit : ~(q.hits[e] > 0) /\ q.hits[e] = 0
    BY <1>3
  <2>2. \A e \in Devices \ hit : status'[e] = status[e]
    <3>1. \A e \in q.flip : q.hits[e] > 0
      BY <1>2 DEF RollupSound, q
    <3> QED
      BY <1>6, <2>1, <3>1
  <2> QED
    BY <1>1, <1>5, <2>1, <2>2 DEF Touches, ReportsNone, AlertTypes
<1>12. hit \in SUBSET Devices
  OBVIOUS
<1> HIDE DEF hit
<1>13. /\ scan' = [t \in Scans |-> scan'[t]] /\ \A t \in Scans : ScanKept(t, hit)
       /\ \/ daily.pc = "idle" /\ daily' = daily
          \/ daily.pc # "idle" /\ DailyKept(hit) /\ ReportsNone
  <2>1. scan' = [t \in Scans |-> scan'[t]] /\ \A t \in Scans : scan'[t] = ScansOvertaken(hit)[t]
    BY <1>1 DEF ScansOvertaken
  <2>2. \A t \in Scans : ScanKept(t, hit)
    BY <1>12, <2>1, Overtakes
  <2>3. CASE daily.pc = "idle"
    BY <1>1, <1>12, <2>1, <2>2, <2>3, Overtakes
  <2>4. CASE daily.pc # "idle"
    BY <1>1, <1>11, <1>12, <2>1, <2>2, <2>4, Overtakes
  <2> QED
    BY <2>3, <2>4
<1>14. /\ rollup' = [t \in Rollups |-> rollup'[t]]
       /\ \A t \in Rollups : rollup'[t] = NoRollup \/ rollup'[t] = RollupsOvertaken(hit)[t]
  BY <1>1 DEF RollupsOvertaken
<1>15. \A t \in Rollups : rollup'[t] = NoRollup \/ RollupKept(t, hit)
  BY <1>12, <1>14, Overtakes
<1> QED
  BY <1>8, <1>9, <1>10, <1>11, <1>12, <1>13, <1>14, <1>15, RequestsKept

LEMMA DailyCommitsInv == ASSUME Inv, DailyCommits PROVE Inv'
<1> DEFINE D == daily.alert
<1>1. /\ open' = [d \in Devices |-> IF d \in D
                                    THEN [open[d] EXCEPT !["suspicious_traffic"] = @ + 1] ELSE open[d]]
      /\ pending' = [d \in Devices |-> IF d \in daily.queue THEN pending[d] + 1 ELSE pending[d]]
      /\ status' = [d \in Devices |-> Outcome(d)]
      /\ daily' = NoDaily /\ scan' = ScansOvertaken(D) /\ rollup' = RollupsOvertaken(D)
      /\ raced' = (raced \ D) \cup (D \cap daily.overtaken)
      /\ UNCHANGED <<latest, faults>> /\ daily.pc = "next"
  BY DEF DailyCommits, Outcome
<1>2. /\ daily.write \in [Devices -> Statuses \cup {NONE}] /\ D \in SUBSET Devices
      /\ \A d \in D : open[d]["suspicious_traffic"] = 0
      /\ \A d \in Devices : daily.write[d] # NONE => d \in D
      /\ \A d \in D \ daily.overtaken : Covers(Outcome(d), d)
  BY <1>1 DEF Inv, DailyTyped, DailySound, DailyRequest
<1> HIDE DEF D
<1>3. \A d \in Devices :
        /\ open[d] \in [AlertTypes -> Nat]
        /\ open'[d] = IF d \in D THEN [open[d] EXCEPT !["suspicious_traffic"] = @ + 1] ELSE open[d]
  BY <1>1 DEF Inv, Tables
<1>4. ASSUME NEW d \in Devices
      PROVE  /\ open'[d]["malicious_ip"] = open[d]["malicious_ip"]
             /\ open'[d]["unexpected_port"] = open[d]["unexpected_port"]
             /\ open'[d]["suspicious_traffic"] = IF d \in D THEN 1 ELSE open[d]["suspicious_traffic"]
  <2>1. CASE d \in D
    <3>1. open'[d]["suspicious_traffic"] = open[d]["suspicious_traffic"] + 1
      BY <1>3, <2>1 DEF AlertTypes
    <3> QED
      <4>1. open[d]["suspicious_traffic"] = 0
        BY <1>2, <2>1
      <4>2. open'[d]["suspicious_traffic"] = 1
        BY <3>1, <4>1
      <4>3. /\ open'[d]["malicious_ip"] = open[d]["malicious_ip"]
            /\ open'[d]["unexpected_port"] = open[d]["unexpected_port"]
        BY <1>3, <2>1 DEF AlertTypes
      <4> QED
        BY <2>1, <4>2, <4>3
  <2>2. CASE d \notin D
    BY <1>3, <2>2
  <2> QED
    BY <2>1, <2>2
<1>5. \A d \in Devices \ D : status'[d] = status[d]
  BY <1>1, <1>2 DEF Outcome
<1>6. Tables'
  <2>1. open' \in [Devices -> [AlertTypes -> Nat]]
    BY <1>1, <1>3 DEF AlertTypes
  <2>2. status' \in [Devices -> Statuses]
    BY <1>1, <1>2 DEF Outcome, Inv, Tables
  <2>3. pending' \in [Devices -> Nat]
    BY <1>1 DEF Inv, Tables
  <2> QED
    BY <1>1, <1>2, <2>1, <2>2, <2>3 DEF Inv, Tables
<1>7. AnomalyOnce'
  BY <1>4 DEF Inv, AnomalyOnce
<1>8. StatusCoversUnlessRaced'
  <2> SUFFICES ASSUME NEW e \in Devices \ raced' PROVE Covered(e)'
    BY DEF StatusCoversUnlessRaced
  <2>1. CASE e \in D
    <3>1. Covers(Outcome(e), e) /\ status'[e] = Outcome(e)
      BY <1>1, <1>2, <2>1
    <3> QED
      BY <1>1, <1>4, <3>1 DEF Covers, Covered
  <2>2. CASE e \notin D
    <3>1. e \in Devices \ raced
      BY <1>1, <2>2
    <3> QED
      BY <1>1, <1>4, <1>5, <2>2, <3>1 DEF Inv, StatusCoversUnlessRaced, Covered
  <2> QED
    BY <2>1, <2>2
<1>9. /\ \A t \in Scans : scan'[t] = ScansOvertaken(D)[t]
      /\ \A r \in Rollups : rollup'[r] = RollupsOvertaken(D)[r]
      /\ scan' = [t \in Scans |-> scan'[t]] /\ rollup' = [r \in Rollups |-> rollup'[r]]
  BY <1>1 DEF ScansOvertaken, RollupsOvertaken
<1>10. \A t \in Scans : ScanKept(t, D)
  BY <1>2, <1>9, Overtakes
<1>11. \A r \in Rollups : RollupKept(r, D)
  BY <1>2, <1>9, Overtakes
<1>12. Touches(D)
  BY <1>1, <1>4, <1>5 DEF Touches, AlertTypes
<1>13. daily' = NoDaily /\ D \in SUBSET Devices
  BY <1>1, <1>2
<1> QED
  BY <1>6, <1>7, <1>8, <1>9, <1>10, <1>11, <1>12, <1>13, RequestsKept

(* Whatever the user does, and a poll of the scanner, adds no signal.      *)
LEMMA UserInv ==
    ASSUME Inv, (\E d \in Devices : TriggerScan(d)) \/ ClaimScans \/ AckAll
                \/ (\E d \in Devices, t \in AlertTypes : AckAlert(d, t))
    PROVE  Inv'
<1>1. UNCHANGED <<status, latest, raced, faults, requests>>
  BY DEF TriggerScan, ClaimScans, AckAlert, AckAll
<1>2. open \in [Devices -> [AlertTypes -> Nat]]
  BY DEF Inv, Tables
<1>3. pending' \in [Devices -> Nat]
  BY DEF Inv, Tables, TriggerScan, ClaimScans, AckAlert, AckAll
<1>4. /\ open' \in [Devices -> [AlertTypes -> Nat]]
      /\ \A d \in Devices, t \in AlertTypes : open'[d][t] <= open[d][t]
  <2>1. CASE \E d \in Devices, t \in AlertTypes : AckAlert(d, t)
    BY <1>2, <2>1 DEF AckAlert
  <2>2. CASE AckAll
    BY <1>2, <2>2 DEF AckAll
  <2>3. CASE (\E d \in Devices : TriggerScan(d)) \/ ClaimScans
    BY <1>2, <2>3 DEF TriggerScan, ClaimScans
  <2> QED
    BY <2>1, <2>2, <2>3
<1>5. \A d \in Devices, t \in AlertTypes :
        /\ open[d][t] \in Nat /\ open'[d][t] \in Nat
        /\ open'[d][t] > 0 => open[d][t] > 0
        /\ open[d][t] = 0 => open'[d][t] = 0
  <2> SUFFICES ASSUME NEW d \in Devices, NEW t \in AlertTypes
               PROVE  /\ open[d][t] \in Nat /\ open'[d][t] \in Nat
                      /\ open'[d][t] > 0 => open[d][t] > 0
                      /\ open[d][t] = 0 => open'[d][t] = 0
    OBVIOUS
  <2>1. open[d][t] \in Nat /\ open'[d][t] \in Nat /\ open'[d][t] <= open[d][t]
    BY <1>2, <1>4
  <2> QED
    BY <2>1
<1>6. Touches({}) /\ ReportsNone
  BY <1>1, <1>5 DEF Touches, ReportsNone, AlertTypes
<1>7. Tables'
  BY <1>1, <1>3, <1>4 DEF Inv, Tables
<1>8. AnomalyOnce'
  BY <1>4, <1>5 DEF Inv, AnomalyOnce, AlertTypes
<1>9. StatusCoversUnlessRaced'
  BY <1>1, <1>5 DEF Inv, StatusCoversUnlessRaced, Covered, AlertTypes
<1>10. scan' = scan /\ rollup' = rollup /\ daily' = daily
  BY <1>1 DEF requests
<1>11. /\ scan' = [t \in Scans |-> scan'[t]] /\ \A t \in Scans : ScanKept(t, {})
       /\ rollup' = [r \in Rollups |-> rollup'[r]] /\ \A r \in Rollups : RollupKept(r, {})
       /\ DailyKept({})
  BY <1>10, SameKept DEF Inv
<1> QED
  BY <1>6, <1>7, <1>8, <1>9, <1>10, <1>11, RequestsKept

(* A request that fails is forgotten, and so are all at a restart.         *)
LEMMA FaultInv ==
    ASSUME Inv, (\E s \in Scans : FailScan(s)) \/ FailDaily \/ Restart
    PROVE  Inv'
<1>1. UNCHANGED rows /\ faults' \in Nat
  BY DEF FailScan, FailDaily, Restart, Fault, Inv, Tables
<1>2. CASE \E s \in Scans : FailScan(s)
  BY <1>1, <1>2, ScanEndsInv DEF FailScan
<1>3. CASE FailDaily
  BY <1>1, <1>3, DailyEnds, DailyMoves DEF FailDaily
<1>4. CASE Restart
  <2>1. /\ scan' = [s \in Scans |-> NoScan] /\ rollup' = [r \in Rollups |-> NoRollup]
        /\ daily' = NoDaily
    BY <1>4 DEF Restart
  <2>2. /\ scan' = [t \in Scans |-> scan'[t]] /\ \A t \in Scans : scan'[t] = NoScan
        /\ rollup' = [r \in Rollups |-> rollup'[r]] /\ \A r \in Rollups : rollup'[r] = NoRollup
    BY <2>1
  <2>3. Tables' /\ AnomalyOnce' /\ StatusCoversUnlessRaced' /\ Touches({})
    BY <1>1, RowsKept
  <2> QED
    BY <2>1, <2>2, <2>3, RequestsKept
<1> QED
  BY <1>2, <1>3, <1>4

LEMMA InitInv == ASSUME Init PROVE Inv
<1>1. Tables /\ AnomalyOnce
  BY DEF Init, Tables, AnomalyOnce, Statuses, AlertTypes
<1>2. StatusCoversUnlessRaced
  BY ConstantsAssumption DEF Init, StatusCoversUnlessRaced, Covered, Risky, Unexpected, AlertTypes, Findings
<1>3. scan \in [Scans -> ScanRequest] /\ \A s \in Scans : ScanSound(s)
  BY IdleTyped DEF Init, ScanSound, NoScan
<1>4. rollup \in [Rollups -> RollupRequest] /\ \A r \in Rollups : RollupSound(r)
  BY IdleTyped DEF Init, RollupSound, NoRollup
<1>5. DailyTyped /\ DailySound
  BY IdleTyped DEF Init, DailyTyped, DailySound, NoDaily
<1> QED
  BY <1>1, <1>2, <1>3, <1>4, <1>5 DEF Inv

(* Every step keeps the invariant.                                         *)
LEMMA InvNext == ASSUME Inv, [Next]_vars PROVE Inv'
<1>1. CASE UNCHANGED vars
  <2>1. UNCHANGED <<tables, scan, rollup, daily>>
    BY <1>1 DEF vars, tables, rows
  <2>2. DailyTyped' /\ DailySound'
    BY <2>1 DEF Inv, DailyTyped, DailySound, Covers, Outcome, tables, rows
  <2> QED
    BY <2>1, <2>2, DailyMoves
<1>2. CASE \E s \in Scans : IngestScanResult(s)
  BY <1>2, IngestScanInv, ScanReadsInv, ScanCommitsInv, FaultInv DEF IngestScanResult
<1>3. CASE \E r \in Rollups : IngestRollup(r)
  BY <1>3, RollupMovesInv, RollupCommitsInv DEF IngestRollup
<1>4. CASE QueueDailyScans
  BY <1>4, StartDailyInv, DailyReadsInv, DailyReadsMaliciousInv, DailyCommitsInv, FaultInv DEF QueueDailyScans
<1>5. CASE (\E d \in Devices : TriggerScan(d)) \/ ClaimScans \/ AckAll
           \/ (\E d \in Devices, t \in AlertTypes : AckAlert(d, t))
  BY <1>5, UserInv
<1>6. CASE Restart
  BY <1>6, FaultInv
<1> QED
  BY <1>1, <1>2, <1>3, <1>4, <1>5, <1>6 DEF Next

(* The inductive invariant holds: requests know what they say they know    *)
(* until a commit of another takes it from them.                           *)
THEOREM SecurityInvariant == Spec => []Inv
BY InitInv, InvNext, PTL DEF Spec

(* Rows and requests in flight are well formed in every reachable state.   *)
THEOREM TypeCorrect == Spec => []TypeOK
<1>1. Inv => TypeOK
  BY DEF Inv, Tables, ScanRequest, RollupRequest, DailyTyped, DailyRequest, TypeOK
<1> QED
  BY <1>1, SecurityInvariant, PTL

(* However scan results, rollups, the daily job, failures and the user     *)
(* interleave, a status is below its device's signals only from the commit *)
(* of a request that another had overtaken.                                *)
THEOREM StatusesCover == Spec => []StatusCoversUnlessRaced
BY SecurityInvariant, PTL DEF Inv

-----------------------------------------------------------------------------
(* What a step may never do.                                               *)

Doubling ==
    \A d \in Devices :
        /\ open[d]["suspicious_traffic"] > 0 =>
              open'[d]["suspicious_traffic"] <= open[d]["suspicious_traffic"]
        /\ open[d]["unexpected_port"] > 0 =>
              \/ open'[d]["unexpected_port"] <= open[d]["unexpected_port"]
              \/ \E s \in Scans : scan[s].dev = d /\ scan[s].overtaken /\ scan'[s] = NoScan

LEMMA NoneAdded == ASSUME Inv, open' = open PROVE Doubling
<1>1. \A d \in Devices : open[d]["suspicious_traffic"] \in Nat /\ open[d]["unexpected_port"] \in Nat
  BY DEF Inv, Tables, AlertTypes
<1> QED
  BY <1>1 DEF Doubling

(* An alert is added by a commit that has seen none, or by a scan result   *)
(* that was overtaken.                                                     *)
LEMMA DoublingNext == ASSUME Inv, [Next]_vars PROVE Doubling
<1>1. \A d \in Devices : open[d] \in [AlertTypes -> Nat]
  BY DEF Inv, Tables
<1>2. ASSUME NEW s \in Scans, ScanCommits(s) PROVE Doubling
  <2> DEFINE q == scan[s]
  <2>1. open' = (IF q.alert THEN [open EXCEPT ![q.dev]["unexpected_port"] = @ + 1] ELSE open)
        /\ q.pc = "commit" /\ q.dev \in Devices /\ scan'[s] = NoScan
    BY <1>2 DEF ScanCommits, ScansAfter, Inv, ScanSound
  <2>2. q.alert => q.overtaken \/ open[q.dev]["unexpected_port"] = 0
    BY <2>1 DEF Inv, ScanSound, ScanFresh
  <2>3. CASE ~q.alert
    BY <2>1, <2>3, NoneAdded
  <2>4. CASE q.alert
    <3> SUFFICES ASSUME NEW d \in Devices
                 PROVE  /\ open'[d]["suspicious_traffic"] <= open[d]["suspicious_traffic"]
                        /\ open[d]["unexpected_port"] > 0 =>
                              \/ open'[d]["unexpected_port"] <= open[d]["unexpected_port"]
                              \/ \E t \in Scans : scan[t].dev = d /\ scan[t].overtaken /\ scan'[t] = NoScan
      BY DEF Doubling
    <3>1. open'[d] = IF d = q.dev THEN [open[d] EXCEPT !["unexpected_port"] = @ + 1] ELSE open[d]
      BY <2>1, <2>4 DEF Inv, Tables
    <3>2. CASE d # q.dev
      BY <1>1, <3>1, <3>2 DEF AlertTypes
    <3>3. CASE d = q.dev
      <4>1. open'[d]["suspicious_traffic"] = open[d]["suspicious_traffic"]
            /\ open[d]["suspicious_traffic"] \in Nat
        BY <1>1, <3>1, <3>3 DEF AlertTypes
      <4>2. CASE q.overtaken
        BY <2>1, <3>3, <4>1, <4>2
      <4>3. CASE open[d]["unexpected_port"] = 0
        BY <4>1, <4>3
      <4> QED
        BY <2>2, <2>4, <3>3, <4>2, <4>3
    <3> QED
      BY <3>2, <3>3
  <2> QED
    BY <2>3, <2>4
<1>3. ASSUME NEW r \in Rollups, RollupCommits(r) PROVE Doubling
  <2> SUFFICES ASSUME NEW d \in Devices
               PROVE  /\ open'[d]["suspicious_traffic"] <= open[d]["suspicious_traffic"]
                      /\ open'[d]["unexpected_port"] <= open[d]["unexpected_port"]
    BY DEF Doubling
  <2>1. open'[d] = [open[d] EXCEPT !["malicious_ip"] = @ + rollup[r].hits[d]]
    BY <1>3 DEF RollupCommits
  <2> QED
    BY <1>1, <2>1 DEF AlertTypes
<1>4. ASSUME DailyCommits PROVE Doubling
  <2> SUFFICES ASSUME NEW d \in Devices
               PROVE  /\ open[d]["suspicious_traffic"] > 0 =>
                            open'[d]["suspicious_traffic"] <= open[d]["suspicious_traffic"]
                      /\ open'[d]["unexpected_port"] <= open[d]["unexpected_port"]
    BY DEF Doubling
  <2>1. open'[d] = IF d \in daily.alert THEN [open[d] EXCEPT !["suspicious_traffic"] = @ + 1] ELSE open[d]
    BY <1>4 DEF DailyCommits
  <2>2. d \in daily.alert => open[d]["suspicious_traffic"] = 0
    BY <1>4 DEF DailyCommits, Inv, DailySound
  <2> QED
    BY <1>1, <2>1, <2>2 DEF AlertTypes
<1>5. ASSUME NEW d \in Devices, NEW t \in AlertTypes, AckAlert(d, t) PROVE Doubling
  <2> SUFFICES ASSUME NEW e \in Devices
               PROVE  /\ open'[e]["suspicious_traffic"] <= open[e]["suspicious_traffic"]
                      /\ open'[e]["unexpected_port"] <= open[e]["unexpected_port"]
    BY DEF Doubling
  <2>1. open' = [open EXCEPT ![d][t] = @ - 1] /\ open \in [Devices -> [AlertTypes -> Nat]]
    BY <1>5 DEF AckAlert, Inv, Tables
  <2> QED
    BY <2>1 DEF AlertTypes
<1>6. ASSUME AckAll PROVE Doubling
  <2> SUFFICES ASSUME NEW d \in Devices
               PROVE  /\ open'[d]["suspicious_traffic"] <= open[d]["suspicious_traffic"]
                      /\ open'[d]["unexpected_port"] <= open[d]["unexpected_port"]
    BY DEF Doubling
  <2>1. open'[d] = [t \in AlertTypes |-> 0]
    BY <1>6 DEF AckAll
  <2> QED
    BY <1>1, <2>1 DEF AlertTypes
<1>7. ASSUME NEW s \in Scans, IngestScanResult(s), ~ScanCommits(s) PROVE open' = open
  BY <1>7 DEF IngestScanResult, IngestScan, ScanReadsMalicious, ScanReadsSuspicious, ScanReadsUnexpected,
     ScanReads, FailScan, Fault, tables, rows
<1>8. ASSUME NEW r \in Rollups, IngestRollup(r), ~RollupCommits(r) PROVE open' = open
  BY <1>8 DEF IngestRollup, IngestTraffic, CheckFlow, FailRollup, Fault, tables, rows
<1>9. ASSUME QueueDailyScans, ~DailyCommits PROVE open' = open
  BY <1>9 DEF QueueDailyScans, StartDaily, DailyVisits, DailyReadsSuspicious, DailyReadsLatest,
     DailyReadsMalicious, FailDaily, Fault, tables, rows
<1>10. ASSUME UNCHANGED vars \/ (\E d \in Devices : TriggerScan(d)) \/ ClaimScans \/ Restart
       PROVE  open' = open
  BY <1>10 DEF vars, tables, rows, TriggerScan, ClaimScans, Restart, Fault
<1> QED
  BY <1>2, <1>3, <1>4, <1>5, <1>6, <1>7, <1>8, <1>9, <1>10, NoneAdded DEF Next

(* No alert raised on an existence check gets a second one beside it,      *)
(* whatever overlaps, fails or is acknowledged, but from a scan result     *)
(* that another request has overtaken.                                     *)
THEOREM DoublesNeedOverlap == Spec => DoubledOnlyByOverlap
<1>1. Inv /\ [Next]_vars => [Doubling]_vars
  BY DoublingNext
<1> QED
  BY <1>1, SecurityInvariant, PTL DEF Spec, DoubledOnlyByOverlap, Doubling

(* Why a scan result or a daily job ends without a failure.                *)
ScanEnding ==
    \A s \in Scans : scan[s].pc # "idle" /\ scan'[s].pc = "idle" =>
        \/ scan[s].pc = "commit" /\ (scan[s].superseded \/ latest'[scan[s].dev] = scan[s].found)
        \/ \E t \in {"malicious_ip", "unexpected_port"} : open[scan[s].dev][t] > 1
DailyEnding ==
    daily.pc # "idle" /\ daily'.pc = "idle" =>
        \/ daily.pc = "next" /\ daily.todo = {}
        \/ \E d \in Devices : open[d]["malicious_ip"] > 1 \/ pending[d] > 1

LEMMA ScanEndingNext == ASSUME Inv, [Next]_vars, faults' = faults PROVE ScanEnding
<1>1. faults \in Nat
  BY DEF Inv, Tables
<1>2. ASSUME \A t \in Scans : scan'[t].pc = scan[t].pc PROVE ScanEnding
  BY <1>2 DEF ScanEnding
<1>3. ASSUME NEW s \in Scans, ScanReadsMalicious(s) \/ ScanReadsSuspicious(s) \/ ScanReadsUnexpected(s)
      PROVE  ScanEnding
  <2>1. \A t \in Scans \ {s} : scan'[t].pc = scan[t].pc
    BY <1>3 DEF ScanReadsMalicious, ScanReadsSuspicious, ScanReadsUnexpected, ScanReads, EndScan, Inv, ScanRequest
  <2>2. scan[s] \in ScanRequest /\ scan[s].pc # "idle"
    BY <1>3 DEF ScanReadsMalicious, ScanReadsSuspicious, ScanReadsUnexpected, ScanReads, Inv
  <2>3. ASSUME ScanReadsMalicious(s)
        PROVE  scan'[s].pc = "idle" => \E t \in {"malicious_ip", "unexpected_port"} : open[scan[s].dev][t] > 1
    <3>1. \/ open[scan[s].dev]["malicious_ip"] > 1
          \/ scan'[s] = [scan[s] EXCEPT !.pc = "suspicious",
                                        !.malicious = open[scan[s].dev]["malicious_ip"] = 1]
      BY <2>3 DEF ScanReadsMalicious, ScanReads, Inv
    <3>2. open[scan[s].dev]["malicious_ip"] > 1 \/ scan'[s].pc = "suspicious"
      BY <2>2, <3>1 DEF ScanRequest
    <3> QED
      BY <3>2
  <2>4. ASSUME ScanReadsSuspicious(s)
        PROVE  scan'[s].pc = "idle" => \E t \in {"malicious_ip", "unexpected_port"} : open[scan[s].dev][t] > 1
    <3>1. scan[s].dev \in Devices
      BY <2>2 DEF Inv, ScanSound
    <3>2. open[scan[s].dev]["suspicious_traffic"] \in Nat /\ open[scan[s].dev]["suspicious_traffic"] <= 1
      BY <3>1 DEF Inv, Tables, AnomalyOnce, AlertTypes
    <3>3. scan'[s] = [scan[s] EXCEPT !.pc = IF Unexpected(scan[s].found) THEN "unexpected" ELSE "commit",
                                     !.suspicious = open[scan[s].dev]["suspicious_traffic"] = 1]
      BY <2>4, <3>2 DEF ScanReadsSuspicious, ScanReads, Inv
    <3> QED
      BY <2>2, <3>3 DEF ScanRequest
  <2>5. ASSUME ScanReadsUnexpected(s)
        PROVE  scan'[s].pc = "idle" => \E t \in {"malicious_ip", "unexpected_port"} : open[scan[s].dev][t] > 1
    <3>1. \/ open[scan[s].dev]["unexpected_port"] > 1
          \/ scan'[s] = [scan[s] EXCEPT !.pc = "commit", !.alert = open[scan[s].dev]["unexpected_port"] = 0]
      BY <2>5 DEF ScanReadsUnexpected, ScanReads, Inv
    <3>2. open[scan[s].dev]["unexpected_port"] > 1 \/ scan'[s].pc = "commit"
      BY <2>2, <3>1 DEF ScanRequest
    <3> QED
      BY <3>2
  <2>6. scan'[s].pc = "idle" => \E t \in {"malicious_ip", "unexpected_port"} : open[scan[s].dev][t] > 1
    BY <1>3, <2>3, <2>4, <2>5
  <2> QED
    BY <2>1, <2>6 DEF ScanEnding
<1>4. ASSUME NEW s \in Scans, ScanCommits(s) PROVE ScanEnding
  <2>1. \A t \in Scans \ {s} : scan'[t].pc = scan[t].pc
    BY <1>4 DEF ScanCommits, ScansAfter, Inv, ScanRequest
  <2>2. scan[s].pc = "commit" /\ (scan[s].superseded \/ latest'[scan[s].dev] = scan[s].found)
    BY <1>4 DEF ScanCommits, Inv, ScanSound, Tables
  <2> QED
    BY <2>1, <2>2 DEF ScanEnding
<1>5. ASSUME NEW s \in Scans, NEW d \in Devices, NEW f \in Findings, IngestScan(s, d, f) PROVE ScanEnding
  BY <1>5 DEF IngestScan, NoScan, ScanEnding, Inv
<1>6. ASSUME NEW r \in Rollups, IngestRollup(r) PROVE \A t \in Scans : scan'[t].pc = scan[t].pc
  <2>1. CASE RollupCommits(r)
    BY <2>1 DEF RollupCommits, ScansOvertaken, Inv, ScanRequest
  <2>2. CASE ~RollupCommits(r)
    BY <1>6, <2>2 DEF IngestRollup, IngestTraffic, CheckFlow, FailRollup
  <2> QED
    BY <2>1, <2>2
<1>7. ASSUME QueueDailyScans PROVE \A t \in Scans : scan'[t].pc = scan[t].pc
  <2>1. CASE DailyCommits
    BY <2>1 DEF DailyCommits, ScansOvertaken, Inv, ScanRequest
  <2>2. CASE ~DailyCommits
    BY <1>7, <2>2 DEF QueueDailyScans, StartDaily, DailyVisits, DailyReadsSuspicious, DailyReadsLatest,
       DailyReadsMalicious, FailDaily
  <2> QED
    BY <2>1, <2>2
<1>8. ASSUME UNCHANGED vars \/ (\E d \in Devices : TriggerScan(d)) \/ ClaimScans \/ AckAll
             \/ (\E d \in Devices, t \in AlertTypes : AckAlert(d, t))
      PROVE  scan' = scan
  BY <1>8 DEF vars, requests, TriggerScan, ClaimScans, AckAlert, AckAll
<1>9. ~Restart /\ \A s \in Scans : ~FailScan(s)
  BY <1>1 DEF Restart, FailScan, Fault
<1> QED
  BY <1>2, <1>3, <1>4, <1>5, <1>6, <1>7, <1>8, <1>9 DEF Next, IngestScanResult

LEMMA DailyEndingNext == ASSUME Inv, [Next]_vars, faults' = faults PROVE DailyEnding
<1>1. faults \in Nat
  BY DEF Inv, Tables
<1>2. ASSUME daily'.pc = daily.pc PROVE DailyEnding
  BY <1>2 DEF DailyEnding
<1>3. \A D \in SUBSET Devices : DailyOvertaken(D).pc = daily.pc
  BY DEF DailyOvertaken, Inv, DailyTyped, DailyRequest
<1>4. ASSUME NEW s \in Scans, IngestScanResult(s) PROVE daily'.pc = daily.pc
  <2>1. CASE ScanCommits(s)
    <3>1. scan[s].dev \in Devices /\ daily' = DailyOvertaken({scan[s].dev})
      BY <2>1 DEF ScanCommits, Inv, ScanSound
    <3> QED
      BY <1>3, <3>1
  <2>2. CASE ~ScanCommits(s)
    BY <1>4, <2>2 DEF IngestScanResult, IngestScan, ScanReadsMalicious, ScanReadsSuspicious,
       ScanReadsUnexpected, ScanReads, FailScan
  <2> QED
    BY <2>1, <2>2
<1>5. ASSUME NEW r \in Rollups, IngestRollup(r) PROVE daily'.pc = daily.pc
  <2>1. CASE RollupCommits(r)
    BY <1>3, <2>1 DEF RollupCommits
  <2>2. CASE ~RollupCommits(r)
    BY <1>5, <2>2 DEF IngestRollup, IngestTraffic, CheckFlow, FailRollup
  <2> QED
    BY <2>1, <2>2
<1>6. ASSUME QueueDailyScans PROVE DailyEnding
  <2>1. CASE StartDaily
    BY <2>1 DEF StartDaily, DailyEnding
  <2>2. ASSUME NEW d \in Devices, DailyVisits(d) PROVE DailyEnding
    BY <2>2 DEF DailyVisits, DailyEnding, Inv, DailyTyped, DailyRequest
  <2>3. CASE DailyReadsSuspicious
    <3> DEFINE n == open[daily.dev]["suspicious_traffic"]
    <3>1. daily.dev \in Devices /\ daily \in DailyRequest
      BY <2>3 DEF DailyReadsSuspicious, Inv, DailyTyped
    <3>2. n \in Nat /\ n <= 1
      BY <3>1 DEF Inv, Tables, AnomalyOnce, AlertTypes
    <3>3. \/ daily' = [daily EXCEPT !.pc = "next", !.dev = NONE]
          \/ daily' = [daily EXCEPT !.pc = "latest", !.alert = @ \cup {daily.dev}]
      BY <2>3, <3>2 DEF DailyReadsSuspicious
    <3>4. daily'.pc # "idle"
      BY <3>1, <3>3 DEF DailyRequest
    <3> QED
      BY <3>4 DEF DailyEnding
  <2>4. CASE DailyReadsLatest
    BY <2>4 DEF DailyReadsLatest, DailyEnding, Inv, DailyTyped, DailyRequest
  <2>5. CASE DailyReadsMalicious
    BY <2>5 DEF DailyReadsMalicious, DailyEnding, Inv, DailyTyped, DailyRequest
  <2>6. CASE DailyCommits
    BY <2>6 DEF DailyCommits, DailyEnding
  <2>7. ~FailDaily
    BY <1>1 DEF FailDaily, Fault
  <2> QED
    BY <1>6, <2>1, <2>2, <2>3, <2>4, <2>5, <2>6, <2>7 DEF QueueDailyScans
<1>7. ASSUME UNCHANGED vars \/ (\E d \in Devices : TriggerScan(d)) \/ ClaimScans \/ AckAll
             \/ (\E d \in Devices, t \in AlertTypes : AckAlert(d, t))
      PROVE  daily' = daily
  BY <1>7 DEF vars, requests, TriggerScan, ClaimScans, AckAlert, AckAll
<1>8. ~Restart
  BY <1>1 DEF Restart, Fault
<1> QED
  BY <1>2, <1>4, <1>5, <1>6, <1>7, <1>8 DEF Next

(* A scan result or a daily job that no failure ends is lost only to a     *)
(* second open alert or a second unclaimed request.                        *)
THEOREM NothingElseIsLost == Spec => LostOnlyToDoubles
<1>1. Inv /\ [Next]_vars => [faults' = faults => ScanEnding /\ DailyEnding]_vars
  BY ScanEndingNext, DailyEndingNext
<1> QED
  BY <1>1, SecurityInvariant, PTL DEF Spec, LostOnlyToDoubles, ScanEnding, DailyEnding
=============================================================================
