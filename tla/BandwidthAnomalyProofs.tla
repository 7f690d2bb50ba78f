---------------------- MODULE BandwidthAnomalyProofs -----------------------
(* Proofs about BandwidthAnomaly, for any window, day length and amounts:  *)
(* habits are no anomalies, spikes are, and newcomers are not judged.      *)
EXTENDS BandwidthAnomaly, InductionLemmas

Typed ==
    /\ bytes \in [Ages -> Nat]
    /\ hour \in 0..(SlotsPerDay - 1)
    /\ known \in 0..MaxAge

(* No row is older than the first one.                                     *)
RowsAreKnown == \A a \in Ages : bytes[a] > 0 => a < known

Inv == Typed /\ RowsAreKnown

-----------------------------------------------------------------------------
(* Arithmetic of days.                                                     *)

LEMMA Sizes ==
    /\ SlotsPerDay \in Nat \ {0} /\ ROLLING_WINDOW_DAYS \in Nat \ {0} /\ MIN_SAMPLE_DAYS \in Nat \ {0}
    /\ ANOMALY_THRESHOLD_MULTIPLIER \in Nat \ {0}
    /\ Window \in Nat /\ Window >= SlotsPerDay /\ MaxAge \in Nat /\ MaxAge >= Window
    /\ Recent \subseteq Ages /\ IsFiniteSet(Ages) /\ IsFiniteSet(Recent)
    /\ Ages \ Recent = SlotsPerDay..(Window - 1)
<1>1. /\ SlotsPerDay \in Nat \ {0} /\ ROLLING_WINDOW_DAYS \in Nat \ {0} /\ MIN_SAMPLE_DAYS \in Nat \ {0}
      /\ ANOMALY_THRESHOLD_MULTIPLIER \in Nat \ {0}
  BY ConstantsAssumption
<1>2. \A s, d \in Nat \ {0} : d * s \in Nat /\ d * s >= s
  <2> SUFFICES ASSUME NEW s \in Nat \ {0}, NEW d \in Nat \ {0} PROVE d * s \in Nat /\ d * s >= s
    OBVIOUS
  <2>1. d * s = (d - 1) * s + s /\ (d - 1) * s \in Nat
    OBVIOUS
  <2> QED BY <2>1
<1>3. Window \in Nat /\ Window >= SlotsPerDay
  BY <1>1, <1>2 DEF Window
<1>4. IsFiniteSet(Ages) /\ IsFiniteSet(Recent)
  BY <1>1, <1>3, FS_Interval DEF Ages, Recent
<1>5. Recent \subseteq Ages /\ Ages \ Recent = SlotsPerDay..(Window - 1)
  BY <1>1, <1>3 DEF Ages, Recent
<1> QED BY <1>1, <1>3, <1>4, <1>5, ConstantsAssumption

(* The quotient lies where the multiples around the number say.            *)
LEMMA DivBounds ==
    ASSUME NEW s \in Nat \ {0}, NEW x \in Nat, NEW lo \in Nat, NEW hi \in Nat,
           lo * s <= x, x < hi * s
    PROVE  x \div s \in lo..(hi - 1)
<1>1. x \div s \in Int /\ s * (x \div s) <= x /\ x < s * (x \div s) + s
  OBVIOUS
<1> DEFINE q == x \div s
<1> HIDE DEF q
<1>2. q \in Int /\ s * q <= x /\ x < s * q + s
  BY <1>1 DEF q
<1>3. q < hi
  <2> SUFFICES ASSUME q >= hi PROVE FALSE
    BY <1>2
  <2>1. s * q >= hi * s
    BY <1>2
  <2> QED BY <1>2, <2>1
<1>4. lo <= q
  <2> SUFFICES ASSUME lo >= q + 1 PROVE FALSE
    BY <1>2
  <2>1. lo * s >= s * q + s
    BY <1>2
  <2> QED BY <1>2, <2>1
<1> QED BY <1>2, <1>3, <1>4 DEF q

-----------------------------------------------------------------------------
(* The invariant.                                                          *)

LEMMA InitInv == Init => Inv
BY Sizes DEF Init, Inv, Typed, RowsAreKnown

LEMMA NextInv == Inv /\ [Next]_vars => Inv'
<1> SUFFICES ASSUME Inv, [Next]_vars PROVE Inv'
  OBVIOUS
<1>1. CASE UNCHANGED vars
  BY <1>1 DEF Inv, Typed, RowsAreKnown, vars
<1>2. ASSUME NEW b \in Amounts, SlotEnds(b)
      PROVE  Inv'
  <2>1. /\ bytes' = [a \in Ages |-> IF a = 0 THEN b ELSE bytes[a - 1]]
        /\ hour' = (hour + 1) % SlotsPerDay
        /\ known' = IF known = 0 /\ b = 0 THEN 0 ELSE IF known < MaxAge THEN known + 1 ELSE known
    BY <1>2 DEF SlotEnds
  <2>2. b \in Nat /\ \A a \in Ages : a # 0 => a - 1 \in Ages
    BY Sizes, ConstantsAssumption DEF Ages
  <2>3. bytes' \in [Ages -> Nat]
    BY <2>1, <2>2 DEF Inv, Typed
  <2>4. hour' \in 0..(SlotsPerDay - 1)
    BY <2>1, Sizes DEF Inv, Typed
  <2>5. known' \in 0..MaxAge
    BY <2>1, Sizes DEF Inv, Typed
  <2>6. ASSUME NEW a \in Ages, bytes'[a] > 0
        PROVE  a < known'
    <3>1. known \in 0..MaxAge /\ a \in Nat /\ a < Window
      BY Sizes DEF Inv, Typed, Ages
    <3>2. CASE a = 0
      <4>1. b > 0
        BY <2>1, <2>6, <3>2
      <4> QED BY <2>1, <2>2, <3>1, <3>2, <4>1, Sizes
    <3>3. CASE a # 0
      <4>1. a - 1 < known
        BY <2>1, <2>2, <2>6, <3>3 DEF Inv, RowsAreKnown
      <4> QED BY <2>1, <3>1, <3>3, <4>1, Sizes
    <3> QED BY <3>2, <3>3
  <2> QED BY <2>3, <2>4, <2>5, <2>6 DEF Inv, Typed, RowsAreKnown
<1> QED BY <1>1, <1>2 DEF Next

(* Inv is an invariant.                                                    *)
THEOREM Invariance == Spec => []Inv
BY InitInv, NextInv, PTL DEF Spec

(* What the function reads is of its type.                                 *)
LEMMA ReadsTyped ==
    ASSUME Inv
    PROVE  /\ \A A \in SUBSET Ages : IsFiniteSet(A) /\ Total(A) \in Nat
           /\ BaselineRows \in SUBSET Ages /\ IsFiniteSet(BaselineDays)
           /\ AveragedDays \in Nat /\ (BaselineDays # {} => AveragedDays >= 1)
           /\ SampleDays = AveragedDays + 1
           /\ \A a \in Ages : a + SlotsPerDay - hour \in Nat /\ a \in Nat /\ Day(a) \in Nat
<1>1. \A A \in SUBSET Ages : IsFiniteSet(A) /\ Total(A) \in Nat
  BY Sizes, FS_Subset, SumType DEF Inv, Typed, Total
<1>2. BaselineRows \in SUBSET Ages
  BY DEF BaselineRows
<1>3. \A a \in Ages : a + SlotsPerDay - hour \in Nat /\ a \in Nat /\ Day(a) \in Nat
  BY Sizes DEF Inv, Typed, Ages, Day
<1>4. IsFiniteSet(BaselineDays)
  <2> DEFINE f == [a \in BaselineRows |-> Day(a)]
  <2>1. f \in Surjection(BaselineRows, BaselineDays)
    BY DEF Surjection, BaselineDays
  <2> HIDE DEF f
  <2> QED BY <1>1, <1>2, <2>1, FS_Surjection
<1>5. AveragedDays \in Nat /\ (BaselineDays # {} => AveragedDays >= 1)
  BY <1>4, FS_CardinalityType, FS_EmptySet DEF AveragedDays
<1> QED BY <1>1, <1>2, <1>3, <1>4, <1>5 DEF SampleDays, AveragedDays

-----------------------------------------------------------------------------
(* Newcomers.                                                              *)

(* Rows of the first few days fall on few days.                            *)
LEMMA FewDays ==
    ASSUME Inv, NEW n \in Nat, \A a \in BaselineRows : a <= n * SlotsPerDay
    PROVE  AveragedDays <= n
<1> DEFINE first == IF hour = 0 THEN 2 ELSE 1
<1>1. hour \in 0..(SlotsPerDay - 1) /\ first \in Nat /\ SlotsPerDay \in Nat \ {0}
  BY Sizes DEF Inv, Typed
<1>2. ASSUME NEW a \in BaselineRows
      PROVE  Day(a) \in first..(first + n - 1)
  <2>1. a \in Ages /\ a \in Nat /\ a >= SlotsPerDay /\ a <= n * SlotsPerDay
    BY <1>2, Sizes, ReadsTyped DEF BaselineRows, Recent
  <2>2. a + SlotsPerDay - hour \in Nat
    BY <2>1, ReadsTyped
  <2>3. first * SlotsPerDay <= a + SlotsPerDay - hour
    BY <1>1, <2>1
  <2>4. (first + n) * SlotsPerDay = first * SlotsPerDay + n * SlotsPerDay
    BY <1>1
  <2>5. a + SlotsPerDay - hour < (first + n) * SlotsPerDay
    BY <1>1, <2>1, <2>4
  <2> HIDE DEF first
  <2> QED BY <1>1, <2>2, <2>3, <2>5, DivBounds DEF Day
<1>3. BaselineDays \subseteq first..(first + n - 1)
  BY <1>2 DEF BaselineDays
<1>4. /\ IsFiniteSet(first..(first + n - 1))
      /\ Cardinality(first..(first + n - 1)) = n
  <2> HIDE DEF first
  <2>1. first > first + n - 1 => n = 0
    BY <1>1
  <2> QED BY <1>1, <2>1, FS_Interval
<1> QED BY <1>3, <1>4, FS_Subset DEF AveragedDays

(* Whichever slots have rows, MIN_SAMPLE_DAYS - 2 days and two slots must  *)
(* pass before the first verdict.                                          *)
LEMMA InvNewcomer == Inv => NewcomerIsNotJudged
<1> SUFFICES ASSUME Inv, known < (MIN_SAMPLE_DAYS - 2) * SlotsPerDay + 2,
                    SampleDays >= MIN_SAMPLE_DAYS, BaselineDays # {}
             PROVE  FALSE
  BY DEF NewcomerIsNotJudged, CheckBandwidthAnomaly
<1>1. \A a \in BaselineRows : /\ a < known /\ a \in Nat
                              /\ a >= SlotsPerDay
  BY Sizes, ReadsTyped DEF Inv, RowsAreKnown, BaselineRows, Recent
<1>2. known \in Nat /\ SlotsPerDay \in Nat \ {0} /\ MIN_SAMPLE_DAYS \in Nat \ {0}
  BY Sizes DEF Inv, Typed
<1>3. \A a \in BaselineRows : a <= (MIN_SAMPLE_DAYS - 2) * SlotsPerDay
  BY <1>1, <1>2
<1>4. MIN_SAMPLE_DAYS - 2 \in Nat
  <2>1. PICK a \in BaselineRows : TRUE
    BY DEF BaselineDays
  <2>2. (MIN_SAMPLE_DAYS - 2) * SlotsPerDay >= 1
    BY <1>1, <1>2, <1>3, <2>1
  <2>3. MIN_SAMPLE_DAYS - 2 < 0 => (MIN_SAMPLE_DAYS - 2) * SlotsPerDay <= 0
    BY <1>2
  <2> QED BY <1>2, <2>2, <2>3
<1>5. AveragedDays <= MIN_SAMPLE_DAYS - 2
  BY <1>3, <1>4, FewDays
<1> QED BY <1>2, <1>5, ReadsTyped

-----------------------------------------------------------------------------
(* Spikes.                                                                 *)

RowsOf(D) == {a \in BaselineRows : Day(a) \in D}

(* If no day reaches r, no set of days does on average.                    *)
LEMMA DaysBelow ==
    ASSUME Inv, NEW m \in Nat, NEW r \in Int,
           \A d \in BaselineDays : m * Total(RowsOf({d})) < r
    PROVE  m * Total(BaselineRows) <= (r - 1) * AveragedDays
<1> DEFINE Good(D) == m * Total(RowsOf(D)) <= (r - 1) * Cardinality(D)
           X == {D \in SUBSET BaselineDays : Good(D)}
<1>1. \A D : RowsOf(D) \in SUBSET Ages /\ IsFiniteSet(RowsOf(D)) /\ Total(RowsOf(D)) \in Nat
  BY ReadsTyped DEF RowsOf
<1>2. {} \in X
  <2>1. RowsOf({}) = {}
    BY DEF RowsOf
  <2>2. Total(RowsOf({})) = 0
    BY <2>1, SumEmpty DEF Total
  <2>3. m * 0 = 0 /\ (r - 1) * 0 = 0
    OBVIOUS
  <2> QED BY <2>2, <2>3, FS_EmptySet
<1>3. ASSUME NEW D \in SUBSET BaselineDays, NEW d \in BaselineDays \ D, D \in X
      PROVE  D \cup {d} \in X
  <2>1. RowsOf(D \cup {d}) = RowsOf(D) \cup RowsOf({d}) /\ RowsOf(D) \cap RowsOf({d}) = {}
    BY DEF RowsOf
  <2>2. \A a \in RowsOf(D) \cup RowsOf({d}) : bytes[a] \in Int
    BY <1>1 DEF Inv, Typed
  <2>3. Total(RowsOf(D) \cup RowsOf({d})) = Total(RowsOf(D)) + Total(RowsOf({d}))
    BY <1>1, <2>1, <2>2, SumUnion DEF Total
  <2>4. Total(RowsOf(D \cup {d})) = Total(RowsOf(D)) + Total(RowsOf({d}))
    BY <2>1, <2>3
  <2>5. IsFiniteSet(D) /\ Cardinality(D) \in Nat /\ Cardinality(D \cup {d}) = Cardinality(D) + 1
    BY ReadsTyped, FS_Subset, FS_CardinalityType, FS_AddElement
  <2>6. m * Total(RowsOf({d})) <= r - 1
    BY <1>1
  <2>7. ASSUME NEW x \in Nat, NEW y \in Nat, NEW n \in Nat,
               m * x <= (r - 1) * n, m * y <= r - 1
        PROVE  m * (x + y) <= (r - 1) * (n + 1)
    <3>1. m * (x + y) = m * x + m * y /\ (r - 1) * (n + 1) = (r - 1) * n + (r - 1)
      OBVIOUS
    <3>2. {m * x, m * y, (r - 1) * n, r - 1} \subseteq Int
      OBVIOUS
    <3> QED BY <2>7, <3>1, <3>2
  <2>8. m * (Total(RowsOf(D)) + Total(RowsOf({d}))) <= (r - 1) * (Cardinality(D) + 1)
    BY <1>1, <1>3, <2>5, <2>6, <2>7
  <2>9. Good(D \cup {d})
    BY <2>4, <2>5, <2>8
  <2> QED BY <2>9
<1>4. BaselineDays \in X
  <2> HIDE DEF X
  <2> QED BY <1>2, <1>3, ReadsTyped, SetInduct
<1>5. RowsOf(BaselineDays) = BaselineRows
  BY DEF RowsOf, BaselineDays
<1> QED BY <1>4, <1>5 DEF AveragedDays

(* More than the multiple of the busiest day within 24 h is reported,      *)
(* whatever the days are and wherever midnight falls.                      *)
LEMMA InvSpike == Inv => SpikeIsAnomaly
<1> DEFINE M == ANOMALY_THRESHOLD_MULTIPLIER
           R == Total(Recent)
<1> SUFFICES ASSUME Inv, SampleDays >= MIN_SAMPLE_DAYS, BaselineDays # {},
                    \A d \in {Day(a) : a \in Ages} : R > M * Total({a \in Ages \ Recent : Day(a) = d})
             PROVE  CheckBandwidthAnomaly
  BY DEF SpikeIsAnomaly
<1>1. M \in Nat /\ R \in Nat /\ AveragedDays \in Nat /\ AveragedDays >= 1 /\ Total(BaselineRows) \in Nat
  BY Sizes, ReadsTyped
<1>2. ASSUME NEW d \in BaselineDays
      PROVE  M * Total(RowsOf({d})) < R
  <2> DEFINE all == {a \in Ages \ Recent : Day(a) = d}
  <2>1. R > M * Total(all)
    BY DEF BaselineDays, BaselineRows
  <2>2. all \in SUBSET Ages /\ RowsOf({d}) \subseteq all
    BY DEF RowsOf, BaselineRows
  <2>3. IsFiniteSet(all) /\ Total(all) \in Nat /\ Total(RowsOf({d})) \in Nat
    BY <2>2, ReadsTyped
  <2>4. Total(RowsOf({d})) <= Total(all)
    <3>1. \A a \in all : bytes[a] \in Nat
      BY DEF Inv, Typed
    <3> HIDE DEF all
    <3> QED BY <2>2, <2>3, <3>1, SumSubset DEF Total
  <2>5. M * Total(RowsOf({d})) <= M * Total(all)
    <3>1. \A m, x, y \in Nat : x <= y => m * x <= m * y
      OBVIOUS
    <3> HIDE DEF all, M
    <3> QED BY <1>1, <2>3, <2>4, <3>1
  <2> HIDE DEF all, M, R
  <2>6. M * Total(RowsOf({d})) \in Nat /\ M * Total(all) \in Nat
    BY <1>1, <2>3
  <2> QED BY <1>1, <2>1, <2>5, <2>6
<1>3. M * Total(BaselineRows) <= (R - 1) * AveragedDays
  <2> HIDE DEF M, R
  <2>1. M \in Nat /\ R \in Int /\ \A d \in BaselineDays : M * Total(RowsOf({d})) < R
    BY <1>1, <1>2
  <2> QED BY <2>1, DaysBelow
<1>4. R * AveragedDays > Total(BaselineRows) * M
  <2> HIDE DEF M, R
  <2>1. (R - 1) * AveragedDays = R * AveragedDays - AveragedDays
    BY <1>1
  <2>2. M * Total(BaselineRows) = Total(BaselineRows) * M
    BY <1>1
  <2>3. {R * AveragedDays, M * Total(BaselineRows)} \subseteq Int
    BY <1>1
  <2> QED BY <1>1, <1>3, <2>1, <2>2, <2>3
<1> QED BY <1>4 DEF CheckBandwidthAnomaly, MostRecentTotal

-----------------------------------------------------------------------------
(* Habits.                                                                 *)

(* As long as one day is like the next, n days back hold n times the       *)
(* bytes of one.                                                           *)
LEMMA HabitTotal ==
    ASSUME Inv, NEW n \in Nat, (n + 1) * SlotsPerDay <= Window,
           \A a \in Ages : a + SlotsPerDay < (n + 1) * SlotsPerDay => bytes[a + SlotsPerDay] = bytes[a]
    PROVE  Total(SlotsPerDay..((n + 1) * SlotsPerDay - 1)) = n * Total(Recent)
<1> DEFINE S == SlotsPerDay
           End(j) == (j + 1) * S
           Good(j) == j <= n => /\ Total(S..(End(j) - 1)) = j * Total(Recent)
                                /\ Total((j * S)..(End(j) - 1)) = Total(Recent)
           X == {j \in Nat : Good(j)}
<1>1. S \in Nat \ {0} /\ Window \in Nat /\ Ages = 0..(Window - 1) /\ Recent = 0..(S - 1)
  BY Sizes DEF Ages, Recent
<1>2. \A A \in SUBSET Ages : IsFiniteSet(A) /\ Total(A) \in Nat
  BY ReadsTyped
<1>3. 0 \in X
  <2>1. End(0) = S /\ 0 * S = 0 /\ S..(S - 1) = {}
    BY <1>1
  <2>2. Total({}) = 0 /\ Total(Recent) \in Nat
    BY <1>2, SumEmpty, Sizes DEF Total
  <2>3. Total(S..(End(0) - 1)) = 0 /\ Total((0 * S)..(End(0) - 1)) = Total(Recent)
    BY <1>1, <2>1, <2>2
  <2> QED BY <2>2, <2>3
<1>4. ASSUME NEW j \in Nat, j \in X
      PROVE  j + 1 \in X
  <2> SUFFICES ASSUME j + 1 <= n
               PROVE  /\ Total(S..(End(j + 1) - 1)) = (j + 1) * Total(Recent)
                      /\ Total(((j + 1) * S)..(End(j + 1) - 1)) = Total(Recent)
    OBVIOUS
  <2> DEFINE c == j * S
  <2>1. /\ c \in Nat /\ End(j) = c + S /\ End(j + 1) = c + 2 * S /\ (j + 1) * S = c + S
        /\ c + 2 * S <= (n + 1) * S /\ (n + 1) * S \in Nat
    <3>1. (j + 2) * S <= (n + 1) * S
      BY <1>1
    <3> QED BY <1>1, <3>1
  <2>0. j * S = c
    OBVIOUS
  <2> HIDE DEF c
  <2>2. \A i \in 0..(S - 1) : bytes[c + i] \in Int /\ bytes[(c + S) + i] = bytes[c + i]
    <3> SUFFICES ASSUME NEW i \in 0..(S - 1)
                 PROVE  bytes[c + i] \in Int /\ bytes[(c + S) + i] = bytes[c + i]
      OBVIOUS
    <3>1. c + i \in Ages /\ (c + S) + i = (c + i) + S /\ (c + i) + S < (n + 1) * S
      BY <1>1, <2>1
    <3> QED BY <3>1 DEF Inv, Typed
  <2>3. Total(c..(c + S - 1)) = Total((c + S)..((c + S) + S - 1))
    <3>1. c \in Int /\ c + S \in Int /\ S \in Nat
      BY <1>1, <2>1
    <3> HIDE DEF S
    <3>2. SumFunctionOnSet(bytes, c..(c + S - 1)) = SumFunctionOnSet(bytes, (c + S)..((c + S) + S - 1))
      BY <2>2, <3>1, SumShift
    <3> QED BY <3>2 DEF Total
  <2>4. Total(S..(c + S - 1)) = j * Total(Recent) /\ Total(c..(c + S - 1)) = Total(Recent)
    <3>1. Total(S..(End(j) - 1)) = j * Total(Recent) /\ Total((j * S)..(End(j) - 1)) = Total(Recent)
      BY <1>4
    <3> HIDE DEF End
    <3>2. End(j) = c + S
      BY <2>1
    <3>3. (c + S) - 1 = c + S - 1
      BY <1>1, <2>1
    <3> QED BY <2>0, <3>1, <3>2, <3>3
  <2>5. Total((c + S)..((c + S) + S - 1)) = Total(Recent)
    BY <2>3, <2>4
  <2>6. /\ S..((c + S) + S - 1) = (S..(c + S - 1)) \cup ((c + S)..((c + S) + S - 1))
        /\ (S..(c + S - 1)) \cap ((c + S)..((c + S) + S - 1)) = {}
        /\ S..(c + S - 1) \in SUBSET Ages /\ (c + S)..((c + S) + S - 1) \in SUBSET Ages
    BY <1>1, <2>1
  <2>7. Total((S..(c + S - 1)) \cup ((c + S)..((c + S) + S - 1)))
          = Total(S..(c + S - 1)) + Total((c + S)..((c + S) + S - 1))
    <3>1. \A a \in Ages : bytes[a] \in Int
      BY DEF Inv, Typed
    <3> QED BY <1>2, <2>6, <3>1, SumUnion DEF Total
  <2>8. Total(S..((c + S) + S - 1)) = j * Total(Recent) + Total(Recent)
    BY <2>4, <2>5, <2>6, <2>7
  <2>9. (j + 1) * Total(Recent) = j * Total(Recent) + Total(Recent)
    <3>1. \A t \in Nat : (j + 1) * t = j * t + t
      OBVIOUS
    <3> QED BY <1>2, <3>1, Sizes
  <2>10. End(j + 1) - 1 = (c + S) + S - 1
    BY <1>1, <2>1
  <2> QED BY <2>1, <2>5, <2>8, <2>9, <2>10
<1>5. \A j \in Nat : j \in X
  <2> HIDE DEF X
  <2> QED BY <1>3, <1>4, NatInduct
<1>6. Good(n)
  BY <1>5
<1> QED BY <1>6

(* The n whole days before the trailing 24 h, of the L slots known.        *)
LEMMA WholeDays ==
    ASSUME NEW s \in Nat \ {0}, NEW L \in Nat, L >= s
    PROVE  \E n \in Nat : (n + 1) * s <= L /\ L < (n + 2) * s
<1> DEFINE q == L \div s
<1>1. q \in Int /\ s * q <= L /\ L < s * q + s
  OBVIOUS
<1> HIDE DEF q
<1>2. q >= 1
  <2>1. q <= 0 => s * q <= 0
    BY <1>1
  <2> QED BY <1>1, <2>1
<1>3. q - 1 \in Nat /\ ((q - 1) + 1) * s = s * q /\ ((q - 1) + 2) * s = s * q + s
  BY <1>1, <1>2
<1> QED BY <1>1, <1>3

(* The same every day is no anomaly, at any time of day, provided that the *)
(* multiple outweighs the two days the window and the trailing 24 h cut    *)
(* short: with n whole baseline days there are at most n + 2 to average    *)
(* over.                                                                   *)
Outweighs ==
    /\ MIN_SAMPLE_DAYS >= 4
    /\ (ANOMALY_THRESHOLD_MULTIPLIER - 1) * (MIN_SAMPLE_DAYS - 3) >= 2

LEMMA InvHabit == ASSUME Outweighs PROVE Inv => HabitIsNoAnomaly
<1> DEFINE S == SlotsPerDay
           M == ANOMALY_THRESHOLD_MULTIPLIER
           T == Total(Recent)
           L == IF known < Window THEN known ELSE Window
<1> SUFFICES ASSUME Inv, CheckBandwidthAnomaly,
                    \A a \in Ages : a + S \in Ages /\ a + S < known => bytes[a + S] = bytes[a]
             PROVE  FALSE
  BY DEF HabitIsNoAnomaly
<1>1. /\ S \in Nat \ {0} /\ Window \in Nat /\ known \in Nat /\ hour \in 0..(S - 1)
      /\ M \in Nat /\ MIN_SAMPLE_DAYS \in Nat /\ T \in Nat /\ Ages = 0..(Window - 1)
  BY Sizes, ReadsTyped DEF Inv, Typed, Ages
<1>2. /\ SampleDays >= MIN_SAMPLE_DAYS /\ BaselineDays # {}
      /\ T * AveragedDays > Total(BaselineRows) * M
  BY DEF CheckBandwidthAnomaly, MostRecentTotal
<1>3. /\ AveragedDays \in Nat /\ AveragedDays >= MIN_SAMPLE_DAYS - 1
      /\ Total(BaselineRows) \in Nat
  BY <1>1, <1>2, ReadsTyped
<1>4. L \in Nat /\ L <= Window /\ \A a \in BaselineRows : a \in Nat /\ S <= a /\ a < L
  BY <1>1, Sizes DEF Inv, RowsAreKnown, BaselineRows, Recent
<1> HIDE DEF L
<1>5. PICK n \in Nat : (n + 1) * S <= L /\ L < (n + 2) * S
  <2>1. PICK a \in BaselineRows : TRUE
    BY <1>2 DEF BaselineDays
  <2>2. L >= S
    BY <1>1, <1>4, <2>1
  <2> QED BY <1>1, <1>4, <2>2, WholeDays
<1>6. AveragedDays <= n + 2
  <2>1. ASSUME NEW a \in BaselineRows
        PROVE  Day(a) \in 1..(n + 2)
    <3>1. a \in Nat /\ S <= a /\ a < L /\ a + S - hour \in Nat
      BY <1>1, <1>4
    <3>2. (n + 3) * S = (n + 2) * S + S /\ (n + 2) * S \in Nat /\ 1 * S = S
      BY <1>1
    <3>3. 1 * S <= a + S - hour /\ a + S - hour < (n + 3) * S
      BY <1>1, <1>4, <1>5, <3>1, <3>2
    <3> DEFINE x == a + S - hour
               hi == n + 3
    <3>4. x \in Nat /\ hi \in Nat /\ 1 \in Nat /\ 1 * S <= x /\ x < hi * S
      BY <3>1, <3>3
    <3>5. hi - 1 = n + 2 /\ Day(a) = x \div S
      BY DEF Day
    <3> HIDE DEF x, hi
    <3>6. x \div S \in 1..(hi - 1)
      BY <1>1, <3>4, DivBounds
    <3> QED BY <3>5, <3>6
  <2>2. BaselineDays \subseteq 1..(n + 2)
    BY <2>1 DEF BaselineDays
  <2>3. IsFiniteSet(1..(n + 2)) /\ Cardinality(1..(n + 2)) = n + 2
    BY FS_Interval
  <2> QED BY <2>2, <2>3, FS_Subset DEF AveragedDays
<1>7. n * T <= Total(BaselineRows)
  <2> DEFINE days == S..((n + 1) * S - 1)
  <2>1. (n + 1) * S <= Window /\ (n + 1) * S \in Nat
    BY <1>1, <1>4, <1>5
  <2>2. \A a \in Ages : a + S < (n + 1) * S => bytes[a + S] = bytes[a]
    <3> SUFFICES ASSUME NEW a \in Ages, a + S < (n + 1) * S PROVE bytes[a + S] = bytes[a]
      OBVIOUS
    <3>1. a + S < L /\ L <= known
      BY <1>1, <1>4, <1>5, <2>1 DEF L
    <3> QED BY <1>1, <1>4, <3>1
  <2>3. Total(days) = n * T
    BY <2>1, <2>2, HabitTotal
  <2>4. days \subseteq Ages \ Recent /\ IsFiniteSet(Ages \ Recent) /\ \A a \in Ages \ Recent : bytes[a] \in Nat
    <3>1. Ages \ Recent = S..(Window - 1) /\ IsFiniteSet(S..(Window - 1))
      BY <1>1, Sizes, FS_Interval
    <3>2. S..((n + 1) * S - 1) \subseteq S..(Window - 1)
      BY <1>1, <2>1
    <3>3. \A a \in Ages \ Recent : bytes[a] \in Nat
      BY DEF Inv, Typed
    <3> QED BY <3>1, <3>2, <3>3
  <2>5. Total(days) <= Total(Ages \ Recent)
    <3> HIDE DEF days
    <3> QED BY <2>4, SumSubset DEF Total
  <2>6. Total(BaselineRows) = Total(Ages \ Recent)
    BY <2>4, SumPositive DEF Total, BaselineRows
  <2> QED BY <2>3, <2>5, <2>6
<1>8. n + 2 <= M * n
  <2>1. n >= MIN_SAMPLE_DAYS - 3 /\ MIN_SAMPLE_DAYS - 3 >= 1
    BY <1>1, <1>3, <1>6 DEF Outweighs
  <2>2. M - 1 >= 1
    <3>1. M - 1 <= 0 => (M - 1) * (MIN_SAMPLE_DAYS - 3) <= 0
      BY <1>1, <2>1
    <3> QED BY <1>1, <2>1, <3>1 DEF Outweighs
  <2>3. (M - 1) * n >= (M - 1) * (MIN_SAMPLE_DAYS - 3)
    BY <1>1, <2>1, <2>2
  <2>4. (M - 1) * n = M * n - n /\ M * n \in Int
    BY <1>1
  <2>5. (M - 1) * (MIN_SAMPLE_DAYS - 3) \in Int
    BY <1>1
  <2> QED BY <1>1, <2>3, <2>4, <2>5 DEF Outweighs
<1>9. T * AveragedDays <= Total(BaselineRows) * M
  <2>1. T * AveragedDays <= T * (M * n)
    BY <1>1, <1>3, <1>6, <1>8
  <2>2. (n * T) * M <= Total(BaselineRows) * M
    BY <1>1, <1>3, <1>7
  <2>3. T * (M * n) = (n * T) * M /\ {T * AveragedDays, T * (M * n), Total(BaselineRows) * M} \subseteq Int
    BY <1>1, <1>3
  <2> QED BY <2>1, <2>2, <2>3
<1> QED BY <1>1, <1>2, <1>3, <1>9

-----------------------------------------------------------------------------
(* The theorems.                                                           *)

(* No false positives, for the multiple of 3 and the 7 sample days of the  *)
(* code and for whatever outweighs two cut days.                           *)
THEOREM HabitAccepted == ASSUME Outweighs PROVE Spec => []HabitIsNoAnomaly
BY InvHabit, Invariance, PTL

(* No false negatives.                                                     *)
THEOREM SpikeReported == Spec => []SpikeIsAnomaly
BY InvSpike, Invariance, PTL

(* The code judges no device before the time its own guard gives, a day   *)
(* earlier than the docstring says.                                        *)
THEOREM NewcomerUnjudged == Spec => []NewcomerIsNotJudged
BY InvNewcomer, Invariance, PTL
=============================================================================
