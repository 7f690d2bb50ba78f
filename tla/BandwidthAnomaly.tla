------------------------- MODULE BandwidthAnomaly --------------------------
(***************************************************************************)
(* check_bandwidth_anomaly (services/bandwidth_anomaly.py): has a device   *)
(* moved more than MULTIPLIER times its daily average in the last 24 h?    *)
(*                                                                         *)
(* Time is cut into slots, SlotsPerDay to a calendar day, the last of them *)
(* just over; a row's age is the slots since.  The rows are those of the   *)
(* MACs _resolve_device_macs finds, and those of one slot count as one; a  *)
(* slot without bytes has no row.  Bytes are cut to a few amounts.         *)
(* Division is left out: averages are compared as sums.                    *)
(***************************************************************************)
EXTENDS Integers, FiniteSets, Functions

CONSTANTS
    SlotsPerDay,
    ROLLING_WINDOW_DAYS,
    ANOMALY_THRESHOLD_MULTIPLIER,
    MIN_SAMPLE_DAYS,
    Amounts,     \* bytes of a slot
    MaxAge       \* bound: slots since the first row, counted up to this, a window or more

Window == ROLLING_WINDOW_DAYS * SlotsPerDay
Ages == 0..(Window - 1)
Recent == 0..(SlotsPerDay - 1)

ASSUME ConstantsAssumption ==
    /\ {SlotsPerDay, ROLLING_WINDOW_DAYS, ANOMALY_THRESHOLD_MULTIPLIER, MIN_SAMPLE_DAYS} \subseteq Nat \ {0}
    /\ Amounts \subseteq Nat /\ 0 \in Amounts
    /\ MaxAge \in Nat /\ MaxAge >= Window

VARIABLES
    bytes,    \* bandwidth_metrics of the last ROLLING_WINDOW_DAYS days, by age
    hour,     \* slots of the current calendar day that are over
    known     \* history: slots since the device's first row, 0 before it

vars == <<bytes, hour, known>>

\* A device with no traffic yet, at any time of the day.
Init ==
    /\ bytes = [a \in Ages |-> 0]
    /\ hour \in 0..(SlotsPerDay - 1)
    /\ known = 0

\* A slot ends in which ingest_traffic stored b bytes; one row leaves the window.
SlotEnds(b) ==
    /\ bytes' = [a \in Ages |-> IF a = 0 THEN b ELSE bytes[a - 1]]
    /\ hour' = (hour + 1) % SlotsPerDay
    /\ known' = IF known = 0 /\ b = 0 THEN 0 ELSE IF known < MaxAge THEN known + 1 ELSE known

Next == \E b \in Amounts : SlotEnds(b)

Spec == Init /\ [][Next]_vars

-----------------------------------------------------------------------------
(* The function.                                                           *)

\* row.time.date(), as the number of midnights since.
Day(a) == (a + SlotsPerDay - hour) \div SlotsPerDay

Total(ages) == SumFunctionOnSet(bytes, ages)

\* Defect: today's bytes, not those of the last 24 h.
TodaysTotal == Total({a \in Ages : Day(a) = 0})

MostRecentTotal == Total(Recent)

BaselineRows == {a \in Ages \ Recent : bytes[a] > 0}

BaselineDays == {Day(a) : a \in BaselineRows}

SampleDays == Cardinality(BaselineDays) + 1

\* Defect: the average is over the whole window.
WindowDays == ROLLING_WINDOW_DAYS

AveragedDays == Cardinality(BaselineDays)

CheckBandwidthAnomaly ==
    /\ SampleDays >= MIN_SAMPLE_DAYS
    /\ BaselineDays # {}
    /\ MostRecentTotal * AveragedDays
          > Total(BaselineRows) * ANOMALY_THRESHOLD_MULTIPLIER

-----------------------------------------------------------------------------
(* Properties.                                                             *)

\* bandwidth_anomaly.py:58-65: no false positives.  A device that does the same
\* every day since its first row is never reported, whatever the time of day of
\* the check, although the first and the last baseline day are cut short by the
\* window and by the trailing 24 h.
HabitIsNoAnomaly ==
    (\A a \in Ages : a + SlotsPerDay \in Ages /\ a + SlotsPerDay < known
                        => bytes[a + SlotsPerDay] = bytes[a])
        => ~CheckBandwidthAnomaly

\* No false negatives: with enough days to compare with, more than
\* the multiple of the busiest day within 24 h is reported at whatever time
\* of day, also when midnight divides those 24 h.
SpikeIsAnomaly ==
    /\ SampleDays >= MIN_SAMPLE_DAYS /\ BaselineDays # {}
    /\ \A d \in {Day(a) : a \in Ages} :
          Total(Recent) > ANOMALY_THRESHOLD_MULTIPLIER * Total({a \in Ages \ Recent : Day(a) = d})
    => CheckBandwidthAnomaly

\* What the code's guard amounts to for a new device: whichever slots of
\* whichever days have rows, it takes MIN_SAMPLE_DAYS - 2 days and two slots since
\* the first one before there is a verdict.  It is less than the docstring asks for:
\* "at least MIN_SAMPLE_DAYS distinct prior days" (lines 53-56) would be one day
\* more, as the guard counts the trailing 24 h as a sample.
NewcomerIsNotJudged ==
    known < (MIN_SAMPLE_DAYS - 2) * SlotsPerDay + 2 => ~CheckBandwidthAnomaly
=============================================================================
