-------------------------- MODULE Recommendations ---------------------------
(***************************************************************************)
(* Close recommendations (recommend, dataset): the channels that are       *)
(* considered, the value each is judged by, and which of them are lower    *)
(* outliers or below a threshold.                                          *)
(*                                                                         *)
(* A value is a float: here an integer, exact in multiples of 1/Unit, or   *)
(* NaN, which comes first in a sort and compares false with everything.    *)
(* An answer gives values as float32, of which there are fewer.            *)
(* The outlier multiplier is counted in halves, 3 for 1.5.                 *)
(***************************************************************************)
EXTENDS Sequences, SequencesExt, Collections

CONSTANTS
  Unit,   \* what 1 is as a value: a multiple of four and of every divisor
  NaN,    \* 0/0
  Float32s   \* the values that a float32 can have

ASSUME UnitAssumption == Unit \in Nat /\ Unit % 4 = 0 /\ NaN \notin Int

ASSUME Float32Assumption == Float32s \subseteq Int /\ Float32s # {}

-----------------------------------------------------------------------------
(* Floats. *)

Less(x, y)    == x # NaN /\ y # NaN /\ x < y
AtMost(x, y)  == x # NaN /\ y # NaN /\ x <= y
Mean(x, y)    == IF NaN \in {x, y} THEN NaN ELSE (x + y) \div 2

\* x/y; the code meets 0/0 only, never a division of something by nothing.
Ratio(x, y) == IF y = 0 THEN NaN ELSE (x * Unit) \div y

\* The conversion to float32, to a nearest value.
Distance(x, y) == IF x <= y THEN y - x ELSE x - y

float32(v) ==
  IF v = NaN THEN NaN
  ELSE CHOOSE r \in Float32s : \A s \in Float32s : Distance(v, r) <= Distance(v, s)

\* The order of sort.Float64s.
Sorted(x, y) == (x = NaN /\ y # NaN) \/ Less(x, y)

-----------------------------------------------------------------------------
(* dataset: a function from labels to values. *)

\* The labels with a value before v, and those with no value after v.
Before(d, v) == {label \in DOMAIN d : Sorted(d[label], v)}
UpTo(d, v)   == {label \in DOMAIN d : ~Sorted(v, d[label])}

\* The values in their order: fewer than k come before the k-th, and with it and
\* its equals there are k at least.
rawValues(d) ==
  [k \in 1..Cardinality(DOMAIN d) |->
     CHOOSE v \in Range(d) : Cardinality(Before(d, v)) < k /\ k <= Cardinality(UpTo(d, v))]

\* getMedian, of at least one sorted value.
getMedian(values) ==
  LET n == Len(values)
  IN  IF n % 2 = 0 THEN Mean(values[n \div 2], values[(n \div 2) + 1])
      ELSE values[(n \div 2) + 1]

\* Mutant of quartiles: the median belongs to both halves.
quartilesInclusive(d) ==
  LET n == Cardinality(DOMAIN d)
      half == (n + 1) \div 2
  IN  [lower |-> getMedian(SubSeq(rawValues(d), 1, half)),
       upper |-> getMedian(SubSeq(rawValues(d), n - half + 1, n))]

\* quartiles, of at least three values: the medians of the two halves, without
\* the middle value of an odd number.
quartiles(d) ==
  LET n == Cardinality(DOMAIN d)
      half == n \div 2
  IN  [lower |-> getMedian(SubSeq(rawValues(d), 1, half)),
       upper |-> getMedian(SubSeq(rawValues(d), n - half + 1, n))]

\* isIQROutlier, the lower side.
LowerOutlier(value, q, multiplier) ==
  /\ NaN \notin {q.lower, q.upper}
  /\ Less(value, q.lower - (((q.upper - q.lower) * multiplier) \div 2))

\* GetOutliers: none in fewer than three values (errTooFewValues).
GetOutliers(d, multiplier) ==
  IF Cardinality(DOMAIN d) < 3 THEN {}
  ELSE LET q == quartiles(d) IN {label \in DOMAIN d : LowerOutlier(d[label], q, multiplier)}

\* GetThreshold with below set.
GetThreshold(d, threshold) == {label \in DOMAIN d : AtMost(d[label], threshold)}

-----------------------------------------------------------------------------
(* recommend.  An insight is [chan, monitored, uptime, volIn, volOut, fees,  *)
(* conf, private].                                                           *)

Metrics == {"uptime", "revenue", "incoming", "outgoing", "volume"}

DefaultOutlierMultiplier == 6

filterChannels(insights, minimumAge) ==
  {i \in insights : i.monitored >= minimumAge /\ ~i.private}

\* getUptimeDataset and getConfirmationScaledDataset.
MetricValue(i, metric) ==
  CASE metric = "uptime"   -> Ratio(i.uptime, i.monitored)
    [] metric = "revenue"  -> Ratio(i.fees, i.conf)
    [] metric = "incoming" -> Ratio(i.volIn, i.conf)
    [] metric = "outgoing" -> Ratio(i.volOut, i.conf)
    [] metric = "volume"   -> Ratio(i.volIn + i.volOut, i.conf)

DatasetOf(insights, metric) ==
  [c \in {i.chan : i \in insights} |->
     MetricValue(CHOOSE i \in insights : i.chan = c, metric)]

\* getOutlierRecs and getThresholdRecs: a value and a verdict for every channel.
Verdicts(d, closing) ==
  {[chan |-> c, value |-> d[c], close |-> c \in closing] : c \in DOMAIN d}

OutlierRecs(d, multiplier) == Verdicts(d, GetOutliers(d, multiplier))

ThresholdRecs(d, threshold) == Verdicts(d, GetThreshold(d, threshold))

\* rpcResponse: all of them, with their value as a float32 and sorted by that.
\* The code collects them from a map, so that equal values come in any order;
\* and NaN is not less than anything, nor anything less than NaN, so that with
\* it the sort may leave any order.
Narrowed(recs) == {[r EXCEPT !.value = float32(@)] : r \in recs}

InValueOrder(a) == \A i, j \in DOMAIN a : Less(a[i].value, a[j].value) => i < j

rpcResponse(recs) ==
  {a \in SetToSeqs(Narrowed(recs)) : (\E r \in recs : r.value = NaN) \/ InValueOrder(a)}
=============================================================================
