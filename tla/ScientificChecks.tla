--------------------------- MODULE ScientificChecks ---------------------------
(* The checks of src/cfdpaper/scientific: units, comparability, convergence, *)
(* conservation, QoI definitions, trends, maturity and claim ceilings.       *)
(* Tolerances and spans are integers, in thousandths.                        *)
EXTENDS Integers, Sequences, FiniteSets

CONSTANTS
  UnitOf    \* a registered unit |-> [dimension, scale, offset]; others are unknown

Maturities == <<"raw", "screened", "verified", "author-approved">>
Ceilings == <<"observation", "association", "mechanism", "validation", "engineering">>
Rank(order, x) == CHOOSE i \in DOMAIN order : order[i] = x
Lowest(order, S) == order[CHOOSE i \in DOMAIN order :
                            order[i] \in S /\ \A x \in S : i <= Rank(order, x)]
Highest(order, S) == order[CHOOSE i \in DOMAIN order :
                             order[i] \in S /\ \A x \in S : i >= Rank(order, x)]

Known(u) == u \in DOMAIN UnitOf
Compatible(u, v) == Known(u) /\ Known(v) /\ UnitOf[u].dimension = UnitOf[v].dimension
\* A quantity in the base unit of its dimension: comparing two of these is
\* comparing one with the other converted to its unit.
InBase(x, u) == x * UnitOf[u].scale + UnitOf[u].offset

\* A quantitative condition is <<value, unit>>; the values are finite.
ConditionDiffers(x, y) == ~Compatible(x[2], y[2]) \/ InBase(x[1], x[2]) # InBase(y[1], y[2])
CaseComparable(conditions, models) ==   \* each a pair: reference and candidate
  /\ DOMAIN conditions[1] = DOMAIN conditions[2]
  /\ \A n \in DOMAIN conditions[1] : ~ConditionDiffers(conditions[1][n], conditions[2][n])
  /\ models[1] = models[2]

StrongSpan == 5
ModerateSpan == 10
\* "span" is {} when the monitored QoI has no history.
Convergence(residuals, targets, span) ==
  LET met == DOMAIN targets \subseteq DOMAIN residuals
               /\ \A n \in DOMAIN targets : residuals[n] <= targets[n]
      invalid == \/ \E n \in DOMAIN residuals : residuals[n] < 0
                 \/ \E n \in DOMAIN targets : targets[n] <= 0
                 \/ \E s \in span : s < 0
  IN IF invalid THEN "invalid"
     ELSE IF DOMAIN residuals = {} \/ DOMAIN targets = {} THEN "none"
     ELSE IF ~met THEN "weak"
     ELSE IF span = {} THEN "moderate"
     ELSE IF \A s \in span : s <= StrongSpan THEN "strong"
     ELSE IF \A s \in span : s <= ModerateSpan THEN "moderate" ELSE "weak"

\* Relative closure is undefined, and fails, at zero throughput.
Conserves(inflow, outflow, tolerance) ==
  LET scale == IF inflow >= outflow THEN inflow ELSE outflow
      apart == IF inflow >= outflow THEN inflow - outflow ELSE outflow - inflow
  IN scale > 0 /\ apart * 1000 <= tolerance * scale

\* Python's max and min: the first of the best.
Peak(y) == CHOOSE i \in DOMAIN y : /\ \A j \in DOMAIN y : y[j] <= y[i]
                                   /\ \A j \in 1..(i - 1) : y[j] < y[i]
Trough(y) == CHOOSE i \in DOMAIN y : /\ \A j \in DOMAIN y : y[j] >= y[i]
                                     /\ \A j \in 1..(i - 1) : y[j] > y[i]
Rises(y) == \A i \in 1..(Len(y) - 1) : y[i] <= y[i + 1]
Falls(y) == \A i \in 1..(Len(y) - 1) : y[i] >= y[i + 1]
TailPoints == 3
Trend(y) ==   \* y is sampled at strictly increasing x; the tolerance is zero
  LET n == Len(y)
      peak == Peak(y)
      trough == Trough(y)
      Flat(i) == \A j \in i..n : y[j] = y[i]
  IN IF peak \in 2..(n - 1) /\ y[peak] > y[n] THEN "interior-peak"
     ELSE IF trough \in 2..(n - 1) /\ y[trough] < y[n] THEN "interior-trough"
     ELSE IF \E i \in 2..(n - TailPoints + 1) : Flat(i) /\ y[i] # y[1] THEN "plateau"
     ELSE IF Rises(y) /\ y[n] > y[1] THEN "monotonic-increasing"
     ELSE IF Falls(y) /\ y[n] < y[1] THEN "monotonic-decreasing"
     ELSE IF n >= TailPoints /\ Flat(1) THEN "plateau" ELSE "mixed"

\* The pipeline passes no claimed trend and no approver.
Maturity(provenance, sound) ==
  IF provenance /\ sound THEN "verified" ELSE IF provenance THEN "screened" ELSE "raw"

RawCeiling(maturity, validated, engineering) ==
  IF engineering /\ validated /\ maturity = "author-approved" THEN "engineering"
  ELSE IF validated /\ maturity \in {"verified", "author-approved"} THEN "validation"
  ELSE IF maturity = "raw" THEN "observation"
  ELSE IF maturity = "screened" THEN "association" ELSE "mechanism"
================================================================================
