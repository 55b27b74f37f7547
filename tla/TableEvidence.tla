---------------------------- MODULE TableEvidence ----------------------------
(***************************************************************************)
(* Numbers calculated from exported tables (publication/table_evidence.py, *)
(* temporal.py, field_diagnostics.py, partition_change.py and              *)
(* comparison_support.py): an author declares what the columns of a table  *)
(* are, the program selects rows, calculates, and a reference picks one    *)
(* number with its unit and the records it rests on.                       *)
(*                                                                         *)
(* A table is a sequence of rows; a cell is a set of one integer, {} when  *)
(* it is blank, or a text.  Numbers are exact fractions: rounding errors   *)
(* and overflows of floats are left out, a root that is no fraction is     *)
(* rounded down, and the fields of a result are those a section can cite.  *)
(* Whatever the code raises is {} here.                                    *)
(***************************************************************************)
EXTENDS Integers, Sequences, FiniteSets, SequencesExt

(* Fractions, reduced and with a positive denominator.                     *)
Gcd[a \in Nat, b \in Nat] == IF b = 0 THEN a ELSE Gcd[b, a % b]
Abs(n) == IF n < 0 THEN -n ELSE n
Fraction(n, d) == LET g == Gcd[Abs(n), Abs(d)] IN <<(IF d < 0 THEN -n ELSE n) \div g, Abs(d) \div g>>
Int2Q(n) == <<n, 1>>
Zero == Int2Q(0)
Plus(p, q) == Fraction(p[1] * q[2] + q[1] * p[2], p[2] * q[2])
Times(p, q) == Fraction(p[1] * q[1], p[2] * q[2])
Minus(p, q) == Plus(p, <<-q[1], q[2]>>)
Over(p, q) == Fraction(p[1] * q[2], p[2] * q[1])
Below(p, q) == p[1] * q[2] < q[1] * p[2]
Total(s) == FoldLeft(Plus, Zero, s)
\* Rounded down to the denominator of q when it is no fraction.
Root(q) == LET n == q[1] * q[2] IN Fraction(CHOOSE r \in 0..n : r * r <= n /\ n < (r + 1) * (r + 1), q[2])
Each(s, F(_)) == [k \in DOMAIN s |-> F(s[k])]

\* format_value: rounded once, half to even, here as an integer of 10^-places.
FormatValue(q, places) ==
  LET n == Abs(q[1]) * 10 ^ places
      down == n \div q[2]
      rest == 2 * (n % q[2])
      up == rest > q[2] \/ (rest = q[2] /\ down % 2 = 1)
      size == IF up THEN down + 1 ELSE down
  IN IF q[1] < 0 THEN -size ELSE size

-----------------------------------------------------------------------------
(* Declarations of a table calculation.                                    *)
Temperatures == {"K", "degC"}
Kinds == {"ordinary", "absolute-temperature", "temperature-difference"}
RangeOps == {"reference_range", "paired_reference_change"}
PairedOps == {"paired_change", "paired_reference_change"}
TemporalOps == {"temporal", "temporal_difference"}
WeightedOps == {"weighted_population", "weighted_exceedance"}

Roles(op) ==
  CASE op \in RangeOps -> {{"value", "reference", "lower", "upper"}, {"value", "reference", "half_width"}}
    [] op = "temporal_difference" -> {{"time", "reference", "comparison"}}
    [] op = "temporal" -> {{"time", "value"}}
    [] op \in WeightedOps -> {{"value", "weight"}}
    [] op = "partition" -> {{"area", "rate"}}
    [] op \in {"population", "scalar_select", "paired_change"} -> {{"value"}}
    [] OTHER -> {}
ValueUnit(d) == d.units[IF d.op = "temporal_difference" THEN "reference" ELSE "value"]
StatesKind(d) == \/ d.op \in PairedOps \cup RangeOps \cup TemporalOps \cup WeightedOps
                 \/ d.op = "scalar_select" /\ d.kind # "ordinary"

TemporalFits(d) ==
  IF d.op \in TemporalOps
    THEN /\ d.units.time = "s" /\ \A w \in d.window : w[1] < w[2]
         /\ d.op = "temporal_difference" =>
              d.units.reference = d.units.comparison /\ d.saved = "instantaneous"
  ELSE d.window = {} /\ d.saved = "instantaneous" /\ d.crossing = "at-or-above"
KindFits(d) ==
  StatesKind(d) =>
    /\ d.kind \in Kinds
    /\ ValueUnit(d) = "degC" => d.kind = "absolute-temperature"
    /\ ValueUnit(d) = "K" => d.kind # "ordinary"
    /\ d.kind = "absolute-temperature" => ValueUnit(d) \in Temperatures
    /\ d.kind = "temperature-difference" /\ d.op # "paired_change" => ValueUnit(d) = "K"
    /\ d.origin # {} => d.kind = "absolute-temperature"
Accepted(d) ==
  /\ DOMAIN d.columns \in Roles(d.op) /\ DOMAIN d.units = DOMAIN d.columns
  /\ IsInjective(d.columns)
  /\ d.op \in RangeOps <=> d.bounds # {}   \* reference_kind
  /\ d.op \in RangeOps => \A r \in DOMAIN d.units : d.units[r] = d.units.value
  /\ TemporalFits(d) /\ KindFits(d)
  /\ d.op = "weighted_exceedance" => d.threshold # {}
  /\ d.op \notin TemporalOps \cup {"weighted_exceedance"} => d.threshold = {}
  /\ d.op \in WeightedOps <=> d.measure # {}   \* weight_kind
  /\ \A m \in d.measure : d.units.weight = IF m = "area" THEN "m2" ELSE "m3"
  /\ d.op \in PairedOps <=> d.pair # {}
  /\ \A p \in d.pair : p.reference # p.comparison
  /\ d.origin # {} => d.op \in PairedOps
  /\ d.kind # "ordinary" => StatesKind(d)
  /\ d.fraction # {} => d.op = "weighted_population"
  /\ d.fraction \cap {d.columns[r] : r \in DOMAIN d.columns} = {}
  /\ d.complement => d.fraction # {}
  /\ d.unitColumn # {} => "value" \in DOMAIN d.columns

(* The rows of a group, in the order they are calculated in.               *)
Passes(row, d) == \A c \in DOMAIN d.filters : row[c] = d.filters[c]
GroupOf(row, d) == IF d.groupBy = {} THEN "all" ELSE row[CHOOSE c \in d.groupBy : TRUE]
Rows(table, d) == {i \in DOMAIN table : Passes(table[i], d)}
GroupNames(table, d) == {GroupOf(table[i], d) : i \in Rows(table, d)}
InGroup(table, d, g) == {i \in Rows(table, d) : GroupOf(table[i], d) = g}
Ascending(S) == [k \in 1..Cardinality(S) |-> CHOOSE i \in S : Cardinality({j \in S : j < i}) = k - 1]
Members(table, d, g) == Ascending(InGroup(table, d, g))
Matches(table, d, g, m) ==
  LET by == CHOOSE c \in {p.by : p \in d.pair} : TRUE
  IN Ascending({i \in InGroup(table, d, g) : table[i][by] = m})
Sides(d) == LET p == CHOOSE p \in d.pair : TRUE IN <<p.reference, p.comparison>>
Within(table, d, i) == \A w \in d.window : \E t \in table[i][d.columns.time] : w[1] <= t /\ t <= w[2]
RowsTaken(table, d, g) ==
  IF d.op \in PairedOps THEN Matches(table, d, g, Sides(d)[1]) \o Matches(table, d, g, Sides(d)[2])
  ELSE IF d.op \in TemporalOps
    THEN Ascending({i \in InGroup(table, d, g) : Within(table, d, i)})
  ELSE Members(table, d, g)
\* The rows that are calculated with, and one of their columns.
Picked(table, items) == [k \in DOMAIN items |-> table[items[k]]]
Cells(rows, column) == [k \in DOMAIN rows |-> rows[k][column]]
Blank(cells) == {} \in ToSet(cells)
Numbers(cells) == Each(cells, LAMBDA c : Int2Q(CHOOSE n \in c : TRUE))

TimesFit(times, windows) ==
  /\ Len(times) > 1 /\ ~Blank(times)
  /\ \A k \in 1..(Len(times) - 1) : \A a \in times[k], b \in times[k + 1] : a < b
  /\ \A w \in windows : {{w[1]}, {w[2]}} \subseteq ToSet(times)
ItemsFit(table, d, g) ==
  LET items == RowsTaken(table, d, g) IN
  /\ d.op \in {"scalar_select", "reference_range"} => Len(items) = 1
  /\ d.op \in PairedOps => \A k \in 1..2 : Len(Matches(table, d, g, Sides(d)[k])) = 1
  /\ d.op \in TemporalOps =>
       TimesFit(Cells(Picked(table, Members(table, d, g)), d.columns.time), d.window)
  /\ d.op \in WeightedOps =>
       \A c \in ToSet(Cells(Picked(table, items), d.columns.weight)) : \E n \in c : n > 0

-----------------------------------------------------------------------------
(* What each operation calculates: field |-> {number}, {} for a number     *)
(* that is not defined; a field of a partition has one number per row.     *)
PopulationSummary(vs) ==
  LET n == Int2Q(Len(vs))
      mean == Over(Total(vs), n)
      spread == Root(Over(Total(Each(vs, LAMBDA v : Times(Minus(v, mean), Minus(v, mean)))), n))
  IN [count |-> {n}, sum |-> {Total(vs)}, mean |-> {mean},
      cv |-> IF mean = Zero THEN {} ELSE {Over(spread, <<Abs(mean[1]), mean[2]>>)}]
Weighing(vs, ws) == Total([k \in DOMAIN vs |-> Times(vs[k], ws[k])])
WeightedSummary(vs, ws) ==
  LET mean == Over(Weighing(vs, ws), Total(ws))
      squares == Each(vs, LAMBDA v : Times(Minus(v, mean), Minus(v, mean)))
  IN [weighted_mean |-> {mean}, weighted_std |-> {Root(Over(Weighing(squares, ws), Total(ws)))},
      weight_sum |-> {Total(ws)}]
ExceedanceSummary(vs, ws, d) ==
  LET t == Int2Q(CHOOSE n \in d.threshold : TRUE)
      Counts(v) == Below(t, v) \/ (d.relation = "at-or-above" /\ v = t)
      above == Total([k \in DOMAIN vs |-> IF Counts(vs[k]) THEN ws[k] ELSE Zero])
  IN [weight_sum |-> {Total(ws)}, measure_above |-> {above},
      exceedance_fraction |-> {Over(above, Total(ws))}, count |-> {Int2Q(Len(vs))}]
PartitionSummary(areas, rates) ==
  [area |-> {Total(areas)}, rate |-> {Total(rates)}, mean_flux |-> {Over(Total(rates), Total(areas))}]
PartitionParts(areas, rates) ==
  [regional_flux |-> [k \in DOMAIN areas |-> Over(rates[k], areas[k])],
   shares |-> IF Total(rates) = Zero THEN << >>
              ELSE [k \in DOMAIN rates |-> Over(rates[k], Total(rates))]]
\* Fault: a temperature is divided by as it is.
PairedResultOfAny(baseline, compared, kind, origin) ==
  LET change == Minus(compared, baseline)
      relative == {Over(change, b) : b \in {baseline} \ {Zero}}
  IN [difference |-> {change}, relative_change |-> relative,
      relative_reduction |-> {Minus(Zero, r) : r \in relative}]
PairedResult(baseline, compared, kind, origin) ==
  LET change == Minus(compared, baseline)
      bases == IF kind # "absolute-temperature" THEN {baseline}
               ELSE {Minus(baseline, Int2Q(o)) : o \in origin}
      relative == {Over(change, b) : b \in bases \ {Zero}}
  IN [difference |-> {change}, relative_change |-> relative,
      relative_reduction |-> {Minus(Zero, r) : r \in relative}]

TemporalFields == {"sample_count", "duration", "start_value", "end_value", "change", "minimum",
                   "maximum", "peak_time", "time_mean", "integral", "first_crossing_time"}
TemporalSummary(ts, vs, d) ==
  LET n == Len(ts)
      least == CHOOSE v \in ToSet(vs) : \A w \in ToSet(vs) : ~Below(w, v)
      most == CHOOSE v \in ToSet(vs) : \A w \in ToSet(vs) : ~Below(v, w)
      Reached(v, t) == IF d.crossing = "at-or-above" THEN ~Below(v, t) ELSE ~Below(t, v)
      Crossings(t) == {k \in 1..n : Reached(vs[k], Int2Q(t))}
      First(ks) == CHOOSE k \in ks : \A j \in ks : k <= j
      area == Total([k \in 1..(n - 1) |-> Times(Over(Plus(vs[k], vs[k + 1]), Int2Q(2)),
                                                 Minus(ts[k + 1], ts[k]))])
      integral == IF d.saved = "instantaneous" THEN {area} ELSE {}
      duration == Minus(ts[n], ts[1])
  IN [time_window |-> {<<ts[1], ts[n]>>}, sample_count |-> {Int2Q(n)}, duration |-> {duration}, start_value |-> {vs[1]},
      end_value |-> {vs[n]}, change |-> {Minus(vs[n], vs[1])}, minimum |-> {least},
      maximum |-> {most}, peak_time |-> {ts[First({k \in 1..n : vs[k] = most})]},
      integral |-> integral, time_mean |-> {Over(a, duration) : a \in integral},
      first_crossing_time |->
        {ts[First(Crossings(t))] : t \in {u \in d.threshold : Crossings(u) # {}}}]

\* _reference_range_result: {} when the bounds are not bounds; an observation
\* is [value, reference, lower, upper], each {} when blank.
RangeFits(o) ==
  /\ \A low \in o.lower, high \in o.upper : ~Below(high, low)
  /\ \A r \in o.reference :
       (\A low \in o.lower : ~Below(r, low)) /\ (\A high \in o.upper : ~Below(high, r))
RangeResult(o) ==
  {[value |-> {v}, reference_value |-> {r}, reference_lower |-> {low}, reference_upper |-> {high},
    difference |-> {Minus(v, r)},
    outside_distance |-> {IF Below(v, low) THEN Minus(v, low)
                          ELSE IF Below(high, v) THEN Minus(v, high) ELSE Zero}]
     : v \in o.value, r \in o.reference, low \in o.lower, high \in o.upper}
Observation(row, columns) ==
  LET Of(r) == {Int2Q(n) : n \in row[columns[r]]} IN
  IF "lower" \in DOMAIN columns THEN [r \in DOMAIN columns |-> Of(r)]
  ELSE [value |-> Of("value"), reference |-> Of("reference"),
        lower |-> {Minus(r, h) : r \in Of("reference"), h \in Of("half_width")},
        upper |-> {Plus(r, h) : r \in Of("reference"), h \in Of("half_width")}]
\* _paired_reference_change_result: the endpoints of the envelope cross over.
ChangeOf(old, new) ==
  [value |-> {Minus(n, o) : n \in new.value, o \in old.value},
   reference |-> {Minus(n, o) : n \in new.reference, o \in old.reference},
   lower |-> {Minus(n, o) : n \in new.lower, o \in old.upper},
   upper |-> {Minus(n, o) : n \in new.upper, o \in old.lower}]

\* The share of each row in a region; a fraction cell counts halves.
RegionShares(d, rows) ==
  IF d.fraction = {} THEN Each(rows, LAMBDA row : Int2Q(1))
  ELSE LET share == Each(Numbers(Cells(rows, CHOOSE c \in d.fraction : TRUE)),
                         LAMBDA n : Over(n, Int2Q(2)))
       IN IF d.complement THEN Each(share, LAMBDA f : Minus(Int2Q(1), f)) ELSE share
SharesFit(d, rows) ==
  /\ \A c \in d.fraction : \A cell \in ToSet(Cells(rows, c)) : \E n \in cell : n \in 0..2
  /\ \E k \in DOMAIN rows : RegionShares(d, rows)[k] # Zero
RegionSummary(d, rows, vs, ws) ==
  LET share == RegionShares(d, rows)
      inside == Ascending({k \in DOMAIN rows : share[k] # Zero})
  IN WeightedSummary(Each(inside, LAMBDA k : vs[k]), Each(inside, LAMBDA k : Times(ws[k], share[k])))

\* What a report keeps of a group: its records, those of a second table, the
\* result, {} when values are missing, and what a partition calculates for
\* each record; and of a table, whether it is refused for this group.
Reduced(records, others, result) ==
  [records |-> records, others |-> others, result |-> result, parts |-> << >>]
Group(ok, records, result, parts) ==
  [ok |-> ok, records |-> records, others |-> << >>, result |-> result, parts |-> parts]

RangeGroup(d, items, rows) ==
  LET observed == Each(rows, LAMBDA row : Observation(row, d.columns))
      widths == IF "half_width" \in DOMAIN d.columns
                  THEN UNION ToSet(Cells(rows, d.columns["half_width"])) ELSE {}
      bounded == (\A k \in DOMAIN rows : RangeFits(observed[k])) /\ (\A h \in widths : h >= 0)
  IN Group(bounded, items,
           IF ~bounded THEN {} ELSE IF d.op = "reference_range" THEN RangeResult(observed[1])
           ELSE RangeResult(ChangeOf(observed[1], observed[2])), << >>)
PartitionGroup(d, items, areas, rates) ==
  LET fits == \A k \in DOMAIN areas : Below(Zero, areas[k]) IN
  Group(fits, items, IF fits THEN {PartitionSummary(areas, rates)} ELSE {},
        IF fits THEN PartitionParts(areas, rates) ELSE << >>)
SomeBlank(d, rows) == \E r \in DOMAIN d.columns : Blank(Cells(rows, d.columns[r]))
Summary(d, rows) ==
  LET N(r) == Numbers(Cells(rows, d.columns[r]))
      change == [k \in DOMAIN rows |-> Minus(N("comparison")[k], N("reference")[k])]
  IN CASE d.op = "temporal" -> {TemporalSummary(N("time"), N("value"), d)}
       [] d.op = "temporal_difference" -> {TemporalSummary(N("time"), change, d)}
       [] d.op = "population" -> {PopulationSummary(N("value"))}
       [] d.op = "weighted_exceedance" -> {ExceedanceSummary(N("value"), N("weight"), d)}
       [] d.op = "weighted_population" ->
            IF SharesFit(d, rows) THEN {RegionSummary(d, rows, N("value"), N("weight"))} ELSE {}
       [] d.op = "scalar_select" -> {[value |-> {N("value")[1]}]}
       [] d.op = "paired_change" -> {PairedResult(N("value")[1], N("value")[2], d.kind, d.origin)}
GroupOfRows(d, items, rows) ==
  IF d.op \in RangeOps THEN RangeGroup(d, items, rows)
  ELSE IF SomeBlank(d, rows) THEN Group(TRUE, items, {}, << >>)
  ELSE IF d.op = "partition"
    THEN PartitionGroup(d, items, Numbers(Cells(rows, d.columns.area)), Numbers(Cells(rows, d.columns.rate)))
  ELSE Group(d.op = "weighted_population" => SharesFit(d, rows), items, Summary(d, rows), << >>)
GroupResult(table, d, g) ==
  LET items == RowsTaken(table, d, g) IN
  IF ItemsFit(table, d, g) THEN GroupOfRows(d, items, Picked(table, items)) ELSE Group(FALSE, items, {}, << >>)

\* The report of a table, {} when any row or group makes the code raise.
CalculateTable(table, d) ==
  IF /\ Accepted(d) /\ Rows(table, d) # {}
     /\ \A c \in d.unitColumn, i \in Rows(table, d) : table[i][c] = d.units.value
  THEN {report \in {[d |-> d, groups |-> [g \in GroupNames(table, d) |-> GroupResult(table, d, g)]]} :
          \A g \in DOMAIN report.groups : report.groups[g].ok}
  ELSE {}

-----------------------------------------------------------------------------
(* Reductions over the elements of a mesh, one row each.  d.region is a    *)
(* sequence of [id, column, box, complement]; where a region is clipped    *)
(* from polygons, its column is what the clipping found.  Element names,   *)
(* polygons, tolerances and row filters are left out.                      *)
FieldOps == {"field_integral", "field_difference", "energy_budget", "partition_change"}
Axes == {"x", "y", "z"}
MeasureUnit(d) == IF d.association = "cell" THEN "m3" ELSE "m2"
Cell(row, d, r) == row[d.columns[r]]
Clipped(d) == d.assignment = "polygon-clip" /\ d.complete   \* complements clipped, too
ShareOf(row, d, region) ==
  IF region.column # {}
  THEN LET share == Fraction(CHOOSE n \in row[CHOOSE c \in region.column : TRUE] : TRUE, 2)
       IN IF region.complement /\ ~Clipped(d) THEN Minus(Int2Q(1), share) ELSE share
  ELSE IF \A axis \in DOMAIN region.box : \A n \in Cell(row, d, axis) :
            region.box[axis][1] <= n /\ n < region.box[axis][2]
       THEN Int2Q(1) ELSE Zero
Everything == [id |-> "all", column |-> {}, box |-> << >>, complement |-> FALSE]
RegionsFit(table, d) ==
  /\ \A j \in DOMAIN d.region : /\ d.region[j].id # "all"
                                  /\ \A k \in DOMAIN d.region : d.region[j].id = d.region[k].id => j = k
  /\ \A k \in DOMAIN d.region :
       /\ \A c \in d.region[k].column, i \in DOMAIN table : \E n \in table[i][c] : n \in 0..2
       /\ d.region[k].column = {} =>
            /\ d.assignment = "centroid" /\ DOMAIN d.region[k].box # {}
            /\ \A a \in DOMAIN d.region[k].box :
                 /\ a \in Axes \cap DOMAIN d.columns /\ d.region[k].box[a][1] < d.region[k].box[a][2]
                 /\ \A i \in DOMAIN table : Cell(table[i], d, a) # {}
  /\ d.complete => /\ d.region # << >>
                    /\ \A i \in DOMAIN table :
                         Total(Each(d.region, LAMBDA r : ShareOf(table[i], d, r))) = Int2Q(1)
RegionNames(d) == {r.id : r \in {Everything} \cup ToSet(d.region)}
RegionOf(d, name) == CHOOSE r \in {Everything} \cup ToSet(d.region) : r.id = name
Inside(table, d, name) ==
  Ascending({i \in DOMAIN table : Below(Zero, ShareOf(table[i], d, RegionOf(d, name)))})

\* _integral: the contribution of an element, {} when a number is missing.
Product(a, b) == {x * y : x \in a, y \in b}
Sum3(f) == {x + y + z : x \in f[1], y \in f[2], z \in f[3]}
TermOf(row, d) ==
  CASE d.integrand = "signed_totals" ->
         {a + b : a \in Cell(row, d, "positive"), b \in Cell(row, d, "negative")}
    [] d.integrand = "vector_flux" ->
         Sum3(<<Product(Cell(row, d, "qx"), Cell(row, d, "ax")), Product(Cell(row, d, "qy"), Cell(row, d, "ay")),
                Product(Cell(row, d, "qz"), Cell(row, d, "az"))>>)
    [] d.integrand = "element_total" -> Cell(row, d, "value")
    [] OTHER -> Product(Cell(row, d, "value"), Cell(row, d, "measure"))
MeasureOf(row, d) ==
  IF d.integrand = "vector_flux"
  THEN {Root(Int2Q(n)) : n \in Sum3([k \in 1..3 |-> LET a == Cell(row, d, <<"ax", "ay", "az">>[k])
                                                     IN {n * n : n \in a}])}
  ELSE IF "measure" \in DOMAIN d.columns THEN {Int2Q(n) : n \in Cell(row, d, "measure")} ELSE {}
PowerOf(unit, measure) ==
  CASE unit = "W/" \o measure -> {"W"} [] unit = "kW/" \o measure -> {"kW"} [] OTHER -> {}
\* The unit of the sum, {} when the declaration is refused.
IntegralUnit(d) ==
  LET U(r) == d.units[r]
      m == MeasureUnit(d)
      powers == {"W", "kW"}
  IN CASE d.integrand = "signed_totals" ->
            IF {"positive", "negative"} \subseteq DOMAIN d.columns
              THEN {U("positive")} \cap powers \cap {U("negative")} ELSE {}
       [] d.integrand = "vector_flux" ->
            IF /\ d.association = "face" /\ {"qx", "qy", "qz", "ax", "ay", "az"} \subseteq DOMAIN d.columns
               /\ \A q \in {"qx", "qy", "qz"} : U(q) = "W/m2"
               /\ \A a \in {"ax", "ay", "az"} : U(a) = "m2"
            THEN {"W"} ELSE {}
       [] d.integrand = "element_total" ->
            IF "value" \in DOMAIN d.columns THEN {U("value")} \cap powers ELSE {}
       [] d.integrand \in {"density", "weighted_mean"} ->
            IF ~({"value", "measure"} \subseteq DOMAIN d.columns) THEN {}
            ELSE IF U("measure") # m THEN {}
            ELSE IF U("value") \in Temperatures
              THEN IF d.integrand = "weighted_mean" THEN {U("value") \o "*" \o m} ELSE {}
            ELSE PowerOf(U("value"), m)
       [] OTHER -> {}
IntegralAccepted(d) ==
  /\ d.association \in {"face", "cell"} /\ d.orientation \in {1, -1} /\ IntegralUnit(d) # {}
  /\ ("measure" \in DOMAIN d.columns /\ d.integrand # "vector_flux") =>
       d.units.measure \in IF d.integrand = "signed_totals" THEN {"m2", "m3"} ELSE {MeasureUnit(d)}
  /\ ("value" \in DOMAIN d.columns /\ d.units.value \in Temperatures) => d.orientation = 1
SignsFit(row, d) ==
  /\ d.integrand = "signed_totals" =>
       /\ \A n \in Cell(row, d, "positive") : n >= 0
       /\ \A n \in Cell(row, d, "negative") : n <= 0
  /\ \A m \in MeasureOf(row, d) : Below(Zero, m)

IntegralResult(d, name, elements) ==
  LET blank == \E e \in ToSet(elements) : TermOf(e, d) = {}
      Scaled(e, n) == Times(Int2Q(n), ShareOf(e, d, RegionOf(d, name)))
      term == Each(elements, LAMBDA e : Scaled(e, d.orientation * CHOOSE n \in TermOf(e, d) : TRUE))
      Side(up) == Total(SelectSeq(term, LAMBDA t : IF up THEN Below(Zero, t) ELSE Below(t, Zero)))
      \* Signed totals are turned over as a whole when the orientation is -1.
      Column(r) == Total(Each(elements, LAMBDA e : Scaled(e, d.orientation * CHOOSE n \in Cell(e, d, r) : TRUE)))
      positive == IF d.integrand # "signed_totals" THEN Side(TRUE)
                  ELSE Column(IF d.orientation = 1 THEN "positive" ELSE "negative")
      negative == IF d.integrand # "signed_totals" THEN Side(FALSE)
                  ELSE Column(IF d.orientation = 1 THEN "negative" ELSE "positive")
      measures == IF \E e \in ToSet(elements) : MeasureOf(e, d) = {} THEN {}
                  ELSE {Total(Each(elements, LAMBDA e :
                          Times(CHOOSE m \in MeasureOf(e, d) : TRUE, ShareOf(e, d, RegionOf(d, name)))))}
  IN IF elements = << >> \/ blank THEN {}
     ELSE {[net |-> {Total(term)}, positive |-> {positive}, negative |-> {negative},
            absolute |-> {Minus(positive, negative)}, measure |-> measures,
            count |-> {Int2Q(Len(elements))}, weighted_mean |-> {Over(Total(term), m) : m \in measures}]}
IntegralGroup(table, d, name) ==
  LET inside == Inside(table, d, name) IN Reduced(inside, << >>, IntegralResult(d, name, Picked(table, inside)))
FieldIntegral(table, d) ==
  IF /\ IntegralAccepted(d) /\ \A i \in DOMAIN table : SignsFit(table[i], d)
     /\ RegionsFit(table, d)
  THEN {[d |-> d, groups |-> [name \in RegionNames(d) |-> IntegralGroup(table, d, name)]]}
  ELSE {}

\* _difference: elements are paired by where they are; "reference" is a column
\* of the same table, or "value" in a table of its own (d.separate).
ReferenceRole(d, r) ==
  IF d.separate THEN r ELSE IF r = "value" THEN "reference" ELSE "reference_" \o r
NewRole(d) == IF d.separate THEN "value" ELSE "comparison"
PlaceOf(row, d) == [a \in Axes |-> Cell(row, d, a)]
OldPlaceOf(row, d) == [a \in Axes |-> Cell(row, d, ReferenceRole(d, a))]
Partner(table, old, d, i) ==
  CHOOSE j \in DOMAIN old : OldPlaceOf(old[j], d) = PlaceOf(table[i], d)
OnPoints(d) == d.association = "point"
DifferenceAccepted(d) ==
  LET needed == {NewRole(d)} \cup Axes \cup (IF OnPoints(d) THEN {} ELSE {"measure"}) IN
  /\ needed \cup (IF d.separate THEN {} ELSE {ReferenceRole(d, r) : r \in (needed \ {NewRole(d)}) \cup {"value"}})
       \subseteq DOMAIN d.columns
  /\ ~d.separate => d.units.reference = d.units.comparison
  /\ \A a \in Axes : d.units[a] = "m" /\ (d.separate \/ d.units["reference_" \o a] = "m")
  /\ OnPoints(d) \/ d.units.measure = MeasureUnit(d)
PairsFit(table, old, d) ==
  /\ Len(old) = Len(table)
  /\ \A i, j \in DOMAIN old : OldPlaceOf(old[i], d) = OldPlaceOf(old[j], d) => i = j
  /\ \A i, j \in DOMAIN table : PlaceOf(table[i], d) = PlaceOf(table[j], d) => i = j
  /\ \A i \in DOMAIN table :
       /\ \E j \in DOMAIN old : OldPlaceOf(old[j], d) = PlaceOf(table[i], d)
       /\ \A a \in Axes : PlaceOf(table[i], d)[a] # {}
       /\ ~OnPoints(d) =>
            /\ Cell(table[i], d, "measure") = Cell(old[Partner(table, old, d, i)], d, ReferenceRole(d, "measure"))
            /\ \E m \in Cell(table[i], d, "measure") : m > 0
DifferenceResult(d, name, elements, partners) ==
  LET New(k) == Cell(elements[k], d, NewRole(d))
      Old(k) == Cell(partners[k], d, ReferenceRole(d, "value"))
      weights == Each(elements, LAMBDA e : Times(ShareOf(e, d, RegionOf(d, name)),
                   Int2Q(IF OnPoints(d) THEN 1 ELSE CHOOSE m \in Cell(e, d, "measure") : TRUE)))
      Mean(cells) == {Over(Weighing(Numbers(cells), weights), Total(weights))}
      change == [k \in DOMAIN elements |-> {a - b : a \in New(k), b \in Old(k)}]
      Lowest == CHOOSE n \in UNION ToSet(change) : \A m \in UNION ToSet(change) : n <= m
      Highest == CHOOSE n \in UNION ToSet(change) : \A m \in UNION ToSet(change) : n >= m
  IN IF elements = << >> \/ Blank(change) THEN {}
     ELSE {[weighted_mean |-> Mean(change), difference_mean |-> Mean(change),
            reference_mean |-> Mean([k \in DOMAIN elements |-> Old(k)]),
            comparison_mean |-> Mean([k \in DOMAIN elements |-> New(k)]),
            minimum |-> {Int2Q(Lowest)}, maximum |-> {Int2Q(Highest)},
            measure |-> {Total(weights)}, count |-> {Int2Q(Len(elements))}]}
DifferenceGroup(table, old, d, name) ==
  LET inside == Inside(table, d, name)
      partners == [k \in DOMAIN inside |-> Partner(table, old, d, inside[k])]
  IN Reduced(inside, partners, DifferenceResult(d, name, Picked(table, inside), Picked(old, partners)))
FieldDifference(table, old, d) ==
  IF DifferenceAccepted(d) /\ PairsFit(table, old, d) /\ RegionsFit(table, d)
  THEN {[d |-> d, groups |-> [name \in RegionNames(d) |-> DifferenceGroup(table, old, d, name)]]}
  ELSE {}

\* _budget: input + source = output + storage, up to a residual.
BudgetRoles == {"input", "output", "source", "storage"}
BudgetColumn(table, d, r) == Cells(table, d.columns[r])
BudgetAccepted(table, d) ==
  /\ {"input", "output", "source"} \subseteq DOMAIN d.columns /\ DOMAIN d.columns \subseteq BudgetRoles
  /\ "storage" \in DOMAIN d.columns \/ d.steady
  /\ \E unit \in {"W", "kW"} : \A r \in DOMAIN d.columns : d.units[r] = unit
  /\ \A r \in {"input", "output"} : \A n \in UNION ToSet(BudgetColumn(table, d, r)) : n >= 0
BudgetResult(table, d) ==
  LET Sum(r) == IF r \in DOMAIN d.columns THEN Total(Numbers(BudgetColumn(table, d, r))) ELSE Zero
      residual == Minus(Plus(Sum("input"), Sum("source")), Plus(Sum("output"), Sum("storage")))
  IN IF table = << >> \/ \E r \in DOMAIN d.columns : Blank(BudgetColumn(table, d, r)) THEN {}
     ELSE {[input |-> {Sum("input")}, output |-> {Sum("output")}, source |-> {Sum("source")},
            storage |-> {Sum("storage")}, residual |-> {residual}, count |-> {Int2Q(Len(table))}]}
EnergyBudget(table, d) ==
  IF ~BudgetAccepted(table, d) THEN {}
  ELSE {[d |-> d, groups |-> [name \in {"all"} |-> Reduced([i \in DOMAIN table |-> i], << >>, BudgetResult(table, d))]]}

\* calculate_partition_change: what each region of a surface adds to the change
\* of its mean temperature, with the areas of the regions held fixed.
PartitionAccepted(d) ==
  /\ d.association = "face" /\ Clipped(d) /\ d.mode \in {"fixed", "moving"} /\ d.integrand = "weighted_mean"
  /\ d.units.value \in Temperatures /\ d.kind = "absolute-temperature" /\ d.units.measure = "m2"
  /\ d.region # << >> /\ (d.mode = "fixed" => d.oldRegion = d.region)
  /\ Each(d.region, LAMBDA r : r.id) = Each(d.oldRegion, LAMBDA r : r.id) /\ d.sameSurface
Computed(report) == \A g \in DOMAIN report.groups : report.groups[g].result # {}
Only(report, g, field) == CHOOSE q \in UNION {r[field] : r \in report.groups[g].result} : TRUE
Weight(report, g) == Over(Only(report, g, "measure"), Only(report, "all", "measure"))
Contribution(before, now, g) ==
  LET change == Minus(Only(now, g, "weighted_mean"), Only(before, g, "weighted_mean")) IN
  Reduced(now.groups[g].records, before.groups[g].records,
    {[reference_mean |-> {Only(before, g, "weighted_mean")}, comparison_mean |-> {Only(now, g, "weighted_mean")},
      difference_mean |-> {change}, reference_weight |-> {Weight(before, g)}, comparison_weight |-> {Weight(now, g)},
      contribution |-> {Times(Weight(before, g), change)}, measure |-> {Only(now, g, "measure")}]})
Weighed(before, now) ==
  /\ Computed(before) /\ Computed(now)
  /\ Only(before, "all", "measure") = Only(now, "all", "measure")
  /\ \A g \in DOMAIN now.groups : Weight(before, g) = Weight(now, g)
PartitionChange(table, old, d) ==
  IF ~PartitionAccepted(d) THEN {}
  ELSE {[d |-> d, groups |-> [g \in DOMAIN pair[2].groups |-> Contribution(pair[1], pair[2], g)]] :
          pair \in {pair \in FieldIntegral(old, [d EXCEPT !.region = d.oldRegion]) \X FieldIntegral(table, d) :
                      Weighed(pair[1], pair[2])}}

\* calculate_declared_table.
Other(d) == IF d.op = "partition_change" \/ d.separate THEN d.other ELSE d.source
Calculate(d, tables) ==
  CASE d.op = "field_integral" -> FieldIntegral(tables[d.source], d)
    [] d.op = "field_difference" ->
         FieldDifference(tables[d.source], tables[Other(d)], d)
    [] d.op = "energy_budget" -> EnergyBudget(tables[d.source], d)
    [] d.op = "partition_change" -> PartitionChange(tables[d.source], tables[Other(d)], d)
    [] d.op \notin FieldOps -> CalculateTable(tables[d.source], d)

-----------------------------------------------------------------------------
(* One number of a report: ref is [id, group, field, record, places,       *)
(* percentage]; a number comes with its unit and the records it rests on.  *)
TimeFields == {"duration", "peak_time", "first_crossing_time"}
Regional == {"regional_flux", "shares"}
Dimensionless == {"count", "cv", "shares", "relative_change", "relative_reduction", "ratio",
                  "exceedance_fraction"}
Percentages == Dimensionless \ {"count", "ratio"}
TemporalUnit(field, unit, kind) ==
  CASE field \in TimeFields -> "s"
    [] field = "sample_count" -> ""
    [] field = "change" /\ kind = "absolute-temperature" -> "K"
    [] field = "integral" ->
         IF unit = "W" THEN "J" ELSE IF unit = "kW" THEN "kJ" ELSE unit \o "*s"
    [] OTHER -> unit
Kelvin(unit) == IF unit = "degC" THEN "K" ELSE unit
FieldUnit(d, field) ==
  LET m == IF d.integrand = "signed_totals" /\ "measure" \in DOMAIN d.columns
           THEN d.units.measure ELSE MeasureUnit(d)
      sum == CHOOSE u \in IntegralUnit(d) : TRUE
  IN CASE d.op = "energy_budget" -> IF field = "count" THEN "" ELSE d.units.input
       [] field \in {"count", "reference_weight", "comparison_weight"} -> ""
       [] field = "measure" -> IF d.association = "point" THEN "" ELSE m
       [] d.op = "field_integral" ->
            IF field # "weighted_mean" THEN sum
            ELSE IF d.integrand \in {"signed_totals", "element_total"} THEN sum \o "/" \o m
            ELSE IF d.integrand = "vector_flux" THEN "W/m2" ELSE d.units.value
       [] d.op = "field_difference" ->
            IF field \in {"reference_mean", "comparison_mean"} THEN d.units[NewRole(d)]
            ELSE Kelvin(d.units[NewRole(d)])
       [] OTHER -> IF field \in {"reference_mean", "comparison_mean"} THEN d.units.value ELSE "K"
ResultUnit(d, field) ==
  CASE d.op = "result_comparison" -> IF field = "difference" THEN d.units.value ELSE ""
    [] d.op \in FieldOps -> FieldUnit(d, field)
    [] d.op \in RangeOps ->
         IF d.kind # "ordinary" /\ (d.op = "paired_reference_change" \/ field \in {"difference", "outside_distance"})
         THEN "K" ELSE d.units.value
    [] d.op = "temporal" -> TemporalUnit(field, d.units.value, d.kind)
    [] d.op = "temporal_difference" ->
         TemporalUnit(field, IF d.kind # "ordinary" THEN "K" ELSE d.units.reference, "ordinary")
    [] field \in Dimensionless -> ""
    [] field \in {"weight_sum", "measure_above"} -> d.units.weight
    [] field \in {"area", "rate"} -> d.units[field]
    [] field \in {"mean_flux", "regional_flux"} -> "(" \o d.units.rate \o ")/(" \o d.units.area \o ")"
    [] field = "difference" /\ d.kind = "absolute-temperature" -> "K"
    [] field = "weighted_std" /\ d.kind # "ordinary" -> "K"
    [] OTHER -> d.units.value

\* The records of a group, as source and row; a share rests on all of them.
Records(d, group) == {<<d.source, i>> : i \in ToSet(group.records)} \cup {<<Other(d), i>> : i \in ToSet(group.others)}
\* Fault: a share is said to rest on its own row only.
CitedOnItsOwnRow(report, ref) ==
  IF report.d.op = "result_comparison" THEN report.cites
  ELSE IF ref.field \in Regional THEN {<<report.d.source, i>> : i \in ref.record}
  ELSE Records(report.d, report.groups[ref.group])
Cited(report, ref) ==
  IF report.d.op = "result_comparison" THEN report.cites
  ELSE IF ref.field = "regional_flux" THEN {<<report.d.source, i>> : i \in ref.record}
  ELSE Records(report.d, report.groups[ref.group])
\* What a group states in a field; what a partition calculated for some records.
Stated(group, field) == UNION {r[field] : r \in {x \in group.result : field \in DOMAIN x}}
ByRecord(group, field, rows) ==
  IF field \notin DOMAIN group.parts THEN {}
  ELSE {group.parts[field][k] : k \in {j \in DOMAIN group.parts[field] : group.records[j] \in rows}}
RawValue(report, ref) ==
  LET group == report.groups[ref.group] IN
  IF ref.field \in Regional THEN ByRecord(group, ref.field, ref.record)
  ELSE IF ref.field = "ratio" /\ report.d.op = "paired_change"
    THEN {Plus(Int2Q(1), q) : q \in Stated(group, "relative_change")}
  ELSE Stated(group, ref.field)
Resolve(reports, ref) ==
  LET report == reports[ref.id] IN
  IF \/ ref.id \notin DOMAIN reports
     \/ ref.group \notin DOMAIN report.groups
     \/ (ref.record # {}) # (ref.field \in Regional)
     \/ ref.percentage /\ ref.field \notin Percentages
  THEN {}
  ELSE {[value |-> FormatValue(IF ref.percentage THEN Times(q, Int2Q(100)) ELSE q, ref.places),
         unit |-> IF ref.percentage THEN "%" ELSE ResultUnit(report.d, ref.field),
         raw |-> q, cites |-> Cited(report, ref)] : q \in RawValue(report, ref)}

-----------------------------------------------------------------------------
(* Two numbers of different reports compared (calculate_result_comparison).*)
(* A support says what a number was observed of: [case, association,       *)
(* place, operator, conditions, kind, event, origin, offset, at, window],  *)
(* each a set of at most one, conditions a function of such sets.          *)
Same(a, b) == a # {} /\ a = b
TimesAgree(s, t, purpose) ==
  CASE purpose = "event-relative" ->
         /\ s.kind = {"own-event"} /\ t.kind = {"own-event"}
         /\ Same(s.event, t.event) /\ Same(s.origin, t.origin) /\ Same(s.offset, t.offset)
         /\ s.at # {} /\ t.at # {}
    [] purpose = "event-timing" ->
         /\ s.kind \in {{"native-event"}, {"sampled-event"}} /\ t.kind = s.kind
         /\ Same(s.event, t.event) /\ Same(s.origin, t.origin)
    [] OTHER ->
         \/ s.kind = {"steady"} /\ t.kind = {"steady"}
         \/ /\ s.kind = {"window"} /\ t.kind = {"window"} /\ Same(s.origin, t.origin)
            /\ Same(s.window, t.window) /\ \A w \in s.window : w[1] < w[2]
         \/ /\ \A k \in {s.kind, t.kind} : k \in {{"fixed"}, {"own-event"}}
            /\ Same(s.origin, t.origin) /\ Same(s.at, t.at)
Compatible(left, right, purpose, fixed) ==   \* compare_observation_support
  \E s \in left, t \in right :
    /\ s.case # {} /\ t.case # {}
    /\ Same(s.association, t.association) /\ Same(s.place, t.place) /\ Same(s.operator, t.operator)
    /\ \A c \in fixed : c \in DOMAIN s.conditions \cap DOMAIN t.conditions /\ Same(s.conditions[c], t.conditions[c])
    /\ TimesAgree(s, t, purpose)

ComparableFields(op) ==
  CASE op = "population" -> {"mean", "sum"}
    [] op = "scalar_select" -> {"value"}
    [] op = "paired_change" -> {"difference"}
    [] op = "weighted_population" -> {"weighted_mean", "weighted_std", "weight_sum"}
    [] op = "partition" -> {"area", "rate", "mean_flux"}
    [] op = "temporal" -> TemporalFields
    [] op = "field_integral" -> {"net", "positive", "negative", "absolute", "measure", "weighted_mean"}
    [] op = "field_difference" -> {"reference_mean", "comparison_mean", "difference_mean"}
    [] op = "partition_change" -> {"reference_mean", "comparison_mean", "difference_mean", "reference_weight",
                                   "comparison_weight", "contribution", "measure"}
    [] op = "energy_budget" -> {"input", "output", "source", "storage", "residual"}
    [] OTHER -> {}
\* What kind of quantity the compared field is; {} when the comparison would
\* depend on the origin of the temperature.
ComparedKind(d, field) ==
  LET absolute == d.kind = "absolute-temperature"
      measures == {"weight_sum", "area", "rate", "mean_flux", "measure", "reference_weight", "comparison_weight"}
      summed == (d.op = "temporal" /\ field = "integral")
                \/ (d.op = "field_integral" /\ field \notin {"measure", "weighted_mean"})
  IN IF absolute /\ summed THEN {}
     ELSE IF summed \/ field \in measures \cup (IF d.op = "temporal" THEN TimeFields \cup {"sample_count"} ELSE {})
       THEN {"ordinary"}
     ELSE IF absolute /\ (d.op = "paired_change"
                          \/ (d.op = "temporal" /\ field = "change")
                          \/ (d.op \in {"field_difference", "partition_change"}
                              /\ field \in {"difference_mean", "contribution"})
                          \/ field = "weighted_std")
       THEN {"temperature-difference"}
     ELSE {d.kind}
KindAndUnit(kind, unit) ==
  CASE kind = "absolute-temperature" -> unit \in Temperatures
    [] kind = "temperature-difference" -> unit = "K"
    [] OTHER -> unit \notin Temperatures
Operand(reports, ref, domain) ==
  LET d == reports[ref.id].d
      whole == [id |-> ref.id, group |-> ref.group, field |-> ref.field, record |-> {}, places |-> 0,
                percentage |-> FALSE]
  IN IF ref.id \notin DOMAIN reports THEN {}
     ELSE IF ref.field \notin ComparableFields(d.op) \/ d.domain # domain THEN {}
     ELSE {[raw |-> p[1].raw, unit |-> p[1].unit, cites |-> p[1].cites, d |-> d,
            field |-> ref.field, kind |-> p[2],
            window |-> RawValue(reports[ref.id], [whole EXCEPT !.field = "time_window"])]
             : p \in {p \in Resolve(reports, whole) \X ComparedKind(d, ref.field) :
                      KindAndUnit(p[2], p[1].unit)}}
Alike(a, b) ==
  /\ \/ a.d.op = b.d.op /\ a.field = b.field
     \/ {<<a.d.op, a.field>>, <<b.d.op, b.field>>} = {<<"scalar_select", "value">>, <<"paired_change", "difference">>}
  /\ a.d.measure = b.d.measure /\ a.kind = b.kind /\ a.unit = b.unit
  /\ a.d.op = "temporal" =>
       /\ a.window = b.window /\ a.d.saved = b.d.saved
       /\ a.field = "first_crossing_time" =>
            /\ Same(a.d.threshold, b.d.threshold) /\ a.d.crossing = b.d.crossing
            /\ a.d.units.value = b.d.units.value /\ a.d.kind = b.d.kind
Ratio(old, new, kind, origin) ==
  LET bases == IF kind = "absolute-temperature" THEN {Int2Q(o) : o \in origin} ELSE {Zero}
  IN {Over(Minus(new, b), Minus(old, b)) : b \in {x \in bases : old # x}}
ComparisonResult(old, new, origin) ==
  PairedResult(old.raw, new.raw, old.kind, origin) @@ [ratio |-> Ratio(old.raw, new.raw, old.kind, origin)]
ComparisonReport(old, new, origin) ==
  [d |-> [op |-> "result_comparison", units |-> [value |-> Kelvin(old.unit)]],
   cites |-> old.cites \cup new.cites,
   groups |-> [name \in {"all"} |-> Reduced(<< >>, << >>, {ComparisonResult(old, new, origin)})]]
ComparisonFits(old, new, c) ==
  /\ (c.purpose # {} \/ old.d.support # {} \/ new.d.support # {}) =>
       Compatible(old.d.support, new.d.support,
                  IF c.purpose = {} THEN "same-state" ELSE CHOOSE p \in c.purpose : TRUE, c.fixed)
  /\ c.reference # c.comparison /\ Alike(old, new)
  /\ c.origin # {} => old.kind = "absolute-temperature"
CalculateComparison(reports, c) ==
  {ComparisonReport(pair[1], pair[2], c.origin) :
     pair \in {pair \in Operand(reports, c.reference, c.domain) \X Operand(reports, c.comparison, c.domain) :
               ComparisonFits(pair[1], pair[2], c)}}

\* _calculate_sources: every calculation, then the comparisons of their
\* results; {} when one of them raises.
Combined(parts) ==   \* id |-> set  as  a set of id |-> member
  IF \E id \in DOMAIN parts : parts[id] = {} THEN {}
  ELSE {[id \in DOMAIN parts |-> CHOOSE r \in parts[id] : TRUE]}
Compared(reports, comparisons) ==
  {[id \in DOMAIN reports \cup DOMAIN compared |->
      IF id \in DOMAIN reports THEN reports[id] ELSE compared[id]] :
     compared \in Combined([id \in DOMAIN comparisons |-> CalculateComparison(reports, comparisons[id])])}
Calculated(tables, comparisons, sources) ==
  UNION {Compared(reports, comparisons) :
           reports \in Combined([id \in DOMAIN tables |-> Calculate(tables[id], sources)])}
===============================================================================
