-------------------------- MODULE QualificationRules --------------------------
(***************************************************************************)
(* The rules of src/cfdpaper/qualification as operators on the author's    *)
(* three inputs:                                                           *)
(*   records   [cases, sources : sets; boundaries, models, convergence,    *)
(*             conservation : sets of records]                             *)
(*   rows      the observations, in file order                             *)
(*   question  a QoI proposal: operator, operands, unit, expected members  *)
(* They give the verdict on the comparison, the QoI values with their      *)
(* trend, the claim ceiling and the figure candidate.  Values are          *)
(* integers, ratios and relative changes hundredths; the trend tolerance   *)
(* is zero, every row and record has a locator (two may share one), and    *)
(* question.words is what the names of QoI and coordinate say: "up",       *)
(* "down", "bound", "process".                                             *)
(***************************************************************************)
EXTENDS ScientificChecks, SequencesExt

CONSTANTS
  UnitNumerals    \* a unit |-> the numbers its name contains: 2 in "W/m2"

Distinct(s) == IsInjective(s)

-----------------------------------------------------------------------------
(* The records.                                                            *)
Assessments(r) == r.convergence \cup r.conservation
Scientific(r) == r.boundaries \cup r.models \cup Assessments(r)

\* What somebody calls equivalent or immaterial must say on what basis.
DifferenceAccepted(x) == x.role = "demonstrated-equivalent-or-immaterial" => x.basis

\* GuidedRecords and persist_guided_records; identifiers are unique by name.
RecordsAccepted(r) ==
  /\ {x.source : x \in Scientific(r) \cup r.cases} \subseteq r.sources
  /\ {x.case : x \in Scientific(r)} \subseteq {x.case : x \in r.cases}
  /\ \A x \in r.boundaries \cup r.models : DifferenceAccepted(x)

\* The intake by questions: one case of one source with one record of each
\* kind, every basis and locator given (it stops at the first answer left
\* out, and then there are no records at all).
Guided(a) ==
  LET Located(fields) == [case |-> a.case, source |-> a.source] @@ fields
      Limit(l) == {Located([observed |-> l.observed, operator |-> l.operator,
                            threshold |-> l.threshold, consequence |-> l.consequence])}
  IN [cases |-> {Located(<< >>)}, sources |-> {a.source},
      boundaries |-> {Located([role |-> a.boundary, basis |-> TRUE])},
      models |-> {Located([role |-> a.model, basis |-> TRUE, verification |-> a.verification,
                           validation |-> a.validation])},
      convergence |-> Limit(a.convergence), conservation |-> Limit(a.conservation)]

Met(a) == CASE a.operator = "<=" -> a.observed <= a.threshold
            [] a.operator = "<"  -> a.observed < a.threshold
            [] a.operator = ">=" -> a.observed >= a.threshold
            [] a.operator = ">"  -> a.observed > a.threshold

Differences(r) == {x.role : x \in r.boundaries \cup r.models}

\* The weakest state any model declares.
States == <<"demonstrated", "not-applicable", "partial", "not-demonstrated">>
Status(states) == IF states = {} THEN "not-demonstrated" ELSE Highest(States, states)
Verification(r) == Status({m.verification : m \in r.models})
Validation(r) == Status({m.validation : m \in r.models})

Failures(r, consequence) == {a \in Assessments(r) : ~Met(a) /\ a.consequence = consequence}

Blocked(r, rows) ==
  \/ "blocking" \in Differences(r)
  \/ rows = << >>
  \/ "intended-study-factor" \notin Differences(r)
  \/ Failures(r, "blocking") # {}

\* The intake has no way to declare a comparison exemption.
Restricted(r) ==
  \/ "unresolved-nuisance" \in Differences(r)
  \/ r.convergence = {} \/ r.conservation = {}
  \/ Verification(r) # "demonstrated" \/ Validation(r) # "demonstrated"
  \/ Failures(r, "restricting") # {}

Verdict(r, rows) == IF Blocked(r, rows) THEN "insufficient"
                    ELSE IF Restricted(r) THEN "restricted" ELSE "eligible"

-----------------------------------------------------------------------------
(* The observations and the expected members.                              *)
RowKey(row) == <<row.case, row.coordinate, row.at, row.variable, row.scope>>

\* An aggregate says how it was aggregated, and nothing else does.
RowAccepted(row) == row.role = "declared-aggregate" <=> row.aggregate
ObservationsAccepted(rows) ==
  /\ \A i \in DOMAIN rows : RowAccepted(rows[i]) /\ Known(rows[i].unit) /\ Known(rows[i].atUnit)
  /\ Distinct([i \in DOMAIN rows |-> RowKey(rows[i])])

MatchesMember(row, m) ==
  /\ row.case = m.case /\ row.coordinate = m.coordinate
  /\ Compatible(row.atUnit, m.atUnit)
  /\ InBase(row.at, row.atUnit) = InBase(m.at, m.atUnit)
  /\ row.variable = m.variable /\ Compatible(row.unit, m.unit) /\ row.scope = m.scope

Matching(rows, m) == {i \in DOMAIN rows : MatchesMember(rows[i], m)}

(* A plausible fault, which no specification uses: the rows stay in the    *)
(* order of the file.                                                      *)
InOrderOfFile(rows, members) == rows

\* validate_expected_membership: the rows in the order of the members.
Membership(rows, members) ==
  /\ \A k \in DOMAIN members : \E i \in DOMAIN rows : Matching(rows, members[k]) = {i}
  /\ UNION {Matching(rows, members[k]) : k \in DOMAIN members} = DOMAIN rows
InOrder(rows, members) ==
  [k \in DOMAIN members |-> rows[CHOOSE i \in DOMAIN rows : Matching(rows, members[k]) = {i}]]

-----------------------------------------------------------------------------
(* The question.                                                           *)
OperandCount(q) == IF q.operator \in {"difference", "ratio"} THEN 2 ELSE 1
MemberKey(m) == <<m.case, m.coordinate, m.at>>

ProposalAccepted(q) ==
  /\ Len(q.operands) = OperandCount(q)
  /\ q.operator = "relative-change" <=> q.reference # {}
  /\ q.members # << >>
  /\ Distinct([k \in DOMAIN q.members |-> MemberKey(q.members[k])])

\* _load_material: all rows against the expected members, then the verdict.
Material(r, rows, q) ==
  /\ RecordsAccepted(r) /\ ObservationsAccepted(rows) /\ ProposalAccepted(q)
  /\ Membership(rows, q.members)
  /\ Verdict(r, rows) # "insufficient"

Converted(x, u, v) == (InBase(x, u) - UnitOf[v].offset) \div UnitOf[v].scale

Selects(s, row) == row.variable = s.variable /\ row.scope = s.scope /\ row.role = s.role
Relevant(rows, s) == [i \in {i \in DOMAIN rows : Selects(s, rows[i])} |-> rows[i]]
\* What a member asks of one operand.
MemberOf(m, s) == [case |-> m.case, coordinate |-> m.coordinate, at |-> m.at, atUnit |-> m.atUnit,
                   variable |-> s.variable, unit |-> s.unit, scope |-> s.scope]
MembersOf(q, s) == [k \in DOMAIN q.members |-> MemberOf(q.members[k], s)]
Binding(s) == <<s.variable, s.role, s.scope>>

OperandsAccepted(q, rows) ==
  /\ Distinct([j \in DOMAIN q.operands |-> Binding(q.operands[j])])
  /\ \A i \in DOMAIN rows : \E j \in DOMAIN q.operands : Selects(q.operands[j], rows[i])
  /\ \A j \in DOMAIN q.operands :
       LET s == q.operands[j] IN
       /\ \A i \in DOMAIN rows : Selects(s, rows[i]) => Compatible(rows[i].unit, s.unit)
       /\ Membership(Relevant(rows, s), MembersOf(q, s))

\* One operand in the order of the members, in the unit of its selector.
Operand(q, rows, j) ==
  LET s == q.operands[j]
      ordered == InOrder(Relevant(rows, s), MembersOf(q, s))
  IN [k \in DOMAIN ordered |-> Converted(ordered[k].value, ordered[k].unit, s.unit)]

Reference(q) == CHOOSE k \in DOMAIN q.members : q.members[k].case \in q.reference

Evaluable(q, a, b) ==
  /\ q.operator = "identity" => Compatible(q.operands[1].unit, q.unit)
  /\ q.operator = "relative-change" =>
       /\ \E k \in DOMAIN q.members : \A l \in DOMAIN q.members :
            q.members[l].case \in q.reference <=> l = k
       /\ a[Reference(q)] # 0 /\ Compatible("1", q.unit)
  /\ q.operator = "difference" => /\ Compatible(q.operands[1].unit, q.operands[2].unit)
                                  /\ Compatible(q.operands[1].unit, q.unit)
  /\ q.operator = "ratio" => /\ Compatible(q.operands[1].unit, q.operands[2].unit)
                             /\ Compatible("1", q.unit)
                             /\ \A k \in DOMAIN b : b[k] # 0

\* In hundredths of the reference; of a divisor below zero the sign moves up.
RelativeChange(x, reference) == IF reference > 0 THEN ((x - reference) * 100) \div reference
                        ELSE ((reference - x) * 100) \div (-reference)

\* _evaluate_values, "b" being the second operand, if any.
Value(q, a, b, k) ==
  LET u == q.operands[1].unit
      v == q.operands[Len(q.operands)].unit
  IN IF q.operator = "identity" THEN Converted(a[k], u, q.unit)
     ELSE IF q.operator = "relative-change" THEN RelativeChange(a[k], a[Reference(q)])
     ELSE IF q.operator = "difference" THEN Converted(a[k], u, q.unit) - Converted(b[k], v, q.unit)
     ELSE (a[k] * 100) \div Converted(b[k], v, u)

Coordinates(q) == [k \in DOMAIN q.members |-> InBase(q.members[k].at, q.members[k].atUnit)]

\* Three members and more go to detect_trend, which wants ascending points.
TrendDefined(q) ==
  LET x == Coordinates(q) IN
  /\ Len(q.members) >= 2
  /\ \A k \in DOMAIN q.members : q.members[k].coordinate = q.members[1].coordinate
  /\ \A k \in DOMAIN q.members : Compatible(q.members[k].atUnit, q.members[1].atUnit)
  /\ Distinct(x)
  /\ Len(x) > 2 => \A k \in 1..(Len(x) - 1) : x[k] < x[k + 1]

DiscreteTrend(values) ==
  LET kind == Trend(values) IN
  IF Len(values) = 2 \/ kind \in {"interior-trough", "mixed"} THEN "overall-change" ELSE kind

\* analyze_qoi: a record, or {} when it raises.  The evidence of a value is
\* where its rows were found.
EvidenceOf(q, rows) ==
  LET Found(s) == InOrder(Relevant(rows, s), MembersOf(q, s))
  IN [k \in DOMAIN q.members |-> [j \in DOMAIN q.operands |-> Found(q.operands[j])[k].locator]]
One(q) == IF q.operator \in {"identity", "difference"} THEN 1 ELSE 100   \* in its values
Evaluated(q, a, b) == [k \in DOMAIN q.members |-> Value(q, a, b, k)]
AnalysisOf(q, rows, values) ==
  [values |-> values, unit |-> q.unit, cases |-> [k \in DOMAIN values |-> q.members[k].case],
   evidence |-> EvidenceOf(q, rows), words |-> q.words, trend |-> DiscreteTrend(values),
   quantitative |-> q.quantitative, one |-> One(q)]
Analysis(q, rows) ==
  IF ~OperandsAccepted(q, rows) THEN {}
  ELSE LET a == Operand(q, rows, 1)
           b == Operand(q, rows, Len(q.operands))
       IN IF Evaluable(q, a, b) /\ TrendDefined(q)
            THEN {AnalysisOf(q, rows, Evaluated(q, a, b))} ELSE {}

-----------------------------------------------------------------------------
(* The claim ceiling and the figure candidate.  Restrictions of the        *)
(* analysis are those of the verdict.                                      *)

\* _complete_quantitative_bindings: each value has a case and evidence of its
\* own; the members, and with them the result identifiers, differ anyway.
BindingsComplete(an) ==
  Len(an.values) >= 2 /\ Distinct(an.cases) /\ Distinct(an.evidence)

Ceiling(r, rows, an) ==
  IF Verdict(r, rows) = "insufficient" THEN "no-numerical-claim"
  ELSE IF Len(an.values) < 3 \/ ~an.quantitative \/ ~BindingsComplete(an)
    THEN "directional-comparison"
  ELSE IF Verdict(r, rows) = "restricted" THEN "qualified-numerical-observation"
  ELSE "supported-physical-interpretation"

\* A number printed with as many significant digits as are below "limit", a
\* power of ten (no ties arise, and no number has more than four digits more).
Size(v) == IF v < 0 THEN -v ELSE v
Rounded(v, limit) ==
  LET p == CHOOSE p \in {1, 10, 100, 1000, 10000} :
             /\ Size(v) < p * limit /\ (p = 1 \/ 10 * Size(v) >= p * limit)
      m == ((Size(v) + p \div 2) \div p) * p
  IN IF v < 0 THEN -m ELSE m

ClaimLimit == 1000000      \* ":g"
ParagraphLimit == 1000     \* NumericFormattingRule
Ends(values) == {1, Len(values)}

\* The claim text of _bounded_claim: the direction it states, its numbers.
Claim(an, ceiling) ==
  LET first == an.values[1]
      last == an.values[Len(an.values)]
  IN IF ceiling = "directional-comparison"
       THEN [words |-> IF last > first THEN {"up"} ELSE IF last = first THEN {} ELSE {"down"},
             numbers |-> {}]
       ELSE [words |-> {},
             numbers |-> {Rounded(an.values[k], ClaimLimit) : k \in Ends(an.values)}
                           \cup {n * an.one : n \in UnitNumerals[an.unit]}]

\* build_candidate_figure_contract: a record, or {} when it raises.
Candidate(r, rows, an) ==
  LET ceiling == Ceiling(r, rows, an) IN
  IF ceiling = "no-numerical-claim" \/ ~BindingsComplete(an) THEN {}
  ELSE {[analysis |-> an, ceiling |-> ceiling, claim |-> Claim(an, ceiling)]}
===============================================================================
