---------------------------- MODULE Opportunities ----------------------------
(* What discover_research_opportunities reads out of one snapshot of the    *)
(* structured records: which opportunities there are, on what evidence they *)
(* stand and how far they may claim.  A gap is a tuple that begins with its *)
(* code.  Ids sort as the sequences Cases and QoIs do.                      *)
EXTENDS ScientificChecks, SequencesExt

CONSTANTS
  Cases,     \* every case id, in sorted order
  QoIs,      \* every QoI name, in sorted order
  Params,    \* the parameter ids
  NoTrend

\* A snapshot; "src" is a source and the version of it that was read:
\*   cases    case |-> [src, solver, stale]
\*   bounds   a sequence, by id: [id, case, role, values, src, loc, stale],
\*            "values" a function from parameters to <<value, unit>>
\*   qois     <<QoI, case>> |-> [value, unit, status, stale], value {} when not finite
\*   defs     <<QoI, case>> |-> [unit, named, complete, evidence, src, loc]
\*   assess   case |-> [residuals, targets, span, inflow, outflow, tolerance,
\*            evidence: kind |-> ids, validation, sensitivity, engineering]
\*   evidence id |-> [kind, src, loc, stale, maturity]
\*   claims   claim |-> [status, ceiling, evidence]

AssessmentKinds == {"case", "convergence", "conservation"}

\* The elements of a sequence that are in S, in their order.
Among(seq, S) ==
  LET upto[i \in 0..Len(seq)] ==
        IF i = 0 THEN << >>
        ELSE IF seq[i] \in S THEN Append(upto[i - 1], seq[i]) ELSE upto[i - 1]
  IN upto[Len(seq)]
\* Python's sorted: "before" holds the pairs of positions of which the first
\* comes before the second; elements that are level stay in their order.
Pairs(seq) == (DOMAIN seq) \X (DOMAIN seq)
Sorted(seq, before) ==
  LET place == [i \in DOMAIN seq |->
                  Cardinality({j \in DOMAIN seq : \/ <<j, i>> \in before
                                                  \/ j <= i /\ <<i, j>> \notin before})]
  IN [k \in DOMAIN seq |-> seq[CHOOSE i \in DOMAIN seq : place[i] = k]]

(* QoI records and their definitions *)
Definition(s, k) == IF k \in DOMAIN s.defs THEN {s.defs[k]} ELSE {}
Usable(q) == q.status \in {"reported", "derived"} /\ q.value # {}
BasicallyValid(s, k) ==
  LET q == s.qois[k] IN
  /\ \E d \in Definition(s, k) : d.complete /\ d.named /\ Compatible(q.unit, d.unit)
  /\ ~q.stale /\ Usable(q) /\ Known(q.unit)

DefinitionEvidence(s, k) == UNION {d.evidence : d \in Definition(s, k)}
Standing(s, k) ==   \* the current evidence that is bound to the definition's source
  {e \in DefinitionEvidence(s, k) \cap DOMAIN s.evidence :
     LET r == s.evidence[e] IN
     r.kind = "qoi" /\ ~r.stale /\ \E d \in Definition(s, k) : r.src = d.src /\ r.loc = d.loc}
QoIScience(s) ==
  [k \in DOMAIN s.qois |->
     LET q == s.qois[k]
         there == DefinitionEvidence(s, k) \cap DOMAIN s.evidence
         valid == BasicallyValid(s, k)
         Gap(code, holds) == IF holds THEN {<<code, k>>} ELSE {}
         def == Definition(s, k)
     IN [valid |-> valid,
         complete |-> \E d \in def : d.complete,
         primary |-> IF valid THEN Standing(s, k) ELSE {},
         constrained |-> IF valid THEN there \ Standing(s, k) ELSE there,
         gaps |-> Gap("qoi-structured-definition-missing", def = {})
                  \cup Gap("qoi-unit-incompatible", \E d \in def : ~Compatible(q.unit, d.unit))
                  \cup Gap("qoi-name-mismatch", \E d \in def : ~d.named)
                  \cup Gap("qoi-source-stale", q.stale)
                  \cup Gap("qoi-status", q.status \notin {"reported", "derived"})
                  \cup Gap("qoi-value-invalid", q.value = {})
                  \cup Gap("qoi-unit-unknown", ~Known(q.unit))
                  \cup Gap("qoi-current-primary-evidence-missing", Standing(s, k) = {})
                  \cup {<<"qoi-primary-evidence-missing", k, e>> :
                          e \in DefinitionEvidence(s, k) \ there}
                  \cup {<<"qoi-primary-evidence-blocked", k, e>> : e \in there \ Standing(s, k)}]]

(* The numerical assessment of one case *)
CaseScienceOfAnyVersion(s, c) ==   \* a faulty variant: evidence of any version of the source
  IF c \notin DOMAIN s.assess
  THEN [grade |-> "none", conserves |-> FALSE, support |-> {}, gaps |-> {<<"assessment-evidence-missing", c>>}]
  ELSE LET a == s.assess[c]
           Good(k) == {e \in a.evidence[k] : e \in DOMAIN s.evidence /\ ~s.evidence[e].stale}
       IN [grade |-> Convergence(a.residuals, a.targets, a.span),
           conserves |-> Conserves(a.inflow, a.outflow, a.tolerance),
           support |-> UNION {Good(k) : k \in AssessmentKinds},
           gaps |-> UNION {{<<"assessment-evidence-blocked", k, c, e>> : e \in a.evidence[k] \ Good(k)} :
                           k \in AssessmentKinds}]
CaseScience(s, c) ==
  IF c \notin DOMAIN s.assess
  THEN [grade |-> "none", conserves |-> FALSE, support |-> {},
        gaps |-> {<<"assessment-evidence-missing", k, c>> : k \in AssessmentKinds}]
  ELSE
    LET a == s.assess[c]
        Good(k) == {e \in a.evidence[k] :
                      /\ e \in DOMAIN s.evidence
                      /\ s.evidence[e].kind = k /\ ~s.evidence[e].stale
                      /\ s.evidence[e].src = s.cases[c].src}
    IN [grade |-> Convergence(a.residuals, a.targets, a.span),
        conserves |-> Conserves(a.inflow, a.outflow, a.tolerance),
        support |-> UNION {Good(k) : k \in AssessmentKinds},
        gaps |-> {<<"assessment-evidence-missing", k, c>> :
                    k \in {k \in AssessmentKinds : a.evidence[k] = {}}}
                 \cup UNION {{<<"assessment-evidence-blocked", k, c, e>> :
                                e \in a.evidence[k] \ Good(k)} : k \in AssessmentKinds}]

(* The declared parameters *)
Now(s) == {c \in DOMAIN s.cases : ~s.cases[c].stale}
CurrentCases(s) == Among(Cases, Now(s))
ExactEvidence(s, b) == {e \in DOMAIN s.evidence :
                          LET r == s.evidence[e] IN
                          r.kind = "boundary" /\ r.src = b.src /\ r.loc = b.loc}
Declared(s) == {i \in DOMAIN s.bounds :
                  /\ ~s.bounds[i].stale /\ s.bounds[i].case \in Now(s)
                  /\ s.bounds[i].role \in {"varied", "controlled"}}
Traced(s) == {i \in Declared(s) : /\ Cardinality(ExactEvidence(s, s.bounds[i])) = 1
                                  /\ \A e \in ExactEvidence(s, s.bounds[i]) : ~s.evidence[e].stale}
BoundaryGaps(s) ==
  {LET b == s.bounds[i] IN
     <<IF ExactEvidence(s, b) = {} THEN "boundary-evidence-missing-or-mismatched"
       ELSE IF Cardinality(ExactEvidence(s, b)) > 1 THEN "boundary-evidence-duplicate"
       ELSE "boundary-evidence-stale", b.id>> : i \in Declared(s) \ Traced(s)}
  \cup UNION {{<<"parameter-binding-invalid", p, s.bounds[i].id>> :
                 p \in {p \in DOMAIN s.bounds[i].values : ~Known(s.bounds[i].values[p][2])}} :
              i \in Traced(s)}

\* The boundaries that give p a value; of two for one case the last one counts.
Giving(s, p) == {i \in Traced(s) : /\ p \in DOMAIN s.bounds[i].values
                                   /\ Known(s.bounds[i].values[p][2])}
ParameterValues(s, p) ==
  [c \in {s.bounds[i].case : i \in Giving(s, p)} |->
     s.bounds[CHOOSE i \in Giving(s, p) :
                /\ s.bounds[i].case = c
                /\ \A j \in Giving(s, p) : s.bounds[j].case = c => j <= i].values[p]]
ParameterGap(s, p) ==
  LET v == ParameterValues(s, p)
      roles == {s.bounds[i].role : i \in Giving(s, p)}
  IN IF Cardinality(roles) # 1 THEN "parameter-role-conflict"
     ELSE IF DOMAIN v # Now(s) THEN "parameter-binding-incomplete"
     ELSE IF \E c, d \in DOMAIN v : ~Compatible(v[c][2], v[d][2]) THEN "parameter-unit-incompatible"
     ELSE IF roles = {"varied"} /\ \A c, d \in DOMAIN v :
                                     InBase(v[c][1], v[c][2]) = InBase(v[d][1], v[d][2])
          THEN "varied-parameter-not-varying" ELSE "bound"
ParameterContext(s) ==
  LET given == {p \in Params : Giving(s, p) # {}}
      bound == {p \in given : ParameterGap(s, p) = "bound"}
      Role(p) == s.bounds[CHOOSE i \in Giving(s, p) : TRUE].role
  IN [values |-> [p \in given |-> ParameterValues(s, p)],
      varied |-> {p \in bound : Role(p) = "varied"},
      controlled |-> {p \in bound : Role(p) = "controlled"},
      evidence |-> UNION {UNION {ExactEvidence(s, s.bounds[i]) : i \in Giving(s, p)} : p \in bound},
      gaps |-> BoundaryGaps(s) \cup {<<ParameterGap(s, p), p>> : p \in given \ bound}
                 \cup (IF \E p \in bound : Role(p) = "varied" THEN {}
                       ELSE {<<"comparison-factor-missing">>})]

Unresolved == {"parameter-binding-invalid", "parameter-binding-incomplete",
               "parameter-role-conflict", "parameter-unit-incompatible"}
Comparability(s, cs, par) ==
  IF \E g \in par.gaps : g[1] \in Unresolved THEN "unknown"
  ELSE IF \E i \in 1..(Len(cs) - 1) :
            LET Conditions(c) == [p \in par.controlled |-> par.values[p][c]]
            IN ~CaseComparable(<<Conditions(cs[i]), Conditions(cs[i + 1])>>,
                               <<s.cases[cs[i]].solver, s.cases[cs[i + 1]].solver>>)
       THEN "blocked" ELSE "verified"

(* One opportunity, on the series "names" over the cases "cs" *)
EvidenceLevel(s, ids) == IF ids = {} THEN "raw" ELSE Lowest(Maturities, {s.evidence[e].maturity : e \in ids})
SupportedClaims(s, support) ==
  {m \in DOMAIN s.claims : /\ s.claims[m].status = "supported"
                           /\ s.claims[m].evidence # {} /\ s.claims[m].evidence \subseteq support}
EffectiveCeiling(s, pattern, raw, claims) ==
  LET claimed == IF claims = {} THEN "association"
                 ELSE Highest(Ceilings, {s.claims[m].ceiling : m \in claims})
      capped == IF pattern = "coupled-association" THEN "association"
                ELSE IF pattern = "validation-robustness" THEN claimed
                ELSE IF Rank(Ceilings, claimed) >= Rank(Ceilings, "mechanism")
                THEN "mechanism" ELSE "association"
  IN Lowest(Ceilings, {raw, claimed, capped})

ClaimGaps(s, linked) ==
  {<<IF s.claims[m].status = "supported" THEN "claim-evidence-not-fully-current"
      ELSE "claim-status-blocked", m>> : m \in DOMAIN s.claims \ linked}
  \cup UNION {{<<"claim-evidence-unresolved", m, e>> : e \in s.claims[m].evidence \ DOMAIN s.evidence} :
              m \in DOMAIN s.claims \ linked}

\* What an opportunity is built from: [pattern, cases, names, polarity, trend, links].
Links(g) == g.links.validation \cup g.links.sensitivity \cup g.links.engineering
LinkedSupport(s, g, qs, par, sciences, tested) ==
  LET primary == UNION {sciences[k].primary : k \in qs}
      fresh == {e \in Links(g) \cap DOMAIN s.evidence : ~s.evidence[e].stale}
  IN IF primary # {} /\ \A k \in qs : sciences[k].valid
     THEN primary \cup fresh \cup par.evidence \cup UNION {tested[c].support : c \in g.cases} ELSE {}

Traceable(par) == /\ par.varied # {}
                  /\ ~\E x \in par.gaps : x[1] \in Unresolved \cup {"comparison-factor-missing"}
Gates(g, qs, par, comparability, sciences, tested) ==   \* six gates, by name
  {x \in {"traceable", "valid", "measured", "comparable", "converged", "closed"} :
     /\ x = "traceable" => Traceable(par)
     /\ x = "valid" => \A k \in qs : sciences[k].valid
     /\ x = "measured" => \E k \in qs : sciences[k].primary # {}
     /\ x = "comparable" => comparability = "verified"
     /\ x = "converged" => \A c \in g.cases : tested[c].grade = "strong"
     /\ x = "closed" => \A c \in g.cases : tested[c].conserves}

Rated(s, g, qs, par, comparability, sciences, tested, support, gates, claims) ==
  LET sound == /\ {"valid", "comparable", "converged", "closed"} \subseteq gates
               /\ \A k \in qs : sciences[k].complete
      maturity == Lowest(Maturities, {Maturity(TRUE, sound), EvidenceLevel(s, support)})
      validated == g.links.validation # {} /\ g.links.validation \subseteq support
      engineering == g.links.engineering # {} /\ g.links.engineering \subseteq support
      untested == UNION {tested[c].gaps : c \in g.cases}
      eligible == {"traceable", "valid", "measured"} \subseteq gates
      defensible == /\ eligible /\ "comparable" \in gates /\ untested = {}
                    /\ maturity \in {"verified", "author-approved"}
  IN [pattern |-> g.pattern, cases |-> g.cases, qois |-> qs, trend |-> g.trend,
      varied |-> par.varied, controlled |-> par.controlled, polarity |-> g.polarity,
      contrast |-> g.links.validation \cup g.links.sensitivity,
      comparability |-> comparability, maturity |-> maturity,
      ceiling |-> EffectiveCeiling(s, g.pattern, RawCeiling(maturity, validated, engineering), claims),
      support |-> support,
      constrained |-> (UNION {sciences[k].constrained : k \in qs}
                         \cup UNION {s.claims[m].evidence \cap DOMAIN s.evidence :
                                     m \in DOMAIN s.claims \ claims}) \ support,
      validated |-> validated, eligible |-> eligible, defensible |-> defensible,
      scope |-> IF defensible THEN "manuscript-topic"
                ELSE IF eligible THEN "direction-only" ELSE "missing-evidence",
      gates |-> Cardinality(gates),
      gaps |-> par.gaps \cup untested \cup ClaimGaps(s, claims)
                 \cup UNION {sciences[k].gaps : k \in qs}
                 \cup (IF comparability = "verified" THEN {} ELSE {<<"case-comparability-unverified">>})
                 \cup (IF sound THEN {} ELSE {<<"maturity-blocker">>})]

BuildOpportunity(s, g, par, comparability, sciences, tested) ==
  LET qs == g.names \X g.cases
      support == LinkedSupport(s, g, qs, par, sciences, tested)
  IN Rated(s, g, qs, par, comparability, sciences, tested, support,
           Gates(g, qs, par, comparability, sciences, tested), SupportedClaims(s, support))

(* QoI series: one value per current case, in one unit *)
SeriesCases(s, n) == {k[2] : k \in {k \in DOMAIN s.qois : k[1] = n}}
Measured(s, n) == \A c \in SeriesCases(s, n) : s.qois[<<n, c>>].value # {}
OneUnit(s, n) == \A c, d \in SeriesCases(s, n) : Compatible(s.qois[<<n, c>>].unit, s.qois[<<n, d>>].unit)
Paired(s, n) == SeriesCases(s, n) = Now(s) /\ Measured(s, n) /\ OneUnit(s, n)
Sample(s, n, c) == LET q == s.qois[<<n, c>>] IN InBase(CHOOSE x \in q.value : TRUE, q.unit)
Samples(s, n, cs) == [i \in DOMAIN cs |-> Sample(s, n, cs[i])]

NoLinks == [validation |-> {}, sensitivity |-> {}, engineering |-> {}]
Seed(pattern, cs, names, polarity, trend, links) ==
  [pattern |-> pattern, cases |-> Range(cs), names |-> names, polarity |-> polarity,
   trend |-> trend, links |-> links]
Whole(s) == {n \in Range(QoIs) : (\E k \in DOMAIN s.qois : k[1] = n) /\ Paired(s, n)}
Sign == [x \in {"monotonic-increasing", "monotonic-decreasing"} |->
           IF x = "monotonic-increasing" THEN 1 ELSE -1]

MatchedComparisons(s, cs, comparability) ==
  IF Len(cs) # 2 THEN {}
  ELSE {LET y == Samples(s, n, cs)
            polarity == IF comparability # "verified" \/ y[1] = y[2] THEN "difference-only"
                        ELSE IF y[2] > y[1] THEN "increase" ELSE "decrease"
        IN Seed("matched-comparison", cs, {n}, polarity, NoTrend, NoLinks) : n \in Whole(s)}

PolarityOf(trend) == IF trend = "monotonic-increasing" THEN "increase"
                     ELSE IF trend = "monotonic-decreasing" THEN "decrease"
                     ELSE IF trend = "plateau" THEN "plateau" ELSE "non-monotonic"
Response(n, cs, trend) ==
  Seed("ordered-parameter-response", cs, {n}, PolarityOf(trend), trend, NoLinks)
ResponsesByCase(s, par, cs) ==   \* a faulty variant: in the order of the ids
  IF Len(cs) < 3 \/ Cardinality(par.varied) # 1 THEN {}
  ELSE {Response(n, cs, Trend(Samples(s, n, cs))) : n \in Whole(s)}
OrderedResponses(s, par, cs) ==
  IF Len(cs) < 3 \/ Cardinality(par.varied) # 1 THEN {}
  ELSE LET p == CHOOSE p \in par.varied : TRUE
           X(c) == InBase(par.values[p][c][1], par.values[p][c][2])
           ordered == Sorted(cs, {e \in Pairs(cs) : X(cs[e[1]]) < X(cs[e[2]])})
       IN IF Cardinality({X(c) : c \in Range(cs)}) < Len(cs) THEN {}
          ELSE {Response(n, cs, Trend(Samples(s, n, ordered))) : n \in Whole(s)}

Constant(y) == \A i \in DOMAIN y : y[i] = y[1]
Together(left, right) == IF left \notin DOMAIN Sign \/ right \notin DOMAIN Sign THEN "not-applicable"
                         ELSE IF Sign[left] = Sign[right] THEN "positive" ELSE "negative"
CoupledAssociations(s, cs) ==
  IF Len(cs) < 3 THEN {}
  ELSE LET moving == {i \in DOMAIN QoIs : QoIs[i] \in Whole(s) /\ ~Constant(Samples(s, QoIs[i], cs))}
       IN {Seed("coupled-association", cs, {QoIs[e[1]], QoIs[e[2]]},
                Together(Trend(Samples(s, QoIs[e[1]], cs)), Trend(Samples(s, QoIs[e[2]], cs))),
                NoTrend, NoLinks) :
             e \in {e \in moving \X moving : e[1] < e[2]}}

ValidationOpportunities(s, cs) ==
  LET rated == {s.assess[c] : c \in Range(cs) \cap DOMAIN s.assess}
      links == [validation |-> UNION {a.validation : a \in rated},
                sensitivity |-> UNION {a.sensitivity : a \in rated},
                engineering |-> UNION {a.engineering : a \in rated}]
  IN IF Len(cs) < 2 \/ links.validation \cup links.sensitivity = {} THEN {}
     ELSE {Seed("validation-robustness", cs, {n}, "not-applicable", NoTrend, links) :
             n \in {n \in Whole(s) : \A c \in SeriesCases(s, n) : BasicallyValid(s, <<n, c>>)}}

Discovered(s, par, cs, comparability, sciences, tested) ==
  {BuildOpportunity(s, g, par, comparability, sciences, tested) :
     g \in MatchedComparisons(s, cs, comparability) \cup OrderedResponses(s, par, cs)
           \cup CoupledAssociations(s, cs) \cup ValidationOpportunities(s, cs)}
Compared(s, par, cs) ==
  Discovered(s, par, cs, Comparability(s, cs, par), QoIScience(s), [c \in Range(cs) |-> CaseScience(s, c)])
Discover(s) ==
  IF ~\E k \in DOMAIN s.qois : Usable(s.qois[k]) THEN {}
  ELSE Compared(s, ParameterContext(s), CurrentCases(s))

\* The opportunity's id is a digest of this.
Signature(o) == [f \in {"pattern", "cases", "qois", "varied", "controlled", "trend", "polarity", "contrast"} |-> o[f]]

(* What an opportunity and a discovery must satisfy, or the plan fails *)
Polarities == [p \in {"matched-comparison", "ordered-parameter-response", "coupled-association",
                      "validation-robustness"} |->
  CASE p = "matched-comparison" -> {"increase", "decrease", "difference-only"}
    [] p = "ordered-parameter-response" -> {"increase", "decrease", "non-monotonic", "plateau"}
    [] p = "coupled-association" -> {"positive", "negative", "not-applicable"}
    [] p = "validation-robustness" -> {"not-applicable"}]
WellFormed(o) ==
  /\ o.support \cap o.constrained = {} /\ o.varied \cap o.controlled = {}
  /\ o.defensible => o.eligible
  /\ o.scope \in (IF o.defensible THEN {"manuscript-topic"} ELSE IF o.eligible
                  THEN {"direction-only", "analysis-note"} ELSE {"missing-evidence"})
  /\ o.polarity \in Polarities[o.pattern]
AcceptedDiscovery(os) ==
  /\ \A o \in os : WellFormed(o)
  /\ \A o, p \in os : Signature(o) = Signature(p) => o = p
==============================================================================
