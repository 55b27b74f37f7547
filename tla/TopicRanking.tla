---------------------------- MODULE TopicRanking ----------------------------
(* From the opportunities of a snapshot to a ranking: the candidates that   *)
(* are made of them offline, the public ranking of candidates by evidence,  *)
(* and its projection back onto the opportunities.  Weights are integers.   *)
EXTENDS Opportunities

RequiredKinds == {"boundary", "case", "conservation", "convergence", "qoi"}

\* In 240ths: 0.20 + 0.25 gates/6 + 0.10 cases/4 + 0.10 + 0.10, at most 0.70.
Significance(o) ==
  LET n == Cardinality(o.cases)
      full == 48 + 10 * o.gates + 6 * (IF n > 4 THEN 4 ELSE n)
                + (IF o.maturity \in {"verified", "author-approved"} THEN 24 ELSE 0)
                + (IF o.validated THEN 24 ELSE 0)
  IN IF full > 168 THEN 168 ELSE full
Novelty == 48   \* the literature gap of a discovered opportunity is always "raw"

NearDuplicate(o, x) ==
  /\ o.pattern = x.pattern /\ o.qois = x.qois
  /\ o.varied = x.varied /\ o.controlled = x.controlled
  /\ 10 * Cardinality(o.cases \cap x.cases) >= 8 * Cardinality(o.cases \cup x.cases)

\* Ties are broken by the digest; the order of the set is as good as any.
Before(o, x) ==
  \/ o.defensible /\ ~x.defensible
  \/ /\ o.defensible = x.defensible
     /\ \/ Rank(Ceilings, o.ceiling) > Rank(Ceilings, x.ceiling)
        \/ o.ceiling = x.ceiling /\ Significance(o) > Significance(x)
Choose4(os) ==
  LET found == SetToSeq({o \in os : o.eligible})
      ranked == Sorted(found, {e \in Pairs(found) : Before(found[e[1]], found[e[2]])})
      chosen[k \in 0..Len(ranked)] ==
        IF k = 0 THEN << >>
        ELSE LET so == chosen[k - 1] IN
             IF Len(so) = 4 \/ \E i \in DOMAIN so : NearDuplicate(ranked[k], so[i])
             THEN so ELSE Append(so, ranked[k])
  IN chosen[Len(ranked)]
Skeleton(o) ==
  [topic |-> Signature(o), support |-> o.support, kinds |-> RequiredKinds,
   required |-> IF o.ceiling = "engineering" THEN "author-approved" ELSE "verified",
   minimum |-> Cardinality(RequiredKinds), significance |-> Significance(o), novelty |-> Novelty,
   scope |-> IF o.defensible THEN "manuscript-candidate" ELSE o.scope]
Candidates(os) == LET chosen == Choose4(os) IN [i \in DOMAIN chosen |-> Skeleton(chosen[i])]

(* The public ranking; it knows nothing of opportunities *)
RankCandidate(t, evidence) ==
  LET matched == t.support \cap DOMAIN evidence
      fresh == {e \in matched : ~evidence[e].stale}
      kinds == {evidence[e].kind : e \in matched}
      Best(k) == Highest(Maturities, {evidence[e].maturity : e \in {e \in fresh : evidence[e].kind = k}})
      immature == {k \in t.kinds \cap kinds :
                     \/ ~\E e \in fresh : evidence[e].kind = k
                     \/ Rank(Maturities, Best(k)) < Rank(Maturities, t.required)}
      mature == (t.kinds \cap kinds) \ immature
      verified == Cardinality({e \in fresh : evidence[e].maturity \in {"verified", "author-approved"}})
      enough == IF verified > t.minimum THEN t.minimum ELSE verified
  IN [topic |-> t.topic,
      \* in 2400ths: 0.55 kinds + 0.25 verified + 0.10 significance + 0.10 novelty
      score |-> IF matched = {} THEN 0
                ELSE (1320 * Cardinality(mature)) \div Cardinality(t.kinds)
                       + (600 * enough) \div t.minimum + t.significance + t.novelty,
      defensible |-> matched # {} /\ mature = t.kinds /\ verified >= t.minimum,
      missing |-> {<<"evidence-id", e>> : e \in t.support \ DOMAIN evidence}
                    \cup {<<"stale-evidence", e>> : e \in matched \ fresh}
                    \cup {<<"kind", k>> : k \in t.kinds \ kinds}
                    \cup {<<"maturity", k>> : k \in immature}]
Ahead(r, x) == \/ r.defensible /\ ~x.defensible
               \/ r.defensible = x.defensible /\ r.score > x.score
InOrder(ranked) == Sorted(ranked, {e \in Pairs(ranked) : Ahead(ranked[e[1]], ranked[e[2]])})
Outcome(ranked) == IF ranked = <<>> THEN "missing-evidence"
                   ELSE IF ranked[1].defensible THEN "manuscript"
                   ELSE IF ranked[1].score > 0 THEN "analysis-note" ELSE "missing-evidence"

\* The ranking under the ceilings of the opportunities: it can only take away.
Constrained(ranked, os) ==
  LET Cut(r) == LET o == CHOOSE o \in os : Signature(o) = r.topic
                IN [topic |-> r.topic, score |-> r.score, defensible |-> r.defensible /\ o.defensible,
                    missing |-> r.missing \cup {<<"offline", g>> : g \in o.gaps}]
  IN InOrder([i \in DOMAIN ranked |-> Cut(ranked[i])])

RankTopics(s, os) ==
  LET topics == Candidates(os)
  IN Constrained(InOrder([i \in DOMAIN topics |-> RankCandidate(topics[i], s.evidence)]), os)
==============================================================================
