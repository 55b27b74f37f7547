----------------------------- MODULE TopicRecords -----------------------------
(* The structured records of a project and what a plan makes of them: files *)
(* change and are indexed, the author imports an envelope of records for a  *)
(* version of a file and saves QoIs, definitions, assessments and claims;   *)
(* each save is one transaction.  A plan reads the tables one after the     *)
(* other, each in a connection of its own, and then only computes.          *)
(* There is one source per case, named by the case; a version of it is the  *)
(* name of what it holds.                                                   *)
EXTENDS TopicRanking

CONSTANTS
  Versions,      \* what a file may hold
  Envelope,      \* case, version |-> [solver, bounds, evidence], the records of an import
  Number,        \* <<QoI, case>>, version |-> [value, unit, status]
  DefinitionOf,  \* <<QoI, case>> |-> [unit, named, complete, evidence, loc]
  Assessment,    \* case, version |-> the numerical assessment of that version, "of" which it is
  ClaimSets,     \* the claims an author may save: claim |-> [status, ceiling, evidence]
  FirstVersions, \* case |-> the version of its file all records are of at first: a set of these
  MaxSaves       \* bounds the operations on files and records

\* What is asked of the records: finite numbers of finite values, no negative
\* tolerance, known maturities and ceilings.  Params has every parameter named.
ASSUME RecordTypes ==
  /\ Cases \in Seq(Range(Cases)) /\ QoIs \in Seq(Range(QoIs)) /\ IsFiniteSet(Params) /\ MaxSaves \in Nat
  /\ FirstVersions \subseteq [Range(Cases) -> Versions]
  /\ \A u \in DOMAIN UnitOf : UnitOf[u].scale \in Int /\ UnitOf[u].offset \in Int
  /\ \A c \in Range(Cases), v \in Versions :
       LET e == Envelope[c][v]  a == Assessment[c][v] IN
       /\ e.bounds \in Seq(Range(e.bounds))
       /\ \A b \in Range(e.bounds) : \A p \in DOMAIN b.values : p \in Params /\ b.values[p][1] \in Int
       /\ IsFiniteSet(DOMAIN e.evidence)
       /\ \A x \in DOMAIN e.evidence : e.evidence[x].maturity \in Range(Maturities)
       /\ a.inflow \in Int /\ a.outflow \in Int /\ a.tolerance \in Nat
  /\ \A k \in (Range(QoIs)) \X (Range(Cases)), v \in Versions : Number[k][v].value \subseteq Int
  /\ ClaimSets # {}
  /\ \A claims \in ClaimSets : \A m \in DOMAIN claims : claims[m].ceiling \in Range(Ceilings)

VARIABLES
  sources,    \* case |-> [version, stale, indexed]: the row of sources and its versions
  rows,       \* the tables of records, in the shape of a snapshot
  loaded,     \* the snapshot so far, as read
  step,       \* the table to read next; "idle" between plans
  topics,     \* the opportunities and the ranking of the last plan
  saves

recordVars == <<sources, rows, loaded, step, topics, saves>>

CaseSet == Range(Cases)
Keys == (Range(QoIs)) \X CaseSet
Nothing == [os |-> {}, ranked |-> <<>>]

(* Reading: a record is stale when its source is or has another version *)
Outdated(src) == sources[src[1]].stale \/ sources[src[1]].version # src[2]
Listed(f) == [x \in DOMAIN f |-> [f[x] EXCEPT !.stale = @ \/ Outdated(f[x].src)]]
Tables == <<"cases", "bounds", "qois", "defs", "evidence", "claims", "assess">>
Read(table) == IF table \in {"cases", "bounds", "qois", "evidence"} THEN Listed(rows[table])
               ELSE rows[table]

(* Saving *)
Indexed(c, v) ==   \* _index_source_row: the same digest only refreshes the row
  [sources EXCEPT ![c] = [version |-> v, stale |-> FALSE, indexed |-> @.indexed \cup {v}]]
CaseRow(c, v) == [src |-> <<c, v>>, solver |-> Envelope[c][v].solver, stale |-> FALSE]
BoundRow(c, v, b) == [id |-> b.id, case |-> c, role |-> b.role, values |-> b.values,
                      src |-> <<c, v>>, loc |-> b.loc, stale |-> FALSE]
EvidenceRow(c, v, x) ==
  LET e == Envelope[c][v].evidence[x] IN
  [kind |-> e.kind, loc |-> e.loc, maturity |-> e.maturity, src |-> <<c, v>>, stale |-> FALSE]
QoIRow(k, v) ==
  LET n == Number[k][v] IN
  [value |-> n.value, unit |-> n.unit, status |-> n.status, src |-> <<k[2], v>>, stale |-> FALSE]
DefinitionRow(k, v) ==
  LET d == DefinitionOf[k] IN
  [unit |-> d.unit, named |-> d.named, complete |-> d.complete, evidence |-> d.evidence,
   loc |-> d.loc, src |-> <<k[2], v>>]
EnvelopeRows(c, v) ==   \* import_records_atomic: the source, then its records
  LET e == Envelope[c][v]
      Same(row) == {b \in Range(e.bounds) : b.id = row.id}
  IN [cases |-> [rows.cases EXCEPT ![c] = CaseRow(c, v)],
      bounds |-> [i \in DOMAIN rows.bounds |->   \* a row the envelope does not name stays
                    IF Same(rows.bounds[i]) # {}
                    THEN BoundRow(c, v, CHOOSE b \in Same(rows.bounds[i]) : TRUE) ELSE rows.bounds[i]],
      evidence |-> [x \in DOMAIN e.evidence \cup DOMAIN rows.evidence |->
                      IF x \in DOMAIN e.evidence THEN EvidenceRow(c, v, x) ELSE rows.evidence[x]],
      qois |-> rows.qois, defs |-> rows.defs, claims |-> rows.claims, assess |-> rows.assess]
Fresh(e) == e \in DOMAIN rows.evidence /\ ~rows.evidence[e].stale /\ ~Outdated(rows.evidence[e].src)
\* _validate_qoi_definition_assessment
DefinitionHolds(k, d) ==
  /\ k \in DOMAIN rows.qois /\ d.named /\ rows.qois[k].unit = d.unit /\ Known(d.unit)
  /\ \A e \in d.evidence : Fresh(e) /\ rows.evidence[e].src = d.src
  /\ \E e \in d.evidence : rows.evidence[e].kind = "qoi" /\ rows.evidence[e].loc = d.loc
\* _validate_scientific_assessment_set
AssessmentHolds(set) ==
  \A c \in DOMAIN set :
    /\ c \in DOMAIN rows.cases /\ ~rows.cases[c].stale /\ ~Outdated(rows.cases[c].src)
    /\ \A k \in AssessmentKinds : \A e \in set[c].evidence[k] :
         /\ Fresh(e) /\ rows.evidence[e].kind = k /\ rows.evidence[e].src = rows.cases[c].src
         /\ \A d \in DOMAIN set, j \in AssessmentKinds :
              e \in set[d].evidence[j] => d = c /\ j = k
    /\ \A e \in set[c].validation \cup set[c].sensitivity \cup set[c].engineering : Fresh(e)

Saves == /\ saves < MaxSaves /\ topics = Nothing   \* a run ends with its first plan
         /\ saves' = saves + 1 /\ UNCHANGED <<loaded, step, topics>>

\* An inspection finds other bytes in a file, or finds it again.
IndexSource(c, v) == Saves /\ sources' = Indexed(c, v) /\ sources' # sources /\ UNCHANGED rows
\* An inspection does not find it: mark_stale_except.
MarkStale(c) == Saves /\ ~sources[c].stale /\ sources' = [sources EXCEPT ![c].stale = TRUE] /\ UNCHANGED rows
Import(c, v) ==
  /\ Saves /\ <<c, v>> # rows.cases[c].src
  /\ sources' = Indexed(c, v) /\ rows' = EnvelopeRows(c, v)
SaveQoI(k, v) ==
  /\ Saves /\ v \in sources[k[2]].indexed   \* else "source hash is not an indexed version"
  /\ rows' = [rows EXCEPT !.qois[k] = QoIRow(k, v)] /\ rows' # rows
  /\ UNCHANGED sources
ReplaceDefinition(k, v) ==
  /\ Saves /\ DefinitionHolds(k, DefinitionRow(k, v))
  /\ rows' = [rows EXCEPT !.defs[k] = DefinitionRow(k, v)] /\ rows' # rows
  /\ UNCHANGED sources
SaveAssessments(c, v) ==   \* the whole set is saved again, with that of c renewed
  /\ Saves
  /\ LET set == [rows.assess EXCEPT ![c] = Assessment[c][v]] IN
       AssessmentHolds(set) /\ rows' = [rows EXCEPT !.assess = set]
  /\ v = rows.cases[c].src[2]
  /\ rows' # rows /\ UNCHANGED sources
SaveClaims(claims) ==
  /\ Saves /\ rows.claims # claims
  /\ rows' = [rows EXCEPT !.claims = claims] /\ UNCHANGED sources

(* A plan *)
StartPlan == /\ step = "idle" /\ topics = Nothing
             /\ step' = Tables[1] /\ UNCHANGED <<sources, rows, loaded, topics, saves>>
LoadTable == /\ step \in Range(Tables)
             /\ loaded' = [loaded EXCEPT ![step] = Read(step)]
             /\ LET i == CHOOSE i \in DOMAIN Tables : Tables[i] = step
                IN step' = IF i = Len(Tables) THEN "discover" ELSE Tables[i + 1]
             /\ UNCHANGED <<sources, rows, topics, saves>>
\* assess_conservation raises on a negative flow, of a stale case too.
Closable(s) == \A c \in DOMAIN s.cases \cap DOMAIN s.assess :
                 s.assess[c].inflow >= 0 /\ s.assess[c].outflow >= 0
GenerateTopics ==
  /\ step = "discover"
  /\ \E os \in {Discover(loaded)} :
       topics' = IF Closable(loaded) /\ AcceptedDiscovery(os)
                   THEN [os |-> os, ranked |-> RankTopics(loaded, os)] ELSE Nothing
  /\ step' = "idle" /\ UNCHANGED <<sources, rows, loaded, saves>>

FirstBounds(first) ==   \* those of the cases, one after the other
  LET Of(c) == LET given == Envelope[c][first[c]].bounds
               IN [i \in DOMAIN given |-> BoundRow(c, first[c], given[i])]
      upto[i \in 0..Len(Cases)] == IF i = 0 THEN << >> ELSE upto[i - 1] \o Of(Cases[i])
  IN upto[Len(Cases)]
FirstRows(first) ==
  LET ids == UNION {DOMAIN Envelope[c][first[c]].evidence : c \in CaseSet}
      Home(e) == CHOOSE c \in CaseSet : e \in DOMAIN Envelope[c][first[c]].evidence
  IN [cases |-> [c \in CaseSet |-> CaseRow(c, first[c])],
      bounds |-> FirstBounds(first),
      qois |-> [k \in Keys |-> QoIRow(k, first[k[2]])],
      defs |-> [k \in Keys |-> DefinitionRow(k, first[k[2]])],
      evidence |-> [e \in ids |-> EvidenceRow(Home(e), first[Home(e)], e)],
      claims |-> CHOOSE m \in ClaimSets : TRUE,
      assess |-> [c \in CaseSet |-> Assessment[c][first[c]]]]

RecordsInit ==
  /\ \E first \in FirstVersions :
       /\ sources = [c \in CaseSet |->
                      [version |-> first[c], stale |-> FALSE, indexed |-> {first[c]}]]
       /\ rows = FirstRows(first)
  /\ loaded = [t \in Range(Tables) |-> <<>>]
  /\ step = "idle" /\ topics = Nothing /\ saves = 0

RecordsNext ==
  \/ \E c \in CaseSet : MarkStale(c)
  \/ \E c \in CaseSet, v \in Versions : IndexSource(c, v) \/ Import(c, v) \/ SaveAssessments(c, v)
  \/ \E k \in Keys, v \in Versions : SaveQoI(k, v) \/ ReplaceDefinition(k, v)
  \/ \E claims \in ClaimSets : SaveClaims(claims)
  \/ StartPlan \/ LoadTable \/ GenerateTopics

RecordsSpec == RecordsInit /\ [][RecordsNext]_recordVars

-----------------------------------------------------------------------------
Defended == {o \in topics.os : o.defensible}

\* Of two traced boundaries of one case that give p a value, the last counts.
Counts(i, p) ==
  /\ p \in DOMAIN loaded.bounds[i].values
  /\ \A j \in Traced(loaded) :
       loaded.bounds[j].case = loaded.bounds[i].case /\ p \in DOMAIN loaded.bounds[j].values => j <= i

\* A topic is called fit for a manuscript only when, in the snapshot it was
\* made from, every case of it is current and assessed on evidence of its own
\* source version, converged and closed, every number has a complete definition
\* in its own dimension, the declared controls agree and the factor varies
\* (_build_opportunity and all it calls).
DefensibleIsEarned ==
  \A o \in Defended :
    /\ \A c \in o.cases :
         LET a == loaded.assess[c] IN
         /\ ~loaded.cases[c].stale /\ c \in DOMAIN loaded.assess
         /\ \A k \in AssessmentKinds : a.evidence[k] # {} /\ \A e \in a.evidence[k] :
              loaded.evidence[e].src = loaded.cases[c].src /\ ~loaded.evidence[e].stale
         /\ \A n \in DOMAIN a.targets : a.residuals[n] <= a.targets[n]
         /\ \A x \in a.span : x <= StrongSpan
         /\ a.inflow + a.outflow > 0 /\ 1000 * (a.inflow - a.outflow) <= a.tolerance * a.inflow
         /\ 1000 * (a.outflow - a.inflow) <= a.tolerance * a.outflow
    /\ \A k \in o.qois : ~loaded.qois[k].stale /\ loaded.defs[k].complete
                          /\ Compatible(loaded.qois[k].unit, loaded.defs[k].unit)
    /\ \A i, j \in Traced(loaded), p \in Params :
         LET b == loaded.bounds[i]  d == loaded.bounds[j] IN
         b.role = "controlled" /\ d.role = "controlled" /\ Counts(i, p) /\ Counts(j, p) =>
           InBase(b.values[p][1], b.values[p][2]) = InBase(d.values[p][1], d.values[p][2])
    /\ \E i, j \in Traced(loaded) :
         LET b == loaded.bounds[i]  d == loaded.bounds[j] IN
         /\ b.role = "varied" /\ d.role = "varied"
         /\ \E p \in DOMAIN b.values \cap DOMAIN d.values : b.values[p] # d.values[p]

\* Even when an import or an inspection falls between two of the reads of one
\* plan, the case, its parameters and the evidence behind both are of one
\* version of the source (load_scientific_snapshot).
OneVersionPerCase ==
  \A o \in Defended : \A c \in o.cases :
    \A i \in Traced(loaded) :
      loaded.bounds[i].case = c => loaded.bounds[i].src = loaded.cases[c].src

\* What a topic says of its samples is so for every pair of them: a rise or a
\* fall along the factor has no step the other way, and the sign of an
\* association is that of each pair of differences
\* (detect_trend, _relation_for_ordered, _coupled_associations).
RelationMatchesSamples ==
  \A o \in topics.os :
    LET Y(n, c) == Sample(loaded, n, c)
        names == {k[1] : k \in o.qois}
        par == ParameterContext(loaded)
        X(p, c) == InBase(par.values[p][c][1], par.values[p][c][2])
    IN IF o.pattern = "ordered-parameter-response" /\ o.polarity \in {"increase", "decrease"}
       THEN \A n \in names, p \in o.varied, c, d \in o.cases :
              X(p, c) < X(p, d) =>
                IF o.polarity = "increase" THEN Y(n, c) <= Y(n, d) ELSE Y(n, c) >= Y(n, d)
       ELSE IF o.pattern = "coupled-association" /\ o.polarity \in {"positive", "negative"}
       THEN \A m, n \in names, c, d \in o.cases :
              m # n => LET product == (Y(m, c) - Y(m, d)) * (Y(n, c) - Y(n, d))
                       IN IF o.polarity = "positive" THEN product >= 0 ELSE product <= 0
       ELSE TRUE

\* A claim goes beyond association only with evidence that is all verified and
\* a supported claim, as strong, on that evidence; validation needs in addition
\* validation evidence of its own (_effective_ceiling).
CeilingIsSupported ==
  \A o \in topics.os :
    Rank(Ceilings, o.ceiling) > Rank(Ceilings, "association") =>
      /\ \A e \in o.support : ~loaded.evidence[e].stale
                             /\ loaded.evidence[e].maturity \in {"verified", "author-approved"}
      /\ \E m \in DOMAIN loaded.claims :
           /\ loaded.claims[m].status = "supported"
           /\ loaded.claims[m].evidence \subseteq o.support
           /\ Rank(Ceilings, loaded.claims[m].ceiling) >= Rank(Ceilings, o.ceiling)
      /\ o.ceiling \in {"validation", "engineering"} => o.validated

\* What a topic says and how far it may claim both follow from the samples and
\* the evidence it was made from.
TopicsStateTheirEvidence == RelationMatchesSamples /\ CeilingIsSupported

\* A plan ends in a manuscript only when the topic that leads is fit for one, by
\* its opportunity and by its evidence both: current and verified, of every kind
\* (rank_topics, apply_generation_constraints).
ManuscriptIsEarned ==
  LET r == topics.ranked IN
  Outcome(r) = "manuscript" =>
    /\ \E o \in Defended : Signature(o) = r[1].topic
    /\ \A k \in RequiredKinds : \E o \in Defended, e \in DOMAIN loaded.evidence :
         /\ Signature(o) = r[1].topic /\ e \in o.support
         /\ loaded.evidence[e].kind = k /\ ~loaded.evidence[e].stale
         /\ loaded.evidence[e].maturity \in {"verified", "author-approved"}

\* A topic or a plan is called fit for a manuscript only on the records that
\* were read for it, read table by table while others write.
TopicsAreEarned == DefensibleIsEarned /\ OneVersionPerCase /\ ManuscriptIsEarned

\* The assessment behind a topic is of the version of the case it speaks of:
\* "Incomplete, stale, incomparable, weakly converged, or undefined evidence
\* remains a gap" (docs/releases/v0.2.0.md).
AssessmentIsCurrent ==
  \A o \in Defended : \A c \in o.cases : loaded.assess[c].of = loaded.cases[c].src[2]
===============================================================================
