----------------------------- MODULE TopicWording -----------------------------
(***************************************************************************)
(* The wording of generated topics (src/cfdpaper/topic_generation/         *)
(* refinement.py and the _refine of service.py): an AI provider may reword *)
(* the titles, questions, rationales and differentiations of a batch, and  *)
(* the program keeps the batch or falls back to its own wording.           *)
(*                                                                         *)
(* A text is a sequence of clauses, a clause a sequence of phrases.  A     *)
(* phrase stands for all its aliases ("increases" for "rises with"); words *)
(* without a role are left out.  The roles are "qoi", "qoi2", "param",     *)
(* "control", "variant", "reference", "validation", "scope", "evidence",   *)
(* "boundary", "signature" and the operators below.                        *)
(***************************************************************************)
EXTENDS Integers, Sequences, FiniteSets, SequencesExt

CONSTANTS
  Batches,    \* sequences of frames that are refined together; a frame, what
              \* science locks, is [class, polarity, ceiling, two, control]
  Texts(_)    \* the four texts a provider may send for a frame

VARIABLES
  batch,      \* the frames of this run, in the order of the topic IDs
  mode,       \* the provider mode the author asked for
  wording,    \* the wording of each topic, or << >>
  outcome,    \* "none", "refined", "fallback" or "raised"
  reason      \* why it fell back

wordingVars == <<batch, mode, wording, outcome, reason>>

\* Batches are sequences of frames, each of one of the four classes.
Classes == {"difference", "ordered", "association", "robustness"}
ASSUME WordingTypes ==
  \A b \in Batches : b \in Seq(ToSet(b)) /\ \A i \in DOMAIN b : b[i].class \in Classes

Fields == {"title", "question", "rationale", "differentiation"}

-----------------------------------------------------------------------------
(* RELATION_TEXT_POLICIES_V1.                                              *)
Signed == [increase |-> "higher", decrease |-> "lower"]
Ordered == [increase |-> "increases", decrease |-> "decreases", turning |-> "turns",
            plateau |-> "levels"]
Associated == [positive |-> "positively", negative |-> "negatively", unsigned |-> "associated"]
Escalations == {"causes", "window"}
Values(f) == {f[x] : x \in DOMAIN f}
Others(f, polarity) == {f[x] : x \in DOMAIN f \ {polarity}}

\* build_semantic_frame: what an opportunity locks; an association claims no
\* more than that, whatever its ceiling.
Frame(class, polarity, ceiling, two) ==
  [class |-> class, polarity |-> polarity, ceiling |-> ceiling, two |-> two, control |-> TRUE]
Predicate(f) == IF f.class = "association" THEN "association" ELSE f.ceiling

Operator(f) ==
  CASE f.class = "difference" -> IF f.polarity = "difference-only" THEN "differs"
                                 ELSE Signed[f.polarity]
    [] f.class = "ordered" -> Ordered[f.polarity]
    [] f.class = "association" -> Associated[f.polarity]
    [] f.class = "robustness" -> "robust"
Not(operator) == "not " \o operator

Forbidden(f) ==
  {Not(Operator(f))} \cup
  CASE f.class = "difference" -> Values(Signed) \ {Operator(f)}
    [] f.class = "ordered" -> Others(Ordered, f.polarity)
    [] f.class = "association" ->
         (IF f.polarity = "unsigned" THEN {"positively", "negatively"}
          ELSE Values(Associated) \ {Operator(f), "associated"}) \cup {"robust"} \cup Escalations
    [] f.class = "robustness" -> Values(Associated) \cup Escalations

Required(f) ==
  CASE f.class = "difference" -> {"variant", "qoi", "reference"}
    [] f.class = "ordered" -> {"qoi", "param"}
    [] f.class = "association" -> {"qoi", "qoi2"}
    [] f.class = "robustness" -> {"qoi", "validation"}

\* "operator", "ascending" ("Re rises") and "prefix" ("compared with") are
\* phrases of the frame, the rest are roles.
Layouts(f) ==
  CASE f.class = "difference" /\ f.polarity = "difference-only" ->
         {<<"variant", "operator", "reference">>, <<"reference", "operator", "variant">>,
          <<"operator", "variant", "reference">>, <<"operator", "reference", "variant">>}
    [] f.class = "difference" ->
         {<<"variant", "qoi", "operator", "reference">>,
          <<"prefix", "reference", "variant", "qoi", "operator">>}
    [] f.class = "ordered" -> {<<"qoi", "operator", "param">>,
                               <<"param", "ascending", "qoi", "operator">>}
    [] f.class = "association" -> {<<"qoi", "operator", "qoi2">>, <<"qoi2", "operator", "qoi">>}
    [] f.class = "robustness" -> {<<"qoi", "operator", "validation">>,
                                  <<"validation", "operator", "qoi">>}

Inverted(f) ==
  CASE f.class = "difference" /\ f.polarity # "difference-only" ->
         {<<"reference", "qoi", "operator", "variant">>,
          <<"prefix", "variant", "reference", "qoi", "operator">>}
    [] f.class = "ordered" -> {<<"param", "operator", "qoi">>,
                               <<"qoi", "ascending", "param", "operator">>}
    [] OTHER -> {}

-----------------------------------------------------------------------------
(* Reading a clause.                                                       *)
\* "not higher than" contains "higher than".
Says(phrase, word) ==
  phrase = word \/ (word \in {"higher", "lower", "differs"} /\ phrase = Not(word))
Mentions(clause, word) == \E i \in DOMAIN clause : Says(clause[i], word)

Fills(f, phrase, role) ==
  CASE role = "operator" -> Says(phrase, Operator(f))
    [] role = "ascending" -> phrase \in {"increases", "rises"}
    [] OTHER -> phrase = role

\* matches_ordered_layout: the roles occur in this order.
Follows(f, clause, layout) ==
  LET Reach(after, role) ==   \* the first position behind "after" that fills the role
        LET found == {i \in DOMAIN clause : i > after /\ Fills(f, clause[i], role)} IN
        IF found = {} THEN Len(clause) + 1 ELSE CHOOSE i \in found : \A j \in found : i <= j
  IN FoldLeft(LAMBDA after, role : Reach(after, role), 0, layout) <= Len(clause)

Contradicts(f, clause) ==
  \/ \E word \in Forbidden(f) : Mentions(clause, word)
  \/ \E layout \in Inverted(f) : Follows(f, clause, layout)

Roles(f) == {"qoi", "param", "variant", "reference", "scope", "evidence", "boundary", "signature"}
              \cup (IF f.two THEN {"qoi2"} ELSE {}) \cup (IF f.control THEN {"control"} ELSE {})
              \cup (IF f.class = "robustness" THEN {"validation"} ELSE {})

\* _fact_ids: QoIs and the varied parameter count as identifier and as role.
Facts(f, clause) ==
  {role \in Roles(f) : Mentions(clause, role)}
  \cup {"id " \o role : role \in {r \in Roles(f) \cap {"qoi", "qoi2", "param"} : Mentions(clause, r)}}
  \cup (IF Mentions(clause, Operator(f)) THEN {"relation"} ELSE {})
FactsOf(f, text) == UNION {Facts(f, text[i]) : i \in DOMAIN text}

States(f, clause) ==
  /\ Required(f) \cup {"relation", "scope"} \subseteq Facts(f, clause)
  /\ \E layout \in Layouts(f) : Follows(f, clause, layout)

Clauses(t) == t.question \o t.rationale

(* Plausible faults, one for each property; no specification uses them.    *)

(* The first clause that states the relation is taken wherever it is.      *)
PreservedAnywhere(f, t) == \E i \in DOMAIN Clauses(t) : States(f, Clauses(t)[i])

\* _relation_preserved reads no further than the first clause that states
\* the relation, and only question and rationale.
Preserved(f, t) ==
  \E i \in DOMAIN Clauses(t) :
    /\ States(f, Clauses(t)[i])
    /\ \A j \in 1..i : ~Contradicts(f, Clauses(t)[j])

-----------------------------------------------------------------------------
(* The program's own wording, and what may be added to it.                 *)
Quantities(f) == IF f.two THEN <<"qoi", "qoi2">> ELSE <<"qoi">>
Offline(f) ==
  LET cases == IF f.class = "difference" /\ f.polarity = "difference-only"
                 THEN <<"reference", "variant">>
               ELSE IF f.class = "difference" THEN <<"variant", "prefix", "reference">> ELSE << >>
      topic == CASE f.class = "association" -> Quantities(f) \o <<"scope", "param">>
                 [] f.class = "robustness" -> <<"validation">> \o Quantities(f) \o <<"param">>
                 [] OTHER -> cases \o Quantities(f) \o <<"param">>
      grounds == IF f.class = "association" THEN topic ELSE SelectSeq(topic, LAMBDA p : p # "param")
  IN [title |-> <<topic>>, question |-> <<topic>>,
      rationale |-> << <<"evidence">> \o grounds, << >> >>,
      differentiation |-> << <<"signature">> \o topic >>]

\* No text the program writes carries a number, a unit or an identifier.
Invented == {"number", "unit", "identifier"}
Superlatives == {"better", "window"}
Claims == [mechanism |-> {"causes"}, validation |-> {"validated"}, engineering |-> {"limit"}]

Bound(f, clause) == {"qoi", "param", "evidence", "variant", "reference"} \subseteq Facts(f, clause)

Risky(f, text) ==
  \/ \E i \in DOMAIN text, word \in Superlatives : Mentions(text[i], word)
  \/ \E class \in DOMAIN Claims, word \in UNION Values(Claims) :
       /\ word \in Claims[class] /\ \E i \in DOMAIN text : Mentions(text[i], word)
       /\ \/ Predicate(f) # class
          \/ ~\E i \in DOMAIN text : Mentions(text[i], word) /\ Bound(f, text[i])

Stands(f, t) ==   \* the relation is stated, or the program's own text is echoed
  \/ Preserved(f, t)
  \/ /\ ~\E i \in DOMAIN Clauses(t) : Contradicts(f, Clauses(t)[i])
     /\ \A field \in {"question", "rationale"} : t[field] = Offline(f)[field]

Distinguishes(f, t) ==
  \/ {"signature", "relation"} \cup ToSet(Quantities(f)) \subseteq FactsOf(f, t.differentiation)
  \/ t.differentiation = Offline(f).differentiation

\* _parse_batch for one topic: the reason to refuse the batch, or "".
Objection(f, t) ==
  IF \E field \in Fields : Risky(f, t[field]) THEN "escalation"
  ELSE IF \E field \in Fields : \E i \in DOMAIN t[field] : ToSet(t[field][i]) \cap Invented # {}
    THEN "invention"
  ELSE IF ~Stands(f, t) \/ ~Distinguishes(f, t) THEN "mismatch"
  ELSE ""

Words(t) == UNION {ToSet(clause) : clause \in ToSet(t.title \o t.question)}
Percent(part, whole) == IF whole = {} THEN 100 ELSE (100 * Cardinality(part)) \div Cardinality(whole)
Alike(t, u) == Words(t) # {} /\ Percent(Words(t) \cap Words(u), Words(t) \cup Words(u)) >= 85

Traits(f, t) == {<<field, fact>> : field \in {"title"}, fact \in FactsOf(f, t.title)}
                  \cup {<<field, fact>> : field \in {"question"}, fact \in FactsOf(f, t.question)}
\* How far a topic of the batch is from the next one, in per cent.
Margin(b, texts, i) ==
  LET near == {Percent(Traits(b[i], texts[i]) \cap Traits(b[j], texts[j]),
                       Traits(b[i], texts[i]) \cup Traits(b[j], texts[j])) : j \in DOMAIN b \ {i}}
  IN 100 - (IF near = {} THEN 0 ELSE CHOOSE x \in near : \A y \in near : y <= x)

\* _has_material_gain
Gains(b, texts, i) ==
  LET f == b[i]
      before == Offline(f)
      own == [j \in DOMAIN b |-> Offline(b[j])]
      changed == {field \in Fields : texts[i][field] # before[field]}
      gained == [field \in changed |-> FactsOf(f, texts[i][field]) \ FactsOf(f, before[field])]
      all == UNION {gained[field] : field \in changed}
      Whole(t) == UNION {FactsOf(f, t[field]) : field \in Fields}
  IN /\ Whole(before) \subseteq Whole(texts[i])
     /\ \A field \in {"title", "question"} : Required(f) \subseteq FactsOf(f, texts[i][field])
     /\ Cardinality(changed) >= 2
     /\ \/ Cardinality({field \in changed : gained[field] # {}}) >= 2 /\ Cardinality(all) >= 2
        \/ all # {} /\ Margin(b, texts, i) - Margin(b, own, i) >= 15

\* The whole of _parse_batch and refine_candidate_wording.
Refusal(b, texts) ==
  LET objections == {i \in DOMAIN b : Objection(b[i], texts[i]) # ""}
      first == CHOOSE i \in objections : \A j \in objections : i <= j
  IN IF \E i, j \in DOMAIN b : i # j /\ Alike(texts[i], texts[j]) THEN "duplicate"
     ELSE IF objections # {} THEN Objection(b[first], texts[first])
     ELSE IF \E i \in DOMAIN b : ~Gains(b, texts, i) THEN "no-gain"
     ELSE ""

Own(b) == [i \in DOMAIN b |-> Offline(b[i])]
Taken(b, texts) == IF Refusal(b, texts) = "" THEN texts ELSE Own(b)

-----------------------------------------------------------------------------
(* _refine of the generation service.                                      *)
WordingInit ==
  /\ batch \in Batches /\ mode \in {"offline", "auto", "explicit"}
  /\ wording = << >> /\ outcome = "none" /\ reason = ""

Ends(words, how, why) ==
  /\ outcome = "none"
  /\ wording' = words /\ outcome' = how /\ reason' = why
  /\ UNCHANGED <<batch, mode>>

KeepOffline == mode = "offline" /\ Ends(Own(batch), "fallback", "")

\* No provider, an unnamed model, or the provider raises.
Unavailable ==
  /\ mode # "offline"
  /\ IF mode = "auto" THEN Ends(Own(batch), "fallback", "unavailable")
     ELSE Ends(<< >>, "raised", "unavailable")

Malformed ==   \* no JSON, other topics, another order, another frame
  mode # "offline" /\ Ends(Own(batch), "fallback", "malformed")

\* ProviderRefinementEnvelope: four texts for every topic.
Legible(b, texts) ==
  DOMAIN texts = DOMAIN b /\ \A i \in DOMAIN b : texts[i] \in [Fields -> Seq(Seq(STRING))]
Reply(texts) ==
  /\ mode # "offline" /\ Legible(batch, texts)
  /\ LET refusal == Refusal(batch, texts) IN
       Ends(Taken(batch, texts), IF refusal = "" THEN "refined" ELSE "fallback", refusal)

Replies(b) ==
  FoldLeft(LAMBDA some, f : {Append(texts, t) : texts \in some, t \in Texts(f)}, {<< >>}, b)

WordingNext ==
  \/ KeepOffline \/ Unavailable \/ Malformed
  \/ \E texts \in Replies(batch) : Reply(texts)

WordingSpec == WordingInit /\ [][WordingNext]_wordingVars

-----------------------------------------------------------------------------
(* Properties.                                                             *)
WordingTypeOK ==
  /\ batch \in Batches /\ outcome \in {"none", "refined", "fallback", "raised"}
  /\ outcome \in {"refined", "fallback"} <=> DOMAIN wording = DOMAIN batch

(* What a clause says in plain reading: the phrases about the relation,    *)
(* in their order, contain "heat - increases - Re".                        *)
Statement(f, word) ==
  CASE f.class = "difference" /\ f.polarity = "difference-only" -> <<"variant", word, "reference">>
    [] f.class = "difference" -> <<"variant", "qoi", word, "reference">>
    [] f.class = "ordered" -> <<"qoi", word, "param">>
    [] f.class = "association" -> <<"qoi", word, "qoi2">>
    [] f.class = "robustness" -> <<"qoi", word, "validation">>
Kin(f) == CASE f.class = "difference" /\ f.polarity # "difference-only" -> Values(Signed)
            [] f.class = "ordered" -> Values(Ordered)
            [] f.class = "association" /\ f.polarity # "unsigned" -> {"positively", "negatively"}
            [] OTHER -> {Operator(f)}
Opposites(f) == (Kin(f) \ {Operator(f)}) \cup {Not(Operator(f))}
Asserts(f, clause, word) ==
  LET said == Statement(f, word)
      about == Required(f) \cup Kin(f) \cup Opposites(f)
  IN \E at \in [DOMAIN said -> {i \in DOMAIN clause : clause[i] \in about}] :
       /\ \A k \in DOMAIN said : clause[at[k]] = said[k]
       /\ \A k \in 1..(Len(said) - 1) :
            /\ at[k] < at[k + 1]
            /\ \A i \in (at[k] + 1)..(at[k + 1] - 1) : clause[i] \notin about
Denies(f, clause) == \E word \in Opposites(f) : Asserts(f, clause, word)

(* When a reworded question or rationale says the opposite of the locked   *)
(* relation anywhere, the relation itself was stated before it: no reader  *)
(* meets the denial first, in whatever clauses the provider splits it.     *)
RelationComesFirst ==
  outcome = "refined" =>
    \A i \in DOMAIN batch :
      LET clauses == Clauses(wording[i]) IN
      \A j \in DOMAIN clauses : Denies(batch[i], clauses[j]) =>
        \E k \in 1..(j - 1) : States(batch[i], clauses[k])

(* Provider wording cannot change the locked science: no text of a         *)
(* refined topic says the opposite of its relation.                        *)
NothingDenied ==
  outcome = "refined" =>
    \A i \in DOMAIN batch, field \in Fields : \A j \in DOMAIN wording[i][field] :
      ~Denies(batch[i], wording[i][field][j])

(* A batch is kept or refused as a whole: one topic's fault, which may be  *)
(* only that it resembles another or gains too little, costs all topics    *)
(* the provider's wording, and none keeps it beside the program's own.     *)
WholeBatch ==
  /\ outcome = "fallback" => wording = Own(batch)
  /\ outcome = "refined" => \A i \in DOMAIN batch : wording[i] # Own(batch)[i]

(* No refined text claims more than the topic's ceiling: causes only for a *)
(* mechanism, validation and operating limits only under their own, never  *)
(* for an association, and nothing is better than anything.                *)
NothingEscalates ==
  outcome = "refined" =>
    \A i \in DOMAIN batch, field \in Fields : \A clause \in ToSet(wording[i][field]) :
      \A word \in ToSet(clause) :
        /\ word \notin Superlatives
        /\ \A class \in DOMAIN Claims :
             word \in Claims[class] => batch[i].ceiling = class /\ batch[i].class # "association"

(* Provider wording keeps within the science that is locked: the relation  *)
(* comes first, and nothing claims more than the ceiling allows            *)
(* (_relation_preserved and _risk_code, through _parse_batch).             *)
LockedScienceHolds == RelationComesFirst /\ NothingEscalates

(* What the provider sends leaves the science of the topics as it was, and *)
(* is taken for the whole batch or for none of it (refine_candidate_wording). *)
ScienceSurvives == LockedScienceHolds /\ WholeBatch
===============================================================================
