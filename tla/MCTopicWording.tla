---------------------------- MODULE MCTopicWording ----------------------------
(* One topic of each kind of relation, and two in one batch. *)
EXTENDS TopicWording

Rise == Frame("ordered", "increase", "mechanism", FALSE)
Higher == Frame("difference", "increase", "mechanism", FALSE)
Differs == Frame("difference", "difference-only", "association", FALSE)
Joined == Frame("association", "positive", "mechanism", TRUE)
Robust == Frame("robustness", "unsigned", "validation", FALSE)
MCBatches == {<<Rise>>, <<Higher>>, <<Differs>>, <<Joined>>, <<Rise, Robust>>}

Stated(f) == Statement(f, Operator(f)) \o <<"scope", "param">>
Denied(f) == {Statement(f, word) \o <<"scope">> : word \in Opposites(f)}
Swapped(f) == Reverse(Statement(f, Operator(f))) \o <<"scope">>
Grounds(f) == <<"evidence", "control">> \o Stated(f)
Caused == <<"evidence", "variant", "reference", "param", "causes", "qoi">>
Mark(f) == <<"signature">> \o Quantities(f) \o <<Operator(f)>>
Titles(f) ==
  {Offline(f).title, <<Offline(f).title[1] \o <<"control">> >>, << <<"better">> \o Stated(f)>>}
  \cup {<<Offline(f).title[1], clause>> : clause \in Denied(f)}
Questions(f) ==
  {Offline(f).question, <<Stated(f) \o <<"control">> >>, <<Swapped(f)>>,
   <<Stated(f), <<"number">> >>}
  \cup {<<clause, Stated(f)>> : clause \in Denied(f)}
Rationales(f) ==
  {Offline(f).rationale, <<Grounds(f)>>, <<Grounds(f), Caused>>, <<Grounds(f), <<"causes">> >>}
  \cup {<<Grounds(f), clause>> : clause \in Denied(f)}
Differentiations(f) ==
  {Offline(f).differentiation, <<Mark(f)>>, <<Mark(f) \o <<"validated">> >>, << <<"qoi">> >>}
MCTexts(f) ==
  IF f = Robust
    THEN {Offline(f), [title |-> <<Stated(f)>>, question |-> <<Stated(f)>>,
                       rationale |-> <<Grounds(f)>>, differentiation |-> <<Mark(f)>>],
          [title |-> <<Stated(f)>>, question |-> <<Stated(f)>>,
           rationale |-> <<Grounds(f), <<"causes">> >>, differentiation |-> <<Mark(f)>>]}
  ELSE [title : Titles(f), question : Questions(f), rationale : Rationales(f),
        differentiation : Differentiations(f)]
===============================================================================
