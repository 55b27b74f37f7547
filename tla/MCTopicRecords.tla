---------------------------- MODULE MCTopicRecords ----------------------------
(* Three cases that vary Re and hold T, two QoIs, two versions of each file. *)
(* In version "w", the control differs and the heat falls in case "b", the   *)
(* solver is another in "a", and "c" converges less and is less mature.      *)
EXTENDS TopicRecords

MCUnitOf == [u \in {"K", "degC", "N", "mN", "1"} |->
  CASE u = "K" -> [dimension |-> "temperature", scale |-> 1, offset |-> 0]
    [] u = "degC" -> [dimension |-> "temperature", scale |-> 1, offset |-> 273]
    [] u = "N" -> [dimension |-> "force", scale |-> 1000, offset |-> 0]
    [] u = "mN" -> [dimension |-> "force", scale |-> 1, offset |-> 0]
    [] OTHER -> [dimension |-> "none", scale |-> 1, offset |-> 0]]

Row(kind, loc, maturity) == [kind |-> kind, loc |-> loc, maturity |-> maturity]
Mature(c, v) == IF c = "c" /\ v = "w" THEN "screened" ELSE "verified"
MCEnvelope == [c \in {"a", "b", "c"} |-> [v \in {"v", "w"} |->
  [solver |-> IF c = "a" /\ v = "w" THEN "other" ELSE "fluent",
   bounds |-> <<[id |-> <<"Re", c>>, role |-> "varied", loc |-> "re",
                 values |-> ("Re" :> <<CASE c = "a" -> 30 [] c = "b" -> 10 [] OTHER -> 20, "1">>)],
                [id |-> <<"T", c>>, role |-> "controlled", loc |-> "t",
                 values |-> ("T" :> IF c = "b" THEN <<IF v = "w" THEN 28 ELSE 27, "degC">>
                                    ELSE <<300, "K">>)]>>,
   evidence |-> (<<"Re", c>> :> Row("boundary", "re", "verified"))
                @@ (<<"T", c>> :> Row("boundary", "t", "verified"))
                @@ (<<"case", c>> :> Row("case", "case", "verified"))
                @@ (<<"convergence", c>> :> Row("convergence", "conv", Mature(c, v)))
                @@ (<<"conservation", c>> :> Row("conservation", "mass", "verified"))
                @@ (<<"heat", c>> :> Row("qoi", "heat", "verified"))
                @@ (<<"drag", c>> :> Row("qoi", "drag", "verified"))
                @@ (<<"test", c>> :> Row("validation", "test", "verified"))]]]

MCNumber == [k \in {"heat", "drag"} \X {"a", "b", "c"} |-> [v \in {"v", "w"} |->
  IF k[1] = "heat"
  THEN [value |-> {CASE k[2] = "a" -> 9 [] k[2] = "b" -> IF v = "w" THEN 8 ELSE 5 [] OTHER -> 7},
        unit |-> "1", status |-> "reported"]
  ELSE [value |-> IF k[2] = "c" /\ v = "w" THEN {}
                  ELSE {CASE k[2] = "a" -> 1 [] k[2] = "b" -> 3 [] OTHER -> 4000},
        unit |-> IF k[2] = "c" THEN "mN" ELSE "N", status |-> "derived"]]]
MCDefinitionOf == [k \in {"heat", "drag"} \X {"a", "b", "c"} |->
  [unit |-> IF k[1] = "heat" THEN "1" ELSE IF k[2] = "c" THEN "mN" ELSE "N",
   named |-> TRUE, complete |-> TRUE, evidence |-> {k}, loc |-> k[1]]]
MCAssessment == [c \in {"a", "b", "c"} |-> [v \in {"v", "w"} |->
  [of |-> v, residuals |-> ("mass" :> 1), targets |-> ("mass" :> 1),
   span |-> IF c = "c" /\ v = "w" THEN {7} ELSE {5},
   inflow |-> 100, outflow |-> 99, tolerance |-> 10,
   evidence |-> [k \in AssessmentKinds |-> {<<k, c>>}],
   validation |-> IF c = "b" THEN {<<"test", c>>} ELSE {}, sensitivity |-> {}, engineering |-> {}]]]
Claim(status, ceiling, evidence) ==
  "m" :> [status |-> status, ceiling |-> ceiling, evidence |-> evidence]
MCClaimSets == {Claim("supported", "validation", {<<"heat", "a">>, <<"heat", "b">>, <<"heat", "c">>}),
                Claim("draft", "validation", {<<"heat", "a">>}),
                Claim("supported", "mechanism", {<<"drag", "c">>})}
MCFirstVersions == {[c \in {"a", "b", "c"} |-> "v"], [c \in {"a", "b", "c"} |-> IF c = "b" THEN "w" ELSE "v"]}
MCCases == <<"a", "b", "c">>
MCQoIs == <<"drag", "heat">>
===============================================================================
