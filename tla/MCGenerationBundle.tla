-------------------------- MODULE MCGenerationBundle --------------------------
(* Two states of the records, two provider modes, one wording besides the  *)
(* offline one.                                                            *)
EXTENDS GenerationBundle

MCScience == {"s1", "s2"}
MCOpportunity == {"o1", "o2"}
MCOppOf == [s \in MCScience |-> IF s = "s2" THEN "o2" ELSE "o1"]
MCMode == {"offline", "openai"}
===============================================================================
