---------------------------- MODULE MCManuscript ----------------------------
(* Two result sections with a computed value and a figure each, and a       *)
(* conclusion that shows the value of the first and depends on the second.  *)
EXTENDS Manuscript

MCSpine == <<"R1", "R2", "C">>
MCLocal == [s \in {"R1", "R2", "C"} |-> IF s = "C" THEN {} ELSE {"m"}]
MCRequired == [s \in {"R1", "R2", "C"} |-> IF s = "R1" THEN {"m"} ELSE {}]
MCFirstBind == [s \in {"R1", "R2", "C"} |->
                  IF s = "C" THEN [x \in {"x"} |-> <<"R1", "m">>] ELSE [x \in {} |-> None]]
MCFirstDepends == [s \in {"R1", "R2", "C"} |-> IF s = "C" THEN {"R2"} ELSE {}]
MCRefs == <<"a", "b">>
=============================================================================
