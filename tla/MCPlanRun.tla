------------------------------- MODULE MCPlanRun -------------------------------
(* Two sources with the same envelope; one topic whose standing falls when *)
(* the evidence goes, one that is always direction-only.                   *)
EXTENDS PlanRun

MCContentOf == [p \in Source |-> IF p = Generated THEN "drafted" ELSE "given"]
MCContent == {"given", "drafted"}
MCEvidence == {"e1", "e2"}
MCStanding ==
  [x \in MCContent \X MCEvidence |->
     [t \in Topic |-> IF t = "t2" THEN "direction-only"
                        ELSE IF x[2] = "e1" THEN "manuscript-topic" ELSE "unranked"]]

MCMaxTamper == [p \in Source |-> IF p = Generated THEN 0 ELSE 1]

\* A project has the author's files, and then the mode is of no consequence
\* and the inspection goes with the file, or it generates, and then on one topic.
MCCommands ==
  LET All == [path : Source, approve : Approve, mode : Mode, regenerate : BOOLEAN, inspection : Inspection]
  IN [p \in Source |->
        IF p = Generated
        THEN {c \in All : c.path = p /\ c.inspection = 1 /\ (c.approve = None \/ c.approve[1] = "t1")}
        ELSE {c \in All : c.path # Generated /\ c.mode = "offline" /\ ~c.regenerate
                          /\ c.inspection = (IF c.path = "b" THEN 2 ELSE 1)}]
================================================================================
