-------------------------- MODULE GenerationRegister --------------------------
(***************************************************************************)
(* What topic generation promises its caller (src/cfdpaper/                *)
(* topic_generation/service.py): one committed bundle per project, named   *)
(* by a revision that grows by one, and every call that returns a bundle   *)
(* returns the committed one.  Crashes, failed calls and damaged files do  *)
(* not show: they are stuttering steps.  GenerationBundle implements it.   *)
(***************************************************************************)
EXTENDS Naturals

CONSTANTS Science, Mode, Opportunity, Wording, None

VARIABLES
  committed,  \* the bundle: its science, provider mode, artifacts and revision
  returned    \* what the last call returned

vars == <<committed, returned>>

Init == committed = None /\ returned = None

Begin == returned' = None /\ UNCHANGED committed

(* The candidates are always worded from the opportunities beside them.    *)
Commit(s, m, o, w) ==
  /\ committed' = [science |-> s, mode |-> m, opp |-> o, cand |-> <<o, w>>,
                   revision |-> IF committed = None THEN 1 ELSE committed.revision + 1]
  /\ UNCHANGED returned

Return ==
  /\ committed # None
  /\ returned' = committed
  /\ UNCHANGED committed

Next == Begin \/ Return
        \/ \E s \in Science, m \in Mode, o \in Opportunity, w \in Wording : Commit(s, m, o, w)

Spec == Init /\ [][Next]_vars
===============================================================================
