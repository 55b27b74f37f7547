-------------------------- MODULE MCTopicGeneration --------------------------
(* The two parts of a generation that have their own instances: the records *)
(* a plan reads and the topics made of them (TopicRecords), and the wording *)
(* of a batch of topics by a provider (TopicWording).  They share no state, *)
(* so a behaviour is one of the records or one of a batch.                  *)
EXTENDS MCTopicRecords, MCTopicWording

VARIABLES part

\* The other part stays in one state.
Unread == \A c \in CaseSet : sources[c].version = "v"
Unworded == batch = <<>> /\ mode = "offline" /\ wording = <<>> /\ outcome = "none" /\ reason = ""

GenerationInit ==
  /\ part \in {"records", "wording"}
  /\ RecordsInit
  /\ IF part = "records" THEN Unworded ELSE Unread /\ WordingInit
GenerationNext ==
  \/ part = "records" /\ RecordsNext /\ UNCHANGED <<part, wordingVars>>
  \/ part = "wording" /\ WordingNext /\ UNCHANGED <<part, recordVars>>
GenerationSpec == GenerationInit /\ [][GenerationNext]_<<part, recordVars, wordingVars>>
===============================================================================
