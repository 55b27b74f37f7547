------------------------- MODULE MCEvidenceWorkflow -------------------------
(* Records "r1" and "r2" differ in a comparison role that no evidence row  *)
(* carries, and "bad" has a blocker.  Observations "o3" lack a member that *)
(* both questions expect; question "q2" divides by a value that is zero in *)
(* "o2".                                                                   *)
EXTENDS EvidenceWorkflow

MCEvidence == [r \in Records |-> IF r = "bad" THEN "e2" ELSE "e1"]
MCInsufficient == Records \cap {"bad"}
MCMembers == Question \X (Observations \ {"o3"})
MCComputable == (Question \X Observations) \ {<<"q2", "o2">>}

\* A bound of the run: 6 commands in general; all MaxRuns as long as nothing
\* but the observations "o1" and "o2" has ever varied.
Narrow(c) == c.records = "r1" /\ c.question = "q1" /\ c.obs # "o3" /\ c.topic.envelope = "v1"
Long ==
  /\ inputs'.records = "r1" /\ inputs'.question = "q1" /\ inputs'.obs # "o3"
  /\ inputs'.sources /\ envelope' = "v1" /\ evidence' # "e2"
  /\ \A x \in given' : x.author = "A" /\ x.topic.envelope = "v1"
  /\ \A x \in locks' : x.author = "A" /\ Narrow(x.contract)
  /\ files'["report"] # None => files'["report"].value \in {"r1"} \X {"o1", "o2"}
  /\ files'["candidate"] # None => Narrow(files'["candidate"].value)
LongOrShort == IF runs' <= 6 THEN TRUE ELSE Long
==============================================================================
