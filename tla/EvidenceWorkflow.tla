-------------------------- MODULE EvidenceWorkflow --------------------------
(***************************************************************************)
(* The evidence workflow (qualification/service.py): qualify, approve the  *)
(* contract, analyze, approve the figure, write, approve the paragraph.    *)
(* Every command reads its inputs and the artifacts of earlier commands,   *)
(* writes its own artifacts file by file, and ends in one database         *)
(* transition.  No lock is held, the author edits the inputs at any time,  *)
(* and a command can stop between any two of its writes.                   *)
(*                                                                         *)
(* Fingerprints are collision free, so an artifact is represented by what  *)
(* its fingerprint binds: a contract is the question, records and          *)
(* observations it was derived from and the plan it belongs to, and an     *)
(* analysis is the contract it evaluates.  paragraph-duty.json and         *)
(* figure-approval.json are written and never read; they are left out, as  *)
(* is the project stage, which these commands set and never read.          *)
(***************************************************************************)
EXTENDS Naturals, Sequences

CONSTANTS
  Records,       \* contents of project-records.json
  Observations,  \* contents of observations.csv
  Question,      \* contents of question.json
  Envelope,      \* all else a plan depends on: topic candidates, other evidence
  Author,
  Evidence,      \* the evidence rows a records file is persisted as
  Insufficient,  \* records with a blocker (qualify_comparison)
  Members,       \* <<question, observations>> whose members agree
  Computable,    \* <<question, observations>> the operator can evaluate
  MaxRuns,       \* bound on commands
  MaxEdits,      \* bound on the author's edits
  MaxCuts,       \* bound on commands that stop half-way
  None

ASSUME EvidenceFunction == Evidence = [r \in Records |-> Evidence[r]]
ASSUME InputPairs == /\ Insufficient \subseteq Records
                     /\ Members \subseteq Question \X Observations
                     /\ Computable \subseteq Question \X Observations
ASSUME WorkflowBounds == MaxRuns \in Nat /\ MaxEdits \in Nat /\ MaxCuts \in Nat

VARIABLES
  inputs,    \* the three input files, and whether the declared sources are current
  evidence,  \* the evidence rows persisted last
  envelope,
  approval,  \* the manuscript-topic approval in topic-ranking.json
  files,     \* the artifacts
  rows,      \* table stages: status of qualify, figure and write
  cmd,       \* the command that runs
  runs, edits, cuts,
  given,     \* topic approvals authors gave (history)
  locks,     \* contracts authors approved (history)
  figures,   \* figure candidates authors approved (history)
  kept       \* the contract analyzed last is still the stored one (history)

project == <<evidence, envelope, approval>>
history == <<given, locks, figures, kept>>
counters == <<runs, edits, cuts>>
vars == <<inputs, project, files, rows, cmd, counters, history>>

Fingerprint == [evidence : {Evidence[r] : r \in Records} \cup {None}, envelope : Envelope]
Contract == [question : Question, records : Records, obs : Observations, topic : Fingerprint]
Signed == [contract : Contract, author : Author]
Approval == [topic : Fingerprint, author : Author]

(* The artifacts, by what they hold.                                       *)
Plain == {"report", "candidate", "results", "ceiling", "written"}
BySigner == {"locked", "figure", "drawn", "manifest", "delivery"}
Held(name) ==
  IF name = "report" THEN Records \X Observations
  ELSE IF name \in BySigner THEN Signed ELSE Contract
File(name) == [value : Held(name), stale : BOOLEAN] \cup {None}

Idle == [op |-> "none", at |-> "idle", records |-> None, pending |-> << >>, old |-> None]

TypeOK ==
  /\ inputs \in [records : Records, obs : Observations, question : Question, sources : BOOLEAN]
  /\ evidence \in {Evidence[r] : r \in Records} \cup {None}
  /\ envelope \in Envelope
  /\ approval \in Approval \cup {None}
  /\ DOMAIN files = Plain \cup BySigner
  /\ \A name \in DOMAIN files : files[name] \in File(name)
  /\ rows \in [qualify : {"none", "complete", "approved"}, figure : {"none", "approved"},
               write : {"none", "complete", "approved"}]
  /\ cmd.at \in {"idle", "persist", "load", "write"}
  /\ given \subseteq Approval /\ locks \subseteq Signed /\ figures \subseteq Signed
  /\ kept \in BOOLEAN

Init ==
  /\ inputs \in [records : Records, obs : Observations, question : Question, sources : {TRUE}]
  /\ evidence = None /\ envelope \in Envelope /\ approval = None
  /\ files = [name \in Plain \cup BySigner |-> None]
  /\ rows = [qualify |-> "none", figure |-> "none", write |-> "none"]
  /\ cmd = Idle
  /\ runs = 0 /\ edits = 0 /\ cuts = 0
  /\ given = {} /\ locks = {} /\ figures = {} /\ kept = FALSE

-----------------------------------------------------------------------------
Topic == [evidence |-> evidence, envelope |-> envelope]
Derived(topic) == [question |-> inputs.question, records |-> inputs.records,
                   obs |-> inputs.obs, topic |-> topic]
Agree == <<inputs.question, inputs.obs>> \in Members
Sufficient == inputs.records \notin Insufficient

(* load_json_model refuses a missing and a stale artifact.                 *)
Live(name) == files[name] # None /\ ~(files[name]).stale
Loaded(name) == (files[name]).value

Put(name, value) == [kind |-> "put", name |-> name, value |-> value]
Remove(name) == [kind |-> "remove", name |-> name, value |-> None]
Stale(name) == [kind |-> "stale", name |-> name, value |-> None]

(* A command that read what it needs goes on to its writes, in order; the  *)
(* last of them is followed by the transition named by op, if any.         *)
Writes(op, steps) ==
  cmd' = [Idle EXCEPT !.op = op, !.at = "write", !.pending = steps,
                      !.old = files["written"]]

(* _mark_stale, and then the error.                                        *)
MarkStale == Writes("none", << Stale("results"), Stale("ceiling"), Stale("figure"),
                               Stale("delivery") >>)

Begins == cmd.at = "idle" /\ runs < MaxRuns /\ runs' = runs + 1

-----------------------------------------------------------------------------
(* Plausible faults, one for each property; no specification uses them.    *)

(* Material that differs from the stored contract is accepted.             *)
CurrentUncompared ==
  /\ approval # None /\ rows.qualify # "none"
  /\ inputs.sources /\ Agree /\ Sufficient /\ Live("candidate")

(* Insufficient records are qualified.                                     *)
MaterialAny == Agree

(* The figure in the output directory is not compared with its candidate.  *)
ParagraphInputsUnapproved ==
  /\ Live("results") /\ Live("ceiling") /\ Live("figure") /\ Live("delivery")
  /\ Loaded("ceiling") = Loaded("results")
  /\ Loaded("figure").contract = Loaded("results")

-----------------------------------------------------------------------------
(* cfdpaper plan, as module PlanRun shows it: a plain plan keeps the       *)
(* approval of an unchanged fingerprint, an approving one replaces it.     *)
KeptApproval(topic) == IF approval # None /\ approval.topic = topic THEN approval ELSE None

Plan ==
  /\ Begins
  /\ approval' = KeptApproval(Topic)
  /\ UNCHANGED <<inputs, evidence, envelope, files, rows, cmd, edits, cuts, history>>

ApproveTopic(a) ==
  /\ Begins
  /\ approval' = [topic |-> Topic, author |-> a]
  /\ given' = given \cup {approval'}
  /\ UNCHANGED <<inputs, evidence, envelope, files, rows, cmd, edits, cuts, locks, figures, kept>>

-----------------------------------------------------------------------------
(* _load_material: members agree, and nothing blocks the comparison.       *)
Material == Agree /\ Sufficient

MayApprove(a) == approval # None /\ a = approval.author

(* _current_material: the stored candidate is what the inputs give now.    *)
Current ==
  /\ approval # None /\ rows.qualify # "none"
  /\ inputs.sources /\ Agree /\ Sufficient
  /\ Live("candidate") /\ Loaded("candidate") = Derived(approval.topic)

(* The differences it answers by marking the artifacts stale.              *)
Changed ==
  /\ approval # None /\ rows.qualify # "none"
  /\ \/ ~inputs.sources
     \/ ~Agree
     \/ Sufficient /\ Live("candidate") /\ Loaded("candidate") # Derived(approval.topic)

(* run_qualify reads the records a first time ...                          *)
Qualify ==
  /\ Begins
  /\ IF inputs.sources
       THEN cmd' = [Idle EXCEPT !.op = "qualify", !.at = "persist", !.records = inputs.records]
       ELSE MarkStale
  /\ UNCHANGED <<inputs, project, files, rows, edits, cuts, history>>

(* ... imports them and plans ...                                          *)
PersistedRows == Evidence[cmd.records]

QualifyPersist ==
  /\ cmd.at = "persist"
  /\ evidence' = PersistedRows
  /\ approval' = KeptApproval([evidence |-> evidence', envelope |-> envelope])
  /\ cmd' = [cmd EXCEPT !.at = "load"]
  /\ UNCHANGED <<inputs, envelope, files, rows, counters, history>>

(* ... and reads all three inputs.                                         *)
QualifyLoad ==
  /\ cmd.at = "load"
  /\ IF Material
       THEN Writes("qualify", << Put("report", <<inputs.records, inputs.obs>>),
                                 Put("candidate", Derived(Topic)) >>)
       ELSE cmd' = Idle
  /\ UNCHANGED <<inputs, project, files, rows, counters, history>>

(* approve_qoi_contract: everything but the topic must be as stored.       *)
SameScience(c) == [c EXCEPT !.topic = approval.topic] = Derived(approval.topic)

ApproveContract(a) ==
  LET contract == Derived(approval.topic)
      locked == [contract |-> contract, author |-> a] IN
  /\ Begins
  /\ rows.qualify # "none" /\ MayApprove(a) /\ Material /\ Live("candidate")
  /\ IF SameScience(Loaded("candidate"))
       THEN /\ Writes("approve", << Put("candidate", contract), Put("locked", locked) >>)
            /\ locks' = locks \cup {locked}
       ELSE MarkStale /\ UNCHANGED locks
  /\ UNCHANGED <<inputs, project, files, rows, edits, cuts, given, figures, kept>>

(* analyze_qoi verifies the locked contract against records and            *)
(* observations; the topic and the question it takes from the contract.    *)
Analyzed == Loaded("locked")
Evaluates(c) ==
  /\ c.records = inputs.records /\ c.obs = inputs.obs
  /\ <<c.question, inputs.obs>> \in Computable

Analyze ==
  /\ Begins
  /\ rows.qualify = "approved"
  /\ \/ Changed /\ MarkStale
     \/ /\ Current /\ Live("locked")
        /\ IF Evaluates(Analyzed.contract)
             THEN Writes("analyze", << Put("results", Analyzed.contract),
                                       Put("ceiling", Analyzed.contract),
                                       Put("figure", Analyzed) >>)
             ELSE MarkStale
  /\ UNCHANGED <<inputs, project, files, rows, edits, cuts, history>>

(* lock_figure_contract and _protect_local_script.                         *)
FigureBinds(a) ==
  /\ Live("results") /\ Live("ceiling") /\ Live("figure")
  /\ Loaded("figure").author = a /\ Loaded("figure").contract = Loaded("results")
  /\ Loaded("figure").contract.records = inputs.records
  /\ Loaded("figure").contract.obs = inputs.obs
  /\ ~(files["drawn"] # None /\ files["manifest"] = None)

ApproveFigure(a) ==
  /\ Begins
  /\ \/ Changed /\ MarkStale /\ UNCHANGED figures
     \/ /\ Current /\ MayApprove(a) /\ FigureBinds(a)
        /\ LET figure == Loaded("figure") IN
           /\ Writes("figure", << Put("drawn", figure), Put("manifest", figure),
                                  Put("delivery", figure) >>)
           /\ figures' = figures \cup {figure}
  /\ UNCHANGED <<inputs, project, files, rows, edits, cuts, given, locks, kept>>

(* results_paragraph._validate_inputs: the artifacts agree with each other *)
(* and with the files of the figure directory.                             *)
ParagraphInputs ==
  /\ Live("results") /\ Live("ceiling") /\ Live("figure") /\ Live("delivery")
  /\ Loaded("ceiling") = Loaded("results")
  /\ Loaded("figure").contract = Loaded("results")
  /\ Loaded("delivery") = Loaded("figure")
  /\ files["drawn"] # None /\ Loaded("drawn") = Loaded("delivery")

(* write_output_bundle_atomic moves the old directory away, then the new   *)
(* one into its place.                                                     *)
Swap(value) ==
  IF files["written"] = None THEN << Put("written", value) >>
  ELSE << Remove("written"), Put("written", value) >>

Write ==
  /\ Begins
  /\ rows.figure # "none"
  /\ \/ Changed /\ MarkStale
     \/ Current /\ ParagraphInputs /\ Writes("write", Swap(Loaded("results")))
  /\ UNCHANGED <<inputs, project, files, rows, edits, cuts, history>>

ApproveParagraph(a) ==
  /\ Begins
  /\ MayApprove(a) /\ rows.write # "none"
  /\ \/ Changed /\ MarkStale
     \/ /\ Current
        /\ Live("results") /\ Live("ceiling") /\ Live("figure") /\ Live("delivery")
        /\ Live("written")
        /\ IF Loaded("written") = Loaded("results") /\ ParagraphInputs
             THEN Writes("final", << >>)
             ELSE MarkStale
  /\ UNCHANGED <<inputs, project, files, rows, edits, cuts, history>>

-----------------------------------------------------------------------------
Apply(step) ==
  CASE step.kind = "put" -> [value |-> step.value, stale |-> FALSE]
    [] step.kind = "remove" -> None
    [] step.kind = "stale" /\ files[step.name] # None -> [files[step.name] EXCEPT !.stale = TRUE]
    [] OTHER -> None

(* The next file operation of the command.                                 *)
WriteNext ==
  LET step == Head(cmd.pending) IN
  /\ cmd.at = "write" /\ cmd.pending # << >>
  /\ files' = [files EXCEPT ![step.name] = Apply(step)]
  /\ cmd' = [cmd EXCEPT !.pending = Tail(cmd.pending)]
  /\ kept' = (kept /\ ~(step.kind = "put" /\ step.name \in {"candidate", "results"}
                        /\ files[step.name] # files'[step.name]))
  /\ UNCHANGED <<inputs, project, rows, counters, given, locks, figures>>

(* _save_transition.                                                       *)
Transition ==
  /\ cmd.at = "write" /\ cmd.pending = << >>
  /\ rows' = CASE cmd.op = "qualify" -> [rows EXCEPT !.qualify = "complete"]
               [] cmd.op = "approve" -> [rows EXCEPT !.qualify = "approved"]
               [] cmd.op = "figure" -> [rows EXCEPT !.figure = "approved"]
               [] cmd.op = "write" -> [rows EXCEPT !.write = "complete"]
               [] cmd.op = "final" -> [rows EXCEPT !.write = "approved"]
               [] OTHER -> rows
  /\ cmd' = Idle
  /\ kept' = IF cmd.op = "analyze" THEN Loaded("results") = Loaded("candidate") ELSE kept
  /\ UNCHANGED <<inputs, project, files, counters, given, locks, figures>>

(* A write fails, or the process is killed.  Only a failure, not a kill,   *)
(* puts the old paragraph directory back.                                  *)
Stop(killed) ==
  /\ cmd.at # "idle" /\ cuts < MaxCuts /\ cuts' = cuts + 1
  /\ files' = IF ~killed /\ cmd.op = "write" /\ files["written"] = None
                THEN [files EXCEPT !["written"] = cmd.old] ELSE files
  /\ cmd' = Idle
  /\ UNCHANGED <<inputs, project, rows, runs, edits, history>>

Edit ==
  /\ edits < MaxEdits /\ edits' = edits + 1
  /\ \/ \E r \in Records : inputs' = [inputs EXCEPT !.records = r] /\ UNCHANGED envelope
     \/ \E o \in Observations : inputs' = [inputs EXCEPT !.obs = o] /\ UNCHANGED envelope
     \/ \E q \in Question : inputs' = [inputs EXCEPT !.question = q] /\ UNCHANGED envelope
     \/ inputs' = [inputs EXCEPT !.sources = ~@] /\ UNCHANGED envelope
     \/ \E e \in Envelope : envelope' = e /\ UNCHANGED inputs
  /\ <<inputs, envelope>>' # <<inputs, envelope>>
  /\ UNCHANGED <<evidence, approval, files, rows, cmd, runs, cuts, history>>

Next ==
  \/ Plan \/ Qualify \/ QualifyPersist \/ QualifyLoad
  \/ Analyze \/ Write \/ WriteNext \/ Transition \/ Edit
  \/ \E a \in Author : \/ ApproveTopic(a) \/ ApproveContract(a)
                       \/ ApproveFigure(a) \/ ApproveParagraph(a)
  \/ \E killed \in BOOLEAN : Stop(killed)

Spec == Init /\ [][Next]_vars

-----------------------------------------------------------------------------
(* service.py, approve_qoi_contract: a locked contract is signed by an     *)
(* author who approved a manuscript topic of the same plan.                *)
LockedByTopicAuthor ==
  files["locked"] # None =>
    [topic |-> Loaded("locked").contract.topic, author |-> Loaded("locked").author] \in given

(* "Candidate objects are not locked objects" (design, section 3): however *)
(* commands are cut short, numbers and figures come from a contract its    *)
(* author approved, never from a mere candidate.                           *)
NumbersAreLocked ==
  /\ \A name \in {"results", "ceiling"} :
       files[name] # None => \E l \in locks : l.contract = Loaded(name)
  /\ \A name \in {"figure", "drawn", "delivery"} : files[name] # None => Loaded(name) \in locks

(* No results paragraph without the second checkpoint: the paragraph is    *)
(* about the numbers of a figure candidate its author approved.            *)
ParagraphFollowsFigure ==
  files["written"] # None => \E f \in figures : f.contract = Loaded("written")

(* Nothing passes a checkpoint unsigned, however commands are cut short,   *)
(* repeated or run again on other inputs: the contract, the numbers and    *)
(* the paragraph each rest on the approval the checkpoint asks for.        *)
CheckpointsHold == LockedByTopicAuthor /\ NumbersAreLocked /\ ParagraphFollowsFigure

(* Records with a blocker, members that do not agree and operators that    *)
(* cannot be evaluated never get past their checkpoint, even when inputs   *)
(* change while a command runs.                                            *)
Sound(c) == c.records \notin Insufficient /\ <<c.question, c.obs>> \in Members
OnlySoundEvidence ==
  /\ files["candidate"] # None => Sound(Loaded("candidate"))
  /\ \A name \in {"results", "written"} : files[name] # None =>
       /\ Sound(Loaded(name))
       /\ <<Loaded(name).question, Loaded(name).obs>> \in Computable

(* The stale propagation that works: as long as the contract analyzed last *)
(* stays the stored one, figure, paragraph and final approval start only   *)
(* from results of the inputs as they are.                                 *)
Starts(ops) == cmd.op = "none" /\ cmd'.op \in ops
KeptIsCurrent ==
  [][Starts({"figure", "write", "final"}) /\ kept =>
       Loaded("results") = Derived(approval.topic)]_vars

(* Design, section 12: "Before `analyze`, `figure`, or `write` reuses an   *)
(* artifact, it recomputes the fingerprint."  A paragraph is only written  *)
(* or approved for the inputs as they are.                                 *)
ParagraphIsCurrent ==
  [][Starts({"write", "final"}) => Loaded("results") = Derived(approval.topic)]_vars

(* The same for analyze: unless a command was cut short, it evaluates a    *)
(* contract for the question and the topic as they are.                    *)
AnalysisIsCurrent ==
  [][Starts({"analyze"}) /\ cuts = 0 =>
       Loaded("locked").contract = Derived(approval.topic)]_vars

(* What the stale propagation of the chain does keep up to date.           *)
DerivedIsCurrent == KeptIsCurrent /\ AnalysisIsCurrent
===============================================================================
