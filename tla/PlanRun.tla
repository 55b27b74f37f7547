------------------------------- MODULE PlanRun -------------------------------
(***************************************************************************)
(* `cfdpaper plan` (planning.py, run_plan): one command reads the records, *)
(* ranks the topics, possibly takes over or records an author approval,    *)
(* replaces the report file, and then moves the database (plan row,        *)
(* project stage, checkpoint) in one transaction.  A command can die       *)
(* between the report and the transaction; the next one has to decide from *)
(* the two what was promised to the author.                                *)
(*                                                                         *)
(* plan.lock serialises plan commands, so one runs at a time.  Importing   *)
(* records, `inspect` and `qualify` do not take that lock, and the report  *)
(* is a file anybody can edit.  Generation is the register                 *)
(* GenerationBundle is proved to implement, so it is one step here.  A     *)
(* fingerprint is the triple of hashes it is computed from; an approval    *)
(* leaves out its fingerprint, which is that of the report or row around   *)
(* it (PlanReport's validator and _validated_current_approval insist).     *)
(***************************************************************************)
EXTENDS Naturals, Functions

CONSTANTS
  Source,       \* candidate sources: files of the author, and maybe ...
  Generated,    \* ... the generated file, used when there is no author file
  Content,      \* candidate envelopes
  ContentOf,    \* the envelope in each source
  Evidence,     \* contents of the evidence table
  Topic, Author,
  Standing,     \* how rank_topics places a topic, given envelope and evidence
  Mode,         \* provider modes
  Inspection,   \* inspection summaries
  Commands,     \* bound: source |-> the commands that may follow one on that source
  MaxRuns,      \* bound on plan commands
  MaxRevision,  \* bound on generation revisions
  MaxTamper,    \* bound, by source, on outside edits of the report
  None,         \* nothing: no report, no approval, no generation, no row
  Invalid       \* a report file PlanReport rejects

Scope == {"manuscript-topic", "direction-only"}

ASSUME SourceType == ContentOf \in [Source -> Content]
ASSUME StandingType ==
  Standing \in [Content \X Evidence -> [Topic -> Scope \cup {"unranked"}]]
ASSUME PlanBounds == MaxRuns \in Nat /\ MaxRevision \in Nat /\ MaxTamper \in [Source -> Nat]

Generation == [revision : 1..MaxRevision, evidence : Evidence, mode : Mode]
Fingerprint == [content : Content, evidence : Evidence, gen : Generation \cup {None}]
Approval == [topic : Topic, author : Author, scope : Scope, at : 0..MaxRuns]
Payload == [fp : Fingerprint, approval : Approval \cup {None}, inspection : Inspection]
PlanReport == [fp : Fingerprint, path : Source, approval : Approval \cup {None},
               inspection : Inspection]
ProjectStage == {"initialized", "inspected", "planned", "topic-approved", "qualified"}

(* _same_approval_identity: everything but the time of approval; and       *)
(* _checkpoint_id, the uuid5 of a fingerprint and an identity.             *)
Identity(a) == IF a = None THEN None ELSE <<a.scope, a.topic, a.author>>
CheckpointId == Fingerprint \X ((Scope \X Topic \X Author) \cup {None})
IdOf(fp, a) == <<fp, Identity(a)>>

VARIABLES
  evidence,      \* table evidence
  projectStage,  \* project_state.stage
  stageRow,      \* stages row 'plan'; status and approved_by follow its approval
  checkpoints,   \* table checkpoints, the rows plan writes
  report,        \* outputs/plan/topic-ranking.json
  generation,    \* the committed generation bundle
  run,           \* the plan command in progress, or the last one
  clock,         \* commands begun so far; stamps approvals
  requested,     \* history: <<fingerprint, identity>> authors asked for
  torn,          \* history: the command whose report outlived its transaction
  tampers        \* history: outside edits of the report

database == <<projectStage, stageRow, checkpoints>>
history == <<requested, torn, tampers>>
vars == <<evidence, projectStage, stageRow, checkpoints, report, generation, run,
          clock, requested, torn, tampers>>

Result == {"none", "ok", "rejected", "refused", "collision", "failed"}
Approve == (Topic \X Author) \cup {None}
Unfinished == [path : Source, approve : Approve, fp : Fingerprint]
Run == [at : {"idle", "generate", "decide", "write", "transition"},
        path : Source, approve : Approve, mode : Mode, regenerate : BOOLEAN,
        evidence : Evidence, inspection : Inspection, fp : Fingerprint \cup {None},
        report : PlanReport \cup {None}, payload : Payload \cup {None}, result : Result]

ASSUME CommandsType ==
  /\ Mode # {} /\ Inspection # {}
  /\ Commands \in [Source -> SUBSET [path : Source, approve : Approve, mode : Mode,
                                     regenerate : BOOLEAN, inspection : Inspection]]
ASSUME NoneIsNew ==
  /\ None \notin PlanReport /\ None \notin Payload
  /\ None \notin [topic : Topic, author : Author, scope : Scope \cup {"unranked"}, at : Nat]
  /\ None \notin Scope \X Topic \X Author /\ None \notin Topic \X Author
  /\ None \notin Unfinished /\ Invalid \notin PlanReport /\ Invalid # None

TypeOK ==
  /\ evidence \in Evidence
  /\ projectStage \in ProjectStage
  /\ stageRow \in Payload \cup {None}
  /\ DOMAIN checkpoints \subseteq CheckpointId /\ Range(checkpoints) \subseteq Payload
  /\ report \in PlanReport \cup {None, Invalid}
  /\ generation \in Generation \cup {None}
  /\ run \in Run
  /\ clock \in 0..MaxRuns /\ tampers \in Nat
  /\ requested \subseteq CheckpointId
  /\ torn \in Unfinished \cup {None}

Init ==
  /\ evidence \in Evidence
  /\ projectStage = "initialized"
  /\ stageRow = None /\ checkpoints = << >>
  /\ report = None /\ generation = None
  /\ \E p \in Source :
       run = [at |-> "idle", path |-> p, approve |-> None, mode |-> CHOOSE m \in Mode : TRUE,
              regenerate |-> FALSE, evidence |-> evidence,
              inspection |-> CHOOSE i \in Inspection : TRUE,
              fp |-> None, report |-> None, payload |-> None, result |-> "none"]
  /\ clock = 0 /\ requested = {} /\ torn = None /\ tampers = 0

Finish(result) ==
  run' = [run EXCEPT !.at = "idle", !.report = None, !.payload = None, !.result = result]

-----------------------------------------------------------------------------
(* The pieces of the decision, in the order of _run_plan.                  *)
Readable == report \notin {None, Invalid}
StandingOf(fp, topic) == Standing[<<fp.content, fp.evidence>>][topic]

(* _approval_for: the approval the command asks for.                       *)
Desired ==
  IF run.approve = None THEN None
  ELSE [topic |-> run.approve[1], author |-> run.approve[2],
        scope |-> StandingOf(run.fp, run.approve[1]), at |-> clock]

-----------------------------------------------------------------------------
(* Plausible faults, one for each property; no specification uses them.    *)

(* The approval of the report is believed without asking the database.     *)
ValidatedByReport == TRUE

(* Any approval makes the project topic-approved.                          *)
StageOfAny(p) == IF p.approval # None THEN "topic-approved" ELSE "planned"

(* An approval already given is neither carried over nor looked up.        *)
AsAsked == Desired

(* A command never recognises the report it left behind.                   *)
ReplaysNever == FALSE

-----------------------------------------------------------------------------
(* The report's approval counts when the report is for this fingerprint.   *)
ReportApproval == IF Readable /\ report.fp = run.fp THEN report.approval ELSE None

(* Without one, a command that approves looks at the approval in the row.  *)
Current ==
  IF ReportApproval # None THEN ReportApproval
  ELSE IF Desired # None /\ stageRow # None /\ stageRow.fp = run.fp
       THEN stageRow.approval ELSE None

(* _transition_for: the stage a plan payload puts the project in.          *)
StageOf(p) ==
  IF p.approval # None /\ p.approval.scope = "manuscript-topic"
    THEN "topic-approved" ELSE "planned"

Stored(p) == IdOf(p.fp, p.approval) \in DOMAIN checkpoints
             /\ checkpoints[IdOf(p.fp, p.approval)] = p

(* _can_replay_report_transition: this command repeats the one that wrote  *)
(* the report, and the database stands where that one found it.            *)
RepeatsReport ==
  /\ ReportApproval # None /\ Desired # None
  /\ report.path = run.path
  /\ Identity(ReportApproval) = Identity(Desired)
  /\ ~ /\ stageRow # None /\ stageRow.fp = run.fp
       /\ Identity(stageRow.approval) = Identity(ReportApproval)

Replays ==
  /\ RepeatsReport
  /\ IF stageRow = None
       THEN projectStage \in {"initialized", "inspected"} /\ checkpoints = << >>
       ELSE /\ stageRow.fp = run.fp
            /\ projectStage = StageOf(stageRow)
            /\ Stored(stageRow)

(* ... a plan row that stands elsewhere is a collision, not another case.  *)
ReplayConflicts == RepeatsReport /\ stageRow # None /\ ~Replays

(* _validated_current_approval: the row and its checkpoint both hold the   *)
(* current approval, down to its time when the report is where it is from. *)
Validated ==
  /\ stageRow # None /\ stageRow.fp = run.fp
  /\ Stored(stageRow)
  /\ stageRow.approval # None
  /\ Identity(stageRow.approval) = Identity(Current)
  /\ ReportApproval # None => ReportApproval = stageRow.approval

(* An identity approved before comes back with the time it had then.       *)
TargetId == IdOf(run.fp, Desired)
AsApproved == IF TargetId \in DOMAIN checkpoints THEN checkpoints[TargetId].approval ELSE Desired

Chosen ==
  IF Desired = None \/ (Current # None /\ Identity(Current) = Identity(Desired))
    THEN Current ELSE AsApproved

Reused ==
  Readable /\ report.fp = run.fp /\ report.path = run.path /\ report.approval = Chosen

NextReport ==
  IF Reused THEN report
  ELSE [fp |-> run.fp, path |-> run.path, approval |-> Chosen, inspection |-> run.inspection]

(* _stable_transition_payload: the payload of a checkpoint never changes.  *)
NextId == IdOf(run.fp, NextReport.approval)
NextPayload ==
  IF NextId \in DOMAIN checkpoints THEN checkpoints[NextId]
  ELSE [fp |-> run.fp, approval |-> NextReport.approval,
        inspection |-> NextReport.inspection]

Collides ==
  \/ ReplayConflicts
  \/ Current # None /\ ~Replays /\ ~Validated
  \/ /\ Desired # None /\ Current = None /\ ~Readable
     /\ TargetId \in DOMAIN checkpoints
  \/ NextPayload.approval # NextReport.approval

(* The topic is not ranked, or the old report cannot be read and nothing   *)
(* is approved anew: the command is turned down.                           *)
Rejects ==
  \/ report = Invalid /\ run.approve = None
  \/ Desired # None /\ Desired.scope = "unranked"

-----------------------------------------------------------------------------
(* The command takes the lock, indexes the sources and reads the records.  *)
(* --regenerate with a named source is turned down right there.            *)
Begin(p, approve, m, regenerate, i) ==
  /\ run.at = "idle" /\ clock < MaxRuns
  /\ regenerate => p = Generated
  /\ clock' = clock + 1
  /\ run' = [at |-> IF p = Generated THEN "generate" ELSE "decide",
             path |-> p, approve |-> approve, mode |-> m, regenerate |-> regenerate,
             evidence |-> evidence, inspection |-> i,
             fp |-> IF p = Generated THEN None
                    ELSE [content |-> ContentOf[p], evidence |-> evidence, gen |-> None],
             report |-> None, payload |-> None, result |-> "none"]
  /\ UNCHANGED <<evidence, database, report, generation, history>>

InStep ==
  /\ Readable /\ stageRow # None
  /\ stageRow.fp = report.fp /\ stageRow.approval = report.approval

(* _generation_report_is_integrated: the committed generation is the one   *)
(* the report ranks and the plan row records.                              *)
Integrated == InStep /\ report.fp.gen = generation

(* A generation whose plan was interrupted is finished, not replaced.      *)
Regenerates == run.regenerate /\ (generation = None \/ Integrated)

Ranks(gen) ==
  run' = [run EXCEPT !.at = "decide",
                     !.fp = [content |-> ContentOf[Generated], evidence |-> run.evidence,
                             gen |-> gen]]

CannotTell == run.regenerate /\ report = Invalid
SameScience == generation # None /\ generation.evidence = evidence

(* The generator reads the evidence table a second time.                   *)
ReuseGeneration ==
  /\ run.at = "generate" /\ ~CannotTell
  /\ SameScience /\ generation.mode = run.mode /\ ~Regenerates
  /\ Ranks(generation)
  /\ UNCHANGED <<evidence, database, report, generation, clock, history>>

NextRevision == IF generation = None THEN 1 ELSE generation.revision + 1

NewGeneration ==
  /\ run.at = "generate" /\ ~CannotTell
  /\ ~SameScience \/ Regenerates
  /\ NextRevision <= MaxRevision
  /\ generation' = [revision |-> NextRevision, evidence |-> evidence, mode |-> run.mode]
  /\ Ranks(generation')
  /\ UNCHANGED <<evidence, database, report, clock, history>>

(* The provider mode changed without --regenerate taking effect.           *)
RefuseGeneration ==
  /\ run.at = "generate" /\ ~CannotTell
  /\ SameScience /\ generation.mode # run.mode /\ ~Regenerates
  /\ Finish("refused")
  /\ UNCHANGED <<evidence, database, report, generation, clock, history>>

TurnDown ==
  /\ \/ run.at = "generate" /\ CannotTell
     \/ run.at = "decide" /\ Rejects
  /\ Finish("rejected")
  /\ UNCHANGED <<evidence, database, report, generation, clock, history>>

Ask ==
  requested' = IF Desired = None THEN requested ELSE requested \cup {TargetId}

(* "deterministic checkpoint ID collision": nothing has been written.      *)
Collide ==
  /\ run.at = "decide" /\ ~Rejects /\ Collides
  /\ Finish("collision")
  /\ Ask
  /\ UNCHANGED <<evidence, database, report, generation, clock, torn, tampers>>

Decide ==
  /\ run.at = "decide" /\ ~Rejects /\ ~Collides
  /\ run' = [run EXCEPT !.at = IF Reused THEN "transition" ELSE "write",
                        !.report = NextReport, !.payload = NextPayload]
  /\ Ask
  /\ UNCHANGED <<evidence, database, report, generation, clock, torn, tampers>>

(* A command that ends here leaves its report to the next one.             *)
Command == [path |-> run.path, approve |-> run.approve, fp |-> run.fp]
LeaveTorn == torn' = IF run.at = "transition" /\ ~InStep THEN Command ELSE torn

(* _atomic_write_report.                                                   *)
WriteReport ==
  /\ run.at = "write"
  /\ report' = run.report
  /\ run' = [run EXCEPT !.at = "transition"]
  /\ UNCHANGED <<evidence, database, generation, clock, history>>

(* save_workflow_transition: one transaction, rolled back when the         *)
(* checkpoint is there with another payload.                               *)
Transition ==
  /\ run.at = "transition"
  /\ LET id == IdOf(run.payload.fp, run.payload.approval) IN
     IF id \in DOMAIN checkpoints /\ checkpoints[id] # run.payload
     THEN Finish("collision") /\ LeaveTorn /\ UNCHANGED database
     ELSE /\ stageRow' = run.payload
          /\ projectStage' = StageOf(run.payload)
          /\ checkpoints' = [c \in DOMAIN checkpoints \cup {id} |->
                               IF c = id THEN run.payload ELSE checkpoints[c]]
          /\ torn' = None
          /\ Finish("ok")
  /\ UNCHANGED <<evidence, report, generation, clock, requested, tampers>>

(* A failed provider, file or database operation, or the process dies.     *)
Stop ==
  /\ run.at # "idle"
  /\ Finish("failed")
  /\ LeaveTorn
  /\ UNCHANGED <<evidence, database, report, generation, clock, requested, tampers>>

-----------------------------------------------------------------------------
(* Records are imported or their sources go stale; no plan lock is taken.  *)
ChangeEvidence(e) ==
  /\ e # evidence /\ evidence' = e
  /\ UNCHANGED <<database, report, generation, run, clock, history>>

(* `inspect` sets the project stage whatever it was.                       *)
Inspect ==
  /\ projectStage # "inspected" /\ projectStage' = "inspected"
  /\ UNCHANGED <<evidence, stageRow, checkpoints, report, generation, run, clock, history>>

(* `qualify` does, once a plan command of its own has gone through.        *)
Qualify ==
  /\ stageRow # None
  /\ projectStage # "qualified" /\ projectStage' = "qualified"
  /\ UNCHANGED <<evidence, stageRow, checkpoints, report, generation, run, clock, history>>

(* The report file is deleted, damaged, or edited into another report that *)
(* PlanReport accepts: with no approval, or with one nobody asked for.     *)
Tamper ==
  /\ tampers < MaxTamper[run.path] /\ tampers' = tampers + 1
  /\ report # None
  /\ \/ report' \in {None, Invalid}
     \/ Readable /\ report' = [report EXCEPT !.approval = None]
     \/ \E t \in Topic, a \in Author :
          /\ Readable /\ StandingOf(report.fp, t) # "unranked"
          /\ report' = [report EXCEPT !.approval =
                          [topic |-> t, author |-> a,
                           scope |-> StandingOf(report.fp, t), at |-> 0]]
  /\ report' # report
  /\ UNCHANGED <<evidence, database, generation, run, clock, requested, torn>>

Plan ==
  \/ ReuseGeneration \/ NewGeneration \/ RefuseGeneration
  \/ TurnDown \/ Collide \/ Decide \/ WriteReport \/ Transition

Next ==
  \/ \E c \in Commands[run.path] : Begin(c.path, c.approve, c.mode, c.regenerate, c.inspection)
  \/ Plan
  \/ Stop
  \/ \E e \in Evidence : ChangeEvidence(e)
  \/ Inspect
  \/ Qualify
  \/ Tamper

Spec == Init /\ [][Next]_vars

-----------------------------------------------------------------------------
Untouched == tampers = 0

(* The row and the checkpoints can be trusted whatever happened to the     *)
(* report file: the row is one of the checkpoints, and every approval in   *)
(* them is one an author asked for, for that very fingerprint.             *)
DatabaseIsGenuine ==
  /\ stageRow # None => Stored(stageRow)
  /\ \A id \in DOMAIN checkpoints :
       checkpoints[id].approval # None => id \in requested

(* A project is topic-approved only while its plan row carries the         *)
(* approval of a topic that is defensible on the evidence of that row.     *)
ApprovedIsDefensible ==
  projectStage = "topic-approved" =>
    /\ stageRow.approval # None
    /\ StandingOf(stageRow.fp, stageRow.approval.topic) = "manuscript-topic"

(* Unless a command was cut short between the two, report and row agree,   *)
(* so a later command finds the approval it has to keep.                   *)
ReportMatchesRow ==
  Untouched /\ torn = None /\ run.at # "transition" /\ report # None =>
    /\ stageRow # None
    /\ report.fp = stageRow.fp /\ report.approval = stageRow.approval

(* What is in force stands: an approved project on its evidence, and the   *)
(* report and the row on each other, over every order of plain plans,      *)
(* approvals, changing records, retries and commands of other parts.       *)
ApprovalsStand == ApprovedIsDefensible /\ ReportMatchesRow

(* No command ends in a collision unless one before it was cut short or    *)
(* the report was edited: legal commands in any order do not.              *)
CollisionNeedsCause ==
  run.result = "collision" => torn # None \/ ~Untouched

(* Repeating the command that was cut short repairs the plan, as long as   *)
(* the row is for the same fingerprint and nothing moved the stage.        *)
Retried == run.result = "collision" /\ Untouched /\ torn = Command
RepairsInPlace ==
  Retried => stageRow # None /\ (stageRow.fp # run.fp \/ projectStage # StageOf(stageRow))

(* test_planning.py says so of a retry whatever the row is for:            *)
(* test_run_plan_repairs_report_after_one_database_transition_failure.     *)
RetryRepairs ==
  Retried => stageRow # None /\ projectStage # StageOf(stageRow)

(* While the report is in step with the row, a command that approves       *)
(* nothing leaves the approval of an unchanged fingerprint in force.       *)
ApprovalKept ==
  [][stageRow' # stageRow /\ stageRow # None /\ stageRow.approval # None
       /\ run.approve = None /\ Untouched /\ torn = None
     => stageRow'.fp # stageRow.fp]_vars

(* With unchanged records, --regenerate never discards a generation whose  *)
(* plan was interrupted before it reached the database.                    *)
UnintegratedKept ==
  [][generation' # generation /\ generation # None /\ generation'.evidence = generation.evidence
     => stageRow # None /\ stageRow.fp.gen = generation]_vars

(* A plan never throws away what an author or a provider gave: neither an  *)
(* approval whose records are unchanged nor an unintegrated generation.    *)
WorkKept == ApprovalKept /\ UnintegratedKept
===============================================================================
