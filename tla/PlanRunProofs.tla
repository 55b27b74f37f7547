----------------------------- MODULE PlanRunProofs -----------------------------
(***************************************************************************)
(* Proofs about PlanRun for every set of sources, topics, authors and      *)
(* commands, every ranking, and every number of commands and edits.        *)
(***************************************************************************)
EXTENDS PlanRun, TLAPS

(* An approval carries the standing its topic has in the ranking.          *)
Ranked(fp, approval) == approval # None => approval.scope = StandingOf(fp, approval.topic)

(* A checkpoint holds the payload its identifier names, and an approval in *)
(* it is one that was asked for.                                           *)
CheckpointsGenuine ==
  \A id \in DOMAIN checkpoints :
    /\ IdOf(checkpoints[id].fp, checkpoints[id].approval) = id
    /\ checkpoints[id].approval # None => id \in requested
    /\ Ranked(checkpoints[id].fp, checkpoints[id].approval)

(* The plan row is one of the checkpoints, and a project stage that speaks *)
(* of a plan has its row.                                                  *)
RowIsStored ==
  /\ stageRow # None => Stored(stageRow)
  /\ stageRow = None => checkpoints = << >> /\ projectStage \in {"initialized", "inspected"}
  /\ projectStage = "topic-approved" =>
       stageRow.approval # None /\ stageRow.approval.scope = "manuscript-topic"

(* Only an edit from outside makes the report unreadable, or lets it go.   *)
ReportIsThere ==
  Untouched => report # Invalid /\ (stageRow # None => report # None)

(* What a command has decided on until its transaction is through.         *)
Deciding == {"write", "transition"}
AskedIdentity(fp, approve) == <<StandingOf(fp, approve[1]), approve[1], approve[2]>>
Prepared ==
  LET p == run.payload
      id == IdOf(p.fp, p.approval)
  IN
  /\ run.report \in PlanReport /\ p \in Payload
  /\ run.report.fp = run.fp /\ run.report.path = run.path
  /\ p.fp = run.fp /\ p.approval = run.report.approval
  /\ p.approval # None => id \in requested
  /\ Ranked(p.fp, p.approval)
  /\ id \in DOMAIN checkpoints => checkpoints[id] = p
  /\ run.approve # None => Identity(p.approval) = AskedIdentity(run.fp, run.approve)
  /\ run.approve = None /\ p.approval # None =>
       stageRow # None /\ stageRow.fp = run.fp /\ stageRow.approval = p.approval
RunIsPrepared ==
  /\ run.at = "generate" => run.path = Generated
  /\ run.at \in {"decide", "write", "transition"} => run.fp \in Fingerprint
  /\ run.at \in Deciding => Prepared
  /\ run.at = "transition" /\ Untouched => report = run.report
  /\ run.result = "collision" => run.at = "idle"

(* A plain plan that found the approval in force has decided to keep it.   *)
ApprovalIsKept ==
  run.at \in Deciding /\ run.approve = None /\ Untouched /\ torn = None
  /\ stageRow # None /\ stageRow.fp = run.fp /\ stageRow.approval # None
    => run.payload = stageRow

(* The report a command left behind is the one it would write again, and   *)
(* the row holds something else.                                           *)
LeftReport ==
  /\ Readable /\ report.fp = torn.fp /\ report.path = torn.path
  /\ torn.approve = None => report.approval = None
  /\ torn.approve # None => Identity(report.approval) = AskedIdentity(torn.fp, torn.approve)
  /\ IdOf(report.fp, report.approval) \in DOMAIN checkpoints =>
       checkpoints[IdOf(report.fp, report.approval)].approval = report.approval
  /\ ~(stageRow # None /\ stageRow.fp = report.fp
       /\ Identity(stageRow.approval) = Identity(report.approval))
TornIsLeft ==
  torn # None /\ Untouched /\ run.at # "transition" => InStep \/ LeftReport

IInv ==
  /\ TypeOK
  /\ CheckpointsGenuine
  /\ RowIsStored
  /\ ReportIsThere
  /\ RunIsPrepared
  /\ ApprovalIsKept
  /\ ReportMatchesRow
  /\ TornIsLeft
  /\ CollisionNeedsCause
  /\ RepairsInPlace

-----------------------------------------------------------------------------
(* Identities, identifiers and the values they are made of.                *)
LEMMA StandingTyped ==
  ASSUME NEW fp \in Fingerprint, NEW topic \in Topic
  PROVE  StandingOf(fp, topic) \in Scope \cup {"unranked"}
<1>1. <<fp.content, fp.evidence>> \in Content \X Evidence
  BY DEF Fingerprint
<1> QED
  BY <1>1, StandingType DEF StandingOf

LEMMA NoneIsNoApproval == None \notin Approval
<1>1. Approval \subseteq [topic : Topic, author : Author, scope : Scope \cup {"unranked"}, at : Nat]
  BY PlanBounds DEF Approval
<1> QED
  BY <1>1, NoneIsNew

LEMMA IdentityTells ==
  ASSUME NEW a \in Approval \cup {None}, NEW b \in Approval \cup {None}
  PROVE  /\ Identity(a) = None <=> a = None
         /\ a # None => Identity(a) = <<a.scope, a.topic, a.author>>
         /\ a # None /\ Identity(a) = Identity(b) =>
              b # None /\ a.scope = b.scope /\ a.topic = b.topic /\ a.author = b.author
         /\ Identity(a) \in (Scope \X Topic \X Author) \cup {None}
  BY NoneIsNew, NoneIsNoApproval DEF Identity, Approval

LEMMA IdTells ==
  ASSUME NEW f, NEW g, NEW a, NEW b, IdOf(f, a) = IdOf(g, b)
  PROVE  f = g /\ Identity(a) = Identity(b)
  BY DEF IdOf

LEMMA IdTyped ==
  ASSUME NEW f \in Fingerprint, NEW a \in Approval \cup {None}
  PROVE  IdOf(f, a) \in CheckpointId
  BY IdentityTells DEF IdOf, CheckpointId

LEMMA PayloadTyped ==
  ASSUME NEW p \in Payload
  PROVE  p.fp \in Fingerprint /\ p.approval \in Approval \cup {None} /\ p.inspection \in Inspection
  BY DEF Payload

LEMMA ReportTyped ==
  ASSUME NEW r \in PlanReport
  PROVE  /\ r.fp \in Fingerprint /\ r.approval \in Approval \cup {None}
         /\ r.inspection \in Inspection /\ r.path \in Source
  BY DEF PlanReport

LEMMA CheckpointTyped ==
  ASSUME TypeOK, NEW id \in DOMAIN checkpoints
  PROVE  /\ id \in CheckpointId /\ checkpoints[id] \in Payload
         /\ checkpoints[id].fp \in Fingerprint
         /\ checkpoints[id].approval \in Approval \cup {None}
<1>1. checkpoints[id] \in Payload
  BY DEF TypeOK, Range
<1> QED
  BY <1>1, PayloadTyped DEF TypeOK

LEMMA RunTyped ==
  ASSUME TypeOK
  PROVE  /\ run.path \in Source /\ run.approve \in Approve /\ run.evidence \in Evidence
         /\ run.mode \in Mode /\ run.inspection \in Inspection
         /\ run.fp \in Fingerprint \cup {None}
         /\ run.at \in {"idle", "generate", "decide", "write", "transition"}
  BY DEF TypeOK, Run

LEMMA Finished ==
  ASSUME TypeOK, NEW result \in Result, Finish(result)
  PROVE  /\ run' \in Run /\ run'.at = "idle" /\ run'.result = result
         /\ run'.path = run.path /\ run'.approve = run.approve /\ run'.fp = run.fp
<1>1. run \in Run
  BY DEF TypeOK
<1>2. "idle" \in {"idle", "generate", "decide", "write", "transition"}
  OBVIOUS
<1> QED
  BY <1>1, <1>2 DEF Finish, Run

(* What the command asks for.                                              *)
LEMMA DesiredFits ==
  ASSUME IInv, run.at = "decide", ~Rejects
  PROVE  /\ run.fp \in Fingerprint
         /\ run.approve = None <=> Desired = None
         /\ Desired \in Approval \cup {None}
         /\ Desired # None => /\ Identity(Desired) = AskedIdentity(run.fp, run.approve)
                             /\ Ranked(run.fp, Desired)
<1>1. run.fp \in Fingerprint /\ run.approve \in Approve /\ clock \in 0..MaxRuns
  BY RunTyped DEF IInv, RunIsPrepared, TypeOK
<1>2. CASE run.approve = None
  BY <1>1, <1>2 DEF Desired
<1>3. CASE run.approve # None
  <2>1. run.approve[1] \in Topic /\ run.approve[2] \in Author
    BY <1>1, <1>3 DEF Approve
  <2>2. Desired = [topic |-> run.approve[1], author |-> run.approve[2],
                   scope |-> StandingOf(run.fp, run.approve[1]), at |-> clock]
    BY <1>3 DEF Desired
  <2>3. Desired # None
    <3>1. Desired \in [topic : Topic, author : Author, scope : Scope \cup {"unranked"}, at : Nat]
      BY <1>1, <2>1, <2>2, StandingTyped, PlanBounds
    <3> QED
      BY <3>1, NoneIsNew
  <2>4. Desired.scope # "unranked"
    BY <2>3 DEF Rejects
  <2>5. Desired \in Approval
    BY <1>1, <2>1, <2>2, <2>4, StandingTyped DEF Approval
  <2> QED
    BY <1>1, <1>3, <2>2, <2>3, <2>5 DEF Identity, AskedIdentity, Ranked
<1> QED
  BY <1>2, <1>3

(* The approval a command decides on.                                      *)
LEMMA CurrentTyped ==
  ASSUME IInv
  PROVE  /\ ReportApproval \in Approval \cup {None} /\ Current \in Approval \cup {None}
         /\ stageRow # None => stageRow \in Payload /\ stageRow.approval \in Approval \cup {None}
                              /\ stageRow.fp \in Fingerprint
         /\ Readable => report \in PlanReport
<1>1. stageRow # None => stageRow \in Payload /\ stageRow.approval \in Approval \cup {None}
                         /\ stageRow.fp \in Fingerprint
  BY PayloadTyped DEF IInv, TypeOK
<1>2. Readable => report \in PlanReport /\ report.approval \in Approval \cup {None}
  BY ReportTyped DEF IInv, TypeOK, Readable
<1>3. ReportApproval \in Approval \cup {None}
  BY <1>2 DEF ReportApproval
<1> QED
  BY <1>1, <1>2, <1>3 DEF Current

LEMMA RowIsGenuine ==
  ASSUME IInv, stageRow # None
  PROVE  /\ IdOf(stageRow.fp, stageRow.approval) \in DOMAIN checkpoints
         /\ checkpoints[IdOf(stageRow.fp, stageRow.approval)] = stageRow
         /\ stageRow.approval # None => IdOf(stageRow.fp, stageRow.approval) \in requested
         /\ Ranked(stageRow.fp, stageRow.approval)
  BY DEF IInv, RowIsStored, CheckpointsGenuine, Stored

(* The same identity for the same fingerprint is ranked the same.          *)
LEMMA RankedByIdentity ==
  ASSUME NEW fp, NEW a \in Approval \cup {None}, NEW b \in Approval \cup {None},
         Ranked(fp, a), Identity(a) = Identity(b)
  PROVE  Ranked(fp, b)
  BY IdentityTells DEF Ranked

LEMMA ChosenFits ==
  ASSUME IInv, run.at = "decide", ~Rejects, ~Collides
  PROVE  /\ Chosen \in Approval \cup {None}
         /\ Ranked(run.fp, Chosen)
         /\ Chosen # None => \/ Desired # None /\ IdOf(run.fp, Chosen) = TargetId
                             \/ IdOf(run.fp, Chosen) \in requested
         /\ Desired # None => Identity(Chosen) = Identity(Desired)
         /\ Desired = None /\ Chosen # None =>
              stageRow # None /\ stageRow.fp = run.fp /\ stageRow.approval = Chosen
<1>1. /\ run.fp \in Fingerprint /\ Desired \in Approval \cup {None}
      /\ Desired # None => Ranked(run.fp, Desired)
  BY DesiredFits
<1>2. /\ ReportApproval \in Approval \cup {None} /\ Current \in Approval \cup {None}
  BY CurrentTyped
<1>3. CASE Desired = None
  <2>1. Chosen = ReportApproval /\ Current = ReportApproval
    BY <1>3 DEF Chosen, Current
  <2>2. CASE Current = None
    BY <1>3, <2>1, <2>2 DEF Ranked
  <2>3. CASE Current # None
    <3>1. ~Replays /\ Validated
      BY <1>3, <2>3 DEF Replays, RepeatsReport, Collides
    <3>2. stageRow # None /\ stageRow.fp = run.fp /\ stageRow.approval = Chosen
      BY <2>1, <2>3, <3>1 DEF Validated
    <3> QED
      BY <1>2, <1>3, <2>1, <2>3, <3>2, RowIsGenuine
  <2> QED
    BY <2>2, <2>3
<1>4. CASE Desired # None /\ Current # None /\ Identity(Current) = Identity(Desired)
  <2>1. Chosen = Current
    BY <1>4 DEF Chosen
  <2> QED
    BY <1>1, <1>2, <1>4, <2>1, RankedByIdentity DEF IdOf, TargetId
<1>5. CASE Desired # None /\ ~(Current # None /\ Identity(Current) = Identity(Desired))
  <2>1. Chosen = AsApproved
    BY <1>5 DEF Chosen
  <2>2. CASE TargetId \in DOMAIN checkpoints
    <3> DEFINE a == checkpoints[TargetId].approval
    <3>1. Chosen = a
      BY <2>1, <2>2 DEF AsApproved
    <3>2. a \in Approval \cup {None}
      BY <2>2, CheckpointTyped DEF IInv
    <3>3. IdOf(checkpoints[TargetId].fp, a) = TargetId
      BY <2>2 DEF IInv, CheckpointsGenuine
    <3>4. Identity(a) = Identity(Desired)
      BY <3>3, IdTells DEF TargetId
    <3> HIDE DEF a
    <3> QED
      BY <1>1, <1>5, <3>1, <3>2, <3>4, RankedByIdentity DEF IdOf, TargetId
  <2>3. CASE TargetId \notin DOMAIN checkpoints
    BY <1>1, <1>5, <2>1, <2>3 DEF AsApproved, TargetId
  <2> QED
    BY <2>2, <2>3
<1> QED
  BY <1>3, <1>4, <1>5

(* What it writes is what it has decided on.                               *)
LEMMA DecisionFits ==
  ASSUME IInv, run.at = "decide", ~Rejects, ~Collides
  PROVE  /\ NextReport \in PlanReport /\ NextPayload \in Payload
         /\ NextReport.fp = run.fp /\ NextReport.path = run.path /\ NextReport.approval = Chosen
         /\ NextPayload.fp = run.fp /\ NextPayload.approval = Chosen
         /\ NextId = IdOf(run.fp, Chosen)
         /\ NextId \in DOMAIN checkpoints => checkpoints[NextId] = NextPayload
         /\ Reused => report = NextReport
<1>1. run.fp \in Fingerprint /\ Chosen \in Approval \cup {None}
  BY DesiredFits, ChosenFits
<1>2. run.path \in Source /\ run.inspection \in Inspection
  BY RunTyped DEF IInv
<1>3. /\ NextReport \in PlanReport /\ NextReport.fp = run.fp /\ NextReport.path = run.path
      /\ NextReport.approval = Chosen
  <2>1. CASE Reused
    BY <2>1, CurrentTyped DEF Reused, NextReport
  <2>2. CASE ~Reused
    BY <1>1, <1>2, <2>2 DEF NextReport, PlanReport
  <2> QED
    BY <2>1, <2>2
<1>4. NextId = IdOf(run.fp, Chosen)
  BY <1>3 DEF NextId
<1>5. NextPayload.approval = Chosen
  BY <1>3 DEF Collides
<1>6. CASE NextId \in DOMAIN checkpoints
  <2>1. NextPayload = checkpoints[NextId]
    BY <1>6 DEF NextPayload
  <2>2. NextPayload \in Payload
    BY <1>6, <2>1, CheckpointTyped DEF IInv
  <2>3. IdOf(NextPayload.fp, NextPayload.approval) = NextId
    BY <1>6, <2>1 DEF IInv, CheckpointsGenuine
  <2> QED
    BY <1>3, <1>4, <1>5, <2>1, <2>2, <2>3, IdTells DEF NextReport
<1>7. CASE NextId \notin DOMAIN checkpoints
  <2>1. NextPayload = [fp |-> run.fp, approval |-> NextReport.approval,
                       inspection |-> NextReport.inspection]
    BY <1>7 DEF NextPayload
  <2> QED
    BY <1>1, <1>3, <1>4, <1>7, <2>1, ReportTyped DEF Payload, NextReport
<1> QED
  BY <1>6, <1>7

(* A report that is in step with the row, or none at all, is no reason for *)
(* a collision.                                                            *)
LEMMA InStepNeverCollides ==
  ASSUME IInv, run.at = "decide", ~Rejects, Untouched, report = None \/ InStep
  PROVE  ~Collides
<1>1. /\ run.fp \in Fingerprint /\ Desired \in Approval \cup {None}
      /\ ReportApproval \in Approval \cup {None} /\ Current \in Approval \cup {None}
  BY DesiredFits, CurrentTyped
<1>2. CASE report = None
  <2>1. stageRow = None /\ checkpoints = << >> /\ ~Readable
    BY <1>2 DEF IInv, ReportIsThere, RowIsStored, Readable
  <2>2. ReportApproval = None /\ Current = None
    BY <2>1 DEF ReportApproval, Current
  <2>3. DOMAIN checkpoints = {}
    BY <2>1
  <2>4. NextPayload.approval = NextReport.approval
    BY <2>3 DEF NextPayload
  <2> QED
    BY <2>1, <2>2, <2>3, <2>4 DEF Collides, ReplayConflicts, RepeatsReport
<1>3. CASE InStep
  <2>1. /\ Readable /\ stageRow # None /\ stageRow.fp = report.fp
        /\ stageRow.approval = report.approval
    BY <1>3 DEF InStep
  <2>2. /\ IdOf(stageRow.fp, stageRow.approval) \in DOMAIN checkpoints
        /\ checkpoints[IdOf(stageRow.fp, stageRow.approval)] = stageRow
    BY <2>1, RowIsGenuine
  <2>3. ReportApproval # None => stageRow.fp = run.fp /\ stageRow.approval = ReportApproval
    BY <2>1 DEF ReportApproval
  <2>4. ~RepeatsReport
    BY <2>1, <2>3 DEF RepeatsReport
  <2>5. Current = ReportApproval
    BY <2>1, <2>3 DEF Current, ReportApproval
  <2>6. Current # None => Validated
    BY <2>1, <2>2, <2>3, <2>5 DEF Validated, Stored
  <2>7. NextReport.approval = Chosen /\ NextReport.fp = run.fp
    BY DEF NextReport, Reused
  <2>8. ASSUME NextId \in DOMAIN checkpoints PROVE checkpoints[NextId].approval = Chosen
    <3>1. NextId = IdOf(run.fp, Chosen)
      BY <2>7 DEF NextId
    <3>2. CASE Chosen = Current /\ Current # None
      BY <2>1, <2>2, <2>3, <2>5, <3>1, <3>2
    <3>3. CASE Chosen = None
      <4>1. IdOf(checkpoints[NextId].fp, checkpoints[NextId].approval) = NextId
        BY <2>8 DEF IInv, CheckpointsGenuine
      <4>2. Identity(checkpoints[NextId].approval) = Identity(None)
        BY <3>1, <3>3, <4>1, IdTells
      <4>3. checkpoints[NextId].approval \in Approval \cup {None} /\ None \in Approval \cup {None}
        BY <2>8, CheckpointTyped DEF IInv
      <4> QED
        BY <3>3, <4>2, <4>3, IdentityTells
    <3>4. CASE Desired # None /\ Chosen = AsApproved
      <4>1. CASE TargetId \in DOMAIN checkpoints
        <5>1. Chosen = checkpoints[TargetId].approval
          BY <3>4, <4>1 DEF AsApproved
        <5>2. IdOf(checkpoints[TargetId].fp, checkpoints[TargetId].approval) = TargetId
          BY <4>1 DEF IInv, CheckpointsGenuine
        <5>3. NextId = TargetId
          BY <3>1, <5>1, <5>2, IdTells DEF IdOf, TargetId
        <5> QED
          BY <5>1, <5>3
      <4>2. CASE TargetId \notin DOMAIN checkpoints
        BY <2>8, <3>1, <3>4, <4>2 DEF AsApproved, TargetId
      <4> QED
        BY <4>1, <4>2
    <3> QED
      BY <3>2, <3>3, <3>4 DEF Chosen
  <2>9. NextPayload.approval = NextReport.approval
    BY <2>7, <2>8 DEF NextPayload
  <2> QED
    BY <2>1, <2>4, <2>6, <2>9 DEF Collides, ReplayConflicts
<1> QED
  BY <1>2, <1>3

(* The command that repeats the one cut short: it replays its report, or   *)
(* the row has moved on to other records or the stage was set by others.   *)
LEMMA RetryFits ==
  ASSUME IInv, run.at = "decide", ~Rejects, Untouched, torn = Command, LeftReport, Collides
  PROVE  stageRow # None /\ (stageRow.fp # run.fp \/ projectStage # StageOf(stageRow))
<1>1. /\ run.fp \in Fingerprint /\ Desired \in Approval \cup {None}
      /\ run.approve = None <=> Desired = None
      /\ Desired # None => Identity(Desired) = AskedIdentity(run.fp, run.approve)
  BY DesiredFits
<1>2. torn.fp = run.fp /\ torn.path = run.path /\ torn.approve = run.approve
  BY DEF Command
<1>3. /\ Readable /\ report \in PlanReport /\ report.fp = run.fp /\ report.path = run.path
      /\ ReportApproval = report.approval /\ report.approval \in Approval \cup {None}
  BY <1>2, CurrentTyped, ReportTyped DEF LeftReport, ReportApproval
<1>4. NextReport.approval = Chosen /\ NextReport.fp = run.fp
  BY DEF NextReport, Reused
<1>5. NextId = IdOf(run.fp, Chosen)
  BY <1>4 DEF NextId
<1>6. CASE run.approve = None
  <2>1. Desired = None /\ ReportApproval = None
    BY <1>1, <1>2, <1>3, <1>6 DEF LeftReport
  <2>2. Current = None /\ Chosen = None
    BY <2>1 DEF Current, Chosen
  <2>3. ~ReplayConflicts
    BY <2>1 DEF ReplayConflicts, RepeatsReport
  <2>4. NextId \in DOMAIN checkpoints /\ checkpoints[NextId].approval # Chosen
    BY <1>4, <2>1, <2>2, <2>3 DEF Collides, NextPayload
  <2>5. IdOf(checkpoints[NextId].fp, checkpoints[NextId].approval) = NextId
    BY <2>4 DEF IInv, CheckpointsGenuine
  <2>6. Identity(checkpoints[NextId].approval) = Identity(None)
    BY <1>5, <2>2, <2>5, IdTells
  <2>7. checkpoints[NextId].approval \in Approval \cup {None} /\ None \in Approval \cup {None}
    BY <2>4, CheckpointTyped DEF IInv
  <2> QED
    BY <2>2, <2>4, <2>6, <2>7, IdentityTells
<1>7. CASE run.approve # None
  <2>1. Desired # None /\ Identity(report.approval) = Identity(Desired)
    BY <1>1, <1>2, <1>7 DEF LeftReport
  <2>2. report.approval # None
    BY <1>1, <1>3, <2>1, IdentityTells
  <2>3. RepeatsReport
    BY <1>3, <2>1, <2>2 DEF RepeatsReport, LeftReport
  <2>4. Current = report.approval /\ Chosen = report.approval
    BY <1>3, <2>1, <2>2 DEF Current, Chosen
  <2>5. NextId \in DOMAIN checkpoints => checkpoints[NextId].approval = Chosen
    BY <1>3, <1>5, <2>4 DEF LeftReport
  <2>6. NextPayload.approval = NextReport.approval
    BY <1>4, <2>5 DEF NextPayload
  <2>7. ~Replays
    BY <1>3, <2>2, <2>4, <2>6 DEF Collides, ReplayConflicts
  <2>8. CASE stageRow = None
    BY <2>3, <2>7, <2>8 DEF Replays, IInv, RowIsStored
  <2>9. CASE stageRow # None
    BY <2>3, <2>7, <2>9 DEF Replays, IInv, RowIsStored
  <2> QED
    BY <2>8, <2>9
<1> QED
  BY <1>6, <1>7

-----------------------------------------------------------------------------
(* What the database and the report promise is kept while nobody writes.   *)
LEMMA RecordsKept ==
  ASSUME IInv, UNCHANGED <<database, report, tampers>>, requested \subseteq requested'
  PROVE  CheckpointsGenuine' /\ RowIsStored' /\ ReportIsThere'
<1>1. UNCHANGED <<stageRow, checkpoints, projectStage>>
  BY DEF database
<1>2. CheckpointsGenuine'
  BY <1>1 DEF IInv, CheckpointsGenuine
<1>3. RowIsStored'
  BY <1>1 DEF IInv, RowIsStored, Stored
<1>4. ReportIsThere'
  BY <1>1 DEF IInv, ReportIsThere, Untouched
<1> QED
  BY <1>2, <1>3, <1>4

(* A command that ends without having written anything.                    *)
LEMMA EndsAsItBegan ==
  ASSUME IInv, run.at # "transition", NEW result \in Result \ {"collision"}, Finish(result),
         UNCHANGED <<evidence, database, report, generation, clock, history>>
  PROVE  IInv'
<1>1. UNCHANGED <<stageRow, checkpoints, projectStage, report, requested, torn, tampers>>
  BY DEF database, history
<1>2. /\ run' \in Run /\ run'.at = "idle" /\ run'.result = result
      /\ run'.path = run.path /\ run'.approve = run.approve /\ run'.fp = run.fp
  BY Finished DEF IInv
<1>3. TypeOK'
  BY <1>1, <1>2 DEF IInv, TypeOK, Readable
<1>4. CheckpointsGenuine' /\ RowIsStored' /\ ReportIsThere'
  BY <1>1, RecordsKept
<1>5. RunIsPrepared'
  BY <1>2 DEF RunIsPrepared, Deciding
<1>6. ApprovalIsKept'
  BY <1>2 DEF ApprovalIsKept, Deciding
<1>7. ReportMatchesRow'
  BY <1>1 DEF IInv, ReportMatchesRow, Untouched
<1>8. TornIsLeft'
  BY <1>1 DEF IInv, TornIsLeft, LeftReport, InStep, Readable, Untouched
<1>9. CollisionNeedsCause' /\ RepairsInPlace'
  BY <1>2 DEF CollisionNeedsCause, RepairsInPlace, Retried
<1> QED
  BY <1>3, <1>4, <1>5, <1>6, <1>7, <1>8, <1>9 DEF IInv

LEMMA RefuseGenerationStep ==
  ASSUME IInv, RefuseGeneration
  PROVE  IInv'
  BY EndsAsItBegan DEF RefuseGeneration, Result

LEMMA TurnDownStep ==
  ASSUME IInv, TurnDown
  PROVE  IInv'
  BY EndsAsItBegan DEF TurnDown, Result


LEMMA BeginStep ==
  ASSUME IInv, NEW c \in Commands[run.path],
         Begin(c.path, c.approve, c.mode, c.regenerate, c.inspection)
  PROVE  IInv'
<1>1. UNCHANGED <<evidence, stageRow, checkpoints, projectStage, report, generation,
                  requested, torn, tampers>>
  BY DEF Begin, database, history
<1>2. /\ c.path \in Source /\ c.approve \in Approve /\ c.mode \in Mode
      /\ c.regenerate \in BOOLEAN /\ c.inspection \in Inspection
  <2>1. run.path \in Source
    BY RunTyped DEF IInv
  <2>2. c \in [path : Source, approve : Approve, mode : Mode, regenerate : BOOLEAN,
               inspection : Inspection]
    BY <2>1, CommandsType
  <2> QED
    BY <2>2
<1>3. PICK at \in {"generate", "decide"}, fp \in Fingerprint \cup {None} :
         /\ at = "generate" => c.path = Generated
         /\ run' = [at |-> at, path |-> c.path, approve |-> c.approve, mode |-> c.mode,
                    regenerate |-> c.regenerate, evidence |-> evidence,
                    inspection |-> c.inspection, fp |-> fp,
                    report |-> None, payload |-> None, result |-> "none"]
         /\ at = "decide" => fp \in Fingerprint
  <2>1. evidence \in Evidence /\ ContentOf[c.path] \in Content
    BY <1>2, SourceType DEF IInv, TypeOK
  <2>2. [content |-> ContentOf[c.path], evidence |-> evidence, gen |-> None] \in Fingerprint
    BY <2>1 DEF Fingerprint
  <2>3. CASE c.path = Generated
    BY <2>3 DEF Begin
  <2>4. CASE c.path # Generated
    BY <2>2, <2>4 DEF Begin
  <2> QED
    BY <2>3, <2>4
<1>4. run' \in Run
  <2>1. evidence \in Evidence
    BY DEF IInv, TypeOK
  <2>2. at \in {"idle", "generate", "decide", "write", "transition"} /\ "none" \in Result
    BY DEF Result
  <2> QED
    BY <1>2, <1>3, <2>1, <2>2 DEF Run
<1>5. clock' \in 0..MaxRuns
  BY PlanBounds DEF Begin, IInv, TypeOK
<1>6. TypeOK'
  BY <1>1, <1>4, <1>5 DEF IInv, TypeOK
<1>7. CheckpointsGenuine' /\ RowIsStored' /\ ReportIsThere'
  BY <1>1, RecordsKept DEF database
<1>8. run'.at \in {"generate", "decide"} /\ run'.result = "none"
      /\ (run'.at = "decide" => run'.fp \in Fingerprint)
      /\ (run'.at = "generate" => run'.path = Generated)
  BY <1>3
<1>9. RunIsPrepared' /\ ApprovalIsKept'
  BY <1>8 DEF RunIsPrepared, ApprovalIsKept, Deciding
<1>10. run.at = "idle"
  BY DEF Begin
<1>11. ReportMatchesRow'
  BY <1>1, <1>10 DEF IInv, ReportMatchesRow, Untouched
<1>12. TornIsLeft'
  BY <1>1, <1>10 DEF IInv, TornIsLeft, LeftReport, InStep, Readable, Untouched
<1>13. CollisionNeedsCause' /\ RepairsInPlace'
  BY <1>8 DEF CollisionNeedsCause, RepairsInPlace, Retried
<1> QED
  BY <1>6, <1>7, <1>9, <1>11, <1>12, <1>13 DEF IInv

(* The generated candidates are there: the command goes on to rank them.   *)
LEMMA RanksStep ==
  ASSUME IInv, run.at = "generate", NEW gen \in Generation, Ranks(gen),
         generation' \in Generation \cup {None},
         UNCHANGED <<evidence, database, report, clock, history>>
  PROVE  IInv'
<1>1. UNCHANGED <<stageRow, checkpoints, projectStage, report, requested, torn, tampers>>
  BY DEF database, history
<1> DEFINE fp == [content |-> ContentOf[Generated], evidence |-> run.evidence, gen |-> gen]
<1>2. run' = [run EXCEPT !.at = "decide", !.fp = fp]
  BY DEF Ranks
<1>3. run \in Run /\ run.result # "collision"
  BY DEF IInv, TypeOK, RunIsPrepared
<1>4. "decide" \in {"idle", "generate", "decide", "write", "transition"}
  OBVIOUS
<1>5. fp \in Fingerprint
  <2>1. Generated \in Source /\ run.evidence \in Evidence
    BY RunTyped DEF IInv, RunIsPrepared
  <2> QED
    BY <2>1, SourceType DEF Fingerprint
<1> HIDE DEF fp
<1>6. run' \in Run /\ run'.at = "decide" /\ run'.fp = fp /\ run'.result = run.result
  BY <1>2, <1>3, <1>4, <1>5 DEF Run
<1>7. TypeOK'
  BY <1>1, <1>6 DEF IInv, TypeOK
<1>8. CheckpointsGenuine' /\ RowIsStored' /\ ReportIsThere'
  BY <1>1, RecordsKept DEF database
<1>9. RunIsPrepared' /\ ApprovalIsKept'
  BY <1>3, <1>5, <1>6 DEF RunIsPrepared, ApprovalIsKept, Deciding
<1>10. ReportMatchesRow'
  BY <1>1 DEF IInv, ReportMatchesRow, Untouched
<1>11. TornIsLeft'
  BY <1>1 DEF IInv, TornIsLeft, LeftReport, InStep, Readable, Untouched
<1>12. CollisionNeedsCause' /\ RepairsInPlace'
  BY <1>3, <1>6 DEF CollisionNeedsCause, RepairsInPlace, Retried
<1> QED
  BY <1>7, <1>8, <1>9, <1>10, <1>11, <1>12 DEF IInv

LEMMA CollideStep ==
  ASSUME IInv, Collide
  PROVE  IInv'
<1>1. UNCHANGED <<evidence, stageRow, checkpoints, projectStage, report, generation, clock,
                  torn, tampers>>
  BY DEF Collide, database
<1>2. run.at = "decide" /\ ~Rejects /\ Collides
  BY DEF Collide
<1>3. /\ run' \in Run /\ run'.at = "idle" /\ run'.result = "collision"
      /\ run'.path = run.path /\ run'.approve = run.approve /\ run'.fp = run.fp
  BY Finished DEF IInv, Collide, Result
<1>4. requested \subseteq requested' /\ requested' \subseteq CheckpointId
  BY DesiredFits, IdTyped, <1>2 DEF Collide, Ask, TargetId, IInv, TypeOK
<1>5. TypeOK'
  BY <1>1, <1>3, <1>4 DEF IInv, TypeOK
<1>6. CheckpointsGenuine' /\ RowIsStored' /\ ReportIsThere'
  BY <1>1, <1>4, RecordsKept DEF database
<1>7. RunIsPrepared' /\ ApprovalIsKept'
  BY <1>3 DEF RunIsPrepared, ApprovalIsKept, Deciding
<1>8. ReportMatchesRow'
  BY <1>1, <1>2 DEF IInv, ReportMatchesRow, Untouched
<1>9. TornIsLeft'
  BY <1>1, <1>2 DEF IInv, TornIsLeft, LeftReport, InStep, Readable, Untouched
<1>10. CollisionNeedsCause'
  <2>1. SUFFICES ASSUME torn = None, Untouched PROVE FALSE
    BY <1>1 DEF CollisionNeedsCause, Untouched
  <2>2. report # Invalid
    BY <2>1 DEF IInv, ReportIsThere
  <2>3. report = None \/ InStep
    BY <1>2, <2>1, <2>2 DEF IInv, ReportMatchesRow, InStep, Readable
  <2> QED
    BY <1>2, <2>1, <2>3, InStepNeverCollides
<1>11. RepairsInPlace'
  <2>1. SUFFICES ASSUME Untouched, torn = Command
                 PROVE  stageRow # None /\ (stageRow.fp # run.fp \/ projectStage # StageOf(stageRow))
    BY <1>1, <1>3 DEF RepairsInPlace, Retried, Untouched, Command, StageOf
  <2>2. torn # None
    BY <2>1, <1>2, DesiredFits, RunTyped, NoneIsNew DEF Command, Unfinished, IInv
  <2>3. InStep \/ LeftReport
    BY <1>2, <2>1, <2>2 DEF IInv, TornIsLeft
  <2>4. CASE InStep
    BY <1>2, <2>1, <2>4, InStepNeverCollides
  <2>5. CASE LeftReport
    BY <1>2, <2>1, <2>5, RetryFits
  <2> QED
    BY <2>3, <2>4, <2>5
<1> QED
  BY <1>5, <1>6, <1>7, <1>8, <1>9, <1>10, <1>11 DEF IInv


LEMMA DecideStep ==
  ASSUME IInv, Decide
  PROVE  IInv'
<1>1. UNCHANGED <<evidence, stageRow, checkpoints, projectStage, report, generation, clock,
                  torn, tampers>>
  BY DEF Decide, database
<1>2. run.at = "decide" /\ ~Rejects /\ ~Collides
  BY DEF Decide
<1>3. PICK at \in Deciding :
         /\ run' = [run EXCEPT !.at = at, !.report = NextReport, !.payload = NextPayload]
         /\ at = "transition" => Reused
  BY DEF Decide, Deciding
<1>4. run \in Run /\ run.result # "collision"
  BY <1>2 DEF IInv, TypeOK, RunIsPrepared
<1>5. /\ NextReport \in PlanReport /\ NextPayload \in Payload
      /\ NextReport.fp = run.fp /\ NextReport.path = run.path /\ NextReport.approval = Chosen
      /\ NextPayload.fp = run.fp /\ NextPayload.approval = Chosen
      /\ NextId = IdOf(run.fp, Chosen)
      /\ NextId \in DOMAIN checkpoints => checkpoints[NextId] = NextPayload
      /\ Reused => report = NextReport
  BY <1>2, DecisionFits
<1>6. /\ run' \in Run /\ run'.at = at /\ run'.report = NextReport /\ run'.payload = NextPayload
      /\ run'.fp = run.fp /\ run'.path = run.path /\ run'.approve = run.approve
      /\ run'.result = run.result
  <2>1. at \in {"idle", "generate", "decide", "write", "transition"}
    BY DEF Deciding
  <2> QED
    BY <1>3, <1>4, <1>5, <2>1 DEF Run
<1>7. /\ requested \subseteq requested' /\ requested' \subseteq CheckpointId
      /\ Desired # None => TargetId \in requested'
  BY DesiredFits, IdTyped, <1>2 DEF Decide, Ask, TargetId, IInv, TypeOK
<1>8. TypeOK'
  BY <1>1, <1>6, <1>7 DEF IInv, TypeOK
<1>9. CheckpointsGenuine' /\ RowIsStored' /\ ReportIsThere'
  BY <1>1, <1>7, RecordsKept DEF database
<1>10. /\ run.fp \in Fingerprint
       /\ run.approve = None <=> Desired = None
       /\ Desired # None => Identity(Desired) = AskedIdentity(run.fp, run.approve)
  BY <1>2, DesiredFits
<1>11. /\ Ranked(run.fp, Chosen)
       /\ Chosen # None => IdOf(run.fp, Chosen) \in requested'
       /\ Desired # None => Identity(Chosen) = Identity(Desired)
       /\ Desired = None /\ Chosen # None =>
            stageRow # None /\ stageRow.fp = run.fp /\ stageRow.approval = Chosen
  BY <1>2, <1>7, ChosenFits
<1>12. Prepared'
  <2>1. /\ run'.report \in PlanReport /\ run'.payload \in Payload
        /\ run'.report.fp = run'.fp /\ run'.report.path = run'.path
        /\ run'.payload.fp = run'.fp /\ run'.payload.approval = run'.report.approval
    BY <1>5, <1>6
  <2>2. /\ run'.payload.approval # None =>
             IdOf(run'.payload.fp, run'.payload.approval) \in requested'
        /\ Ranked(run'.payload.fp, run'.payload.approval)
        /\ IdOf(run'.payload.fp, run'.payload.approval) \in DOMAIN checkpoints' =>
             checkpoints'[IdOf(run'.payload.fp, run'.payload.approval)] = run'.payload
    BY <1>1, <1>5, <1>6, <1>11
  <2>3. /\ run'.approve # None =>
             Identity(run'.payload.approval) = AskedIdentity(run'.fp, run'.approve)
        /\ run'.approve = None /\ run'.payload.approval # None =>
             /\ stageRow' # None /\ stageRow'.fp = run'.fp
             /\ stageRow'.approval = run'.payload.approval
    BY <1>1, <1>5, <1>6, <1>10, <1>11
  <2> QED
    BY <2>1, <2>2, <2>3 DEF Prepared
<1>13. RunIsPrepared'
  <2>1. run'.at = "transition" => report' = run'.report
    BY <1>1, <1>3, <1>5, <1>6
  <2> QED
    BY <1>4, <1>6, <1>10, <1>12, <2>1 DEF RunIsPrepared, Deciding
<1>14. ApprovalIsKept'
  <2>1. SUFFICES ASSUME run.approve = None, Untouched, torn = None,
                        stageRow # None, stageRow.fp = run.fp, stageRow.approval # None
                 PROVE  NextPayload = stageRow
    BY <1>1, <1>6 DEF ApprovalIsKept, Untouched
  <2>2. report # Invalid /\ report # None
    BY <2>1 DEF IInv, ReportIsThere
  <2>3. report.fp = stageRow.fp /\ report.approval = stageRow.approval
    BY <1>2, <2>1, <2>2 DEF IInv, ReportMatchesRow
  <2>4. ReportApproval = stageRow.approval
    BY <2>1, <2>2, <2>3 DEF ReportApproval, Readable
  <2>5. Chosen = stageRow.approval
    BY <1>10, <2>1, <2>4 DEF Chosen, Current
  <2>6. /\ IdOf(stageRow.fp, stageRow.approval) \in DOMAIN checkpoints
        /\ checkpoints[IdOf(stageRow.fp, stageRow.approval)] = stageRow
    BY <2>1, RowIsGenuine
  <2> QED
    BY <1>5, <2>1, <2>5, <2>6
<1>15. ReportMatchesRow'
  BY <1>1, <1>2 DEF IInv, ReportMatchesRow, Untouched
<1>16. TornIsLeft'
  BY <1>1, <1>2 DEF IInv, TornIsLeft, LeftReport, InStep, Readable, Untouched
<1>17. CollisionNeedsCause' /\ RepairsInPlace'
  BY <1>4, <1>6 DEF CollisionNeedsCause, RepairsInPlace, Retried
<1> QED
  BY <1>8, <1>9, <1>13, <1>14, <1>15, <1>16, <1>17 DEF IInv

(* The report of a decided command is readable once it is written.         *)
LEMMA WriteReportStep ==
  ASSUME IInv, WriteReport
  PROVE  IInv'
<1>1. UNCHANGED <<evidence, stageRow, checkpoints, projectStage, generation, clock,
                  requested, torn, tampers>>
  BY DEF WriteReport, database, history
<1>2. /\ run.at = "write" /\ report' = run.report
      /\ run' = [run EXCEPT !.at = "transition"]
  BY DEF WriteReport
<1>3. run \in Run /\ run.result # "collision" /\ Prepared /\ run.fp \in Fingerprint
  BY <1>2 DEF IInv, TypeOK, RunIsPrepared, Deciding
<1>4. /\ run' \in Run /\ run'.at = "transition" /\ run'.report = run.report
      /\ run'.payload = run.payload /\ run'.fp = run.fp /\ run'.path = run.path
      /\ run'.approve = run.approve /\ run'.result = run.result
  <2>1. "transition" \in {"idle", "generate", "decide", "write", "transition"}
    OBVIOUS
  <2> QED
    BY <1>2, <1>3, <2>1 DEF Run
<1>5. report' \in PlanReport
  BY <1>2, <1>3 DEF Prepared
<1>6. TypeOK'
  BY <1>1, <1>4, <1>5 DEF IInv, TypeOK
<1>7. CheckpointsGenuine'
  BY <1>1 DEF IInv, CheckpointsGenuine
<1>8. RowIsStored'
  BY <1>1 DEF IInv, RowIsStored, Stored
<1>9. ReportIsThere'
  BY <1>5, NoneIsNew DEF ReportIsThere
<1>10. Prepared'
  BY <1>1, <1>3, <1>4 DEF Prepared
<1>11. RunIsPrepared'
  BY <1>2, <1>3, <1>4, <1>10 DEF RunIsPrepared, Deciding
<1>12. ApprovalIsKept'
  BY <1>1, <1>2, <1>4 DEF IInv, ApprovalIsKept, Deciding, Untouched
<1>13. ReportMatchesRow' /\ TornIsLeft'
  BY <1>4 DEF ReportMatchesRow, TornIsLeft
<1>14. CollisionNeedsCause' /\ RepairsInPlace'
  BY <1>3, <1>4 DEF CollisionNeedsCause, RepairsInPlace, Retried
<1> QED
  BY <1>6, <1>7, <1>8, <1>9, <1>11, <1>12, <1>13, <1>14 DEF IInv

(* The checkpoint a decided command names holds its payload, so its        *)
(* transaction never meets another one.                                    *)
LEMMA TransitionNeverCollides ==
  ASSUME IInv, run.at \in Deciding
  PROVE  LET id == IdOf(run.payload.fp, run.payload.approval)
         IN  id \in DOMAIN checkpoints => checkpoints[id] = run.payload
  BY DEF IInv, RunIsPrepared, Prepared


LEMMA TransitionStep ==
  ASSUME IInv, Transition
  PROVE  IInv'
<1> DEFINE p == run.payload
           id == IdOf(run.payload.fp, run.payload.approval)
<1>1. UNCHANGED <<evidence, report, generation, clock, requested, tampers>>
  BY DEF Transition
<1>2. run.at = "transition" /\ Prepared /\ run.fp \in Fingerprint
      /\ (Untouched => report = run.report)
  BY DEF Transition, IInv, RunIsPrepared, Deciding
<1>3. id \in DOMAIN checkpoints => checkpoints[id] = p
  BY <1>2, TransitionNeverCollides DEF Deciding
<1>4. /\ stageRow' = p /\ projectStage' = StageOf(p) /\ torn' = None /\ Finish("ok")
      /\ checkpoints' = [c \in DOMAIN checkpoints \cup {id} |->
                           IF c = id THEN p ELSE checkpoints[c]]
  BY <1>3 DEF Transition
<1>5. /\ run' \in Run /\ run'.at = "idle" /\ run'.result = "ok"
  BY <1>4, Finished DEF IInv, Result
<1>6. /\ p \in Payload /\ p.fp \in Fingerprint /\ p.approval \in Approval \cup {None}
      /\ p.approval # None => id \in requested
      /\ Ranked(p.fp, p.approval) /\ id \in CheckpointId /\ p # None
  BY <1>2, PayloadTyped, IdTyped, NoneIsNew DEF Prepared
<1>7. /\ DOMAIN checkpoints' = DOMAIN checkpoints \cup {id} /\ checkpoints'[id] = p
      /\ \A c \in DOMAIN checkpoints : checkpoints'[c] = checkpoints[c]
  BY <1>3, <1>4
<1>8. id = IdOf(p.fp, p.approval)
  OBVIOUS
<1> HIDE DEF p, id
<1>9. TypeOK'
  <2>1. DOMAIN checkpoints' \subseteq CheckpointId /\ Range(checkpoints') \subseteq Payload
    <3>1. \A c \in DOMAIN checkpoints : checkpoints[c] \in Payload /\ c \in CheckpointId
      BY CheckpointTyped DEF IInv
    <3>2. \A c \in DOMAIN checkpoints' : checkpoints'[c] \in Payload
      BY <1>6, <1>7, <3>1
    <3> QED
      BY <1>6, <1>7, <3>1, <3>2 DEF Range
  <2>2. projectStage' \in ProjectStage
    BY <1>4 DEF StageOf, ProjectStage
  <2> QED
    BY <1>1, <1>4, <1>5, <1>6, <2>1, <2>2 DEF IInv, TypeOK
<1>10. CheckpointsGenuine'
  <2>1. SUFFICES ASSUME NEW c \in DOMAIN checkpoints'
                 PROVE  /\ IdOf(checkpoints'[c].fp, checkpoints'[c].approval) = c
                        /\ checkpoints'[c].approval # None => c \in requested'
                        /\ Ranked(checkpoints'[c].fp, checkpoints'[c].approval)
    BY DEF CheckpointsGenuine
  <2>2. CASE c = id
    BY <1>1, <1>6, <1>7, <1>8, <2>2
  <2>3. CASE c # id
    BY <1>1, <1>7, <2>1, <2>3 DEF IInv, CheckpointsGenuine
  <2> QED
    BY <2>2, <2>3
<1>11. RowIsStored'
  <2>1. Stored(stageRow)'
    BY <1>4, <1>7, <1>8 DEF Stored
  <2>2. projectStage' = "topic-approved" =>
          stageRow'.approval # None /\ stageRow'.approval.scope = "manuscript-topic"
    BY <1>4 DEF StageOf
  <2> QED
    BY <1>4, <1>6, <2>1, <2>2 DEF RowIsStored
<1>12. Untouched => /\ report \in PlanReport /\ report.fp = p.fp
                    /\ report.approval = p.approval
  BY <1>2 DEF Prepared, p
<1>13. ReportIsThere' /\ ReportMatchesRow'
  BY <1>1, <1>4, <1>6, <1>12, NoneIsNew DEF ReportIsThere, ReportMatchesRow, Untouched
<1>14. RunIsPrepared' /\ ApprovalIsKept'
  BY <1>5 DEF RunIsPrepared, ApprovalIsKept, Deciding
<1>15. TornIsLeft'
  BY <1>4 DEF TornIsLeft
<1>16. CollisionNeedsCause' /\ RepairsInPlace'
  BY <1>5 DEF CollisionNeedsCause, RepairsInPlace, Retried
<1> QED
  BY <1>9, <1>10, <1>11, <1>13, <1>14, <1>15, <1>16 DEF IInv

(* A command that dies before its transaction leaves its report behind.    *)
LEMMA StopStep ==
  ASSUME IInv, Stop
  PROVE  IInv'
<1>1. UNCHANGED <<evidence, stageRow, checkpoints, projectStage, report, generation, clock,
                  requested, tampers>>
  BY DEF Stop, database
<1>2. Finish("failed") /\ LeaveTorn /\ "failed" \in Result \ {"collision"}
  BY DEF Stop, Result
<1>3. CASE run.at # "transition"
  <2>1. torn' = torn
    BY <1>2, <1>3 DEF LeaveTorn
  <2>2. UNCHANGED <<evidence, database, report, generation, clock, history>>
    BY <1>1, <2>1 DEF database, history
  <2> QED
    BY <1>2, <1>3, <2>2, EndsAsItBegan
<1>4. CASE run.at = "transition"
  <2>1. /\ run' \in Run /\ run'.at = "idle" /\ run'.result = "failed"
    BY <1>2, Finished DEF IInv
  <2>2. Prepared /\ run.fp \in Fingerprint /\ (Untouched => report = run.report)
    BY <1>4 DEF IInv, RunIsPrepared, Deciding
  <2>3. torn' = IF ~InStep THEN Command ELSE torn
    BY <1>2, <1>4 DEF LeaveTorn
  <2>4. Command \in Unfinished
    BY <2>2, RunTyped DEF Command, Unfinished, IInv
  <2>5. TypeOK'
    BY <1>1, <2>1, <2>3, <2>4 DEF IInv, TypeOK
  <2>6. CheckpointsGenuine' /\ RowIsStored' /\ ReportIsThere'
    BY <1>1, RecordsKept DEF database
  <2>7. RunIsPrepared' /\ ApprovalIsKept'
    BY <2>1 DEF RunIsPrepared, ApprovalIsKept, Deciding
  <2>8. ReportMatchesRow'
    <3>1. SUFFICES ASSUME torn' = None
                   PROVE  stageRow # None /\ report.fp = stageRow.fp
                          /\ report.approval = stageRow.approval
      BY <1>1 DEF ReportMatchesRow
    <3>2. InStep
      BY <2>3, <2>4, <3>1, NoneIsNew
    <3> QED
      BY <3>2 DEF InStep
  <2>9. TornIsLeft'
    <3>1. CASE InStep
      BY <1>1, <3>1 DEF TornIsLeft, InStep, Readable
    <3>2. CASE ~InStep /\ Untouched
      <4> DEFINE p == run.payload
                 id == IdOf(run.payload.fp, run.payload.approval)
      <4>1. /\ report \in PlanReport /\ report.fp = run.fp /\ report.path = run.path
            /\ report.approval = p.approval /\ p.fp = run.fp
            /\ id \in DOMAIN checkpoints => checkpoints[id] = p
            /\ run.approve # None => Identity(p.approval) = AskedIdentity(run.fp, run.approve)
            /\ run.approve = None /\ p.approval # None =>
                 stageRow # None /\ stageRow.fp = run.fp /\ stageRow.approval = p.approval
        BY <2>2, <3>2 DEF Prepared
      <4>2. Readable
        BY <4>1, NoneIsNew DEF Readable
      <4>3. run.approve = None => report.approval = None
        BY <3>2, <4>1, <4>2 DEF InStep
      <4>4. id = IdOf(report.fp, report.approval) /\ id = IdOf(p.fp, p.approval)
        BY <4>1
      <4> HIDE DEF p, id
      <4>5. ASSUME stageRow # None, stageRow.fp = report.fp,
                   Identity(stageRow.approval) = Identity(report.approval)
            PROVE  FALSE
        <5>1. IdOf(stageRow.fp, stageRow.approval) = id
          BY <4>4, <4>5 DEF IdOf
        <5>2. stageRow = p
          BY <4>1, <4>5, <5>1, RowIsGenuine
        <5> QED
          BY <3>2, <4>1, <4>2, <4>5, <5>2 DEF InStep
      <4>6. torn' = Command
        BY <2>3, <3>2
      <4>7. torn'.fp = run.fp /\ torn'.path = run.path /\ torn'.approve = run.approve
        BY <4>6 DEF Command
      <4>8. LeftReport'
        <5>1. Readable'
          BY <1>1, <4>2 DEF Readable
        <5>2. report'.fp = torn'.fp /\ report'.path = torn'.path
              /\ (torn'.approve = None => report'.approval = None)
              /\ (torn'.approve # None =>
                    Identity(report'.approval) = AskedIdentity(torn'.fp, torn'.approve))
          BY <1>1, <4>1, <4>3, <4>7
        <5>3. IdOf(report'.fp, report'.approval) \in DOMAIN checkpoints' =>
                checkpoints'[IdOf(report'.fp, report'.approval)].approval = report'.approval
          BY <1>1, <4>1, <4>4
        <5>4. ~(stageRow' # None /\ stageRow'.fp = report'.fp
                /\ Identity(stageRow'.approval) = Identity(report'.approval))
          BY <1>1, <4>5
        <5> QED
          BY <5>1, <5>2, <5>3, <5>4 DEF LeftReport
      <4> QED
        BY <4>8 DEF TornIsLeft
    <3>3. CASE ~Untouched
      BY <1>1, <3>3 DEF TornIsLeft, Untouched
    <3> QED
      BY <3>1, <3>2, <3>3
  <2>10. CollisionNeedsCause' /\ RepairsInPlace'
    BY <2>1 DEF CollisionNeedsCause, RepairsInPlace, Retried
  <2> QED
    BY <2>5, <2>6, <2>7, <2>8, <2>9, <2>10 DEF IInv
<1> QED
  BY <1>3, <1>4


-----------------------------------------------------------------------------
(* The other parts of the program, and whoever edits the report.           *)
LEMMA ChangeEvidenceStep ==
  ASSUME IInv, NEW e \in Evidence, ChangeEvidence(e)
  PROVE  IInv'
<1>1. UNCHANGED <<stageRow, checkpoints, projectStage, report, generation, run, clock,
                  requested, torn, tampers>> /\ evidence' \in Evidence
  BY DEF ChangeEvidence, database, history
<1>2. TypeOK'
  BY <1>1 DEF IInv, TypeOK
<1>3. CheckpointsGenuine' /\ RowIsStored' /\ ReportIsThere'
  BY <1>1, RecordsKept DEF database
<1>4. RunIsPrepared' /\ ApprovalIsKept'
  BY <1>1 DEF IInv, RunIsPrepared, Prepared, ApprovalIsKept, Deciding, Untouched
<1>5. ReportMatchesRow' /\ TornIsLeft'
  BY <1>1 DEF IInv, ReportMatchesRow, TornIsLeft, LeftReport, InStep, Readable, Untouched
<1>6. CollisionNeedsCause' /\ RepairsInPlace'
  BY <1>1 DEF IInv, CollisionNeedsCause, RepairsInPlace, Retried, Untouched, Command, StageOf
<1> QED
  BY <1>2, <1>3, <1>4, <1>5, <1>6 DEF IInv

(* The stage another part sets is never one a plan payload would set.      *)
LEMMA StageSetByOthers ==
  ASSUME IInv, projectStage' \in {"inspected", "qualified"},
         projectStage' = "qualified" => stageRow # None,
         UNCHANGED <<evidence, stageRow, checkpoints, report, generation, run, clock, history>>
  PROVE  IInv'
<1>1. UNCHANGED <<stageRow, checkpoints, report, generation, run, clock, evidence,
                  requested, torn, tampers>>
  BY DEF history
<1>2. TypeOK'
  BY <1>1 DEF IInv, TypeOK, ProjectStage
<1>3. CheckpointsGenuine' /\ ReportIsThere'
  BY <1>1 DEF IInv, CheckpointsGenuine, ReportIsThere, Untouched
<1>4. RowIsStored'
  BY <1>1 DEF IInv, RowIsStored, Stored
<1>5. RunIsPrepared' /\ ApprovalIsKept'
  BY <1>1 DEF IInv, RunIsPrepared, Prepared, ApprovalIsKept, Deciding, Untouched
<1>6. ReportMatchesRow' /\ TornIsLeft'
  BY <1>1 DEF IInv, ReportMatchesRow, TornIsLeft, LeftReport, InStep, Readable, Untouched
<1>7. CollisionNeedsCause' /\ RepairsInPlace'
  BY <1>1 DEF IInv, CollisionNeedsCause, RepairsInPlace, Retried, Untouched, Command, StageOf
<1> QED
  BY <1>2, <1>3, <1>4, <1>5, <1>6, <1>7 DEF IInv

LEMMA TamperStep ==
  ASSUME IInv, Tamper
  PROVE  IInv'
<1>1. UNCHANGED <<evidence, stageRow, checkpoints, projectStage, generation, run, clock,
                  requested, torn>>
  BY DEF Tamper, database
<1>2. tampers' \in Nat /\ ~Untouched'
  BY DEF Tamper, IInv, TypeOK, Untouched
<1>3. report' \in PlanReport \cup {None, Invalid}
  <2>1. CASE report' \in {None, Invalid}
    BY <2>1
  <2>2. ASSUME Readable, report' = [report EXCEPT !.approval = None]
        PROVE  report' \in PlanReport
    BY <2>2, CurrentTyped DEF PlanReport
  <2>3. ASSUME NEW t \in Topic, NEW a \in Author, Readable,
               StandingOf(report.fp, t) # "unranked",
               report' = [report EXCEPT !.approval =
                            [topic |-> t, author |-> a,
                             scope |-> StandingOf(report.fp, t), at |-> 0]]
        PROVE  report' \in PlanReport
    <3>1. report \in PlanReport /\ report.fp \in Fingerprint
      BY <2>3, CurrentTyped, ReportTyped
    <3>2. StandingOf(report.fp, t) \in Scope
      BY <2>3, <3>1, StandingTyped
    <3>3. [topic |-> t, author |-> a, scope |-> StandingOf(report.fp, t), at |-> 0] \in Approval
      BY <3>2, PlanBounds DEF Approval
    <3> QED
      BY <2>3, <3>1, <3>3 DEF PlanReport
  <2> QED
    BY <2>1, <2>2, <2>3 DEF Tamper
<1>4. TypeOK'
  BY <1>1, <1>2, <1>3 DEF IInv, TypeOK
<1>5. CheckpointsGenuine' /\ RowIsStored'
  BY <1>1 DEF IInv, CheckpointsGenuine, RowIsStored, Stored
<1>6. RunIsPrepared'
  BY <1>1, <1>2 DEF IInv, RunIsPrepared, Prepared, Deciding
<1>7. ApprovalIsKept' /\ ReportIsThere' /\ ReportMatchesRow' /\ TornIsLeft'
      /\ CollisionNeedsCause' /\ RepairsInPlace'
  BY <1>2 DEF ApprovalIsKept, ReportIsThere, ReportMatchesRow, TornIsLeft,
              CollisionNeedsCause, RepairsInPlace, Retried
<1> QED
  BY <1>4, <1>5, <1>6, <1>7 DEF IInv

-----------------------------------------------------------------------------
LEMMA InitIInv == Init => IInv
<1> SUFFICES ASSUME Init PROVE IInv
  OBVIOUS
<1>1. /\ evidence \in Evidence /\ projectStage = "initialized" /\ stageRow = None
      /\ checkpoints = << >> /\ report = None /\ generation = None
      /\ clock = 0 /\ requested = {} /\ torn = None /\ tampers = 0
  BY DEF Init
<1>2. PICK p \in Source :
         run = [at |-> "idle", path |-> p, approve |-> None, mode |-> CHOOSE m \in Mode : TRUE,
                regenerate |-> FALSE, evidence |-> evidence,
                inspection |-> CHOOSE i \in Inspection : TRUE,
                fp |-> None, report |-> None, payload |-> None, result |-> "none"]
  BY DEF Init
<1>3. (CHOOSE m \in Mode : TRUE) \in Mode /\ (CHOOSE i \in Inspection : TRUE) \in Inspection
  BY CommandsType
<1>4. run \in Run /\ run.at = "idle" /\ run.result = "none"
  BY <1>1, <1>2, <1>3 DEF Run, Approve, Result
<1>5. DOMAIN checkpoints = {}
  BY <1>1
<1>6. TypeOK
  BY <1>1, <1>4, <1>5, PlanBounds DEF TypeOK, ProjectStage, Range
<1>7. CheckpointsGenuine /\ RowIsStored /\ ReportIsThere
  BY <1>1, <1>5, NoneIsNew DEF CheckpointsGenuine, RowIsStored, ReportIsThere
<1>8. RunIsPrepared /\ ApprovalIsKept
  BY <1>4 DEF RunIsPrepared, ApprovalIsKept, Deciding
<1>9. ReportMatchesRow /\ TornIsLeft /\ CollisionNeedsCause /\ RepairsInPlace
  BY <1>1, <1>4 DEF ReportMatchesRow, TornIsLeft, CollisionNeedsCause, RepairsInPlace, Retried
<1> QED
  BY <1>6, <1>7, <1>8, <1>9 DEF IInv

LEMMA NextIInv == IInv /\ [Next]_vars => IInv'
<1> SUFFICES ASSUME IInv, [Next]_vars PROVE IInv'
  OBVIOUS
<1>1. ASSUME NEW c \in Commands[run.path],
             Begin(c.path, c.approve, c.mode, c.regenerate, c.inspection)
      PROVE  IInv'
  BY <1>1, BeginStep
<1>2. CASE ReuseGeneration
  <2>1. generation \in Generation
    BY <1>2 DEF ReuseGeneration, SameScience, IInv, TypeOK
  <2> QED
    BY <1>2, <2>1, RanksStep DEF ReuseGeneration
<1>3. CASE NewGeneration
  <2>1. generation' = [revision |-> NextRevision, evidence |-> evidence, mode |-> run.mode]
        /\ NextRevision <= MaxRevision
    BY <1>3 DEF NewGeneration
  <2>2. NextRevision \in Nat \ {0} /\ MaxRevision \in Nat
    BY PlanBounds DEF NextRevision, IInv, TypeOK, Generation
  <2>3. NextRevision \in 1..MaxRevision /\ evidence \in Evidence /\ run.mode \in Mode
    BY <2>1, <2>2, RunTyped DEF IInv, TypeOK
  <2>4. generation' \in Generation
    BY <2>1, <2>3 DEF Generation
  <2> QED
    BY <1>3, <2>4, RanksStep DEF NewGeneration
<1>4. CASE RefuseGeneration
  BY <1>4, RefuseGenerationStep
<1>5. CASE TurnDown
  BY <1>5, TurnDownStep
<1>6. CASE Collide
  BY <1>6, CollideStep
<1>7. CASE Decide
  BY <1>7, DecideStep
<1>8. CASE WriteReport
  BY <1>8, WriteReportStep
<1>9. CASE Transition
  BY <1>9, TransitionStep
<1>10. CASE Stop
  BY <1>10, StopStep
<1>11. ASSUME NEW e \in Evidence, ChangeEvidence(e) PROVE IInv'
  BY <1>11, ChangeEvidenceStep
<1>12. CASE Inspect
  BY <1>12, StageSetByOthers DEF Inspect
<1>13. CASE Qualify
  BY <1>13, StageSetByOthers DEF Qualify
<1>14. CASE Tamper
  BY <1>14, TamperStep
<1>15. CASE UNCHANGED vars
  <2>1. UNCHANGED <<evidence, stageRow, checkpoints, projectStage, report, generation, run,
                    clock, requested, torn, tampers>>
    BY <1>15 DEF vars
  <2>2. TypeOK'
    BY <2>1 DEF IInv, TypeOK
  <2>3. CheckpointsGenuine' /\ RowIsStored' /\ ReportIsThere'
    BY <2>1, RecordsKept DEF database
  <2>4. RunIsPrepared' /\ ApprovalIsKept'
    BY <2>1 DEF IInv, RunIsPrepared, Prepared, ApprovalIsKept, Deciding, Untouched
  <2>5. ReportMatchesRow' /\ TornIsLeft'
    BY <2>1 DEF IInv, ReportMatchesRow, TornIsLeft, LeftReport, InStep, Readable, Untouched
  <2>6. CollisionNeedsCause' /\ RepairsInPlace'
    BY <2>1 DEF IInv, CollisionNeedsCause, RepairsInPlace, Retried, Untouched, Command, StageOf
  <2> QED
    BY <2>2, <2>3, <2>4, <2>5, <2>6 DEF IInv
<1> QED
  BY <1>1, <1>2, <1>3, <1>4, <1>5, <1>6, <1>7, <1>8, <1>9, <1>10, <1>11, <1>12, <1>13,
     <1>14, <1>15 DEF Next, Plan

(* The invariant the other facts follow from, in every reachable state.    *)
THEOREM PlanInvariant == Spec => []IInv
<1> QED
  BY InitIInv, NextIInv, PTL DEF Spec

(* Every variable keeps its type: what the command reads back from the     *)
(* report file, the row and the checkpoints always has the shape run_plan  *)
(* relies on.                                                              *)
THEOREM PlanTypeCorrect == Spec => []TypeOK
<1>1. IInv => TypeOK
  BY DEF IInv
<1> QED
  BY PlanInvariant, <1>1, PTL

(* Whatever is done to the report file, the plan row is one of the stored  *)
(* checkpoints and every stored approval was asked for by an author.       *)
THEOREM DatabaseStaysGenuine == Spec => []DatabaseIsGenuine
<1>1. IInv => DatabaseIsGenuine
  BY DEF IInv, RowIsStored, CheckpointsGenuine, DatabaseIsGenuine
<1> QED
  BY PlanInvariant, <1>1, PTL

(* A topic-approved project stands on a defensible topic, and report and   *)
(* row agree unless a command was cut short between the two.               *)
THEOREM ApprovalsStandAlways == Spec => []ApprovalsStand
<1>1. ASSUME IInv PROVE ApprovedIsDefensible
  <2>1. SUFFICES ASSUME projectStage = "topic-approved"
                 PROVE  /\ stageRow.approval # None
                        /\ StandingOf(stageRow.fp, stageRow.approval.topic) = "manuscript-topic"
    BY DEF ApprovedIsDefensible
  <2>2. stageRow # None
    BY <1>1, <2>1 DEF IInv, RowIsStored
  <2> QED
    BY <1>1, <2>1, <2>2, RowIsGenuine DEF IInv, RowIsStored, Ranked
<1>2. IInv => ApprovalsStand
  BY <1>1 DEF IInv, ApprovalsStand
<1> QED
  BY PlanInvariant, <1>2, PTL

(* Legal commands in any order do not collide: a collision has a command   *)
(* cut short, or an edit of the report, before it.                         *)
THEOREM CollisionsHaveACause == Spec => []CollisionNeedsCause
<1>1. IInv => CollisionNeedsCause
  BY DEF IInv
<1> QED
  BY PlanInvariant, <1>1, PTL

(* Repeating the command that was cut short repairs the plan unless the    *)
(* row has moved to other records or another part has set the stage.       *)
THEOREM RetriesRepairInPlace == Spec => []RepairsInPlace
<1>1. IInv => RepairsInPlace
  BY DEF IInv
<1> QED
  BY PlanInvariant, <1>1, PTL

(* No plan throws away an approval whose records are unchanged, nor a      *)
(* generation that has not reached the database.                           *)
THEOREM PlansKeepWork == Spec => WorkKept
<1>1. ASSUME IInv, [Next]_vars,
             stageRow' # stageRow, stageRow # None, stageRow.approval # None,
             run.approve = None, Untouched, torn = None
      PROVE  stageRow'.fp # stageRow.fp
  <2>1. Transition /\ stageRow' = run.payload /\ run.at = "transition"
    BY <1>1 DEF Next, Plan, vars, database, Begin, ReuseGeneration, NewGeneration,
                RefuseGeneration, TurnDown, Collide, Decide, WriteReport, Transition, Stop,
                ChangeEvidence, Inspect, Qualify, Tamper
  <2>2. run.payload.fp = run.fp
    BY <1>1, <2>1 DEF IInv, RunIsPrepared, Prepared, Deciding
  <2> QED
    BY <1>1, <2>1, <2>2 DEF IInv, ApprovalIsKept, Deciding
<1>2. ASSUME [Next]_vars, generation' # generation, generation # None,
             generation'.evidence = generation.evidence
      PROVE  stageRow # None /\ stageRow.fp.gen = generation
  <2>1. NewGeneration
    BY <1>2 DEF Next, Plan, vars, Begin, ReuseGeneration, RefuseGeneration, TurnDown,
                Collide, Decide, WriteReport, Transition, Stop, ChangeEvidence, Inspect,
                Qualify, Tamper
  <2>2. generation'.evidence = evidence
    BY <2>1 DEF NewGeneration
  <2> QED
    BY <1>2, <2>1, <2>2 DEF NewGeneration, SameScience, Regenerates, Integrated, InStep
<1>3. IInv /\ [Next]_vars =>
        [stageRow' # stageRow /\ stageRow # None /\ stageRow.approval # None
         /\ run.approve = None /\ Untouched /\ torn = None
           => stageRow'.fp # stageRow.fp]_vars
  BY <1>1
<1>4. [Next]_vars =>
        [generation' # generation /\ generation # None
         /\ generation'.evidence = generation.evidence
           => stageRow # None /\ stageRow.fp.gen = generation]_vars
  BY <1>2
<1>5. Spec => ApprovalKept
  BY PlanInvariant, <1>3, PTL DEF Spec, ApprovalKept
<1>6. Spec => UnintegratedKept
  BY <1>4, PTL DEF Spec, UnintegratedKept
<1> QED
  BY <1>5, <1>6 DEF WorkKept


================================================================================
