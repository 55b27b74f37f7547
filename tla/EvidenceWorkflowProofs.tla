------------------------ MODULE EvidenceWorkflowProofs ------------------------
(***************************************************************************)
(* Proofs about EvidenceWorkflow for every set of inputs, every verdict on *)
(* them, every number of commands, edits and cuts.                         *)
(***************************************************************************)
EXTENDS EvidenceWorkflow, TLAPS

Names == Plain \cup BySigner
Ops == {"none", "qualify", "approve", "analyze", "figure", "write", "final"}
FileStep == UNION {[kind : {"put", "remove", "stale"}, name : {name},
                    value : Held(name) \cup {None}] : name \in Names}
Command == [op : Ops, at : {"idle", "persist", "load", "write"}, records : Records \cup {None},
            pending : Seq(FileStep), old : File("written")]

(* What must be true of a value before it may stand in an artifact, given  *)
(* what authors have approved: topics, contracts and figure candidates.    *)
Runs(c) == <<c.question, c.obs>> \in Computable
Earned(name, value, topics, contracts, candidates) ==
  /\ name = "candidate" => Sound(value)
  /\ name = "locked" =>
       /\ Sound(value.contract)
       /\ [topic |-> value.contract.topic, author |-> value.author] \in topics
  /\ name \in BySigner => value \in contracts
  /\ name \in {"results", "ceiling"} =>
       Sound(value) /\ Runs(value) /\ \E l \in contracts : l.contract = value
  /\ name = "delivery" => value \in candidates
  /\ name = "written" => Sound(value) /\ Runs(value) /\ \E f \in candidates : f.contract = value
Due(step, topics, contracts, candidates) ==
  /\ step.kind = "put" =>
       /\ step.value \in Held(step.name)
       /\ Earned(step.name, step.value, topics, contracts, candidates)
  /\ step.kind = "remove" => step.name = "written"

(* It is true of every artifact there is ...                               *)
FilesEarned ==
  \A name \in Names : files[name] # None => Earned(name, Loaded(name), given, locks, figures)

(* ... and of all that the command that runs has yet to write.             *)
CommandEarned ==
  /\ cmd \in Command
  /\ cmd.at = "persist" => cmd.records \in Records
  /\ \A k \in DOMAIN cmd.pending : Due(cmd.pending[k], given, locks, figures)
  /\ cmd.old # None => Earned("written", cmd.old.value, given, locks, figures)

ApprovalGiven == approval # None => approval \in given

(* What kept stands for.                                                   *)
KeptAgrees == kept => Loaded("results") = Loaded("candidate")

(* Unless a command was cut short, an approved contract is locked as it is *)
(* stored, from the last write of its approval to the first of the next    *)
(* qualification.                                                          *)
Relocks == cmd.at = "write" /\ cmd.op \in {"qualify", "approve"}
LockIsStored ==
  cuts = 0 =>
    /\ rows.qualify = "approved" /\ ~Relocks => Loaded("locked").contract = Loaded("candidate")
    /\ ~Relocks => \A k \in DOMAIN cmd.pending : cmd.pending[k].name \notin {"candidate", "locked"}
    /\ cmd.op = "approve" => \E l \in locks :
         \/ cmd.pending = << Put("candidate", l.contract), Put("locked", l) >>
         \/ cmd.pending = << Put("locked", l) >> /\ Loaded("candidate") = l.contract
         \/ cmd.pending = << >> /\ Loaded("candidate") = l.contract /\ Loaded("locked") = l

IInv ==
  /\ TypeOK
  /\ FilesEarned
  /\ CommandEarned
  /\ ApprovalGiven
  /\ KeptAgrees
  /\ cuts \in Nat
  /\ LockIsStored
-----------------------------------------------------------------------------
(* What an author approved stays approved.                                 *)
HistoryGrows == given \subseteq given' /\ locks \subseteq locks' /\ figures \subseteq figures'

LEMMA EarnedGrows ==
  ASSUME HistoryGrows, NEW name \in Names, NEW value, Earned(name, value, given, locks, figures)
  PROVE  Earned(name, value, given', locks', figures')
  BY DEF HistoryGrows, Earned

LEMMA StepFields ==
  ASSUME NEW step \in FileStep
  PROVE  step.name \in Names
  BY DEF FileStep

LEMMA DueGrows ==
  ASSUME HistoryGrows, NEW step \in FileStep, Due(step, given, locks, figures)
  PROVE  Due(step, given', locks', figures')
  BY EarnedGrows, StepFields DEF Due

LEMMA LoadedTyped ==
  ASSUME TypeOK, NEW name \in Names, files[name] # None
  PROVE  Loaded(name) \in Held(name)
  BY DEF TypeOK, Names, File, Loaded

LEMMA InputsTyped ==
  ASSUME TypeOK
  PROVE  /\ inputs.records \in Records /\ inputs.obs \in Observations
         /\ inputs.question \in Question
         /\ Topic \in Fingerprint /\ Derived(Topic) \in Contract
         /\ approval # None => /\ approval.topic \in Fingerprint /\ approval.author \in Author
                              /\ Derived(approval.topic) \in Contract
  BY DEF TypeOK, Topic, Fingerprint, Derived, Contract, Approval

LEMMA StepTyped ==
  ASSUME NEW name \in Names, NEW kind \in {"put", "remove", "stale"},
         NEW value \in Held(name) \cup {None}
  PROVE  [kind |-> kind, name |-> name, value |-> value] \in FileStep
  BY DEF FileStep

(* A step that writes no file and ends no command.                         *)
Quiet ==
  /\ UNCHANGED <<files, rows, kept, cuts>>
  /\ HistoryGrows
  /\ TypeOK' /\ ApprovalGiven'

LEMMA QuietKeeps ==
  ASSUME IInv, Quiet, CommandEarned', LockIsStored'
  PROVE  IInv'
<1>1. FilesEarned'
  BY EarnedGrows DEF Quiet, IInv, FilesEarned, Loaded
<1> QED
  BY <1>1 DEF IInv, Quiet, KeptAgrees, Loaded

(* The same command, or none: nothing new is due.                          *)
LEMMA SameCommandKeeps ==
  ASSUME IInv, Quiet, UNCHANGED cmd
  PROVE  IInv'
<1>1. CommandEarned'
  <2>1. \A k \in DOMAIN cmd.pending : cmd.pending[k] \in FileStep
    BY DEF IInv, CommandEarned, Command
  <2>2. \A k \in DOMAIN cmd.pending : Due(cmd.pending[k], given', locks', figures')
    BY <2>1, DueGrows DEF Quiet, IInv, CommandEarned
  <2>3. cmd.old # None => Earned("written", cmd.old.value, given', locks', figures')
    BY EarnedGrows DEF Quiet, IInv, CommandEarned, Names, Plain
  <2> QED
    BY <2>2, <2>3 DEF IInv, CommandEarned
<1>2. LockIsStored'
  BY DEF Quiet, IInv, LockIsStored, Relocks, HistoryGrows, Loaded
<1> QED
  BY <1>1, <1>2, QuietKeeps

(* A command that begins by reading, and one that ends where it is.        *)
LEMMA NoWritesKeep ==
  ASSUME IInv, Quiet, cmd.at # "write", cmd'.at # "write", cmd' \in Command,
         cmd'.pending = << >>, cmd'.old = None, cmd'.op # "approve",
         cmd'.at = "persist" => cmd'.records \in Records
  PROVE  IInv'
<1>1. CommandEarned'
  BY DEF CommandEarned
<1>2. LockIsStored'
  BY DEF Quiet, IInv, LockIsStored, Relocks, Loaded
<1> QED
  BY <1>1, <1>2, QuietKeeps

(* A command that goes on to its writes.                                   *)
LEMMA WritesKeep ==
  ASSUME IInv, Quiet, cmd.at # "write", NEW op \in Ops, NEW steps \in Seq(FileStep),
         Writes(op, steps), \A k \in DOMAIN steps : Due(steps[k], given', locks', figures'),
         op \notin {"qualify", "approve"} =>
           \A k \in DOMAIN steps : steps[k].name \notin {"candidate", "locked"},
         op = "approve" => \E l \in locks' :
           steps = << Put("candidate", l.contract), Put("locked", l) >>
  PROVE  IInv'
<1>1. cmd' = [op |-> op, at |-> "write", records |-> None, pending |-> steps,
              old |-> files["written"]]
  BY DEF Writes, Idle
<1>2. files["written"] \in File("written")
  BY DEF IInv, TypeOK, Plain
<1>3. cmd' \in Command
  BY <1>1, <1>2 DEF Command
<1>4. files["written"] # None => Earned("written", files["written"].value, given', locks', figures')
  BY EarnedGrows DEF Quiet, IInv, FilesEarned, Loaded, Names, Plain
<1>5. CommandEarned'
  <2>1. cmd'.at = "write" /\ cmd'.pending = steps /\ cmd'.old = files["written"]
    BY <1>1
  <2> QED
    BY <1>3, <1>4, <2>1 DEF CommandEarned
<1>6. LockIsStored'
  <2>1. cmd'.op = op /\ cmd'.at = "write" /\ cmd'.pending = steps
    BY <1>1
  <2> QED
    BY <2>1 DEF Quiet, IInv, LockIsStored, Relocks, Loaded
<1> QED
  BY <1>5, <1>6, QuietKeeps

LEMMA MarkStaleKeeps ==
  ASSUME IInv, Quiet, cmd.at # "write", MarkStale
  PROVE  IInv'
<1> DEFINE steps == << Stale("results"), Stale("ceiling"), Stale("figure"), Stale("delivery") >>
<1>1. /\ Stale("results") \in FileStep /\ Stale("ceiling") \in FileStep
      /\ Stale("figure") \in FileStep /\ Stale("delivery") \in FileStep
  BY StepTyped DEF Stale, Names, Plain, BySigner
<1>2. steps \in Seq(FileStep) /\ DOMAIN steps = 1..4
  BY <1>1
<1>3. \A k \in 1..4 : steps[k].kind = "stale" /\ steps[k].name \notin {"candidate", "locked"}
  BY DEF Stale
<1>4. \A k \in DOMAIN steps : Due(steps[k], given', locks', figures')
  BY <1>2, <1>3 DEF Due
<1>5. Writes("none", steps)
  BY DEF MarkStale
<1> QED
  BY <1>2, <1>3, <1>4, <1>5, WritesKeep DEF Ops

-----------------------------------------------------------------------------
(* The commands, one lemma for each.                                       *)
LEMMA IdleTyped == Idle \in Command
  BY DEF Idle, Command, Ops, File

LEMMA KeptApprovalFits ==
  ASSUME IInv, NEW topic
  PROVE  /\ KeptApproval(topic) \in Approval \cup {None}
         /\ KeptApproval(topic) # None => KeptApproval(topic) \in given
  BY DEF KeptApproval, IInv, TypeOK, ApprovalGiven

LEMMA PlanKeeps == ASSUME IInv, Plan PROVE IInv'
<1>1. UNCHANGED <<inputs, evidence, envelope, files, rows, cmd, edits, cuts, given, locks, figures, kept>>
  BY DEF Plan, history
<1>2. TypeOK' /\ ApprovalGiven'
  BY <1>1, KeptApprovalFits DEF Plan, IInv, TypeOK, ApprovalGiven
<1>3. Quiet
  BY <1>1, <1>2 DEF Quiet, HistoryGrows
<1> QED
  BY <1>1, <1>3, SameCommandKeeps

LEMMA ApproveTopicKeeps == ASSUME IInv, NEW a \in Author, ApproveTopic(a) PROVE IInv'
<1>1. /\ UNCHANGED <<inputs, evidence, envelope, files, rows, cmd, edits, cuts, locks, figures, kept>>
      /\ approval' = [topic |-> Topic, author |-> a] /\ given' = given \cup {approval'}
  BY DEF ApproveTopic
<1>2. approval' \in Approval
  BY <1>1, InputsTyped DEF IInv, Approval
<1>3. TypeOK' /\ ApprovalGiven'
  BY <1>1, <1>2 DEF IInv, TypeOK, ApprovalGiven
<1>4. Quiet
  BY <1>1, <1>3 DEF Quiet, HistoryGrows
<1> QED
  BY <1>1, <1>4, SameCommandKeeps

LEMMA EditKeeps == ASSUME IInv, Edit PROVE IInv'
<1>1. UNCHANGED <<evidence, approval, files, rows, cmd, cuts, given, locks, figures, kept>>
  BY DEF Edit, history
<1>2. /\ inputs' \in [records : Records, obs : Observations, question : Question, sources : BOOLEAN]
      /\ envelope' \in Envelope
  BY DEF Edit, IInv, TypeOK
<1>3. TypeOK' /\ ApprovalGiven'
  BY <1>1, <1>2 DEF IInv, TypeOK, ApprovalGiven
<1>4. Quiet
  BY <1>1, <1>3 DEF Quiet, HistoryGrows
<1> QED
  BY <1>1, <1>4, SameCommandKeeps

(* A command that changes nothing but itself, to begin with.               *)
LEMMA CommandOnly ==
  ASSUME IInv, UNCHANGED <<inputs, project, files, rows, cuts, history>>,
         cmd'.at \in {"idle", "persist", "load", "write"}
  PROVE  Quiet
<1>1. UNCHANGED <<inputs, evidence, envelope, approval, files, rows, cuts, given, locks, figures, kept>>
  BY DEF project, history
<1>2. TypeOK' /\ ApprovalGiven'
  BY <1>1 DEF IInv, TypeOK, ApprovalGiven
<1> QED
  BY <1>1, <1>2 DEF Quiet, HistoryGrows

LEMMA WritesAt ==
  ASSUME NEW op, NEW steps, Writes(op, steps)
  PROVE  cmd'.at \in {"idle", "persist", "load", "write"}
  BY DEF Writes, Idle

LEMMA QualifyKeeps == ASSUME IInv, Qualify PROVE IInv'
<1>1. cmd.at # "write" /\ UNCHANGED <<inputs, project, files, rows, cuts, history>>
  BY DEF Qualify, Begins
<1>2. CASE inputs.sources
  <2>1. cmd' = [op |-> "qualify", at |-> "persist", records |-> inputs.records,
                pending |-> << >>, old |-> None]
    BY <1>2 DEF Qualify, Idle
  <2>2. cmd' \in Command
    BY <2>1, InputsTyped DEF IInv, Command, Ops, File
  <2>3. Quiet
    BY <1>1, <2>1, CommandOnly
  <2>4. inputs.records \in Records
    BY InputsTyped DEF IInv
  <2>5. cmd'.at = "persist" /\ cmd'.pending = << >> /\ cmd'.old = None /\ cmd'.op = "qualify"
        /\ cmd'.records = inputs.records
    BY <2>1
  <2> QED
    BY <1>1, <2>2, <2>3, <2>4, <2>5, NoWritesKeep
<1>3. CASE ~inputs.sources
  BY <1>1, <1>3, CommandOnly, WritesAt, MarkStaleKeeps DEF Qualify, MarkStale
<1> QED
  BY <1>2, <1>3

LEMMA QualifyPersistKeeps == ASSUME IInv, QualifyPersist PROVE IInv'
<1>1. /\ UNCHANGED <<inputs, envelope, files, rows, cuts, given, locks, figures, kept>>
      /\ cmd.at = "persist" /\ cmd' = [cmd EXCEPT !.at = "load"]
  BY DEF QualifyPersist, counters, history
<1>2. cmd.records \in Records /\ cmd \in Command
  BY <1>1 DEF IInv, CommandEarned
<1>3. evidence' \in {Evidence[r] : r \in Records}
  BY <1>2 DEF QualifyPersist, PersistedRows
<1>4. /\ approval' \in Approval \cup {None}
      /\ approval' # None => approval' \in given
  BY KeptApprovalFits DEF QualifyPersist
<1>5. cmd' \in Command /\ cmd'.at = "load"
  BY <1>1, <1>2 DEF Command
<1>6. TypeOK' /\ ApprovalGiven'
  BY <1>1, <1>3, <1>4, <1>5 DEF IInv, TypeOK, ApprovalGiven
<1>7. Quiet
  BY <1>1, <1>6 DEF Quiet, HistoryGrows
<1>8. CommandEarned'
  <2>1. cmd'.pending = cmd.pending /\ cmd'.old = cmd.old
    BY <1>1, <1>2 DEF Command
  <2>2. \A k \in DOMAIN cmd.pending : Due(cmd.pending[k], given', locks', figures')
    BY <1>2, <1>7, DueGrows DEF Quiet, IInv, CommandEarned, Command
  <2>3. cmd.old # None => Earned("written", cmd.old.value, given', locks', figures')
    BY <1>7, EarnedGrows DEF Quiet, IInv, CommandEarned, Names, Plain
  <2> QED
    BY <1>5, <2>1, <2>2, <2>3 DEF CommandEarned
<1>9. LockIsStored'
  <2>1. cmd'.pending = cmd.pending /\ cmd'.op = cmd.op
    BY <1>1, <1>2 DEF Command
  <2> QED
    BY <1>1, <1>5, <2>1 DEF IInv, LockIsStored, Relocks, Loaded
<1> QED
  BY <1>7, <1>8, <1>9, QuietKeeps

LEMMA QualifyLoadKeeps == ASSUME IInv, QualifyLoad PROVE IInv'
<1>1. cmd.at # "write" /\ UNCHANGED <<inputs, project, files, rows, cuts, history>>
  BY DEF QualifyLoad, counters
<1>2. CASE Material
  <2> DEFINE report == Put("report", <<inputs.records, inputs.obs>>)
             candidate == Put("candidate", Derived(Topic))
             steps == << report, candidate >>
  <2>1. Writes("qualify", steps)
    BY <1>2 DEF QualifyLoad
  <2>2. Quiet
    BY <1>1, <2>1, CommandOnly, WritesAt
  <2>3. <<inputs.records, inputs.obs>> \in Held("report") /\ Derived(Topic) \in Held("candidate")
    BY InputsTyped DEF IInv, Held, BySigner
  <2>4. report \in FileStep /\ candidate \in FileStep
    BY <2>3, StepTyped DEF Put, Names, Plain
  <2>5. Earned("report", <<inputs.records, inputs.obs>>, given', locks', figures')
    BY DEF Earned, BySigner
  <2>6. Sound(Derived(Topic))
    BY <1>2 DEF Material, Agree, Sufficient, Sound, Derived
  <2>7. Earned("candidate", Derived(Topic), given', locks', figures')
    BY <2>6 DEF Earned, BySigner
  <2>8. steps \in Seq(FileStep) /\ DOMAIN steps = 1..2 /\ steps[1] = report /\ steps[2] = candidate
    BY <2>4
  <2>9. /\ Due(report, given', locks', figures') /\ Due(candidate, given', locks', figures')
    BY <2>3, <2>5, <2>7 DEF Due, Put
  <2>10. \A k \in DOMAIN steps : Due(steps[k], given', locks', figures')
    BY <2>8, <2>9
  <2> QED
    BY <1>1, <2>1, <2>2, <2>8, <2>10, WritesKeep DEF Ops
<1>3. CASE ~Material
  <2>1. cmd' = Idle
    BY <1>3 DEF QualifyLoad
  <2>2. Quiet
    BY <1>1, <2>1, CommandOnly DEF Idle
  <2> QED
    BY <1>1, <2>1, <2>2, IdleTyped, NoWritesKeep DEF Idle
<1> QED
  BY <1>2, <1>3

(* Writes that put values which have been earned.                          *)
LEMMA PutsTyped ==
  ASSUME NEW name \in Names, NEW value \in Held(name),
         NEW t, NEW c, NEW f, Earned(name, value, t, c, f)
  PROVE  /\ Put(name, value) \in FileStep /\ Due(Put(name, value), t, c, f)
         /\ Put(name, value).name = name
  BY StepTyped DEF Put, Due

LEMMA ApproveContractKeeps == ASSUME IInv, NEW a \in Author, ApproveContract(a) PROVE IInv'
<1> DEFINE contract == Derived(approval.topic)
           locked == [contract |-> contract, author |-> a]
<1>1. /\ cmd.at # "write" /\ MayApprove(a) /\ Material
      /\ UNCHANGED <<inputs, evidence, envelope, approval, files, rows, cuts, given, figures, kept>>
  BY DEF ApproveContract, Begins, project
<1>2. contract \in Contract /\ approval \in Approval /\ locked \in Signed
  BY <1>1, InputsTyped DEF IInv, TypeOK, MayApprove, Signed
<1>3. CASE SameScience(Loaded("candidate"))
  <2> DEFINE first == Put("candidate", contract)
             second == Put("locked", locked)
             steps == << first, second >>
  <2>1. Writes("approve", steps) /\ locks' = locks \cup {locked}
    BY <1>3 DEF ApproveContract
  <2>2. TypeOK' /\ ApprovalGiven'
    BY <1>1, <1>2, <2>1, WritesAt DEF IInv, TypeOK, ApprovalGiven
  <2>3. Quiet
    BY <1>1, <2>1, <2>2 DEF Quiet, HistoryGrows
  <2>4. Sound(contract) /\ contract.topic = approval.topic
    BY <1>1 DEF Material, Agree, Sufficient, Sound, Derived
  <2>5. approval = [topic |-> contract.topic, author |-> a] /\ approval \in given'
    BY <1>1, <1>2, <2>4 DEF Approval, MayApprove, IInv, ApprovalGiven
  <2>6. /\ Earned("candidate", contract, given', locks', figures')
        /\ Earned("locked", locked, given', locks', figures')
    BY <2>1, <2>4, <2>5 DEF Earned, BySigner
  <2>7. contract \in Held("candidate") /\ locked \in Held("locked")
    BY <1>2 DEF Held, BySigner
  <2>8. /\ first \in FileStep /\ Due(first, given', locks', figures')
        /\ second \in FileStep /\ Due(second, given', locks', figures')
    BY <2>6, <2>7, PutsTyped DEF Names, Plain, BySigner
  <2>9. steps \in Seq(FileStep) /\ DOMAIN steps = 1..2 /\ steps[1] = first /\ steps[2] = second
    BY <2>8
  <2>10. \A k \in DOMAIN steps : Due(steps[k], given', locks', figures')
    BY <2>8, <2>9
  <2>11. \E l \in locks' : steps = << Put("candidate", l.contract), Put("locked", l) >>
    BY <2>1
  <2> HIDE DEF steps
  <2> QED
    BY <1>1, <2>1, <2>3, <2>9, <2>10, <2>11, WritesKeep DEF Ops
<1>4. CASE ~SameScience(Loaded("candidate"))
  BY <1>1, <1>4, CommandOnly, WritesAt, MarkStaleKeeps DEF ApproveContract, MarkStale, project,
     history
<1> QED
  BY <1>3, <1>4

LEMMA AnalyzeKeeps == ASSUME IInv, Analyze PROVE IInv'
<1> DEFINE c == Analyzed.contract
           steps == << Put("results", c), Put("ceiling", c), Put("figure", Analyzed) >>
<1>1. cmd.at # "write" /\ UNCHANGED <<inputs, project, files, rows, cuts, history>>
  BY DEF Analyze, Begins
<1>2. CASE MarkStale
  BY <1>1, <1>2, CommandOnly, WritesAt, MarkStaleKeeps DEF MarkStale
<1>3. CASE Current /\ Live("locked") /\ Evaluates(c) /\ Writes("analyze", steps)
  <2>1. Quiet
    BY <1>1, <1>3, CommandOnly, WritesAt
  <2>2. Analyzed \in Signed /\ Earned("locked", Analyzed, given, locks, figures)
    BY <1>3, LoadedTyped DEF IInv, FilesEarned, Live, Analyzed, Names, BySigner, Held
  <2>3. Analyzed \in locks /\ Sound(c) /\ Runs(c) /\ c \in Contract
    BY <1>3, <2>2 DEF Earned, BySigner, Evaluates, Runs, Signed
  <2>4. /\ Earned("results", c, given', locks', figures')
        /\ Earned("ceiling", c, given', locks', figures')
        /\ Earned("figure", Analyzed, given', locks', figures')
    BY <2>1, <2>3 DEF Quiet, HistoryGrows, Earned, BySigner
  <2>5. c \in Held("results") /\ c \in Held("ceiling") /\ Analyzed \in Held("figure")
    BY <2>2, <2>3 DEF Held, BySigner
  <2> DEFINE p == Put("results", c)
             q == Put("ceiling", c)
             r == Put("figure", Analyzed)
  <2>6. /\ p \in FileStep /\ Due(p, given', locks', figures') /\ p.name = "results"
        /\ q \in FileStep /\ Due(q, given', locks', figures') /\ q.name = "ceiling"
        /\ r \in FileStep /\ Due(r, given', locks', figures') /\ r.name = "figure"
    BY <2>4, <2>5, PutsTyped DEF Names, Plain, BySigner
  <2>7. /\ steps \in Seq(FileStep) /\ DOMAIN steps = 1..3
        /\ steps[1] = p /\ steps[2] = q /\ steps[3] = r
    BY <2>6
  <2>8. \A k \in DOMAIN steps : Due(steps[k], given', locks', figures')
                                /\ steps[k].name \notin {"candidate", "locked"}
    BY <2>6, <2>7
  <2> HIDE DEF steps
  <2> QED
    BY <1>1, <1>3, <2>1, <2>7, <2>8, WritesKeep DEF Ops
<1> QED
  BY <1>2, <1>3 DEF Analyze

LEMMA ApproveFigureKeeps == ASSUME IInv, NEW a \in Author, ApproveFigure(a) PROVE IInv'
<1> DEFINE figure == Loaded("figure")
           p == Put("drawn", figure)
           q == Put("manifest", figure)
           r == Put("delivery", figure)
           steps == << p, q, r >>
<1>1. /\ cmd.at # "write"
      /\ UNCHANGED <<inputs, evidence, envelope, approval, files, rows, cuts, given, locks, kept>>
  BY DEF ApproveFigure, Begins, project
<1>2. CASE MarkStale /\ UNCHANGED figures
  BY <1>1, <1>2, CommandOnly, WritesAt, MarkStaleKeeps DEF MarkStale, project, history
<1>3. CASE FigureBinds(a) /\ Writes("figure", steps) /\ figures' = figures \cup {figure}
  <2>1. figure \in Signed /\ Earned("figure", figure, given, locks, figures)
    BY <1>3, LoadedTyped DEF IInv, FilesEarned, FigureBinds, Live, Names, BySigner, Held
  <2>2. TypeOK' /\ ApprovalGiven'
    BY <1>1, <1>3, <2>1, WritesAt DEF IInv, TypeOK, ApprovalGiven
  <2>3. Quiet
    BY <1>1, <1>3, <2>2 DEF Quiet, HistoryGrows
  <2>4. /\ Earned("drawn", figure, given', locks', figures')
        /\ Earned("manifest", figure, given', locks', figures')
        /\ Earned("delivery", figure, given', locks', figures')
    BY <1>1, <1>3, <2>1 DEF Earned, BySigner
  <2>5. figure \in Held("drawn") /\ figure \in Held("manifest") /\ figure \in Held("delivery")
    BY <2>1 DEF Held, BySigner
  <2>6. /\ p \in FileStep /\ Due(p, given', locks', figures') /\ p.name = "drawn"
        /\ q \in FileStep /\ Due(q, given', locks', figures') /\ q.name = "manifest"
        /\ r \in FileStep /\ Due(r, given', locks', figures') /\ r.name = "delivery"
    BY <2>4, <2>5, PutsTyped DEF Names, Plain, BySigner
  <2>7. /\ steps \in Seq(FileStep) /\ DOMAIN steps = 1..3
        /\ steps[1] = p /\ steps[2] = q /\ steps[3] = r
    BY <2>6
  <2>8. \A k \in DOMAIN steps : Due(steps[k], given', locks', figures')
                                /\ steps[k].name \notin {"candidate", "locked"}
    BY <2>6, <2>7
  <2> HIDE DEF steps
  <2> QED
    BY <1>1, <1>3, <2>3, <2>7, <2>8, WritesKeep DEF Ops
<1> QED
  BY <1>2, <1>3 DEF ApproveFigure

LEMMA WriteKeeps == ASSUME IInv, Write PROVE IInv'
<1> DEFINE c == Loaded("results")
           p == Put("written", c)
           steps == Swap(c)
<1>1. cmd.at # "write" /\ UNCHANGED <<inputs, project, files, rows, cuts, history>>
  BY DEF Write, Begins
<1>2. CASE MarkStale
  BY <1>1, <1>2, CommandOnly, WritesAt, MarkStaleKeeps DEF MarkStale
<1>3. CASE ParagraphInputs /\ Writes("write", steps)
  <2>1. Quiet
    BY <1>1, <1>3, CommandOnly, WritesAt
  <2>2. c \in Contract /\ Earned("results", c, given, locks, figures)
    BY <1>3, LoadedTyped DEF IInv, FilesEarned, ParagraphInputs, Live, Names, Plain, BySigner, Held
  <2>3. Loaded("delivery") \in figures /\ Loaded("delivery").contract = c
    BY <1>3 DEF IInv, FilesEarned, ParagraphInputs, Live, Names, Plain, BySigner, Earned
  <2>4. Earned("written", c, given', locks', figures') /\ c \in Held("written")
    BY <2>1, <2>2, <2>3 DEF Quiet, HistoryGrows, Earned, BySigner, Held
  <2>5. p \in FileStep /\ Due(p, given', locks', figures') /\ p.name = "written"
    BY <2>4, PutsTyped DEF Names, Plain
  <2>6. /\ Remove("written") \in FileStep /\ Due(Remove("written"), given', locks', figures')
        /\ Remove("written").name = "written"
    BY StepTyped DEF Remove, Names, Plain, Due
  <2>7. CASE files["written"] = None
    <3>1. steps \in Seq(FileStep) /\ DOMAIN steps = 1..1 /\ steps[1] = p
      BY <2>5, <2>7 DEF Swap
    <3>2. \A k \in DOMAIN steps : Due(steps[k], given', locks', figures')
                                  /\ steps[k].name \notin {"candidate", "locked"}
      BY <2>5, <3>1
    <3> HIDE DEF steps
    <3> QED
      BY <1>1, <1>3, <2>1, <3>1, <3>2, WritesKeep DEF Ops
  <2>8. CASE files["written"] # None
    <3>1. /\ steps \in Seq(FileStep) /\ DOMAIN steps = 1..2
          /\ steps[1] = Remove("written") /\ steps[2] = p
      BY <2>5, <2>6, <2>8 DEF Swap
    <3>2. \A k \in DOMAIN steps : Due(steps[k], given', locks', figures')
                                  /\ steps[k].name \notin {"candidate", "locked"}
      BY <2>5, <2>6, <3>1
    <3> HIDE DEF steps
    <3> QED
      BY <1>1, <1>3, <2>1, <3>1, <3>2, WritesKeep DEF Ops
  <2> QED
    BY <2>7, <2>8
<1> QED
  BY <1>2, <1>3 DEF Write

LEMMA ApproveParagraphKeeps == ASSUME IInv, NEW a \in Author, ApproveParagraph(a) PROVE IInv'
<1>1. cmd.at # "write" /\ UNCHANGED <<inputs, project, files, rows, cuts, history>>
  BY DEF ApproveParagraph, Begins
<1>2. CASE MarkStale
  BY <1>1, <1>2, CommandOnly, WritesAt, MarkStaleKeeps DEF MarkStale
<1>3. CASE Writes("final", << >>)
  <2>1. Quiet
    BY <1>1, <1>3, CommandOnly, WritesAt
  <2>2. << >> \in Seq(FileStep) /\ DOMAIN << >> = {} /\ "final" \in Ops
    BY DEF Ops
  <2> QED
    BY <1>1, <1>3, <2>1, <2>2, WritesKeep
<1> QED
  BY <1>2, <1>3 DEF ApproveParagraph

-----------------------------------------------------------------------------
(* What the next write leaves in its file.                                 *)
LEMMA ApplyFits ==
  ASSUME IInv, NEW step \in FileStep, Due(step, given, locks, figures)
  PROVE  /\ step.name \in Names /\ Apply(step) \in File(step.name)
         /\ Apply(step) # None => Earned(step.name, Apply(step).value, given, locks, figures)
         /\ step.kind = "put" => Apply(step) = [value |-> step.value, stale |-> FALSE]
         /\ step.kind = "stale" /\ files[step.name] # None => Apply(step).value = Loaded(step.name)
         /\ step.kind = "stale" /\ files[step.name] = None => Apply(step) = None
<1>1. step.name \in Names /\ step.kind \in {"put", "remove", "stale"}
  BY DEF FileStep
<1>2. CASE step.kind = "put"
  BY <1>1, <1>2 DEF Apply, Due, File
<1>3. CASE step.kind = "remove"
  BY <1>1, <1>3 DEF Apply, File
<1>4. CASE step.kind = "stale" /\ files[step.name] # None
  <2>1. Apply(step) = [files[step.name] EXCEPT !.stale = TRUE]
    BY <1>4 DEF Apply
  <2>2. files[step.name] \in [value : Held(step.name), stale : BOOLEAN]
    BY <1>1, <1>4 DEF IInv, TypeOK, Names, File
  <2>3. Apply(step) \in [value : Held(step.name), stale : BOOLEAN]
        /\ Apply(step).value = Loaded(step.name)
    BY <2>1, <2>2 DEF Loaded
  <2> QED
    BY <1>1, <1>4, <2>3 DEF File, IInv, FilesEarned
<1>5. CASE step.kind = "stale" /\ files[step.name] = None
  BY <1>1, <1>5 DEF Apply, File
<1> QED
  BY <1>1, <1>2, <1>3, <1>4, <1>5

LEMMA WriteNextKeeps == ASSUME IInv, WriteNext PROVE IInv'
<1> DEFINE step == Head(cmd.pending)
<1>1. /\ cmd.at = "write" /\ cmd.pending # << >>
      /\ files' = [files EXCEPT ![step.name] = Apply(step)]
      /\ cmd' = [cmd EXCEPT !.pending = Tail(cmd.pending)]
      /\ UNCHANGED <<inputs, evidence, envelope, approval, rows, cuts, given, locks, figures>>
  BY DEF WriteNext, project, counters
<1>2. cmd \in Command /\ cmd.pending \in Seq(FileStep)
  BY DEF IInv, CommandEarned, Command
<1>3. /\ step \in FileStep /\ step = cmd.pending[1] /\ 1 \in DOMAIN cmd.pending
      /\ Tail(cmd.pending) \in Seq(FileStep)
      /\ \A k \in DOMAIN Tail(cmd.pending) :
           k + 1 \in DOMAIN cmd.pending /\ Tail(cmd.pending)[k] = cmd.pending[k + 1]
  BY <1>1, <1>2
<1>4. Due(step, given, locks, figures)
  BY <1>3 DEF IInv, CommandEarned
<1>5. /\ step.name \in Names /\ Apply(step) \in File(step.name)
      /\ Apply(step) # None => Earned(step.name, Apply(step).value, given, locks, figures)
      /\ step.kind = "put" => Apply(step) = [value |-> step.value, stale |-> FALSE]
      /\ step.kind = "stale" /\ files[step.name] # None => Apply(step).value = Loaded(step.name)
      /\ step.kind = "stale" /\ files[step.name] = None => Apply(step) = None
  BY <1>3, <1>4, ApplyFits
<1> HIDE DEF step
<1>6. /\ DOMAIN files' = Names /\ DOMAIN files = Names /\ files'[step.name] = Apply(step)
      /\ \A name \in Names : name # step.name => files'[name] = files[name]
  BY <1>1, <1>5 DEF IInv, TypeOK, Names
<1>7. /\ cmd' \in Command /\ cmd'.at = "write" /\ cmd'.op = cmd.op /\ cmd'.old = cmd.old
      /\ cmd'.pending = Tail(cmd.pending)
  BY <1>1, <1>2, <1>3 DEF Command
<1>8. TypeOK'
  <2>1. \A name \in Names : files'[name] \in File(name)
    BY <1>5, <1>6 DEF IInv, TypeOK, Names
  <2>2. kept' \in BOOLEAN
    BY DEF WriteNext, IInv, TypeOK
  <2> QED
    BY <1>1, <1>6, <1>7, <2>1, <2>2 DEF IInv, TypeOK, Names
<1>9. FilesEarned'
  BY <1>1, <1>5, <1>6 DEF IInv, FilesEarned, Loaded
<1>10. CommandEarned'
  BY <1>1, <1>3, <1>7 DEF IInv, CommandEarned
<1>11. KeptAgrees'
  <2>1. kept' => kept /\ ~(step.kind = "put" /\ step.name \in {"candidate", "results"}
                           /\ files[step.name] # files'[step.name])
    BY DEF WriteNext, step
  <2>2. step.kind \in {"put", "remove", "stale"}
        /\ (step.kind = "remove" => step.name = "written")
    BY <1>3, <1>4 DEF FileStep, Due
  <2>3. ASSUME kept', NEW name \in {"candidate", "results"}
        PROVE  files'[name].value = files[name].value
    <3>1. CASE name # step.name
      BY <1>6, <3>1 DEF Names, Plain
    <3>2. CASE name = step.name /\ step.kind = "put"
      BY <2>1, <2>3, <3>2
    <3>3. CASE name = step.name /\ step.kind = "stale"
      BY <1>5, <1>6, <3>3 DEF Loaded
    <3> QED
      BY <2>2, <3>1, <3>2, <3>3
  <2> QED
    BY <2>1, <2>3 DEF IInv, KeptAgrees, Loaded
<1>12. LockIsStored'
  <2> SUFFICES ASSUME cuts = 0 PROVE LockIsStored'
    BY <1>1 DEF LockIsStored
  <2>1. Relocks' <=> Relocks
    BY <1>1, <1>7 DEF Relocks
  <2>2. CASE ~Relocks
    <3>1. \A k \in DOMAIN cmd.pending : cmd.pending[k].name \notin {"candidate", "locked"}
      BY <2>2 DEF IInv, LockIsStored
    <3>2. /\ files'["candidate"] = files["candidate"] /\ files'["locked"] = files["locked"]
          /\ \A k \in DOMAIN cmd'.pending : cmd'.pending[k].name \notin {"candidate", "locked"}
      BY <1>3, <1>6, <1>7, <3>1 DEF Names, Plain, BySigner
    <3>3. cmd'.op # "approve" /\ rows' = rows
      BY <1>1, <1>7, <2>2 DEF Relocks
    <3> QED
      BY <2>1, <2>2, <3>2, <3>3 DEF IInv, LockIsStored, Loaded
  <2>3. CASE Relocks /\ cmd.op = "approve"
    <3>1. PICK l \in locks :
            \/ cmd.pending = << Put("candidate", l.contract), Put("locked", l) >>
            \/ cmd.pending = << Put("locked", l) >> /\ Loaded("candidate") = l.contract
      BY <1>1, <2>3 DEF IInv, LockIsStored
    <3>2. CASE cmd.pending = << Put("candidate", l.contract), Put("locked", l) >>
      <4>1. step = Put("candidate", l.contract) /\ cmd'.pending = << Put("locked", l) >>
        BY <1>3, <1>7, <3>2
      <4>2. Loaded("candidate")' = l.contract
        BY <1>5, <1>6, <4>1 DEF Put, Loaded
      <4> QED
        BY <1>1, <1>7, <2>1, <2>3, <4>1, <4>2 DEF LockIsStored
    <3>3. CASE cmd.pending = << Put("locked", l) >> /\ Loaded("candidate") = l.contract
      <4>1. step = Put("locked", l) /\ cmd'.pending = << >>
        BY <1>3, <1>7, <3>3
      <4>2. Loaded("candidate")' = l.contract /\ Loaded("locked")' = l
        BY <1>5, <1>6, <3>3, <4>1 DEF Put, Loaded, Names, Plain
      <4> QED
        BY <1>1, <1>7, <2>1, <2>3, <4>1, <4>2 DEF LockIsStored
    <3> QED
      BY <3>1, <3>2, <3>3
  <2>4. CASE Relocks /\ cmd.op # "approve"
    BY <1>7, <2>1, <2>4 DEF LockIsStored
  <2> QED
    BY <2>2, <2>3, <2>4
<1> QED
  BY <1>1, <1>8, <1>9, <1>10, <1>11, <1>12 DEF IInv, ApprovalGiven

LEMMA TransitionKeeps == ASSUME IInv, Transition PROVE IInv'
<1>1. /\ cmd.at = "write" /\ cmd.pending = << >> /\ cmd' = Idle
      /\ UNCHANGED <<inputs, evidence, envelope, approval, files, cuts, given, locks, figures>>
  BY DEF Transition, project, counters
<1>2. /\ rows' \in [qualify : {"none", "complete", "approved"}, figure : {"none", "approved"},
                    write : {"none", "complete", "approved"}]
      /\ cmd.op = "qualify" => rows'.qualify = "complete"
      /\ cmd.op \notin {"qualify", "approve"} => rows'.qualify = rows.qualify
  BY DEF Transition, IInv, TypeOK
<1>3. cmd'.at = "idle" /\ cmd'.pending = << >> /\ cmd'.op = "none" /\ cmd'.old = None
  BY <1>1 DEF Idle
<1>4. kept' \in BOOLEAN /\ (kept' => Loaded("results") = Loaded("candidate"))
  BY DEF Transition, IInv, TypeOK, KeptAgrees
<1>5. TypeOK' /\ FilesEarned' /\ ApprovalGiven' /\ KeptAgrees'
  BY <1>1, <1>2, <1>3, <1>4 DEF IInv, TypeOK, FilesEarned, ApprovalGiven, KeptAgrees, Loaded
<1>6. CommandEarned'
  BY <1>1, <1>3, IdleTyped DEF CommandEarned
<1>7. LockIsStored'
  <2>1. cmd.op \in Ops
    BY DEF IInv, CommandEarned, Command
  <2>2. cuts = 0 /\ rows'.qualify = "approved" => Loaded("locked").contract = Loaded("candidate")
    <3>1. CASE cmd.op = "qualify"
      BY <1>2, <3>1
    <3>2. CASE cmd.op = "approve"
      BY <1>1, <3>2 DEF IInv, LockIsStored, Put
    <3>3. CASE cmd.op \notin {"qualify", "approve"}
      BY <1>2, <3>3 DEF IInv, LockIsStored, Relocks
    <3> QED
      BY <3>1, <3>2, <3>3
  <2> QED
    BY <1>1, <1>3, <2>2 DEF LockIsStored, Loaded
<1> QED
  BY <1>1, <1>5, <1>6, <1>7 DEF IInv

LEMMA StopKeeps == ASSUME IInv, NEW killed \in BOOLEAN, Stop(killed) PROVE IInv'
<1>1. /\ cmd' = Idle /\ cuts' = cuts + 1 /\ cuts \in Nat
      /\ UNCHANGED <<inputs, evidence, envelope, approval, rows, given, locks, figures, kept>>
  BY DEF Stop, project, history, IInv
<1>2. cmd.old \in File("written")
      /\ (cmd.old # None => Earned("written", cmd.old.value, given, locks, figures))
  BY DEF IInv, CommandEarned, Command
<1>3. /\ DOMAIN files = Names /\ DOMAIN files' = Names
      /\ \A name \in Names : name # "written" => files'[name] = files[name]
      /\ files'["written"] \in {files["written"], cmd.old}
  BY DEF Stop, IInv, TypeOK, Names, Plain
<1>4. \A name \in Names : files'[name] \in File(name)
  BY <1>2, <1>3 DEF IInv, TypeOK, Names
<1>5. TypeOK'
  BY <1>1, <1>3, <1>4 DEF IInv, TypeOK, Idle, Names
<1>6. FilesEarned'
  BY <1>1, <1>2, <1>3 DEF IInv, FilesEarned, Loaded
<1>7. KeptAgrees' /\ ApprovalGiven'
  BY <1>1, <1>3 DEF IInv, KeptAgrees, ApprovalGiven, Loaded, Names, Plain
<1>8. CommandEarned'
  BY <1>1, IdleTyped DEF CommandEarned, Idle
<1>9. LockIsStored' /\ cuts' \in Nat
  BY <1>1 DEF LockIsStored
<1> QED
  BY <1>5, <1>6, <1>7, <1>8, <1>9 DEF IInv

-----------------------------------------------------------------------------
LEMMA InitIInv == Init => IInv
<1> SUFFICES ASSUME Init PROVE IInv
  OBVIOUS
<1>1. /\ DOMAIN files = Names /\ \A name \in Names : files[name] = None
  BY DEF Init, Names
<1>2. cmd \in Command /\ cmd.at = "idle" /\ cmd.pending = << >> /\ cmd.old = None /\ cmd.op = "none"
  BY IdleTyped DEF Init, Idle
<1>3. TypeOK
  BY <1>1, <1>2 DEF Init, TypeOK, Names, File
<1>4. FilesEarned /\ ApprovalGiven /\ KeptAgrees /\ cuts \in Nat
  BY <1>1 DEF Init, FilesEarned, ApprovalGiven, KeptAgrees
<1>5. CommandEarned /\ LockIsStored
  BY <1>2 DEF Init, CommandEarned, LockIsStored
<1> QED
  BY <1>3, <1>4, <1>5 DEF IInv

LEMMA NextIInv == IInv /\ [Next]_vars => IInv'
<1> SUFFICES ASSUME IInv, [Next]_vars PROVE IInv'
  OBVIOUS
<1>1. CASE UNCHANGED vars
  <2>1. UNCHANGED <<inputs, evidence, envelope, approval, files, rows, cmd, cuts, given, locks,
                    figures, kept>>
    BY <1>1 DEF vars, project, counters, history
  <2>2. Quiet
    BY <2>1 DEF Quiet, HistoryGrows, IInv, TypeOK, ApprovalGiven
  <2> QED
    BY <2>1, <2>2, SameCommandKeeps
<1> QED
  BY <1>1, PlanKeeps, QualifyKeeps, QualifyPersistKeeps, QualifyLoadKeeps, AnalyzeKeeps,
     WriteKeeps, WriteNextKeeps, TransitionKeeps, EditKeeps, ApproveTopicKeeps,
     ApproveContractKeeps, ApproveFigureKeeps, ApproveParagraphKeeps, StopKeeps DEF Next

(* The types of the variables.                                             *)
THEOREM WorkflowTypeCorrect == Spec => []TypeOK
<1>1. IInv => TypeOK
  BY DEF IInv
<1> QED
  BY <1>1, InitIInv, NextIInv, PTL DEF Spec

(* CheckpointsHold: the contract, the numbers and the paragraph each rest  *)
(* on the approval the checkpoint asks for.                                *)
THEOREM NothingPassesUnsigned == Spec => []CheckpointsHold
<1>1. ASSUME IInv PROVE CheckpointsHold
  <2>1. LockedByTopicAuthor
    BY <1>1 DEF IInv, FilesEarned, Earned, LockedByTopicAuthor, Names, BySigner
  <2>2. NumbersAreLocked
    BY <1>1 DEF IInv, FilesEarned, Earned, NumbersAreLocked, Names, Plain, BySigner
  <2>3. ParagraphFollowsFigure
    BY <1>1 DEF IInv, FilesEarned, Earned, ParagraphFollowsFigure, Names, Plain
  <2> QED
    BY <2>1, <2>2, <2>3 DEF CheckpointsHold
<1> QED
  BY <1>1, InitIInv, NextIInv, PTL DEF Spec

(* OnlySoundEvidence: what _load_material and the operators refuse never   *)
(* gets past their checkpoint, whatever the author edits meanwhile.        *)
THEOREM UnsoundEvidenceStops == Spec => []OnlySoundEvidence
<1>1. IInv => OnlySoundEvidence
  BY DEF IInv, FilesEarned, Earned, Runs, OnlySoundEvidence, Names, Plain
<1> QED
  BY <1>1, InitIInv, NextIInv, PTL DEF Spec

(* What a step from no transition to one has checked.                      *)
LEMMA StartsCurrent ==
  ASSUME IInv, Next, cmd.op = "none", cmd'.op \in {"analyze", "figure", "write", "final"}
  PROVE  /\ Loaded("candidate") = Derived(approval.topic)
         /\ cmd'.op = "analyze" => rows.qualify = "approved" /\ cmd.at = "idle"
<1>1. cmd \in Command
  BY DEF IInv, CommandEarned
<1>2. ASSUME NEW op, NEW steps, Writes(op, steps) PROVE cmd'.op = op
  BY <1>2 DEF Writes, Idle
<1>3. ~MarkStale
  BY <1>2 DEF MarkStale
<1>4. CASE Plan \/ Edit \/ \E a \in Author : ApproveTopic(a)
  BY <1>4 DEF Plan, Edit, ApproveTopic
<1>5. ~Qualify
  <2>1. [Idle EXCEPT !.op = "qualify", !.at = "persist", !.records = inputs.records].op = "qualify"
    BY DEF Idle
  <2> QED
    BY <1>3, <2>1 DEF Qualify
<1>6. ~QualifyPersist /\ ~WriteNext
  BY <1>1 DEF QualifyPersist, WriteNext, Command
<1>7. ~QualifyLoad
  BY <1>2 DEF QualifyLoad, Idle
<1>8. ~Transition /\ \A killed \in BOOLEAN : ~Stop(killed)
  BY DEF Transition, Stop, Idle
<1>9. \A a \in Author : ~ApproveContract(a)
  BY <1>2, <1>3 DEF ApproveContract
<1>10. CASE Analyze
  BY <1>3, <1>10 DEF Analyze, Current, Begins
<1>11. CASE Write
  BY <1>2, <1>3, <1>11 DEF Write, Current
<1>12. ASSUME NEW a \in Author, ApproveFigure(a) \/ ApproveParagraph(a)
       PROVE  Current /\ cmd'.op # "analyze"
  BY <1>2, <1>3, <1>12 DEF ApproveFigure, ApproveParagraph
<1> QED
  BY <1>4, <1>5, <1>6, <1>7, <1>8, <1>9, <1>10, <1>11, <1>12 DEF Next, Current

(* DerivedIsCurrent: figure, paragraph and final approval start from       *)
(* results of the inputs as they are while the contract analyzed last is   *)
(* the stored one, and an analysis does unless a command was cut short.    *)
THEOREM ChainIsCurrent == Spec => DerivedIsCurrent
<1> DEFINE K == Starts({"figure", "write", "final"}) /\ kept =>
                  Loaded("results") = Derived(approval.topic)
           A == Starts({"analyze"}) /\ cuts = 0 =>
                  Loaded("locked").contract = Derived(approval.topic)
<1>1. ASSUME IInv, [Next]_vars PROVE [K]_vars
  <2>1. CASE UNCHANGED vars
    BY <2>1
  <2>2. CASE Next
    BY <1>1, <2>2, StartsCurrent DEF Starts, IInv, KeptAgrees
  <2> QED
    BY <1>1, <2>1, <2>2
<1>2. ASSUME IInv, [Next]_vars PROVE [A]_vars
  <2>1. CASE UNCHANGED vars
    BY <2>1
  <2>2. CASE Next
    BY <1>2, <2>2, StartsCurrent DEF Starts, IInv, LockIsStored, Relocks
  <2> QED
    BY <1>2, <2>1, <2>2
<1>3. Spec => [][K]_vars /\ [][A]_vars
  BY <1>1, <1>2, InitIInv, NextIInv, PTL DEF Spec
<1> QED
  BY <1>3 DEF DerivedIsCurrent, KeptIsCurrent, AnalysisIsCurrent

=============================================================================
