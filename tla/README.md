# CFD-Paper-Agent: a TLA+ model and its proofs

CFD-Paper-Agent (`src/src/cfdpaper`) takes an author from mature CFD results to
a paper: it indexes the project's files, plans topics, lets the author approve
one, locks a quantity of interest, evaluates it, renders a figure, writes a
results paragraph; and, on its second path, computes declared numbers from
exported tables, assembles sections into a manuscript, exports it to Word and
merges what the author did there. Nothing here is a server. The state is a
directory: files, a content-addressed cache, one SQLite database. Every command
reads them, decides, and writes them again, and what can go wrong goes wrong
between two steps: a command is killed, another is doing the same, the author
edits a file meanwhile, or an artifact of yesterday is taken for one of today.
This project models those parts, checks them with TLC, and proves with TLAPS, for
instances of every size, the safety of all of them but those that only compute.

Paths below are relative to `src/src/cfdpaper/` unless they name `docs/`,
`examples/`, `tests/` or `README.md` of the repository.

## 1. Inventory

### State, and who shares it

| State | Where | Written by | Guarded by |
|---|---|---|---|
| content cache | `.cfdpaper/cache/<d[:2]>/<d>` | `cache.py` for inspect, generation | per-digest thread lock and file lock |
| source rows, versions, chunks | SQLite | `storage.index_source` for inspect | one transaction per file |
| scientific records, QoIs, definitions, assessments, claims | SQLite | imports and the host's saves | one transaction per save; a plan reads over several connections |
| stage rows, checkpoints, project stage | SQLite | plan, inspect, the evidence commands | one transaction per command |
| generation bundle (2 artifacts, report) | `outputs/` and cache | topic generation | `plan.lock`; report written last |
| topic ranking report | `outputs/plan/topic-ranking.json` | plan | `plan.lock` |
| evidence artifacts (contracts, results, figure, paragraph) | `outputs/` | the evidence commands | nothing |
| section, writing package, manuscript, workspace | directories of their own | section, manuscript and workspace commands | each operation writes a fresh directory or refuses |
| Word file and its export snapshot | beside the candidate | the author; export, import | the snapshot's digests |
| author inputs (records, observations, tables, sources) | project tree | the author | nothing |

### Components

| Component | Operations | Hard behaviour | What makes it correct |
|---|---|---|---|
| Content cache and file lock (`cache.py`, `locking.py`) | `put_bytes`, `put_file`, `process_file_lock` | threads and processes on one digest; edits during a copy; time-outs; kills | entries hold the bytes of their name, no rename over an entry, every lock comes back, every call ends |
| Topic generation (`topic_generation/service.py`, `artifacts.py`) | `generate`, `publish_generation_bundle`, `recover_generation_bundle` | a kill between any two of its file operations, lost or edited files | behaves as one atomic register; a crash alone never blocks it |
| Planning (`planning.py`) | `run_plan` | report and database moved one after the other; retries; approvals carried over; an editable report | an approval in the database was given, retries repair, an unchanged approval is kept |
| Project state (`storage.py`, `state.py`) | `save_workflow_transition`, `index_source`, `mark_stale_except`, imports | two connections at once; SELECT before the transaction | row, version and chunks are one snapshot |
| Source index (`indexing.py`) | `inspect` | fast path by time stamp; files saved or deleted between two readings; two inspections at once | a finished inspection left nothing outdated that passes for current |
| Opportunities, ranking, ceilings (`topic_generation/opportunities.py`, `snapshot.py`, `publication/topics.py`) | snapshot, discovery, ranking | records of two states in one snapshot; units, ties, stale rows | no topic beyond the records it was made from |
| Refinement (`topic_generation/refinement.py`) | batch refinement | free prose of a provider; one fault in a batch | locked science stays as it is, all or nothing |
| Evidence workflow (`qualification/service.py`, `artifacts.py`) | `run_qualify`, `approve_qoi_contract`, `run_analyze`, `approve_figure`, `run_write`, `approve_final_artifact` | inputs edited between and within commands; commands cut short; second rounds | numbers come from locked contracts, approvals from the right author, nothing is built on outdated results |
| Qualification rules and figure (`qualification/*.py`, `publication/render_figure.py`, `results_paragraph.py`) | comparison, QoI, trend, ceiling; render, deliver, write | rows in any order and unit; rendering cut short; the author's own script | the sentence says what the file says; no author script is lost |
| Tables and sections (`publication/table_evidence.py`, `temporal.py`, `field_diagnostics.py`, `section.py`) | declared calculations, comparisons, `prepare_section`, `assemble_section` | temperature origins; sources saved while they are copied; which records a number rests on | the numbers are those of the section's own tables, whatever the thermometer |
| Manuscript (`publication/manuscript*.py`) | prepare, assemble, context, changes, refresh, review, revise | borrowed evidence, stale copies, numbering over sections | one number per value, figure and source; reports are true |
| Research workspace (`publication/research_workspace.py`, `figure_recipes.py`) | initialise, refresh, attach, build | baselines, retired calculations, viewed figures | figures follow sources; the author's own survives |
| Word return (`publication/word_return.py`, `author_workspace.py`) | export, read, three-way merge, import | overlapping edits, prose without identity, moves on both sides | no author edit lost silently, numbers follow the science |
| Portable workbench, materials, retrieval, report workflow, exports, CLI, MCP server, adapters, contracts | copying, reading, formatting, drawing | - | - |

Commands call downward: `inspect` uses the cache and the store; `plan` calls
`inspect`, generation and the store; `qualify` calls `plan`; the other evidence
commands read what the earlier ones left. A workspace build calls the section
calculations, the figure recipes and the manuscript assembly; the Word import
calls the assembly. The full list with a status for each part is in
`PROJECT.json` under `components`; the lines where the hazards bite are under
`hazards`.

## 2. Modules and how they fit

    ContentCache            the cache and its locks                    proved
    GenerationRegister      what generation promises (abstract)
    GenerationBundle        generation and recovery                    proved, refines GenerationRegister
    PlanRun                 plan, with generation as the register      proved
    SourceIndex             inspect and its tables, the cache as a set proved
    EvidenceWorkflow        qualify ... approved paragraph, with plan
                            as two actions                             proved
    ScientificChecks        units, convergence, trends, ceilings (operators)
      Opportunities         discovery from one snapshot (operators)
        TopicRanking        candidates and ranking (operators)
          TopicRecords      the tables of records, and a plan that
                            reads them                                 proved
      QualificationRules    what a contract says (operators)
        FigureDelivery      rendering, delivery and paragraph, file by file
                            (script and paragraph)                  proved in part
    TopicWording            provider wording of a batch               proved
    TableEvidence           calculations over tables (operators)
      SectionPackage        preparation and assembly of a section
                            (packed tables and their numbers)       proved in part
    Manuscript              sections into a manuscript, its reports
                            and revisions                              proved
    ResearchWorkspace       builds of a workspace                      proved
    WordReturn              export, Word edits, merge, import          proved

Indented modules extend the one above them: the pure rules are operators, and
the state machine that runs them extends them, so that what a rule is given is
something the program can really give it.

Each layer uses the one below as the abstraction that was established there:
`GenerationBundle` uses `put_bytes` as one step because `ContentCache` shows that
an entry appears at once and holds the bytes of its name; `PlanRun` uses
generation as one step because `GenerationBundle` refines `GenerationRegister`;
`EvidenceWorkflow` uses from `plan` that an unchanged fingerprint keeps its
approval (`ApprovalKept`, in `WorkKept`) and no other does. `FigureDelivery` opens up what is
one action in `EvidenceWorkflow` (rendering) and takes as one action what
`EvidenceWorkflow` goes through step by step (qualify to analyze).

`MC*.tla` give the constants of a module values for TLC, the `.cfg` files pick
the sets and bounds, `*Proofs.tla` hold the theorems. Three proof modules hold those
of two components that belong together: `GenerationBundleProofs` that of
`TopicWording` (the wording of the topics a bundle publishes), `ManuscriptProofs` that of
`FigureDelivery` (the figures it shows), `ResearchWorkspaceProofs` that of
`SectionPackage` (the sections it builds). A definition called a
plausible fault is an altered copy of the one it precedes; no specification
uses it, and it shows that a property can fail.

Three abstractions hold everywhere. SHA-256 is injective, so a digest is the
content it names and a fingerprint is the tuple it was computed from. A content
is a member of a small set, except where a property is about what prose or
numbers say. Floats are integers or exact fractions.

A property that is a conjunction of named parts is one question asked of several
pieces of state; a counterexample shows which part fails.

### ContentCache

`call[t].at` is where a thread stands in `put_bytes` or `put_file`; `temp[t]` its
`.tmp` file; `threadLock` the per-process `_DIGEST_LOCKS`; `fileLock` the OS lock.
A content is two blocks, so that a source edited during the block-wise copy can
give a mixture of two versions. `Kill` ends a whole process: the OS drops its
file locks, its temporary files stay (`litter`). `Damage` is the disk.

- `cache`: two threads of one process and one of another, two contents that
  callers hold or expect out of four possible ones, one edit, one damage, any
  kills. Two threads and a third in another process is the least that has both
  lock levels contended; a second edit cannot add a mixture the first cannot.
  `PairOrPlain` bounds the run: any two threads with everything, all three while
  there is one content and no edit. It restrains only the start of a call and the
  author, so it removes no progress. Shows that entries match their names
  (`StoredBytesMatch`), a returned path is stored (`OkMeansStored`), no rename lands
  on an entry (`RenameOntoNothing`), locks come back (`NoOrphanLock`), and, under
  `FairSpec`, every call that starts ends (`EveryCallEnds`). Fairness is
  `WF_vars(Step(t))` for each thread: the interpreter and the OS schedule a thread
  that can run, nothing more. The unbounded wait for the thread lock is harmless
  because its holder waits for the file lock at most until the deadline. Starting
  a call, edits, kills and damage have no fairness. That only kills leave
  temporary files is the theorem `OnlyKillsLeaveFiles`.

### GenerationRegister and GenerationBundle

`GenerationRegister` is the promise: one committed bundle with a revision that
grows by one, returned as it is. `GenerationBundle` has the two cache entries,
the two output files and the report as the commit marker, and one action per file
operation of recovery and publication, with `Stop` between any two. `plan.lock`
makes calls sequential. `Touch` is an outside edit or deletion of an output
file, `Damage` a lost or corrupt cache entry, `ChangeScience` new records.

- `generation`: two sciences with different opportunities, the modes "offline" and
  an explicit provider, two wordings, two revisions (a replacement needs two), one
  touch and one damage at any moment. Shows that the report always names restorable
  artifacts, that crashes alone never end in a conflict, that a returned bundle
  is the committed one, and that the module
  implements the register (`RefinesRegister`, with `committed <- marker`,
  `returned <- run.bundle`). That the committed bundle is replaced only for a cause
  is the theorem `OnlyReplacedForCause`.

### PlanRun

A command is `Begin`, possibly a generation step, `Decide`, `WriteReport`,
`Transition`; `Stop` cuts it anywhere. The operators between "The pieces of the
decision" and `Collides` are the decision of `_run_plan` in its order: which
approval is current (`ReportApproval`, `Current`), whether this is the repetition
of a command whose transaction failed (`Replays`), whether the database confirms
the approval (`Validated`), which report and payload come out. An approval
leaves its fingerprint out, which is that of the report or row around it. `clock`
stamps approvals, so "the same approval later" is a different one. `Tamper`
deletes or damages the report file or edits it into another valid one.

- `plan`: two author files with the same envelope or the generated source, two
  states of the evidence, two topics (one defensible on one state of the evidence
  only, one always direction-only), `--regenerate` in two modes, three commands,
  one outside edit of the report with author files. Three is what the cases take:
  approve, move away or cut short, retry. `MCCommands` keeps what a project can be
  asked: one with author files ignores the mode, one that generates approves one
  topic. Shows `DatabaseIsGenuine` (an edited report never gets an approval into
  the database), `ApprovalsStand` (what is approved is defensible on its evidence,
  report and row agree), `CollisionNeedsCause`, `RepairsInPlace`, and `WorkKept` (an
  unchanged approval and an interrupted generation are both kept). The deadlock
  check is on: records can change for ever.

### SourceIndex

One file, its row in `sources`, its versions, its chunks, and inspectors that
read and write step by step as `inspect` does: `discover`, `list_sources`, the
fast path, `_stable_snapshot` with one retry, `_index_source_row` with its SELECT
before the transaction, `mark_stale_except`. Files do not interact, so one file
stands for all. Every save gives a new time stamp; the fast path compares time
stamp and size, and two saves within one time stamp are not modelled.

- `index`: two inspectors, two saves or deletions, four inspections, one lost cache
  entry: two inspections can overlap and two more find what they left, and the file
  changes once before and once during an inspection. Shows that the version number
  works as an optimistic lock however inspections overlap (`RowIsLastVersion`); that
  an undisturbed inspection leaves nothing outdated that passes for current
  and a snapshot that can be read back (`InspectionDelivers`); and that, as long
  as inspections did not overlap, the fast path may trust the row
  (`FastPathSound`). `quiet` and `overlap` are history variables;
  without that condition it may not (`FastPathAlwaysSound`, section 3). The same condition
  stands in `InspectionDelivers`: after an overlap, only a strict inspection, which
  hashes the file, is certain to leave the current one. Without it the property
  holds for three inspections and fails for four (three that overlap, of which a slow one
  writes an old copy and another its own time stamp to that row, and a fourth that
  believes the stamp), which an attempt to prove it for any number brought up.

### EvidenceWorkflow

An artifact is what its fingerprint binds: a contract is the question, records,
observations and plan it was derived from; an analysis is the contract it
evaluates; a figure is a contract with its author. A command reads (one action,
`Writes(op, steps)`), then writes file by file (`WriteNext`), then moves the stage
row (`Transition`); `Stop` cuts it before any of these. `run_qualify` has three
phases, because it reads the records, imports them, and reads them again. The
errors of `_current_material` that mark artifacts stale are `Changed`; those that
only raise disable the command. `Swap` is the two renames that replace the
paragraph directory.

- `evidence`: ten commands, one edit, one cut. `LongOrShort` bounds the run: six
  commands, the length of the chain to a written paragraph, over differing records
  (one set with a blocker), observations (one lacking a member), questions (one
  dividing by zero on some observations), plans and authors; all ten, enough for the
  whole chain and a second round, while only two observation files have ever
  varied. Shows `OnlySoundEvidence` (blockers, missing members and operators that
  cannot be evaluated never pass), `CheckpointsHold` (contract, numbers and paragraph
  rest on the approval of the right author) and `DerivedIsCurrent`: without a cut an
  analysis evaluates the contract of the inputs as they are, and as long as the
  contract analyzed last stays the stored one, so do figure, paragraph and final
  approval. With a cut they need not: a `qualify` with another question that stops
  between its files leaves the approval of the contract it replaced in force.
- `evidence_stale`: the finding of section 3.

Left out or simplified: `paragraph-duty.json` and `figure-approval.json` (written,
never read); the project stage (set, never read here); author edits of the plot
script; a mismatching contract-id argument (refused, nothing changes); the error
for a contract without a numerical claim, which no earlier command lets through.
Whether the declared sources are current is one Boolean. One command runs at a
time and its reads are one action; two commands at once are not modelled.

### The records and the topics: ScientificChecks, Opportunities, TopicRanking, TopicRecords

A snapshot is a record of the tables (`cases`, `bounds`, `qois`, `defs`, `assess`,
`evidence`, `claims`); `Opportunities` is `discover_research_opportunities` on it:
ordered responses, differences, associations and robustness, each with its gaps,
maturity and ceiling. `TopicRanking` makes candidates, ranks them by the evidence
gates and projects the ranking back. `TopicRecords` keeps the tables: each import
or save is one action, as it is one transaction; a plan reads table after table
(`LoadTable`), because `snapshot.py` opens a connection for each, and then only
computes (`GenerateTopics`). A file version names what the file holds. A negative
flow in an assessment, also that of a stale case, fails the plan (`Closable`). Of two
traced boundaries of a case that give the same parameter, the last counts (`Counts`).

### TopicWording

A text is a sequence of clauses, a clause a sequence of roles (`qoi`, `variant`,
`increase`, ...), a role standing for all its aliases; so clause order, swapped
sides, denials and hedges are told apart and vocabulary is not. `Objection` is the
sequence of checks of `_parse_batch` with its reason codes, `Alike` and `Gains`
compare the batch, and a batch is taken or falls back.

- `topics` (`MCTopicGeneration`): a behaviour is one of the records or one of a
  batch, for the two share no state. Records: three cases, four units of two
  dimensions, two QoIs, two file versions that differ in control, solver,
  convergence and response, three claim sets, two starting points, two saves at any
  point of the reading. Two saves are what it takes for a table read early and one
  read late to disagree twice. Wording: each relation, a batch of two, and for each
  of the four texts the program's own, a rewording, a denial, an escalation and a
  text that gains nothing. Shows `TopicsAreEarned` (a defensible topic has its
  boundary, QoI and assessment evidence in what was read, of one version per case,
  and only with such a topic in the lead does a plan end in a manuscript),
  `TopicsStateTheirEvidence` (relation and ceiling follow from samples and claims) and `ScienceSurvives` (the relation is
  stated before anything else is, nothing escalates, all or nothing).

### QualificationRules and FigureDelivery

`QualificationRules` has the comparison verdict, membership, QoI operators, trend,
ceiling and figure candidate on the author's three inputs. `FigureDelivery` renders
a candidate file by file (`WriteSource` ... `WriteRecord`, `Validate`, `Deliver`), with
`Stop` leaving a whole or a torn file; `Protected` is the rule that decides whether a
script is the author's. Every file is represented by what is in it. `broken` is history:
a rendering stopped and left a script that no delivery record is of.

- `figures`: fifteen inputs, one for each thing that can differ (rows out of order,
  two units, a peak, a relative change, temperatures relative to one below zero, a refuted hypothesis, a process word, a
  name that does not fit, a missing member, a blocker, answers from the guided
  questions, an aggregate where a member is asked for, two rows from one cell, a value of
  seven digits, a claim with numbers next to the unit "1"); four commands, two edits, two renderings cut short:
  cut, repair, edit, render again. Shows `SentenceIsTrue` (what the paragraph says of
  the cases is what the observation file says, through order, unit, trend, rounding
  and template), `ScriptKept` (the author's version of the script is never overwritten) and
  `RenderingRepeats` (and only it, or what a rendering left that stopped before any record
  was of its script, keeps a later rendering from replacing the script).

### TableEvidence and SectionPackage

`TableEvidence` is what a table calculation gives: selection and grouping of rows,
the operations (population, weighted population and exceedance, partition,
temporal and its difference, paired changes, reference ranges, scalar selection,
field integrals and differences, partition change, energy budget), comparisons
of two results with the support of both, and `Resolve`, which picks one number with
its unit and the records it cites. Numbers are exact fractions; an error is the
empty set. `SectionPackage` copies the sources one by one, calculates, and at
assembly calculates, resolves the tokens of a draft, and copies again, while the
author saves and the host edits the package.

- `section`: ten inputs cover every family of calculations and comparisons, three more
  are refused at once, for a missing file, or for a comparison that would depend
  on the origin; two or three versions of each table, some of which make a denominator
  vanish, a cell blank, a clip leave its box or a unit disagree; one edit at any point.
  One edit suffices for a mixture of two versions. Shows `SectionAgrees` (reports and
  numbers are what the packed tables give, whatever was saved meanwhile),
  `CitedRecordsSuffice` (no measured cell outside the cited records can change a
  number, its unit or its records: every cell of every table is raised in turn) and `PhysicallySound` (no number
  depends on whether the thermometer reads Celsius or Kelvin - every temperature of
  the input is restated in Kelvin and everything computed again - and parts add up to
  the whole). Exempt, and named where they are: results that carry Celsius in their
  unit (`degC*s`), sum and CV of a plain population, and weights and contributions of
  a partition, which rest on a total they do not cite; and sections whose package
  was replaced during assembly.

### Manuscript

`work` is the manuscript directory: inputs, drafts, bindings, copies of borrowed
evidence, and after assembly the view and writing state; the other variables are
the formatting build, what the
previous assembly showed, the report of changes, the review package and a revision task. An operation reads
one directory and writes a fresh one, or refuses. A section has one paragraph;
what a value shows is its result and the formatting build.

- `manuscript`: two sections with a value and a figure, a conclusion that borrows from
  the first and depends on the second; two edits and two assemblies, so that
  everything can change between two candidates, and once more before one is used.
  Shows `ValuesFollowOwner`, `NumbersAreConsistent` (figures and sources over sections in
  any order), `ReportsAreTrue` (a section reported unaffected reads as it did; what is
  reviewed and revised is reproducible from the package) and `RefreshKeepsMeaning`.

### ResearchWorkspace

`ws` is the workspace, `build` the last build, `baseline` the one it was compared
with. `Build` is the whole of `build_research_workspace`: diagnostics and definitions are
synchronised, changed recipes run, observations of replaced figures withdrawn, the
author's return applied, the manuscript assembled. `place` says where the host goes
on: in a copy of the build or in the build itself.

- `workspace`: two diagnostic calculations, three edits, three builds: two to have a
  baseline, a third to come back to an earlier state. Shows `FiguresFollowSources`,
  `HostIsTold` (viewed means viewed as it is, but for the notes of a late return, which
  `late` remembers; a review is asked for exactly when something changed), `BuildIsSettled` (nothing retired is left, building again changes
  nothing) and `AuthorKept`.

### WordReturn

`page` is the author's file from top to bottom, `marks` what was done to each block,
`words` and `current` the edits of either side against the export. `ReadReturn` finds
the blocks and their local conflicts, `MergeBlocks` is the three-way merge of text,
fields, spans and order, `Unassembled` what makes the assembly refuse.

- `word`: two sections with a bound value, a table, a figure with its caption,
  ordinary prose and a reference; two edits by the author (write, delete, split, copy,
  move, type, change an object), one by the science (write, recompute, drop, swap,
  add, retitle, ...). Two against one is the least in which a block is both changed
  and moved while the other side does either. Shows `AuthorProseSurvives` (everything the
  author wrote is in the result or reported), `NumbersFollowSource` and
  `OrderIsIntended`: the order of the result is that of the side that moved blocks,
  and a block that the science dropped and the author changed goes back behind the
  one above it.

The deadlock check is off in all runs but those of PlanRun and GenerationBundle:
when every call was made or every bound is used up, or an author leaves it at
that, the system rightly stops.

## 3. Findings

One run checks what the design document says and finds that the code does
otherwise (`findings` in `PROJECT.json` quotes the lines): `evidence_stale`. A second
`qualify` with changed observations does not mark the results of the first; `write`
and the final approval compare those only with each other, and deliver a paragraph
about the old observations.

The other disagreements met while modelling have a configuration each, or a
property to put into one, that TLC fails when it is run by hand
(`tlc -config X.cfg M`). They are no runs of their own
because each repeats a module for one line of code.

| Configuration | Module | Property | What TLC shows |
|---|---|---|---|
| `PlanRetry.cfg` | `MCPlanRun` | `RetryRepairs` | An approving command whose transaction failed is repeated. When the plan row is for earlier records, `_can_replay_report_transition` (`planning.py:976`) takes the row for a collision, for this and every other command of that fingerprint. `tests/test_planning.py:3104` tests the repair on a project without a plan row, where it works. |
| `SourceIndex.cfg`, with that invariant | `MCSourceIndex` | `FastPathAlwaysSound` | Two overlapping inspections pair the digest of one save with the time stamp of another (`storage.py:445` selects before the transaction); every later fast path trusts that row, also that of an inspection nobody disturbs. |
| `FigureStale.cfg` | `MCResearchWorkspace` | `FiguresFollowSources` | A host who stays in the workspace a build came from keeps figures of older sources, against `docs/research-workspace.md:257`. |
| `NoteStale.cfg` | `MCResearchWorkspace` | `ReturnedNotesAreCurrent` | The host views a figure and a build is exported; the artwork is replaced, and the author's return of that export is applied. `_apply_author_candidate` (`publication/research_workspace.py:1392-1409`) checks title, topic and sections only, and the images to compare are read after it (`:1464`): the new image counts as viewed, with the notes on the old one. The docstring at `:656` says "A previous visual reading belongs to its image, not just its stable ID." |
| `AssessmentStale.cfg` | `MCTopicRecords` | `AssessmentIsCurrent` | The assessment set is stored once for the project (`storage.py:853`): after a case moved to another version, that of the old one still earns its topic, against `docs/releases/v0.2.0.md:26`. |
| `WordingDenies.cfg` | `MCTopicWording` | `NothingDenied` | The relation check returns at the first clause that states the relation (`topic_generation/refinement.py:778`); a later clause may deny it, against `docs/architecture/overview.md:40`. |
| `FigureRefused.cfg` | `MCFigureDelivery` | `RefusedForCause` | Complete inputs that are refused, four in `MCRefused`, each of which violates the property by itself: a QoI of two operands, as the design has it, whose second operand's rows count as unexpected (`qualification/service.py:252`); a value of seven digits under a numerical ceiling, which the claim prints with six (`claims.py:153-160`) and the figure's check compares exactly (`render_figure.py:668-669`); a numerical relative change, whose unit "1" the same check takes for a number that is no result; two values located in the same cell or with the same locator text, whose evidence has one identifier (`claims.py:41`, `qoi.py:351-355`), although the intake asks only that a locator is not blank (`observations.py:89-93`). |
| `WordReturn.cfg`, with that invariant | `MCWordReturn` | `ImportAnswers` | A block the science deleted and the author changed makes the whole import fail (`publication/author_workspace.py:334`), where its docstring promises a localized conflict. |
| `TableOrigin.cfg` | `MCSectionPackage` | `OriginIndependent` | A field integral of temperatures whose quantity kind was left at its default passes as ordinary (`publication/table_evidence.py:649`): the relative change of two sums is accepted and depends on the thermometer. With the kind declared the comparison is refused. |

Read and not run: `workbench_portability.py:433` raises `KeyError` or `IndexError` when the
author removed a list item that a recorded pointer names; the narrative check of a
figure (`publication/render_figure.py:650`) rejects some harmless words; a block whose
control the author removed is appended at the end of its section; arguments in a
figure registry edited in a build in place are not noticed; a workspace drops author
evidence whose name begins with `surface-` on every build; one bound causal clause of a
provider's text licenses unbound ones after it; of two boundary records of a case that
give the same parameter the later one silently counts, with the evidence of both
(`topic_generation/opportunities.py:658`); a percentage of a relative residual
is computed but no section can cite it; the relative change of temperatures in degrees
depends on the thermometer (`qualification/qoi.py:287`), and relative to a case below zero
a rise reads as a fall.

## 4. What is proved

Eight modules `*Proofs.tla` prove, for every value of the constants, what the runs
check on small ones: any number of threads, inspectors, commands, edits, sections,
figures, tables, records, blocks, topics and texts. `theorems` in `PROJECT.json` lists the results.

| Module | Theorems that state a property of a run | Others |
|---|---|---|
| `ContentCacheProofs` | `BytesMatchNames`, `ReturnedPathsAreStored`, `NoOverwrite`, `LocksComeBack` | `TypeCorrect`, `OnlyKillsLeaveFiles` |
| `GenerationBundleProofs` | `MarkerAlwaysRestorable`, `CrashesNeverConflict`, `ReturnsTheCommitted`, `Refinement`, `RewordingKeepsTheScience`, `TopicsRestOnTheirRecords`, `TopicsSayWhatTheySaw` | `GenerationTypeCorrect`, `OnlyReplacedForCause` |
| `PlanRunProofs` | `DatabaseStaysGenuine`, `ApprovalsStandAlways`, `CollisionsHaveACause`, `RetriesRepairInPlace`, `PlansKeepWork` | `PlanInvariant`, `PlanTypeCorrect` |
| `SourceIndexProofs` | `VersionsAreALock`, `UndisturbedDelivers`, `StampsCanBeBelieved` | `IndexTypeCorrect` |
| `EvidenceWorkflowProofs` | `NothingPassesUnsigned`, `UnsoundEvidenceStops`, `ChainIsCurrent` | `WorkflowTypeCorrect` |
| `ManuscriptProofs` | `ValuesAreTheOwners`, `NumbersAreInOrder`, `ReportsTellTheTruth`, `RefreshesKeepMeaning`, `OwnScriptIsKept`, `RenderingsRepeat`, `ParagraphsAreTrue` | `ReviewsAreReproducible` |
| `ResearchWorkspaceProofs` | `FiguresAreDrawnFromSources`, `HostIsAlwaysTold`, `BuildsAreSettled`, `AuthorsWorkIsKept`, `SectionsAgree`, `CitationsSuffice` | `ReviewsAreAsked` |
| `WordReturnProofs` | `NothingIsLost`, `NumbersAreTheSciences`, `OrderIsKept` | `ReturnInvariant`, `OrderInvariant`, `ReturnTypeCorrect` |

### The argument

It is the same everywhere. The property a reader cares about is not inductive:
whether an approval in the database was given depends on what a command, now
before its transaction, decided two steps ago, from a report that may have been
edited since. So an inductive invariant says what each phase of an operation
knows; one lemma per action, with a leaf per conjunct, shows that a step keeps
it; each theorem follows from it in a few lines.

- ContentCache: `HoldsItsLocks` and `OwnersWork` tie each lock to its holder in both
  directions, `AbsentUntilRenamed` keeps the lookup valid until the rename because
  the file lock excludes the others, `StagedBytesMatch` carries the digest of the
  copied bytes to the rename, `AsksForTheExpected` the expected digest to the result.
- GenerationBundle: `KnowsMarker` fixes the report during a call (this is what
  `plan.lock` gives), `NewIsNext` and `NewIsCached` describe the bundle under way,
  `FilesSoFar` the files already written. In the refinement `WriteReport` is the
  register's `Commit`, the successful ends are its `Return`, `Start` is its `Begin` or a
  stutter, and all else stutters.
- PlanRun: `CheckpointsGenuine` (a checkpoint holds the payload its identifier names,
  and its approval was asked for) and `RowIsStored` tie row and checkpoints;
  `RunIsPrepared` says what a command may have decided, with the collision checks of
  the database already in it; `ReportIsThere`, `ApprovalIsKept` and `TornIsLeft` say how
  far the report can be from the row: a report left by a failed transaction is the
  one the same command would write again. The lemmas from `DesiredFits` to `RetryFits`
  take the decision of `_run_plan` operator by operator; `InStepNeverCollides` is why
  a collision has a cause.
- SourceIndex: `TablesArePast` and `SelectedIsPast` (what was selected before the
  transaction has a version that stays) carry the optimistic lock;
  `CopiedAtStamp` is what the two looks around the copy buy; `ReadsStand` and
  `WritesStand` say what an inspection nobody disturbed may rely on; `OneAtATime` is
  what `overlap` rules out.
- EvidenceWorkflow: `FilesEarned` says what must have been approved, sound and
  computable for a value to stand in an artifact, `CommandEarned` the same of every
  write still to come, so that it survives any cut; `LockIsStored` and `KeptAgrees`
  relate contract, lock and results for `ChainIsCurrent`. `HistoryGrows`: what was
  approved stays approved.
- Manuscript: `Coherent` and `Tells` (what an assembled directory shows is what its
  retained state gives), `PackageFits` and `TaskFits` for review and revision,
  `ReportsFit` (the report is about the two manuscripts the reader has) and `NumbersFit`.
  That a report is true needs that a section can only read differently when a
  chain of declared dependencies leads to a change: the rounds of `Affected` and
  `DeclaredFrom` are followed up to the number of sections (`AffectedHasRounds`,
  `FollowSpreads`, `UnlistedReadsAlike`). That numbers are in order follows the
  sections of a manuscript place by place (`UptoSteps`, `ReferencesHaveLists`).
- ResearchWorkspace: `Sound` (workspaces are tidy, builds settled), where the whole
  pipeline of a build is taken apart (`EvidenceFits` ... `PreparedFits`, `BuildAgain`);
  `Follows` (a figure the host has is the build's or gone) and `Notes` (a note of the
  build stays with the host until the host views again).
- WordReturn: `PageFits` and `CurrentFits` describe the two sides, `ReadFits` says that
  what the reading hands to the merge is honest: for every block what the author
  did, or a conflict; for everything typed a new block, or a conflict. `MergedBlocks`
  takes the merge field by field, `NewAreAccepted` the naming of new paragraphs.
  For the order `OInv` adds `CurrentInOrder` (no edit of the candidate takes a block out
  of its section), `ReadInOrder` (the reading has the blocks in the order of the page,
  the missing ones behind them and reported) and `ImportFollows`. `Precedes` says what
  stands before what in a list; each list operator of the model has a lemma in these
  terms (`OnlyIs`, `Mapped`, `FromTopIs`, `PlaceIs`, `PlaceAllIs`). `MergedOrder` is the heart
  of it: the merged order keeps every pair of the author's (`FollowsAuthor`), or, where
  the candidate moved blocks, every pair of the candidate's, with each block that it
  dropped right behind its neighbour on the page (`FollowsCurrent`, by `PlacedBehind`:
  of what is placed one after the other, nothing comes between but what is in
  between in the list).

  An earlier form of `OrderIsIntended` asked that every pair the result turns round was
  turned round by a side. The attempt to prove it showed that to be false for three
  paragraphs and two edits of the science: a swap of two and the loss of a third that
  the author changed, which comes back behind its neighbour wherever that has gone.
  The property now says so, and `DroppedStayInPlace` says where such a block is.
- TopicWording: `WordingInv` (a refined batch was legible and refused for nothing, one
  that fell back has the program's own wording), then the checks backwards: no text
  of a batch that is not refused has an objection (`RefusalIsStrict`, `NoObjection`);
  who denies the relation uses words the program looks for (`DenialContradicts`), so
  the relation stands before (`StandingStatesFirst`); no word claims more than the
  frame (`UnriskyClaimsLittle`); a topic that gains is not the program's (`GainChanges`).
- TopicRecords: `TopicsInv` has three parts. Rows keep their shape, in the tables and
  in what was read. `EvidenceAgrees`: whatever was current when the evidence table was
  read is of one version of its source, for that table is read in one transaction;
  so, because a case and its boundaries count only with such evidence, they are
  of one version although their own tables were read earlier. And the topics
  are what `Discover` and `RankTopics` make of the snapshot (`PlanMade`). The
  rest is about these operators. `BuiltIs` takes a topic apart; `Defensible` goes back from
  its gates to the records; `ResponseIs` and `AssociationIs` from the kind of a trend to
  every pair of samples, along the sorted cases (`SortedCases`: the positions
  `Sorted` gives are a permutation, and turn no pair round); `SupportedCeiling` through
  the three caps of a ceiling; `ManuscriptEarned` from the topic that leads the
  projected ranking through both sorts and the choice of four to its opportunity.

  The attempt found three things that the properties left open and now say. Closure
  needs a flow through the case, not an inflow other than zero. Controls agree for the
  boundary that counts, not for every traced one. And the evidence behind a
  manuscript is current and verified, not only better than raw.
- FigureDelivery: `EditsAreNew` (the author never writes what is there or on record)
  and `OwnStands`: while the script is the author's, no command runs and the guard of
  the next one refuses, so only the author edits or removes it (`DeskStep`).
  `RecordStands` says phase by phase when the record is of the script that is there: at
  rest and until the script is put, or else something broke; not while files are
  drawn, where it is enough that the script is the template; again once the record is put.
  For the paragraph `ParagraphMade` says that it is the sentence of inputs that gave a
  candidate; the rest follows these inputs. Each case has one row (`RowForCase`), so
  a question of two operands never gets this far (`OneOperand`), and the operand reads
  that row whatever its place and unit (`OperandReads`). Evaluation keeps the order of
  the observations, or turns all of it round when the reference is below zero
  (`OrderStated`, by `IdentityOrders` and `ChangeReads`); the kind of a trend says how every
  pair of values stands (`TrendIs`), and three digits are near (`RoundedIsNear`).

  The attempt showed that the property took the sign of the reference from its value
  in the base unit. For degrees that is another sign, and the twelfth input, which was
  added then, violates that form: the order is turned round when the reference is
  below zero in the unit of the operand, and the property now says so.
- SectionPackage: `CommandOK` says which files a command has copied so far,
  `CalculatedAgrees` that a preparation calculated with all of them, `AssemblyAgrees`
  that an assembly whose package nobody replaced has its input, its tables, and
  numbers resolved from the reports calculated with them. `PackageOK` ties what is
  packed to an input.
- Citations (`CitationsSuffice`): the two calculations are never evaluated, they are shown
  to be the same expression. `OnlyAt` says of two sets of sources that they
  differ in the numbers of one row, in no column of `Deciding`, and in no blank. Then the
  same rows are taken in the same order (`SameRowsTaken`, whose `Ascending` is a sequence
  because the rows are finitely many), the same elements are inside a region and have
  the same partners, and a group that does not have the row gets the same cells, so the
  same result by congruence: `TableFollows`, `IntegralFollows`, `DifferenceFollows`,
  `BudgetFollows`, `ChangeFollows`, one for each kind of calculation. A
  flux of a region rests on its own row even in a group that has the other, and
  of a partition change every field but weights and contributions on its own
  region. `Agreeing` collects this for a report, `ComparisonFollows` carries it
  through the comparisons, and `SameNumber` to what is picked. `RecordsInv` supplies what
  `SectionInv` does not say: that the tables of an undisturbed section are
  sequences and are all the files of its input.

  For the proof the property was strengthened: where it compared the raw numbers, it
  now compares all that a reference resolves to, with unit and records, and the
  cells that are raised are all those that decide nothing, in any row.

Two theorems have a hypothesis on the constants. `FiguresAreDrawnFromSources` speaks of a
host that goes on from each build, in it or in a copy (`"stays" \notin Policies`):
`FigureStale.cfg` shows that for the other it is false. `RenderingsRepeat` asks that a
delivery record which was written whole is neither of the values that stand for a file
missing or cut short (`WholeRecords`; they are model values in the run).
`HostIsAlwaysTold` has none. The property itself says which notes it is not about: those
on an image that the host removed since, and those that an author's return brought back
for another image (`late`), for which `NoteStale.cfg` shows it to be false.

### The assumptions

They are those of the modules, and TLC evaluates them in the runs. Bounds are
natural numbers, none is assumed small; tables that are constants are
functions of the right kind (`StandingType`, `CommandsType`, `EvidenceFunction`,
`InputPairs`, `OppOf`). The others:

- `NoneIsNew` in several modules: the `None` of Python equals no value.
- `NamesDiffer` (ResearchWorkspace): a diagnostic has a name of its own; one that
  repeats a calculation of the author's is refused
  (`publication/research_workspace.py:1060`).
- `SpineAndDepends` (Manuscript): section ids are distinct (`publication/spine.py:38`), and
  only sections are depended on (`publication/manuscript.py:198`). `Refs` is the list of
  sources the model chooses from.
- `NamesAreNew` (WordReturn): the name of a new paragraph is a digest of its place
  and its neighbours (`publication/word_return.py:865`), so no other block has it.
  `BlocksDiffer`: an exported document names each block once
  (`publication/document_blocks.py:267`). `WordBounds`: the places a paragraph can be
  typed at are positive.
- `RecordTypes` (TopicRecords): sequences are finite, numbers integers, a file holds
  finitely many pieces of evidence; maturities and ceilings are those of
  `scientific/evidence.py`, and no tolerance is negative
  (`topic_generation/snapshot.py:124`). Flows may be negative.
- `WordingTypes` (TopicWording): a batch is a sequence of topics of the four classes.
- `SectionAssumption` (SectionPackage): a table is a sequence of rows, a calculation has its
  columns and its regions, if any, and reads only files of its input, to which
  `_load_input` adds them (`publication/section.py:619`); the versions of an input are
  versions of the same files.
- `EditsDiffer` (FigureDelivery): a script is the template, cut short, missing or edited,
  and only one of these.
  `InputTypes`: rows, members and operands are finite sequences, values integers, scales of
  units positive. `InputsResolved` is about the model's integers, which stand for
  decimals of any fineness: they are fine enough that a conversion to the unit of the
  operand loses nothing, that observations which differ have values which differ, and
  that no value has more than seven digits.

### Recursion without the induction theorems

The library's induction theorems take an operator as a parameter, which the
provers here cannot instantiate. Where a module follows a definition through all
places of a sequence or all rounds of a closure, the proof goes by the least
counterexample (`LeastNat`, from the well-foundedness of the natural numbers), mostly
by way of `UpTo` and `Rows`: a set of numbers that has 0 and with each number
the next has all of them, and a recursive function over rows exists and satisfies
its equation. For that, `Among` of Opportunities, `Choose4` of TopicRanking and `Affected`,
`DeclaredFrom`, `Total`, `References` and `WithCites` of
Manuscript are recursive functions, and Python's stable sort is `Sorted`, which takes
the order as a set of pairs and counts what comes before. No module declares a RECURSIVE operator.

### Only model-checked

- `EveryCallEnds`: liveness; the prover handles neither fairness nor ENABLED.
- `PhysicallySound`: it compares two runs of a calculation, on tables that differ in the
  origin of every temperature, and adds up parts, by exact fractions. That is
  non-linear arithmetic over sums of any length.

## 5. Not modelled, and why

- Drawing, document layout, file formats, adapters, argument handling: input and
  output without decisions. Retrieval: scores in floating point. Report
  workflow: arithmetic on text.
- Surface studies (`publication/surface_regions.py`, `analysis_section.py`): geometry in floating
  point; their results enter `ResearchWorkspace` as declared evidence.
- Diagnostic figures, literature and citation formatting, the manuscript seed, the
  prose, equations and shared units of a section: data of the parts modelled.
- `publication/review.py` and `revision.py`, the single-section predecessors of manuscript review
  and revision.
- Portable workbench, materials, source definitions: copies and catalogues that
  are read again on every use.
- Rounding, overflow and NaN of floats in the scientific checks and tables.
- Schema migrations of the store. Two evidence commands at once, two builds at
  once: nothing in the code guards them, and each would
  square the states of a run.

Plan:

1. PlanRun against an abstract register of approvals, and EvidenceWorkflow against
   the part of it that it uses.
2. Manuscript and WordReturn composed: a revision whose candidate is exported,
   edited and imported again.
