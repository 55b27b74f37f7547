--------------------------- MODULE GenerationBundle ---------------------------
(***************************************************************************)
(* Topic generation with its crash recovery: TopicGenerationService        *)
(* (topic_generation/service.py) over the bundle of topic_generation/      *)
(* artifacts.py: two cached artifacts, two output files, and the report    *)
(* written last as the commit marker.                                      *)
(*                                                                         *)
(* The caller holds plan.lock for the whole call, so one call runs at a    *)
(* time; it can be killed between any two file operations.  An artifact is *)
(* identified with its canonical bytes and with their digest.  The project *)
(* id never changes; provider_model and author_brief are None, as run_plan *)
(* leaves them, so a request is its provider mode and the regenerate flag. *)
(***************************************************************************)
EXTENDS Naturals

CONSTANTS
  Science,      \* contents of the scientific records (component hashes)
  Opportunity,  \* opportunity envelopes
  OppOf,        \* discover_research_opportunities: the envelope of a science
  Wording,      \* candidate wordings a provider can return
  Plain,        \* the deterministic offline wording
  Mode,         \* provider modes: "offline", "auto" and explicit providers
  Foreign,      \* bytes in an output file that the program did not write
  MaxRevision,  \* bound on published revisions
  MaxTouch,     \* bound on outside changes to the output files
  MaxDamage,    \* bound on cache entries lost or corrupted from outside
  None          \* no report, no file, no bundle

ASSUME OppOfType == OppOf \in [Science -> Opportunity]
ASSUME PlainIsWording == Plain \in Wording
ASSUME GenBounds == MaxRevision \in Nat /\ MaxTouch \in Nat /\ MaxDamage \in Nat

Candidate == Opportunity \X Wording
Report == [science : Science, mode : Mode, opp : Opportunity, cand : Candidate,
           revision : Nat \ {0}]
ASSUME NoneIsNoReport == None \notin Report

Health == {"absent", "intact", "corrupt"}

VARIABLES
  science,    \* the records the next snapshot will be taken of
  oppCache,   \* cache entry of each opportunity envelope
  candCache,  \* cache entry of each candidate envelope
  oppFile,    \* outputs/.../research-opportunities.json
  candFile,   \* outputs/.../generated-topic-candidates.json
  marker,     \* outputs/.../candidate-generation-report.json
  run,        \* the call in progress, or the last one
  touches, damage

files == <<oppFile, candFile, marker>>
cache == <<oppCache, candCache>>
outside == <<science, touches, damage>>
vars == <<science, oppCache, candCache, oppFile, candFile, marker, run, touches, damage>>

Phase == {"idle", "recover", "clear-cand", "restore-cand", "load", "decide",
          "cache-opp", "cache-cand", "write-opp", "write-cand", "write-report",
          "load-new"}
Result == {"none", "reused", "generated", "refused", "conflict", "failed", "killed"}

(* committed: the report recovered at the start; new: the report being     *)
(* published; bundle: the report and the two artifacts the call returned.  *)
Run == [at : Phase, mode : Mode, regenerate : BOOLEAN, science : Science,
        committed : Report \cup {None}, new : Report \cup {None},
        result : Result, bundle : Report \cup {None}]

TypeOK ==
  /\ science \in Science
  /\ oppCache \in [Opportunity -> Health]
  /\ candCache \in [Candidate -> Health]
  /\ oppFile \in Opportunity \cup {None, Foreign}
  /\ candFile \in Candidate \cup {None, Foreign}
  /\ marker \in Report \cup {None}
  /\ run \in Run
  /\ touches \in 0..MaxTouch /\ damage \in 0..MaxDamage

Init ==
  /\ science \in Science
  /\ oppCache = [o \in Opportunity |-> "absent"]
  /\ candCache = [c \in Candidate |-> "absent"]
  /\ oppFile = None /\ candFile = None /\ marker = None
  /\ \E m \in Mode :
       run = [at |-> "idle", mode |-> m, regenerate |-> FALSE, science |-> science,
              committed |-> None, new |-> None, result |-> "none", bundle |-> None]
  /\ touches = 0 /\ damage = 0

Goto(phase) == run' = [run EXCEPT !.at = phase]
Finish(result, bundle) ==
  run' = [run EXCEPT !.at = "idle", !.committed = None, !.new = None,
                     !.result = result, !.bundle = bundle]
Raise(why) == Finish(why, None)

-----------------------------------------------------------------------------
(* Plausible faults, one for each property; no specification uses them.    *)

(* The files are read back without comparing them with the report.         *)
ConsistentUnchecked(r) == oppFile # None /\ candFile # None

(* The revision is kept when the science has changed.                      *)
NextRevisionKept == IF run.committed = None THEN 1 ELSE run.committed.revision

(* Recovery trusts the candidate file that is there.                       *)
RestoreCandSkipped ==
  /\ run.at = "restore-cand"
  /\ IF candCache[marker.cand] = "intact" THEN Goto("load") ELSE Raise("conflict")
  /\ UNCHANGED <<cache, files, outside>>

(* Publication does not cache the candidates.                              *)
CacheCandSkipped ==
  /\ run.at = "cache-cand"
  /\ Goto("write-opp")
  /\ UNCHANGED <<cache, files, outside>>

-----------------------------------------------------------------------------
(* cache.put_bytes: an absent entry is written, an intact one kept, and a  *)
(* corrupt one is an error.                                                *)
Put(entry, a) == [entry EXCEPT ![a] = IF @ = "absent" THEN "intact" ELSE @]

(* load_committed_generation_bundle: both files are those the report names *)
(* and the cache holds them.                                               *)
Consistent(r) ==
  /\ oppFile = r.opp /\ candFile = r.cand
  /\ oppCache[r.opp] = "intact" /\ candCache[r.cand] = "intact"

-----------------------------------------------------------------------------
(* generate(request): the snapshot is taken before anything else.          *)
Start(m, regenerate) ==
  /\ run.at = "idle"
  /\ run' = [at |-> "recover", mode |-> m, regenerate |-> regenerate,
             science |-> science, committed |-> None, new |-> None,
             result |-> "none", bundle |-> None]
  /\ UNCHANGED <<cache, files, outside>>

(* recover_generation_bundle without a report: the files of an unfinished  *)
(* first publication are removed.                                          *)
ClearOpp ==
  /\ run.at = "recover" /\ marker = None
  /\ oppFile' = None
  /\ Goto("clear-cand")
  /\ UNCHANGED <<cache, candFile, marker, outside>>

ClearCand ==
  /\ run.at = "clear-cand"
  /\ candFile' = None
  /\ Goto("decide")
  /\ UNCHANGED <<cache, oppFile, marker, outside>>

(* With a report, both files are rewritten from the cache.                 *)
RestoreOpp ==
  /\ run.at = "recover" /\ marker # None
  /\ IF oppCache[marker.opp] = "intact"
       THEN oppFile' = marker.opp /\ Goto("restore-cand")
       ELSE Raise("conflict") /\ UNCHANGED oppFile
  /\ UNCHANGED <<cache, candFile, marker, outside>>

RestoreCand ==
  /\ run.at = "restore-cand"
  /\ IF candCache[marker.cand] = "intact"
       THEN candFile' = marker.cand /\ Goto("load")
       ELSE Raise("conflict") /\ UNCHANGED candFile
  /\ UNCHANGED <<cache, oppFile, marker, outside>>

LoadCommitted ==
  /\ run.at = "load"
  /\ IF Consistent(marker)
       THEN run' = [run EXCEPT !.at = "decide", !.committed = marker]
       ELSE Raise("conflict")
  /\ UNCHANGED <<cache, files, outside>>

SameKey == run.committed.science = run.science /\ run.committed.mode = run.mode

(* The committed bundle answers an unchanged request.                      *)
Reuse ==
  /\ run.at = "decide" /\ run.committed # None
  /\ SameKey /\ ~run.regenerate
  /\ Finish("reused", run.committed)
  /\ UNCHANGED <<cache, files, outside>>

(* _requires_regenerate: only the request changed, not the science.        *)
Refuse ==
  /\ run.at = "decide" /\ run.committed # None /\ ~run.regenerate
  /\ run.committed.science = run.science /\ run.committed.mode # run.mode
  /\ Raise("refused")
  /\ UNCHANGED <<cache, files, outside>>

MustGenerate ==
  run.at = "decide" /\ (run.committed # None /\ ~run.regenerate =>
                          run.committed.science # run.science)

NextRevision == IF run.committed = None THEN 1 ELSE run.committed.revision + 1

(* An explicitly named provider that is missing or fails ends the call     *)
(* before anything is written; "auto" falls back to the offline wording.   *)
ProviderFails ==
  /\ MustGenerate /\ run.mode \notin {"offline", "auto"}
  /\ Raise("failed")
  /\ UNCHANGED <<cache, files, outside>>

(* _refine, next_generation_revision, build_generation_report.             *)
Generate(w) ==
  /\ MustGenerate /\ NextRevision <= MaxRevision
  /\ run.mode = "offline" => w = Plain
  /\ run' = [run EXCEPT
       !.at = "cache-opp",
       !.new = [science |-> run.science, mode |-> run.mode, opp |-> OppOf[run.science],
                cand |-> <<OppOf[run.science], w>>, revision |-> NextRevision]]
  /\ UNCHANGED <<cache, files, outside>>

-----------------------------------------------------------------------------
(* publish_generation_bundle: cache first, then the files, report last.    *)
CacheOpp ==
  /\ run.at = "cache-opp"
  /\ oppCache' = Put(oppCache, run.new.opp)
  /\ IF oppCache[run.new.opp] = "corrupt" THEN Raise("failed") ELSE Goto("cache-cand")
  /\ UNCHANGED <<candCache, files, outside>>

CacheCand ==
  /\ run.at = "cache-cand"
  /\ candCache' = Put(candCache, run.new.cand)
  /\ IF candCache[run.new.cand] = "corrupt" THEN Raise("failed") ELSE Goto("write-opp")
  /\ UNCHANGED <<oppCache, files, outside>>

WriteOpp ==
  /\ run.at = "write-opp"
  /\ oppFile' = run.new.opp
  /\ Goto("write-cand")
  /\ UNCHANGED <<cache, candFile, marker, outside>>

WriteCand ==
  /\ run.at = "write-cand"
  /\ candFile' = run.new.cand
  /\ Goto("write-report")
  /\ UNCHANGED <<cache, oppFile, marker, outside>>

WriteReport ==
  /\ run.at = "write-report"
  /\ marker' = run.new
  /\ Goto("load-new")
  /\ UNCHANGED <<cache, oppFile, candFile, outside>>

(* The bundle is read back and returned.                                   *)
LoadNew ==
  /\ run.at = "load-new"
  /\ IF Consistent(marker)
       THEN Finish("generated", [marker EXCEPT !.opp = oppFile, !.cand = candFile])
       ELSE Raise("conflict")
  /\ UNCHANGED <<cache, files, outside>>

(* An OSError from any file operation, or the process dies: what was done  *)
(* so far stays (each file operation is an atomic rename).                 *)
Stop(why) ==
  /\ run.at # "idle" /\ why \in {"failed", "killed"}
  /\ Raise(why)
  /\ UNCHANGED <<cache, files, outside>>

-----------------------------------------------------------------------------
(* Between and during calls: the records change, someone edits or deletes  *)
(* an output file, a cache entry is lost or damaged.                       *)
ChangeScience(s) ==
  /\ s # science /\ science' = s
  /\ UNCHANGED <<cache, files, run, touches, damage>>

Touch ==
  /\ touches < MaxTouch /\ touches' = touches + 1
  /\ \/ oppFile' \in {None, Foreign} \ {oppFile} /\ UNCHANGED candFile
     \/ candFile' \in {None, Foreign} \ {candFile} /\ UNCHANGED oppFile
  /\ UNCHANGED <<cache, marker, run, science, damage>>

Damage ==
  /\ damage < MaxDamage /\ damage' = damage + 1
  /\ \/ \E o \in Opportunity, h \in {"absent", "corrupt"} :
          oppCache[o] = "intact" /\ oppCache' = [oppCache EXCEPT ![o] = h]
          /\ UNCHANGED candCache
     \/ \E c \in Candidate, h \in {"absent", "corrupt"} :
          candCache[c] = "intact" /\ candCache' = [candCache EXCEPT ![c] = h]
          /\ UNCHANGED oppCache
  /\ UNCHANGED <<files, run, science, touches>>

Call ==
  \/ ClearOpp \/ ClearCand \/ RestoreOpp \/ RestoreCand \/ LoadCommitted
  \/ Reuse \/ Refuse \/ ProviderFails \/ (\E w \in Wording : Generate(w))
  \/ CacheOpp \/ CacheCand \/ WriteOpp \/ WriteCand \/ WriteReport \/ LoadNew

Next ==
  \/ \E m \in Mode, regenerate \in BOOLEAN : Start(m, regenerate)
  \/ Call
  \/ \E why \in {"failed", "killed"} : Stop(why)
  \/ \E s \in Science : ChangeScience(s)
  \/ Touch
  \/ Damage

Spec == Init /\ [][Next]_vars

-----------------------------------------------------------------------------
(* Cache first, report last: a report on disk names two cached artifacts,  *)
(* so whenever a call is killed the next one can restore both files.       *)
MarkerIsRestorable ==
  marker # None /\ damage = 0 =>
    oppCache[marker.opp] = "intact" /\ candCache[marker.cand] = "intact"

(* A crash alone never makes generation fail closed: a call that raises a  *)
(* conflict saw something changed from outside the program.                *)
ConflictNeedsOutsider == run.result = "conflict" => touches + damage > 0

(* A call that returns a bundle returns the marked one, and leaves its two *)
(* artifacts in the output files run_plan reads next.                      *)
ReturnedIsCommitted ==
  run.result \in {"reused", "generated"} =>
    /\ run.bundle = marker
    /\ touches = 0 => oppFile = marker.opp /\ candFile = marker.cand

(* A committed bundle is only replaced because the science changed or the  *)
(* author asked for it; a retried call never produces a second revision.   *)
ReplacedOnlyForCause ==
  [][marker' # marker /\ marker # None =>
       marker'.science # marker.science \/ run.regenerate]_vars

(* The call as its caller sees it.                                         *)
Register == INSTANCE GenerationRegister WITH
  committed <- marker, returned <- run.bundle

RefinesRegister == Register!Spec
===============================================================================
