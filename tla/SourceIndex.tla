----------------------------- MODULE SourceIndex -----------------------------
(***************************************************************************)
(* The source index: ProjectIndexer.inspect (indexing.py) over the tables  *)
(* sources, source_versions and chunks (storage.py).  Inspections take no  *)
(* lock of their own, so two commands can index the same file at once, and *)
(* the author can save or delete it between any two of their readings.     *)
(*                                                                         *)
(* One file stands for all: the tables are keyed by file, and each file is *)
(* visited once.  Every save gives the file a new modification time; the   *)
(* size adds nothing to it and is left out.  Bytes and digest are the same *)
(* thing here, and the cache is the set of digests ContentCache stores.    *)
(***************************************************************************)
EXTENDS Naturals, Sequences

CONSTANTS
  Inspectors,  \* processes that inspect the project
  Content,     \* contents the author saves
  MaxSaves,    \* bound on saves and deletions of the file
  MaxStarts,   \* bound on inspections
  MaxLost,     \* bound on cache entries lost from outside
  None         \* no file, no row

ASSUME IndexBounds == MaxSaves \in Nat /\ MaxStarts \in Nat /\ MaxLost \in Nat

Stat == [content : Content, mtime : Nat]
Row == [sha : Content, mtime : Nat, version : Nat \ {0}, stale : BOOLEAN]

ASSUME NoneIsNew == None \notin Content /\ None \notin Row

VARIABLES
  file,      \* the file on disk: its content and modification time
  row,       \* its row in sources
  versions,  \* its rows in source_versions
  chunks,    \* the snapshot its text chunks were cut from
  cache,     \* digests with an entry
  insp,      \* what each inspector is doing
  overlap,   \* two inspections have been under way at once (history)
  saves, starts, lost

tables == <<row, versions, chunks>>
counters == <<saves, starts, lost, overlap>>
vars == <<file, row, versions, chunks, cache, insp, overlap, saves, starts, lost>>

Phase == {"idle", "list", "stat", "fast", "before", "copy", "after", "hash",
          "compare", "select", "write", "mark", "mark-write", "done", "failed"}

(* quiet: since it listed the files, nobody else saved, deleted or indexed *)
(* the file (history).                                                     *)
Inspection ==
  [at : Phase, strict : BOOLEAN, seen : BOOLEAN, previous : Row \cup {None},
   before : Nat, after : Nat, snapshot : Content \cup {None}, hash : Content \cup {None},
   attempt : 1..2, old : Row \cup {None}, missing : BOOLEAN, quiet : BOOLEAN]

Idle == [at |-> "idle", strict |-> FALSE, seen |-> FALSE, previous |-> None,
         before |-> 0, after |-> 0, snapshot |-> None, hash |-> None,
         attempt |-> 1, old |-> None, missing |-> FALSE, quiet |-> FALSE]

TypeOK ==
  /\ file \in Stat \cup {None}
  /\ row \in Row \cup {None}
  /\ versions \in Seq(Content)
  /\ chunks \in Content \cup {None}
  /\ cache \subseteq Content
  /\ insp \in [Inspectors -> Inspection]
  /\ overlap \in BOOLEAN
  /\ saves \in 0..MaxSaves /\ starts \in 0..MaxStarts /\ lost \in 0..MaxLost

Init ==
  /\ file \in [content : Content, mtime : {0}] \cup {None}
  /\ row = None /\ versions = << >> /\ chunks = None
  /\ cache = {}
  /\ insp = [i \in Inspectors |-> Idle]
  /\ overlap = FALSE
  /\ saves = 0 /\ starts = 0 /\ lost = 0

Becomes(i, inspection) == insp' = [insp EXCEPT ![i] = inspection]
Goto(i, phase) == Becomes(i, [insp[i] EXCEPT !.at = phase])

(* An inspection that ends forgets everything but how it ended, and how    *)
(* it was asked for.                                                       *)
Over(i, how) ==
  [Idle EXCEPT !.at = how, !.strict = insp[i].strict, !.quiet = insp[i].quiet]
End(i, how) == Becomes(i, Over(i, how))

-----------------------------------------------------------------------------
(* Plausible faults, one for each property; no specification uses them.    *)

(* The snapshot is compared with itself only, not with the time stamps.    *)
StableByHash(i) == insp[i].hash = insp[i].snapshot

(* A known file is never looked at again.                                  *)
UnchangedSinceListed(i) ==
  /\ insp[i].previous # None
  /\ ~insp[i].strict

(* A version number already given is given again.                          *)
VersionTakenNever(i) == FALSE

-----------------------------------------------------------------------------
(* inspect: discover() walks the tree ...                                  *)
Ended == {"idle", "done", "failed"}

Discover(i, strict) ==
  /\ insp[i].at \in Ended /\ starts < MaxStarts
  /\ starts' = starts + 1
  /\ overlap' = (overlap \/ \E j \in Inspectors : insp[j].at \notin Ended)
  /\ Becomes(i, [Idle EXCEPT !.at = "list", !.strict = strict,
                             !.seen = file # None, !.quiet = TRUE])
  /\ UNCHANGED <<file, tables, cache, saves, lost>>

(* ... and then list_sources reads the rows.                               *)
List(i) ==
  /\ insp[i].at = "list"
  /\ Becomes(i, [insp[i] EXCEPT !.previous = row,
                                !.at = IF insp[i].seen THEN "stat" ELSE "mark"])
  /\ UNCHANGED <<file, tables, cache, counters>>

Unchanged(i) ==
  /\ insp[i].previous # None /\ ~insp[i].strict
  /\ ~insp[i].previous.stale /\ insp[i].previous.mtime = file.mtime

(* A file that vanished since discover() ends the inspection.              *)
StatFile(i) ==
  /\ insp[i].at = "stat"
  /\ IF file = None THEN End(i, "failed")
     ELSE Goto(i, IF Unchanged(i) THEN "fast" ELSE "before")
  /\ UNCHANGED <<file, tables, cache, counters>>

(* The fast path only makes sure the snapshot is still in the cache.       *)
Fast(i) ==
  LET sha == insp[i].previous.sha IN
  /\ insp[i].at = "fast"
  /\ IF sha \in cache THEN Goto(i, "mark") /\ UNCHANGED cache
     ELSE IF file # None /\ file.content = sha
          THEN Goto(i, "mark") /\ cache' = cache \cup {sha}
          ELSE End(i, "failed") /\ UNCHANGED cache
  /\ UNCHANGED <<file, tables, counters>>

(* _stable_snapshot: one retry when the file changed or vanished.          *)
Retry(i) ==
  IF insp[i].attempt = 1
    THEN Becomes(i, [insp[i] EXCEPT !.at = "before", !.attempt = 2])
    ELSE End(i, "failed")

Before(i) ==
  /\ insp[i].at = "before"
  /\ IF file = None THEN Retry(i)
     ELSE Becomes(i, [insp[i] EXCEPT !.at = "copy", !.before = file.mtime])
  /\ UNCHANGED <<file, tables, cache, counters>>

Copy(i) ==
  /\ insp[i].at = "copy"
  /\ IF file = None THEN Retry(i) /\ UNCHANGED cache
     ELSE /\ Becomes(i, [insp[i] EXCEPT !.at = "after", !.snapshot = file.content])
          /\ cache' = cache \cup {file.content}
  /\ UNCHANGED <<file, tables, counters>>

After(i) ==
  /\ insp[i].at = "after"
  /\ IF file = None THEN Retry(i)
     ELSE Becomes(i, [insp[i] EXCEPT !.at = "hash", !.after = file.mtime])
  /\ UNCHANGED <<file, tables, cache, counters>>

Hash(i) ==
  /\ insp[i].at = "hash"
  /\ IF file = None THEN Retry(i)
     ELSE Becomes(i, [insp[i] EXCEPT !.at = "compare", !.hash = file.content])
  /\ UNCHANGED <<file, tables, cache, counters>>

Stable(i) ==
  /\ insp[i].before = insp[i].after /\ insp[i].after = file.mtime
  /\ insp[i].hash = insp[i].snapshot

(* The third stat, and the comparison of everything read.                  *)
Compare(i) ==
  /\ insp[i].at = "compare"
  /\ IF file # None /\ Stable(i)
       THEN Becomes(i, [insp[i] EXCEPT !.at = "select", !.after = file.mtime])
       ELSE Retry(i)
  /\ UNCHANGED <<file, tables, cache, counters>>

(* _index_source_row: the SELECT runs before the transaction is open ...   *)
Select(i) ==
  /\ insp[i].at = "select"
  /\ Becomes(i, [insp[i] EXCEPT !.at = "write", !.old = row])
  /\ UNCHANGED <<file, tables, cache, counters>>

(* Somebody else's inspection is no longer undisturbed.                    *)
Disturb(i) ==
  insp' = [j \in Inspectors |->
             IF j = i THEN [insp[i] EXCEPT !.at = "mark"]
             ELSE [insp[j] EXCEPT !.quiet = FALSE]]

(* ... which then updates the same version,                                *)
WriteUnchanged(i) ==
  /\ insp[i].at = "write" /\ insp[i].old # None /\ insp[i].old.sha = insp[i].snapshot
  /\ row' = [row EXCEPT !.mtime = insp[i].after, !.stale = FALSE]
  /\ Disturb(i)
  /\ UNCHANGED <<file, versions, chunks, cache, counters>>

NextVersion(i) == IF insp[i].old = None THEN 1 ELSE insp[i].old.version + 1
VersionTaken(i) == NextVersion(i) \in DOMAIN versions
Updated(i) == [sha |-> insp[i].snapshot, mtime |-> insp[i].after,
               version |-> NextVersion(i), stale |-> FALSE]

(* or replaces it with its version row and its chunks,                     *)
WriteVersion(i) ==
  /\ insp[i].at = "write" /\ ~(insp[i].old # None /\ insp[i].old.sha = insp[i].snapshot)
  /\ ~VersionTaken(i)
  /\ row' = Updated(i)
  /\ versions' = [v \in DOMAIN versions \cup {NextVersion(i)} |->
                    IF v = NextVersion(i) THEN insp[i].snapshot ELSE versions[v]]
  /\ chunks' = insp[i].snapshot
  /\ Disturb(i)
  /\ UNCHANGED <<file, cache, counters>>

(* unless the primary key (source_id, version), or the unique uri of a     *)
(* first row, is taken: IntegrityError, and all of it is rolled back.      *)
WriteClashes(i) ==
  /\ insp[i].at = "write" /\ ~(insp[i].old # None /\ insp[i].old.sha = insp[i].snapshot)
  /\ VersionTaken(i)
  /\ End(i, "failed")
  /\ UNCHANGED <<file, tables, cache, counters>>

(* mark_stale_except(seen): again a SELECT, then an UPDATE.                *)
MarkSelect(i) ==
  /\ insp[i].at = "mark"
  /\ LET missing == ~insp[i].seen /\ row # None /\ ~row.stale IN
     IF missing THEN Goto(i, "mark-write") ELSE End(i, "done")
  /\ UNCHANGED <<file, tables, cache, counters>>

MarkWrite(i) ==
  /\ insp[i].at = "mark-write"
  /\ row' = [row EXCEPT !.stale = TRUE]
  /\ insp' = [j \in Inspectors |->
                IF j = i THEN Over(i, "done")
                ELSE [insp[j] EXCEPT !.quiet = FALSE]]
  /\ UNCHANGED <<file, versions, chunks, cache, counters>>

(* Any read or write fails, or the process is killed.                      *)
Stop(i) ==
  /\ insp[i].at \notin Ended
  /\ End(i, "failed")
  /\ UNCHANGED <<file, tables, cache, counters>>

-----------------------------------------------------------------------------
Unquiet == [j \in Inspectors |-> [insp[j] EXCEPT !.quiet = FALSE]]

Save(c) ==
  /\ saves < MaxSaves /\ saves' = saves + 1
  /\ file' = [content |-> c, mtime |-> saves + 1]
  /\ insp' = Unquiet
  /\ UNCHANGED <<tables, cache, starts, lost, overlap>>

Delete ==
  /\ saves < MaxSaves /\ saves' = saves + 1
  /\ file # None /\ file' = None
  /\ insp' = Unquiet
  /\ UNCHANGED <<tables, cache, starts, lost, overlap>>

Lose(c) ==
  /\ lost < MaxLost /\ lost' = lost + 1
  /\ c \in cache /\ cache' = cache \ {c}
  /\ insp' = Unquiet
  /\ UNCHANGED <<file, tables, saves, starts, overlap>>

Step(i) ==
  \/ List(i) \/ StatFile(i) \/ Fast(i) \/ Before(i) \/ Copy(i) \/ After(i)
  \/ Hash(i) \/ Compare(i) \/ Select(i) \/ WriteUnchanged(i) \/ WriteVersion(i)
  \/ WriteClashes(i) \/ MarkSelect(i) \/ MarkWrite(i) \/ Stop(i)

Next ==
  \/ \E i \in Inspectors, strict \in BOOLEAN : Discover(i, strict)
  \/ \E i \in Inspectors : Step(i)
  \/ \E c \in Content : Save(c) \/ Lose(c)
  \/ Delete

Spec == Init /\ [][Next]_vars

-----------------------------------------------------------------------------
(* The version numbers work as an optimistic lock: however inspections     *)
(* overlap, the row, its last version and its chunks are one snapshot.     *)
RowIsLastVersion ==
  row # None =>
    /\ row.version = Len(versions) /\ row.sha = versions[row.version]
    /\ chunks = row.sha

(* list_evidence: a record bound to a digest is stale when the source is,  *)
(* or when the row has moved on.  After an inspection nobody disturbed, no *)
(* record of another content, or of a deleted file, passes for current.    *)
(* Once inspections have overlapped only a strict one is sure of that: the *)
(* others believe a time stamp, which may then stand beside another digest.*)
ListedStale(sha) == row.stale \/ row.sha # sha
InspectedIsCurrent ==
  \A i \in Inspectors :
    insp[i].at = "done" /\ insp[i].quiet /\ (insp[i].strict \/ ~overlap) =>
    /\ file # None => row # None /\ ~ListedStale(file.content)
    /\ \A c \in Content : row # None /\ ~ListedStale(c) => file # None /\ file.content = c

(* ... and the snapshot of the row can be read back from the cache.        *)
SnapshotKept ==
  \A i \in Inspectors : insp[i].at = "done" /\ insp[i].quiet /\ file # None => row.sha \in cache

(* What an inspection leaves behind can be used: it is the file as it is,  *)
(* and its bytes are there to be read.                                     *)
InspectionDelivers == InspectedIsCurrent /\ SnapshotKept

(* The fast path of every later inspection relies on it: as long as no two *)
(* inspections overlap, a row with the time stamp of the file on disk has  *)
(* its digest, whenever the author saved and whatever was cut short.       *)
Stamped ==
  row # None /\ ~row.stale /\ file # None /\ row.mtime = file.mtime =>
    row.sha = file.content
FastPathSound == overlap \/ Stamped

(* storage.py, index_source: "Upsert a current source version" - no word   *)
(* of inspections that overlap.                                            *)
FastPathAlwaysSound == Stamped
===============================================================================
