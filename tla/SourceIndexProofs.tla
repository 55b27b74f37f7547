--------------------------- MODULE SourceIndexProofs ---------------------------
(***************************************************************************)
(* Proofs about SourceIndex for every set of inspectors, set of contents   *)
(* and bound: the optimistic lock on version numbers, what an inspection   *)
(* nobody disturbed delivers, and when the fast path can be believed.      *)
(***************************************************************************)
EXTENDS SourceIndex, TLAPS

(* There is a row as soon as there is a version, and every time stamp was  *)
(* given by a save that has happened.                                      *)
TablesArePast ==
  /\ row = None => versions = << >>
  /\ file # None => file.mtime <= saves
  /\ row # None => row.mtime <= saves

(* What an inspector selected was the row then: its version stays.         *)
SelectedIsPast(i) ==
  /\ insp[i].at = "mark-write" => row # None
  /\ insp[i].at = "write" /\ insp[i].old # None =>
       row # None /\ insp[i].old.version <= Len(versions)
  /\ insp[i].before <= saves /\ insp[i].after <= saves

(* What each phase has read before it begins.                              *)
Gathered(i) ==
  /\ insp[i].at = "fast" =>
       insp[i].previous # None /\ ~insp[i].previous.stale /\ ~insp[i].strict
  /\ insp[i].at \in {"after", "hash", "compare", "select", "write"} =>
       insp[i].snapshot # None
  /\ insp[i].at = "mark-write" => ~insp[i].seen

(* A snapshot taken between two looks at the same time stamp is the content *)
(* that stamp was given for.                                               *)
CopiedAtStamp(i) ==
  file # None =>
    /\ insp[i].at \in {"after", "hash", "compare"} /\ insp[i].before = file.mtime =>
         insp[i].snapshot = file.content
    /\ insp[i].at \in {"select", "write"} /\ insp[i].after = file.mtime =>
         insp[i].snapshot = file.content

(* What an inspection has read is still so while nobody disturbs it ...    *)
ReadsStand(i) ==
  /\ insp[i].at \notin Ended => (insp[i].seen <=> file # None)
  /\ insp[i].at \in {"stat", "fast", "before", "copy", "after", "hash", "compare",
                     "select", "write"} => insp[i].seen
  /\ insp[i].at \in {"stat", "fast"} => insp[i].previous = row
  /\ insp[i].at = "fast" => insp[i].previous.mtime = file.mtime
  /\ insp[i].at \in {"after", "hash", "compare", "select", "write"} =>
       insp[i].snapshot = file.content /\ file.content \in cache
  /\ insp[i].at = "write" => insp[i].old = row

(* ... and so is what it has written.                                      *)
WritesStand(i) ==
  /\ insp[i].at \in {"mark", "done"} /\ file # None =>
       /\ row # None /\ ~row.stale /\ row.sha \in cache
       /\ insp[i].strict \/ ~overlap => row.sha = file.content
  /\ insp[i].at = "done" /\ file = None => row = None \/ row.stale

(* Without an overlap the row an inspection selected is still the row.     *)
Sound(i) ==
  /\ SelectedIsPast(i) /\ Gathered(i) /\ CopiedAtStamp(i)
  /\ insp[i].quiet => ReadsStand(i) /\ WritesStand(i)
  /\ ~overlap /\ insp[i].at = "write" => insp[i].old = row

(* While no two inspections have overlapped, one is under way at a time.   *)
OneAtATime ==
  ~overlap =>
    \A i, j \in Inspectors : insp[i].at \notin Ended /\ insp[j].at \notin Ended => i = j

IInv ==
  /\ TypeOK
  /\ RowIsLastVersion
  /\ TablesArePast
  /\ FastPathSound
  /\ OneAtATime
  /\ \A i \in Inspectors : Sound(i)

-----------------------------------------------------------------------------
(* Everything an inspector does before it writes leaves the tables and the *)
(* file alone, and concerns the other inspectors only by adding to the     *)
(* cache.                                                                  *)
Reads(i) ==
  /\ UNCHANGED <<file, tables, saves, starts, lost, overlap>>
  /\ cache \subseteq cache' /\ cache' \subseteq Content
  /\ insp' \in [Inspectors -> Inspection]
  /\ \A j \in Inspectors \ {i} : insp'[j] = insp[j]
  /\ insp[i].at \notin Ended

(* It keeps the invariant if it keeps what concerns the inspector itself.  *)
LEMMA ReadsKeep ==
  ASSUME IInv, NEW i \in Inspectors, Reads(i), Sound(i)'
  PROVE  IInv'
<1>1. TypeOK'
  BY DEF IInv, TypeOK, Reads, tables
<1>2. RowIsLastVersion' /\ TablesArePast' /\ FastPathSound'
  BY DEF IInv, RowIsLastVersion, TablesArePast, FastPathSound, Stamped, Reads, tables
<1>3. OneAtATime'
  BY DEF IInv, OneAtATime, Reads
<1>4. ASSUME NEW j \in Inspectors PROVE Sound(j)'
  <2>1. CASE j = i
    BY <2>1
  <2>2. CASE j # i
    BY <2>2 DEF IInv, Reads, tables, Sound, SelectedIsPast, Gathered, CopiedAtStamp,
       ReadsStand, WritesStand
  <2> QED
    BY <2>1, <2>2
<1> QED
  BY <1>1, <1>2, <1>3, <1>4 DEF IInv

LEMMA Phases ==
  /\ "list" \in Phase /\ "stat" \in Phase /\ "fast" \in Phase /\ "before" \in Phase
  /\ "copy" \in Phase /\ "after" \in Phase /\ "hash" \in Phase /\ "compare" \in Phase
  /\ "select" \in Phase /\ "write" \in Phase /\ "mark" \in Phase
  /\ "mark-write" \in Phase /\ "done" \in Phase /\ "failed" \in Phase
  BY DEF Phase

LEMMA IdleTyped == Idle \in Inspection
  BY DEF Idle, Inspection, Phase

LEMMA OverTyped ==
  ASSUME TypeOK, NEW i \in Inspectors, NEW how \in Phase
  PROVE  Over(i, how) \in Inspection
<1>1. insp[i].strict \in BOOLEAN /\ insp[i].quiet \in BOOLEAN
  BY DEF TypeOK, Inspection
<1> QED
  BY <1>1, IdleTyped DEF Over, Inspection

LEMMA OverFields ==
  ASSUME NEW i \in Inspectors, NEW how \in Phase
  PROVE  LET r == Over(i, how) IN
         /\ r.at = how /\ r.strict = insp[i].strict /\ r.quiet = insp[i].quiet
         /\ r.before = 0 /\ r.after = 0
  BY DEF Over, Idle

LEMMA BecomesReads ==
  ASSUME IInv, NEW i \in Inspectors, NEW r \in Inspection, Becomes(i, r),
         insp[i].at \notin Ended, UNCHANGED <<file, tables, counters>>,
         cache \subseteq cache', cache' \subseteq Content
  PROVE  Reads(i) /\ insp'[i] = r
  BY DEF IInv, TypeOK, Becomes, Reads, tables, counters

(* A failed inspection claims nothing, and a second attempt little.        *)
LEMMA OverKeeps ==
  ASSUME IInv, NEW i \in Inspectors, End(i, "failed"), insp[i].at \notin Ended,
         UNCHANGED <<file, tables, cache, counters>>
  PROVE  IInv'
<1>1. Over(i, "failed") \in Inspection
  BY OverTyped, Phases DEF IInv
<1>2. Reads(i) /\ insp'[i] = Over(i, "failed")
  BY <1>1, BecomesReads DEF End, IInv, TypeOK
<1>3. Sound(i)'
  BY <1>2 DEF Over, Idle, IInv, TypeOK, Reads, tables, Sound, SelectedIsPast, Gathered,
     CopiedAtStamp, ReadsStand, WritesStand, Ended
<1> QED
  BY <1>2, <1>3, ReadsKeep

LEMMA RetryKeeps ==
  ASSUME IInv, NEW i \in Inspectors, Retry(i), UNCHANGED <<file, tables, cache, counters>>,
         insp[i].at \in {"before", "copy", "after", "hash", "compare"}
  PROVE  IInv'
<1> DEFINE again == [insp[i] EXCEPT !.at = "before", !.attempt = 2]
<1>1. CASE insp[i].attempt = 1
  <2>1. again \in Inspection
    <3>1. insp[i] \in Inspection /\ "before" \in Phase /\ 2 \in 1..2
      BY Phases DEF IInv, TypeOK
    <3> QED
      BY <3>1 DEF Inspection
  <2>2. Reads(i) /\ insp'[i] = again
    BY <1>1, <2>1, BecomesReads DEF Retry, Ended, IInv, TypeOK
  <2>3. Sound(i)'
    BY <2>2 DEF IInv, TypeOK, Inspection, Reads, tables, Sound, SelectedIsPast, Gathered,
       CopiedAtStamp, ReadsStand, WritesStand, Ended
  <2> QED
    BY <2>2, <2>3, ReadsKeep
<1>2. CASE insp[i].attempt # 1
  BY <1>2, OverKeeps DEF Retry, Ended
<1> QED
  BY <1>1, <1>2

-----------------------------------------------------------------------------
(* The readings, one lemma for each.                                       *)
LEMMA ListKeeps ==
  ASSUME IInv, NEW i \in Inspectors, List(i)
  PROVE  IInv'
<1> DEFINE next == [insp[i] EXCEPT !.previous = row, !.at = IF insp[i].seen THEN "stat" ELSE "mark"]
<1>1. next \in Inspection
  <2>1. insp[i] \in Inspection /\ row \in Row \cup {None}
    BY DEF IInv, TypeOK
  <2>2. (IF insp[i].seen THEN "stat" ELSE "mark") \in Phase
    BY Phases
  <2> QED
    BY <2>1, <2>2 DEF Inspection
<1>2. Reads(i) /\ insp'[i] = next
  BY <1>1, BecomesReads DEF List, Ended, counters, tables, IInv, TypeOK
<1>3. Sound(i)'
  BY <1>1, <1>2 DEF List, IInv, TypeOK, Inspection, Reads, tables, Sound, SelectedIsPast,
       Gathered, CopiedAtStamp, ReadsStand, WritesStand, Ended
<1> QED
  BY <1>2, <1>3, ReadsKeep

LEMMA SelectKeeps ==
  ASSUME IInv, NEW i \in Inspectors, Select(i)
  PROVE  IInv'
<1> DEFINE next == [insp[i] EXCEPT !.at = "write", !.old = row]
<1>1. next \in Inspection
  <2>1. insp[i] \in Inspection /\ row \in Row \cup {None} /\ "write" \in Phase
    BY Phases DEF IInv, TypeOK
  <2> QED
    BY <2>1 DEF Inspection
<1>2. Reads(i) /\ insp'[i] = next
  BY <1>1, BecomesReads DEF Select, Ended, counters, tables, IInv, TypeOK
<1>3. row # None => row.version <= Len(versions)
  BY DEF RowIsLastVersion, TablesArePast, Row, IInv, TypeOK
<1>4. Sound(i)'
  BY <1>1, <1>2, <1>3 DEF Select, IInv, TypeOK, Inspection, Reads, tables, Sound, SelectedIsPast,
       Gathered, CopiedAtStamp, ReadsStand, WritesStand, Ended
<1> QED
  BY <1>2, <1>4, ReadsKeep

LEMMA BeforeKeeps ==
  ASSUME IInv, NEW i \in Inspectors, Before(i)
  PROVE  IInv'
<1>1. CASE file = None
  BY <1>1, RetryKeeps DEF Before, tables, counters
<1>2. CASE file # None
  <2> DEFINE next == [insp[i] EXCEPT !.at = "copy", !.before = file.mtime]
  <2>1. insp[i] \in Inspection /\ file \in Stat /\ "copy" \in Phase
    BY <1>2, Phases DEF IInv, TypeOK
  <2>2. file.mtime \in Nat
    BY <2>1 DEF Stat
  <2>3. next \in Inspection
    BY <2>1, <2>2 DEF Inspection
  <2>4. Reads(i) /\ insp'[i] = next
    BY <1>2, <2>2, <2>3, BecomesReads DEF Before, Ended, counters, tables, IInv, TypeOK
  <2>5. Sound(i)'
    BY <1>2, <2>2, <2>3, <2>4, NoneIsNew DEF Before, TablesArePast, IInv, TypeOK, Inspection, Reads, tables, Sound, SelectedIsPast,
       Gathered, CopiedAtStamp, ReadsStand, WritesStand, Ended
  <2> QED
    BY <2>4, <2>5, ReadsKeep
<1> QED
  BY <1>1, <1>2

LEMMA CopyKeeps ==
  ASSUME IInv, NEW i \in Inspectors, Copy(i)
  PROVE  IInv'
<1>1. CASE file = None
  BY <1>1, RetryKeeps DEF Copy, tables, counters
<1>2. CASE file # None
  <2> DEFINE next == [insp[i] EXCEPT !.at = "after", !.snapshot = file.content]
  <2>1. insp[i] \in Inspection /\ file \in Stat /\ "after" \in Phase
    BY <1>2, Phases DEF IInv, TypeOK
  <2>2. file.content \in Content
    BY <2>1 DEF Stat
  <2>3. next \in Inspection
    BY <2>1, <2>2 DEF Inspection
  <2>4. Reads(i) /\ insp'[i] = next
    BY <1>2, <2>2, <2>3, BecomesReads DEF Copy, Ended, counters, tables, IInv, TypeOK
  <2>5. Sound(i)'
    BY <1>2, <2>2, <2>3, <2>4, NoneIsNew DEF Copy, TablesArePast, IInv, TypeOK, Inspection, Reads, tables, Sound, SelectedIsPast,
       Gathered, CopiedAtStamp, ReadsStand, WritesStand, Ended
  <2> QED
    BY <2>4, <2>5, ReadsKeep
<1> QED
  BY <1>1, <1>2

LEMMA AfterKeeps ==
  ASSUME IInv, NEW i \in Inspectors, After(i)
  PROVE  IInv'
<1>1. CASE file = None
  BY <1>1, RetryKeeps DEF After, tables, counters
<1>2. CASE file # None
  <2> DEFINE next == [insp[i] EXCEPT !.at = "hash", !.after = file.mtime]
  <2>1. insp[i] \in Inspection /\ file \in Stat /\ "hash" \in Phase
    BY <1>2, Phases DEF IInv, TypeOK
  <2>2. file.mtime \in Nat
    BY <2>1 DEF Stat
  <2>3. next \in Inspection
    BY <2>1, <2>2 DEF Inspection
  <2>4. Reads(i) /\ insp'[i] = next
    BY <1>2, <2>2, <2>3, BecomesReads DEF After, Ended, counters, tables, IInv, TypeOK
  <2>5. Sound(i)'
    BY <1>2, <2>2, <2>3, <2>4, NoneIsNew DEF After, TablesArePast, IInv, TypeOK, Inspection, Reads, tables, Sound, SelectedIsPast,
       Gathered, CopiedAtStamp, ReadsStand, WritesStand, Ended
  <2> QED
    BY <2>4, <2>5, ReadsKeep
<1> QED
  BY <1>1, <1>2

LEMMA HashKeeps ==
  ASSUME IInv, NEW i \in Inspectors, Hash(i)
  PROVE  IInv'
<1>1. CASE file = None
  BY <1>1, RetryKeeps DEF Hash, tables, counters
<1>2. CASE file # None
  <2> DEFINE next == [insp[i] EXCEPT !.at = "compare", !.hash = file.content]
  <2>1. insp[i] \in Inspection /\ file \in Stat /\ "compare" \in Phase
    BY <1>2, Phases DEF IInv, TypeOK
  <2>2. file.content \in Content
    BY <2>1 DEF Stat
  <2>3. next \in Inspection
    BY <2>1, <2>2 DEF Inspection
  <2>4. Reads(i) /\ insp'[i] = next
    BY <1>2, <2>2, <2>3, BecomesReads DEF Hash, Ended, counters, tables, IInv, TypeOK
  <2>5. Sound(i)'
    BY <1>2, <2>2, <2>3, <2>4, NoneIsNew DEF Hash, TablesArePast, IInv, TypeOK, Inspection, Reads, tables, Sound, SelectedIsPast,
       Gathered, CopiedAtStamp, ReadsStand, WritesStand, Ended
  <2> QED
    BY <2>4, <2>5, ReadsKeep
<1> QED
  BY <1>1, <1>2

LEMMA CompareKeeps ==
  ASSUME IInv, NEW i \in Inspectors, Compare(i)
  PROVE  IInv'
<1>1. CASE ~(file # None /\ Stable(i))
  BY <1>1, RetryKeeps DEF Compare
<1>2. CASE file # None /\ Stable(i)
  <2> DEFINE next == [insp[i] EXCEPT !.at = "select", !.after = file.mtime]
  <2>1. insp[i] \in Inspection /\ file \in Stat /\ "select" \in Phase
    BY <1>2, Phases DEF IInv, TypeOK
  <2>2. file.mtime \in Nat
    BY <2>1 DEF Stat
  <2>3. next \in Inspection
    BY <2>1, <2>2 DEF Inspection
  <2>4. Reads(i) /\ insp'[i] = next
    BY <1>2, <2>3, BecomesReads DEF Compare, Ended, counters, tables, IInv, TypeOK
  <2>5. Sound(i)'
    BY <1>2, <2>2, <2>3, <2>4 DEF Compare, Stable, TablesArePast, IInv, TypeOK, Inspection, Reads, tables, Sound, SelectedIsPast,
       Gathered, CopiedAtStamp, ReadsStand, WritesStand, Ended
  <2> QED
    BY <2>4, <2>5, ReadsKeep
<1> QED
  BY <1>1, <1>2

LEMMA StatFileKeeps ==
  ASSUME IInv, NEW i \in Inspectors, StatFile(i)
  PROVE  IInv'
<1>1. CASE file = None
  BY <1>1, OverKeeps DEF StatFile, Ended
<1>2. CASE file # None
  <2> DEFINE next == [insp[i] EXCEPT !.at = IF Unchanged(i) THEN "fast" ELSE "before"]
  <2>1. insp[i] \in Inspection /\ (IF Unchanged(i) THEN "fast" ELSE "before") \in Phase
    BY Phases DEF IInv, TypeOK
  <2>2. next \in Inspection
    BY <2>1 DEF Inspection
  <2>3. Reads(i) /\ insp'[i] = next
    BY <1>2, <2>2, BecomesReads DEF StatFile, Goto, Ended, counters, tables, IInv, TypeOK
  <2>4. Sound(i)'
    BY <1>2, <2>2, <2>3 DEF StatFile, Unchanged, IInv, TypeOK, Inspection, Reads, tables, Sound, SelectedIsPast,
       Gathered, CopiedAtStamp, ReadsStand, WritesStand, Ended
  <2> QED
    BY <2>3, <2>4, ReadsKeep
<1> QED
  BY <1>1, <1>2

LEMMA FastKeeps ==
  ASSUME IInv, NEW i \in Inspectors, Fast(i)
  PROVE  IInv'
<1> DEFINE sha == insp[i].previous.sha
           next == [insp[i] EXCEPT !.at = "mark"]
<1>1. insp[i] \in Inspection /\ "mark" \in Phase /\ insp[i].previous \in Row
  BY Phases DEF Fast, IInv, TypeOK, Inspection, Sound, Gathered
<1>2. next \in Inspection /\ sha \in Content
  BY <1>1 DEF Inspection, Row
<1>3. CASE sha \in cache \/ (file # None /\ file.content = sha)
  <2>1. Reads(i) /\ insp'[i] = next
    BY <1>2, <1>3, BecomesReads DEF Fast, Goto, Ended, counters, tables, IInv, TypeOK
  <2>2. sha \in cache'
    BY <1>3 DEF Fast
  <2>3. Sound(i)'
    BY <1>1, <1>2, <2>1, <2>2 DEF Fast, FastPathSound, Stamped, IInv, TypeOK, Inspection, Reads, tables, Sound, SelectedIsPast,
       Gathered, CopiedAtStamp, ReadsStand, WritesStand, Ended
  <2> QED
    BY <2>1, <2>3, ReadsKeep
<1>4. CASE ~(sha \in cache \/ (file # None /\ file.content = sha))
  BY <1>4, OverKeeps DEF Fast, Ended, tables, counters
<1> QED
  BY <1>3, <1>4

LEMMA MarkSelectKeeps ==
  ASSUME IInv, NEW i \in Inspectors, MarkSelect(i)
  PROVE  IInv'
<1> DEFINE missing == ~insp[i].seen /\ row # None /\ ~row.stale
           next == IF missing THEN [insp[i] EXCEPT !.at = "mark-write"] ELSE Over(i, "done")
<1>1. insp[i] \in Inspection /\ "mark-write" \in Phase /\ "done" \in Phase
  BY Phases DEF IInv, TypeOK
<1>2. [insp[i] EXCEPT !.at = "mark-write"] \in Inspection /\ Over(i, "done") \in Inspection
  BY <1>1, OverTyped DEF Inspection, IInv
<1>3. Reads(i) /\ insp'[i] = next
  BY <1>2, BecomesReads DEF MarkSelect, Goto, End, Ended, counters, tables, IInv, TypeOK
<1>4. Sound(i)'
  BY <1>2, <1>3 DEF MarkSelect, Over, Idle, IInv, TypeOK, Inspection, Reads, tables, Sound, SelectedIsPast,
       Gathered, CopiedAtStamp, ReadsStand, WritesStand, Ended
<1> QED
  BY <1>3, <1>4, ReadsKeep

(* An IntegrityError, and a reading or a writing that fails.               *)
LEMMA WriteClashesKeeps ==
  ASSUME IInv, NEW i \in Inspectors, WriteClashes(i) \/ Stop(i)
  PROVE  IInv'
  BY OverKeeps DEF WriteClashes, Stop, Ended

-----------------------------------------------------------------------------
(* A write to the row disturbs every other inspection.                     *)
Writes(i) ==
  /\ UNCHANGED <<file, cache, saves, starts, lost, overlap>>
  /\ insp' \in [Inspectors -> Inspection]
  /\ \A j \in Inspectors \ {i} : insp'[j] = [insp[j] EXCEPT !.quiet = FALSE]
  /\ insp[i].at \notin Ended /\ insp'[i].at \in {"mark", "done"}
  /\ row # None => row' # None
  /\ versions' # versions => row' # None /\ Len(versions) <= Len(versions')

LEMMA WritesKeep ==
  ASSUME IInv, NEW i \in Inspectors, Writes(i), TypeOK', RowIsLastVersion', TablesArePast',
         FastPathSound', Sound(i)'
  PROVE  IInv'
<1>1. OneAtATime'
  <2>1. \A j \in Inspectors \ {i} : insp'[j].at = insp[j].at
    BY DEF IInv, TypeOK, Writes, Inspection
  <2> QED
    BY <2>1 DEF IInv, OneAtATime, Writes
<1>2. ASSUME NEW j \in Inspectors PROVE Sound(j)'
  <2>1. CASE j = i
    BY <2>1
  <2>2. CASE j # i
    <3>1. insp'[j] = [insp[j] EXCEPT !.quiet = FALSE] /\ insp[j] \in Inspection
      BY <2>2 DEF Writes, IInv, TypeOK
    <3>2. ~overlap => insp[j].at \in Ended
      BY <2>2 DEF Writes, IInv, OneAtATime
    <3>3. SelectedIsPast(j)'
      <4>1. insp[j].at = "write" /\ insp[j].old # None =>
              insp[j].old \in Row /\ row' # None /\ insp[j].old.version <= Len(versions')
        BY <3>1 DEF IInv, Sound, SelectedIsPast, Writes, TypeOK, Inspection, Row
      <4> QED
        BY <3>1, <4>1 DEF IInv, Sound, SelectedIsPast, Writes, Inspection
    <3>4. Gathered(j)' /\ CopiedAtStamp(j)'
      BY <3>1 DEF IInv, Sound, Gathered, CopiedAtStamp, Writes, Inspection
    <3> QED
      BY <3>1, <3>2, <3>3, <3>4 DEF Sound, Writes, Inspection, Ended
  <2> QED
    BY <2>1, <2>2
<1> QED
  BY <1>1, <1>2 DEF IInv

LEMMA DisturbWrites ==
  ASSUME IInv, NEW i \in Inspectors, NEW r \in Inspection, r.at \in {"mark", "done"},
         insp' = [j \in Inspectors |-> IF j = i THEN r ELSE [insp[j] EXCEPT !.quiet = FALSE]]
  PROVE  /\ insp' \in [Inspectors -> Inspection]
         /\ \A j \in Inspectors \ {i} : insp'[j] = [insp[j] EXCEPT !.quiet = FALSE]
         /\ insp'[i] = r
<1>1. \A j \in Inspectors : [insp[j] EXCEPT !.quiet = FALSE] \in Inspection
  BY DEF IInv, TypeOK, Inspection
<1> QED
  BY <1>1

LEMMA MarkWriteKeeps ==
  ASSUME IInv, NEW i \in Inspectors, MarkWrite(i)
  PROVE  IInv'
<1>1. row \in Row /\ row' = [row EXCEPT !.stale = TRUE] /\ row' \in Row
  BY DEF MarkWrite, IInv, Sound, SelectedIsPast, TypeOK, Row
<1>2. /\ insp' \in [Inspectors -> Inspection]
      /\ \A j \in Inspectors \ {i} : insp'[j] = [insp[j] EXCEPT !.quiet = FALSE]
      /\ insp'[i] = Over(i, "done")
  <2>1. Over(i, "done") \in Inspection
    BY OverTyped, Phases DEF IInv
  <2>2. Over(i, "done").at = "done"
    BY OverFields, Phases
  <2> QED
    BY <2>1, <2>2, DisturbWrites DEF MarkWrite
<1>a. /\ insp'[i].at = "done" /\ insp'[i].strict = insp[i].strict
      /\ insp'[i].quiet = insp[i].quiet /\ insp'[i].before = 0 /\ insp'[i].after = 0
  BY <1>2, OverFields, Phases
<1>b. UNCHANGED <<file, versions, chunks, cache, saves, starts, lost, overlap>>
  BY DEF MarkWrite, counters
<1>3. Writes(i)
  <2>1. insp[i].at \notin Ended /\ insp'[i].at \in {"mark", "done"}
    BY <1>a DEF MarkWrite, Ended
  <2> QED
    BY <1>1, <1>2, <1>b, <2>1, NoneIsNew DEF Writes
<1>4. TypeOK'
  BY <1>1, <1>2 DEF MarkWrite, IInv, TypeOK, counters
<1>5. RowIsLastVersion' /\ TablesArePast' /\ FastPathSound'
  BY <1>1, NoneIsNew DEF MarkWrite, IInv, RowIsLastVersion, TablesArePast, FastPathSound,
     Stamped, Row, counters
<1>6. row'.stale /\ (insp[i].quiet => file = None) /\ saves \in Nat
  BY <1>1, IndexBounds DEF MarkWrite, Row, IInv, Sound, Gathered, ReadsStand, Ended, TypeOK
<1>7. Sound(i)'
  BY <1>a, <1>6 DEF MarkWrite, counters, Sound,
     SelectedIsPast, Gathered, CopiedAtStamp, ReadsStand, WritesStand, Ended
<1> QED
  BY <1>3, <1>4, <1>5, <1>7, WritesKeep

(* The same version with a new time stamp.                                 *)
LEMMA WriteUnchangedKeeps ==
  ASSUME IInv, NEW i \in Inspectors, WriteUnchanged(i)
  PROVE  IInv'
<1> DEFINE next == [insp[i] EXCEPT !.at = "mark"]
<1>1. insp[i] \in Inspection /\ "mark" \in Phase
  BY Phases DEF IInv, TypeOK
<1>2. next \in Inspection /\ insp[i].after \in Nat
  BY <1>1 DEF Inspection
<1>3. row \in Row /\ row' = [row EXCEPT !.mtime = insp[i].after, !.stale = FALSE]
  BY DEF WriteUnchanged, IInv, Sound, SelectedIsPast, TypeOK
<1>4. row' \in Row
  BY <1>2, <1>3 DEF Row
<1>5. /\ insp' \in [Inspectors -> Inspection]
      /\ \A j \in Inspectors \ {i} : insp'[j] = [insp[j] EXCEPT !.quiet = FALSE]
      /\ insp'[i] = next
  BY <1>1, <1>2, DisturbWrites DEF WriteUnchanged, Disturb, Inspection
<1>6. Writes(i)
  BY <1>1, <1>4, <1>5, NoneIsNew DEF WriteUnchanged, Writes, Inspection, counters, Ended
<1>7. TypeOK'
  BY <1>4, <1>5 DEF WriteUnchanged, IInv, TypeOK, counters
<1>8. RowIsLastVersion' /\ TablesArePast'
  BY <1>3, <1>4, NoneIsNew DEF WriteUnchanged, IInv, RowIsLastVersion, TablesArePast, Row,
     Sound, SelectedIsPast, counters
<1>9. ~overlap \/ insp[i].quiet => row.sha = insp[i].snapshot
  BY DEF WriteUnchanged, IInv, Sound, ReadsStand
<1>10. FastPathSound'
  BY <1>3, <1>9 DEF WriteUnchanged, IInv, FastPathSound, Stamped, Row, Sound, CopiedAtStamp,
     counters
<1>11. Sound(i)'
  BY <1>1, <1>3, <1>4, <1>5, <1>9, NoneIsNew DEF WriteUnchanged, IInv, Inspection, Row, counters,
     Sound, SelectedIsPast, Gathered, CopiedAtStamp, ReadsStand, WritesStand, Ended
<1> QED
  BY <1>6, <1>7, <1>8, <1>10, <1>11, WritesKeep

(* A new version: its number is the next one, or it was taken.             *)
LEMMA WriteVersionKeeps ==
  ASSUME IInv, NEW i \in Inspectors, WriteVersion(i)
  PROVE  IInv'
<1> DEFINE next == [insp[i] EXCEPT !.at = "mark"]
<1>1. insp[i] \in Inspection /\ "mark" \in Phase
  BY Phases DEF IInv, TypeOK
<1>2. /\ next \in Inspection /\ insp[i].after \in Nat
      /\ insp[i].snapshot \in Content /\ insp[i].old \in Row \cup {None}
  BY <1>1 DEF Inspection, WriteVersion, IInv, Sound, Gathered
<1>3. versions \in Seq(Content) /\ Len(versions) \in Nat /\ DOMAIN versions = 1..Len(versions)
  BY DEF IInv, TypeOK
<1>4. NextVersion(i) = Len(versions) + 1
  <2>1. NextVersion(i) \notin 1..Len(versions)
    BY <1>3 DEF WriteVersion, VersionTaken
  <2>2. CASE insp[i].old = None
    BY <1>3, <2>1, <2>2 DEF NextVersion
  <2>3. CASE insp[i].old # None
    <3>1. insp[i].old.version \in Nat /\ insp[i].old.version <= Len(versions)
      BY <1>2, <2>3 DEF Row, WriteVersion, IInv, Sound, SelectedIsPast
    <3> QED
      BY <1>3, <2>1, <2>3, <3>1 DEF NextVersion
  <2> QED
    BY <2>2, <2>3
<1>5. /\ versions' \in Seq(Content) /\ Len(versions') = Len(versions) + 1
      /\ versions'[Len(versions) + 1] = insp[i].snapshot
  <2>1. versions' = [v \in 1..(Len(versions) + 1) |->
                      IF v = Len(versions) + 1 THEN insp[i].snapshot ELSE versions[v]]
    BY <1>3, <1>4 DEF WriteVersion
  <2>2. versions' = Append(versions, insp[i].snapshot)
    BY <1>2, <1>3, <2>1
  <2> QED
    BY <1>2, <1>3, <2>2
<1>6. /\ row' = [sha |-> insp[i].snapshot, mtime |-> insp[i].after,
                 version |-> Len(versions) + 1, stale |-> FALSE]
      /\ row' \in Row
  BY <1>2, <1>3, <1>4 DEF WriteVersion, Updated, Row
<1>7. /\ insp' \in [Inspectors -> Inspection]
      /\ \A j \in Inspectors \ {i} : insp'[j] = [insp[j] EXCEPT !.quiet = FALSE]
      /\ insp'[i] = next
  BY <1>1, <1>2, DisturbWrites DEF WriteVersion, Disturb, Inspection
<1>u. UNCHANGED <<file, cache, saves, starts, lost, overlap>>
  BY DEF WriteVersion, counters
<1>8. Writes(i)
  <2>1. insp[i].at \notin Ended /\ insp'[i].at \in {"mark", "done"}
    BY <1>1, <1>7 DEF WriteVersion, Ended, Inspection
  <2>2. row' # None
    BY <1>6, NoneIsNew
  <2>3. Len(versions) <= Len(versions')
    BY <1>3, <1>5
  <2>4. \A j \in Inspectors \ {i} : insp'[j] = [insp[j] EXCEPT !.quiet = FALSE]
    BY <1>7
  <2> QED
    BY <1>7, <1>u, <2>1, <2>2, <2>3, <2>4 DEF Writes
<1>9. TypeOK'
  BY <1>2, <1>5, <1>6, <1>7 DEF WriteVersion, IInv, TypeOK, counters
<1>10. RowIsLastVersion'
  BY <1>5, <1>6 DEF WriteVersion, RowIsLastVersion
<1>11. TablesArePast'
  <2>1. row' # None /\ row'.mtime <= saves
    BY <1>6, NoneIsNew DEF IInv, Sound, SelectedIsPast
  <2> QED
    BY <2>1 DEF WriteVersion, IInv, TablesArePast, counters
<1>12. FastPathSound'
  BY <1>6 DEF WriteVersion, IInv, FastPathSound, Stamped, Sound, CopiedAtStamp, counters
<1>13. Sound(i)'
  <2>1. /\ row' # None /\ ~row'.stale /\ row'.sha = insp[i].snapshot
        /\ file' = file /\ cache' = cache /\ saves' = saves /\ overlap' = overlap
    BY <1>6, <1>u, NoneIsNew
  <2>2. /\ insp'[i].at = "mark" /\ insp'[i].strict = insp[i].strict
        /\ insp'[i].quiet = insp[i].quiet /\ insp'[i].seen = insp[i].seen
        /\ insp'[i].before = insp[i].before /\ insp'[i].after = insp[i].after
    BY <1>1, <1>7 DEF Inspection
  <2>3. insp[i].at = "write" /\ Sound(i)
    BY DEF WriteVersion, IInv
  <2> QED
    BY <2>1, <2>2, <2>3 DEF Sound, SelectedIsPast, Gathered, CopiedAtStamp, ReadsStand,
       WritesStand, Ended
<1> QED
  BY <1>8, <1>9, <1>10, <1>11, <1>12, <1>13, WritesKeep

-----------------------------------------------------------------------------
(* The author, and the loss of a cache entry, disturb everybody.           *)
LEMMA UnquietFields ==
  ASSUME IInv
  PROVE  /\ Unquiet \in [Inspectors -> Inspection]
         /\ \A j \in Inspectors :
              /\ Unquiet[j].at = insp[j].at /\ Unquiet[j].old = insp[j].old
              /\ Unquiet[j].previous = insp[j].previous /\ Unquiet[j].seen = insp[j].seen
              /\ Unquiet[j].before = insp[j].before /\ Unquiet[j].after = insp[j].after
              /\ Unquiet[j].snapshot = insp[j].snapshot /\ ~Unquiet[j].quiet
              /\ Unquiet[j].strict = insp[j].strict
<1>1. \A j \in Inspectors : insp[j] \in Inspection /\ Unquiet[j] = [insp[j] EXCEPT !.quiet = FALSE]
  BY DEF Unquiet, IInv, TypeOK
<1>2. ASSUME NEW j \in Inspectors PROVE Unquiet[j] \in Inspection
  BY <1>1 DEF Inspection
<1>3. Unquiet \in [Inspectors -> Inspection]
  BY <1>2 DEF Unquiet
<1> QED
  BY <1>1, <1>3 DEF Inspection

LEMMA SaveKeeps == ASSUME IInv, NEW c \in Content, Save(c) PROVE IInv'
<1>1. /\ file' = [content |-> c, mtime |-> saves + 1] /\ saves' = saves + 1
      /\ saves \in Nat /\ insp' = Unquiet
      /\ UNCHANGED <<row, versions, chunks, cache, overlap, starts, lost>>
  BY IndexBounds DEF Save, tables, IInv, TypeOK
<1>2. TypeOK'
  BY <1>1, UnquietFields, IndexBounds DEF Save, IInv, TypeOK, Stat
<1>3. row # None => row.mtime \in Nat
  BY DEF IInv, TypeOK, Row
<1>4. \A i \in Inspectors : insp[i].before \in Nat /\ insp[i].after \in Nat
  BY DEF IInv, TypeOK, Inspection
<1>5. RowIsLastVersion' /\ TablesArePast' /\ FastPathSound'
  BY <1>1, <1>3 DEF IInv, RowIsLastVersion, TablesArePast, FastPathSound, Stamped
<1>6. OneAtATime'
  BY <1>1, UnquietFields DEF IInv, OneAtATime
<1>7. ASSUME NEW i \in Inspectors PROVE Sound(i)'
  BY <1>1, <1>4, UnquietFields DEF IInv, Sound, SelectedIsPast, Gathered, CopiedAtStamp
<1> QED
  BY <1>2, <1>5, <1>6, <1>7 DEF IInv

LEMMA DeleteKeeps == ASSUME IInv, Delete PROVE IInv'
<1>1. /\ file' = None /\ saves' = saves + 1 /\ saves \in Nat /\ insp' = Unquiet
      /\ UNCHANGED <<row, versions, chunks, cache, overlap, starts, lost>>
  BY IndexBounds DEF Delete, tables, IInv, TypeOK
<1>2. TypeOK'
  BY <1>1, UnquietFields, IndexBounds DEF Delete, IInv, TypeOK
<1>3. row # None => row.mtime \in Nat
  BY DEF IInv, TypeOK, Row
<1>4. \A i \in Inspectors : insp[i].before \in Nat /\ insp[i].after \in Nat
  BY DEF IInv, TypeOK, Inspection
<1>5. RowIsLastVersion' /\ TablesArePast' /\ FastPathSound'
  BY <1>1, <1>3 DEF IInv, RowIsLastVersion, TablesArePast, FastPathSound, Stamped
<1>6. OneAtATime'
  BY <1>1, UnquietFields DEF IInv, OneAtATime
<1>7. ASSUME NEW i \in Inspectors PROVE Sound(i)'
  BY <1>1, <1>4, UnquietFields DEF IInv, Sound, SelectedIsPast, Gathered, CopiedAtStamp
<1> QED
  BY <1>2, <1>5, <1>6, <1>7 DEF IInv

LEMMA LoseKeeps == ASSUME IInv, NEW c \in Content, Lose(c) PROVE IInv'
<1>1. /\ insp' = Unquiet /\ cache' \subseteq Content
      /\ UNCHANGED <<file, row, versions, chunks, overlap, saves, starts>>
  BY DEF Lose, tables, IInv, TypeOK
<1>2. TypeOK'
  BY <1>1, UnquietFields, IndexBounds DEF Lose, IInv, TypeOK
<1>3. RowIsLastVersion' /\ TablesArePast' /\ FastPathSound'
  BY <1>1 DEF IInv, RowIsLastVersion, TablesArePast, FastPathSound, Stamped
<1>4. OneAtATime'
  BY <1>1, UnquietFields DEF IInv, OneAtATime
<1>5. ASSUME NEW i \in Inspectors PROVE Sound(i)'
  BY <1>1, UnquietFields DEF IInv, Sound, SelectedIsPast, Gathered, CopiedAtStamp
<1> QED
  BY <1>2, <1>3, <1>4, <1>5 DEF IInv

(* An inspection begins: alone, or there has been an overlap.              *)
LEMMA DiscoverKeeps ==
  ASSUME IInv, NEW i \in Inspectors, NEW strict \in BOOLEAN, Discover(i, strict)
  PROVE  IInv'
<1> DEFINE next == [Idle EXCEPT !.at = "list", !.strict = strict,
                               !.seen = file # None, !.quiet = TRUE]
<1>1. next \in Inspection
  <2>1. "list" \in Phase /\ (file # None) \in BOOLEAN
    BY Phases
  <2> QED
    BY <2>1, IdleTyped DEF Inspection
<1>2. /\ insp' \in [Inspectors -> Inspection] /\ insp'[i] = next
      /\ \A j \in Inspectors \ {i} : insp'[j] = insp[j]
  BY <1>1 DEF Discover, Becomes, IInv, TypeOK
<1>3. /\ next.at = "list" /\ (next.seen <=> file # None)
      /\ next.before = 0 /\ next.after = 0
  BY DEF Idle
<1>a. /\ UNCHANGED <<file, row, versions, chunks, cache, saves, lost>>
      /\ starts' \in 0..MaxStarts /\ saves \in Nat
  BY IndexBounds DEF Discover, tables, IInv, TypeOK
<1>b. overlap' = (overlap \/ \E j \in Inspectors : insp[j].at \notin Ended)
  BY DEF Discover
<1>4. /\ overlap' \in BOOLEAN /\ (~overlap' => ~overlap)
      /\ ~overlap' => \A j \in Inspectors : insp[j].at \in Ended
  BY <1>b DEF IInv, TypeOK
<1>5. TypeOK'
  BY <1>2, <1>a, <1>4 DEF IInv, TypeOK
<1>6. RowIsLastVersion' /\ TablesArePast' /\ FastPathSound'
  BY <1>a, <1>4 DEF IInv, RowIsLastVersion, TablesArePast, FastPathSound, Stamped
<1>7. OneAtATime'
  BY <1>2, <1>a, <1>4 DEF OneAtATime
<1>8. Sound(i)'
  BY <1>2, <1>3, <1>a, <1>4 DEF Sound, SelectedIsPast, Gathered, CopiedAtStamp, ReadsStand,
     WritesStand, Ended
<1>9. ASSUME NEW j \in Inspectors \ {i} PROVE Sound(j)'
  BY <1>2, <1>a, <1>4 DEF IInv, Sound, SelectedIsPast, Gathered, CopiedAtStamp, ReadsStand,
     WritesStand
<1> QED
  BY <1>5, <1>6, <1>7, <1>8, <1>9 DEF IInv

-----------------------------------------------------------------------------
LEMMA InitIInv == Init => IInv
<1> SUFFICES ASSUME Init PROVE IInv
  OBVIOUS
<1>1. TypeOK
  <2>1. file \in Stat \cup {None}
    BY DEF Init, Stat
  <2>2. insp \in [Inspectors -> Inspection]
    BY IdleTyped DEF Init
  <2>3. /\ versions \in Seq(Content)
        /\ cache \subseteq Content
        /\ overlap \in BOOLEAN
    <3>1. versions = << >> /\ cache = {} /\ overlap = FALSE
      BY DEF Init
    <3>2. << >> \in Seq(Content)
      OBVIOUS
    <3> QED
      BY <3>1, <3>2
  <2>4. saves \in 0..MaxSaves /\ starts \in 0..MaxStarts /\ lost \in 0..MaxLost
    BY IndexBounds DEF Init
  <2> QED
    BY <2>1, <2>2, <2>3, <2>4 DEF Init, TypeOK
<1>2. \A i \in Inspectors : /\ insp[i].at = "idle" /\ ~insp[i].quiet
                           /\ insp[i].before = 0 /\ insp[i].after = 0
  BY DEF Init, Idle
<1>3. row = None /\ versions = << >> /\ saves = 0 /\ (file # None => file.mtime = 0)
  BY DEF Init
<1>4. RowIsLastVersion /\ TablesArePast /\ FastPathSound
  BY <1>3 DEF RowIsLastVersion, TablesArePast, FastPathSound, Stamped
<1>5. OneAtATime
  BY <1>2 DEF OneAtATime, Ended
<1>6. ASSUME NEW i \in Inspectors PROVE Sound(i)
  BY <1>2, <1>3 DEF Sound, SelectedIsPast, Gathered, CopiedAtStamp
<1> QED
  BY <1>1, <1>4, <1>5, <1>6 DEF IInv

LEMMA NextIInv == IInv /\ [Next]_vars => IInv'
<1> SUFFICES ASSUME IInv, [Next]_vars PROVE IInv'
  OBVIOUS
<1>1. ASSUME NEW i \in Inspectors, Step(i) PROVE IInv'
  BY <1>1, ListKeeps, StatFileKeeps, FastKeeps, BeforeKeeps, CopyKeeps, AfterKeeps,
     HashKeeps, CompareKeeps, SelectKeeps, WriteUnchangedKeeps, WriteVersionKeeps,
     WriteClashesKeeps, MarkSelectKeeps, MarkWriteKeeps DEF Step
<1>2. CASE UNCHANGED vars
  BY <1>2 DEF vars, IInv, TypeOK, RowIsLastVersion, TablesArePast, FastPathSound, Stamped,
     OneAtATime, Sound, SelectedIsPast, Gathered, CopiedAtStamp, ReadsStand, WritesStand
<1> QED
  BY <1>1, <1>2, DiscoverKeeps, SaveKeeps, DeleteKeeps, LoseKeeps DEF Next

(* The types of the variables.                                             *)
THEOREM IndexTypeCorrect == Spec => []TypeOK
<1>1. IInv => TypeOK
  BY DEF IInv
<1> QED
  BY <1>1, InitIInv, NextIInv, PTL DEF Spec

(* RowIsLastVersion: however many inspections overlap, the version numbers *)
(* of index_source keep the row, its last version and its chunks together. *)
THEOREM VersionsAreALock == Spec => []RowIsLastVersion
<1>1. IInv => RowIsLastVersion
  BY DEF IInv
<1> QED
  BY <1>1, InitIInv, NextIInv, PTL DEF Spec

(* InspectionDelivers: what an inspection leaves when nobody disturbed it. *)
THEOREM UndisturbedDelivers == Spec => []InspectionDelivers
<1>1. IInv => InspectionDelivers
  BY DEF IInv, InspectionDelivers, InspectedIsCurrent, SnapshotKept, ListedStale, Sound,
     WritesStand
<1> QED
  BY <1>1, InitIInv, NextIInv, PTL DEF Spec

(* FastPathSound: a time stamp stands for its content as long as no two    *)
(* inspections have overlapped.                                            *)
THEOREM StampsCanBeBelieved == Spec => []FastPathSound
<1>1. IInv => FastPathSound
  BY DEF IInv
<1> QED
  BY <1>1, InitIInv, NextIInv, PTL DEF Spec

==============================================================================
