---------------------------- MODULE ContentCache ----------------------------
(***************************************************************************)
(* The content-addressed cache of a project (src/cfdpaper/cache.py) and    *)
(* the process file lock it is built on (src/cfdpaper/locking.py).         *)
(*                                                                         *)
(* Threads of several host processes publish bytes (put_bytes) or a file   *)
(* (put_file) under the digest of their content, while the author edits    *)
(* that file, hosts are killed, and the disk may damage a stored entry.    *)
(* SHA-256 is taken to be injective, so a digest IS the content it names;  *)
(* a content is two blocks, the unit in which put_file reads its source.   *)
(***************************************************************************)
EXTENDS Naturals, FiniteSets

CONSTANTS
  Threads,    \* threads that call the cache, each making one call
  HostOf,     \* the process each thread runs in
  Block,      \* the values one block of a file can have
  Given,      \* contents a caller holds or expects, and the author saves
  MaxEdits,   \* bound on the author's edits of the source file
  MaxDamage,  \* bound on entries damaged from outside the program
  None        \* no thread, no file, no expected digest

ASSUME NoneIsNew == None \notin Threads /\ None \notin Block \X Block
ASSUME GivenAreDigests == Given \subseteq Block \X Block
ASSUME BoundsAreNat == MaxEdits \in Nat /\ MaxDamage \in Nat

Digest == Block \X Block
Host == {HostOf[t] : t \in Threads}

VARIABLES
  entry,      \* root/<d[:2]>/<d>: the bytes stored under each digest
  source,     \* the bytes of the file put_file copies
  temp,       \* the .tmp file of each thread's call
  litter,     \* threads killed while their .tmp file existed
  threadLock, \* _DIGEST_LOCKS: holder within each host
  fileLock,   \* the OS lock on .locks/<d[:2]>/<d>.lock
  call,       \* the call each thread is making
  edits, damage

vars == <<entry, source, temp, litter, threadLock, fileLock, call, edits, damage>>

(* The phases of a call, and what it is locked for: "bytes" and "store"    *)
(* publish under the lock, "probe" only looks for the expected entry.      *)
Phase == {"idle", "thread-wait", "file-wait", "check", "write", "replace",
          "unlock", "copy", "copy-rest", "done", "killed"}
Purpose == {"bytes", "probe", "store"}
Result == {"none", "ok", "integrity", "timeout", "failed"}
Locked == {"check", "write", "replace", "unlock"}

Call == [at : Phase, lockFor : Purpose, digest : Digest,
         expected : Digest \cup {None}, result : Result]

TypeOK ==
  /\ entry \in [Digest -> Digest \cup {None}]
  /\ source \in Digest
  /\ temp \in [Threads -> Digest \cup {None}]
  /\ litter \subseteq Threads
  /\ threadLock \in [Digest -> [Host -> Threads \cup {None}]]
  /\ fileLock \in [Digest -> Threads \cup {None}]
  /\ call \in [Threads -> Call]
  /\ edits \in 0..MaxEdits /\ damage \in 0..MaxDamage

(* Until a call starts its digest means nothing; any one will do.          *)
Init ==
  /\ entry = [d \in Digest |-> None]
  /\ source \in Given
  /\ temp = [t \in Threads |-> None]
  /\ litter = {}
  /\ threadLock = [d \in Digest |-> [h \in Host |-> None]]
  /\ fileLock = [d \in Digest |-> None]
  /\ call = [t \in Threads |->
               [at |-> "idle", lockFor |-> "bytes", digest |-> source,
                expected |-> None, result |-> "none"]]
  /\ edits = 0 /\ damage = 0

Goto(t, phase) == call' = [call EXCEPT ![t].at = phase]
Outcome(t, phase, result) ==
  call' = [call EXCEPT ![t].at = phase, ![t].result = result]
Lock(t, d, purpose) ==
  call' = [call EXCEPT ![t].at = "thread-wait", ![t].lockFor = purpose,
                       ![t].digest = d]

-----------------------------------------------------------------------------
(* Plausible faults, one for each property; no specification uses them.    *)

(* put_file hashes the source after copying it instead of the copied bytes. *)
CopyRestHashesSource(t) ==
  /\ call[t].at = "copy-rest"
  /\ IF call[t].expected \notin {None, source}
       THEN Outcome(t, "done", "integrity") /\ temp' = [temp EXCEPT ![t] = None]
       ELSE /\ Lock(t, source, "store")
            /\ temp' = [temp EXCEPT ![t] = <<temp[t][1], source[2]>>]
  /\ UNCHANGED <<entry, source, litter, threadLock, fileLock, edits, damage>>

(* put_file forgets to compare the copy with the expected digest.          *)
CopyRestUnchecked(t) ==
  LET copied == <<temp[t][1], source[2]>> IN
  /\ call[t].at = "copy-rest"
  /\ Lock(t, copied, "store")
  /\ temp' = [temp EXCEPT ![t] = copied]
  /\ UNCHANGED <<entry, source, litter, threadLock, fileLock, edits, damage>>

(* The OS lock is a shared one: it is taken while another descriptor has it. *)
TakeFileLockShared(t) ==
  /\ call[t].at = "file-wait"
  /\ fileLock' = [fileLock EXCEPT ![call[t].digest] = t]
  /\ Goto(t, "check")
  /\ UNCHANGED <<entry, source, temp, litter, threadLock, edits, damage>>

(* A time-out leaves the thread lock of the digest taken.                  *)
FileLockTimeoutKeepsLock(t) ==
  /\ call[t].at = "file-wait"
  /\ fileLock[call[t].digest] \notin {None, t}
  /\ temp' = [temp EXCEPT ![t] = None]
  /\ Outcome(t, "done", "timeout")
  /\ UNCHANGED <<entry, source, litter, threadLock, fileLock, edits, damage>>

(* A failed write leaves the locks of its digest taken.                    *)
StoreFailsKeepsLocks(t) ==
  /\ call[t].at \in {"write", "replace"}
  /\ temp' = [temp EXCEPT ![t] = None]
  /\ Outcome(t, "done", "failed")
  /\ UNCHANGED <<entry, source, litter, threadLock, fileLock, edits, damage>>

-----------------------------------------------------------------------------
(* put_bytes(content): everything happens under the lock of its digest.    *)
PutBytes(t, d) ==
  /\ call[t].at = "idle"
  /\ Lock(t, d, "bytes")
  /\ UNCHANGED <<entry, source, temp, litter, threadLock, fileLock, edits, damage>>

(* put_file(source, expected_hash=...): an expected digest is looked for   *)
(* under its lock first; without one the copy starts at once.              *)
PutFile(t, e) ==
  /\ call[t].at = "idle"
  /\ IF e = None
       THEN Goto(t, "copy")
       ELSE call' = [call EXCEPT ![t].at = "thread-wait", ![t].lockFor = "probe",
                                 ![t].digest = e, ![t].expected = e]
  /\ UNCHANGED <<entry, source, temp, litter, threadLock, fileLock, edits, damage>>

(* with _lock_for_digest(digest): blocks, without a time bound, on the     *)
(* other threads of the same process.                                      *)
TakeThreadLock(t) ==
  LET d == call[t].digest  h == HostOf[t] IN
  /\ call[t].at = "thread-wait"
  /\ threadLock[d][h] = None
  /\ threadLock' = [threadLock EXCEPT ![d][h] = t]
  /\ Goto(t, "file-wait")
  /\ UNCHANGED <<entry, source, temp, litter, fileLock, edits, damage>>

(* process_file_lock: polls a non-blocking OS lock until its deadline.     *)
TakeFileLock(t) ==
  LET d == call[t].digest IN
  /\ call[t].at = "file-wait"
  /\ fileLock[d] = None
  /\ fileLock' = [fileLock EXCEPT ![d] = t]
  /\ Goto(t, "check")
  /\ UNCHANGED <<entry, source, temp, litter, threadLock, edits, damage>>

(* The deadline passes while another descriptor holds the lock.  The call  *)
(* raises CacheLockTimeoutError; put_file's finally removes its staging.   *)
FileLockTimeout(t) ==
  LET d == call[t].digest IN
  /\ call[t].at = "file-wait"
  /\ fileLock[d] \notin {None, t}
  /\ threadLock' = [threadLock EXCEPT ![d][HostOf[t]] = None]
  /\ temp' = [temp EXCEPT ![t] = None]
  /\ Outcome(t, "done", "timeout")
  /\ UNCHANGED <<entry, source, litter, fileLock, edits, damage>>

(* Under the lock: an existing destination is verified and never written.  *)
Check(t) ==
  LET d == call[t].digest IN
  /\ call[t].at = "check"
  /\ \/ /\ entry[d] # None
        /\ Outcome(t, "unlock", IF entry[d] = d THEN "ok" ELSE "integrity")
     \/ /\ entry[d] = None
        /\ Goto(t, CASE call[t].lockFor = "bytes" -> "write"
                     [] call[t].lockFor = "store" -> "replace"
                     [] call[t].lockFor = "probe" -> "unlock")
  /\ UNCHANGED <<entry, source, temp, litter, threadLock, fileLock, edits, damage>>

(* put_bytes writes and syncs a uniquely named temporary; nothing is read  *)
(* from it before the rename, so its partial states are one "write" step.  *)
WriteTemp(t) ==
  /\ call[t].at = "write"
  /\ temp' = [temp EXCEPT ![t] = call[t].digest]
  /\ Goto(t, "replace")
  /\ UNCHANGED <<entry, source, litter, threadLock, fileLock, edits, damage>>

(* os.replace(temporary, destination).                                     *)
Replace(t) ==
  /\ call[t].at = "replace"
  /\ entry' = [entry EXCEPT ![call[t].digest] = temp[t]]
  /\ temp' = [temp EXCEPT ![t] = None]
  /\ Outcome(t, "unlock", "ok")
  /\ UNCHANGED <<source, litter, threadLock, fileLock, edits, damage>>

(* An OSError from the write or the rename: finally removes the temporary  *)
(* and the lock contexts are left.                                         *)
StoreFails(t) ==
  /\ call[t].at \in {"write", "replace"}
  /\ temp' = [temp EXCEPT ![t] = None]
  /\ Outcome(t, "unlock", "failed")
  /\ UNCHANGED <<entry, source, litter, threadLock, fileLock, edits, damage>>

(* The source cannot be read, or the staging file cannot be written.       *)
CopyFails(t) ==
  /\ call[t].at \in {"copy", "copy-rest"}
  /\ temp' = [temp EXCEPT ![t] = None]
  /\ Outcome(t, "done", "failed")
  /\ UNCHANGED <<entry, source, litter, threadLock, fileLock, edits, damage>>

(* Both locks are released, the OS lock by closing its descriptor.  A      *)
(* probe that found nothing goes on to copy; every other call ends here.   *)
Unlock(t) ==
  LET d == call[t].digest IN
  /\ call[t].at = "unlock"
  /\ threadLock' = [threadLock EXCEPT ![d][HostOf[t]] = None]
  /\ fileLock' = [fileLock EXCEPT ![d] = None]
  /\ Goto(t, IF call[t].lockFor = "probe" /\ call[t].result = "none"
               THEN "copy" ELSE "done")
  /\ temp' = [temp EXCEPT ![t] = None]
  /\ UNCHANGED <<entry, source, litter, edits, damage>>

(* put_file copies the source into a staging file block by block, while    *)
(* the author may be editing it: the copy can mix two versions.  Only the  *)
(* first block of temp[t] has been written after this step.                *)
CopyFirst(t) ==
  /\ call[t].at = "copy"
  /\ Goto(t, "copy-rest")
  /\ temp' = [temp EXCEPT ![t] = source]
  /\ UNCHANGED <<entry, source, litter, threadLock, fileLock, edits, damage>>

(* The digest is that of the bytes copied.  If it is not the expected one  *)
(* the copy is discarded; otherwise the digest's lock is asked for.        *)
CopyRest(t) ==
  LET copied == <<temp[t][1], source[2]>> IN
  /\ call[t].at = "copy-rest"
  /\ IF call[t].expected \notin {None, copied}
       THEN /\ Outcome(t, "done", "integrity")
            /\ temp' = [temp EXCEPT ![t] = None]
       ELSE /\ Lock(t, copied, "store")
            /\ temp' = [temp EXCEPT ![t] = copied]
  /\ UNCHANGED <<entry, source, litter, threadLock, fileLock, edits, damage>>

-----------------------------------------------------------------------------
(* A host is killed: the OS drops its locks, its .tmp files stay behind.   *)
Kill(h) ==
  LET dead == {t \in Threads : HostOf[t] = h} IN
  /\ \E t \in dead : call[t].at \notin {"idle", "done", "killed"}
  /\ call' = [t \in Threads |->
                IF t \in dead /\ call[t].at # "done"
                  THEN [call[t] EXCEPT !.at = "killed"] ELSE call[t]]
  /\ threadLock' = [d \in Digest |-> [threadLock[d] EXCEPT ![h] = None]]
  /\ fileLock' = [d \in Digest |-> IF fileLock[d] \in dead THEN None ELSE fileLock[d]]
  /\ litter' = litter \cup {t \in dead : temp[t] # None}
  /\ UNCHANGED <<entry, source, temp, edits, damage>>

(* The author saves another version of the source file.                    *)
Edit(d) ==
  /\ edits < MaxEdits /\ d # source
  /\ source' = d /\ edits' = edits + 1
  /\ UNCHANGED <<entry, temp, litter, threadLock, fileLock, call, damage>>

(* Something outside the program overwrites or deletes a stored entry.     *)
Damage(d, v) ==
  /\ damage < MaxDamage /\ entry[d] # None /\ v # entry[d]
  /\ entry' = [entry EXCEPT ![d] = v] /\ damage' = damage + 1
  /\ UNCHANGED <<source, temp, litter, threadLock, fileLock, call, edits>>

Step(t) ==
  \/ TakeThreadLock(t) \/ TakeFileLock(t) \/ FileLockTimeout(t) \/ Check(t)
  \/ WriteTemp(t) \/ Replace(t) \/ StoreFails(t) \/ Unlock(t)
  \/ CopyFirst(t) \/ CopyRest(t) \/ CopyFails(t)

Next ==
  \/ \E t \in Threads, d \in Given : PutBytes(t, d)
  \/ \E t \in Threads, e \in Given \cup {None} : PutFile(t, e)
  \/ \E t \in Threads : Step(t)
  \/ \E h \in Host : Kill(h)
  \/ \E d \in Given : Edit(d)
  \/ \E d \in Digest, v \in Digest \cup {None} : Damage(d, v)

Spec == Init /\ [][Next]_vars

(* A started call keeps running (the interpreter schedules every thread);  *)
(* nothing makes a thread start one, an author edit or a host die.         *)
FairSpec == Spec /\ \A t \in Threads : WF_vars(Step(t))

-----------------------------------------------------------------------------
(* Whatever the author did to the source while put_file read it, an entry  *)
(* holds the bytes its name is the digest of (put_file hashes the bytes it *)
(* wrote, not the file it read them from).                                 *)
StoredBytesMatch == damage = 0 => \A d \in Digest : entry[d] \in {None, d}

(* A call that returned a path: the entry is there with the bytes of its   *)
(* name, and it is the expected one whenever the caller named one.         *)
OkMeansStored ==
  \A t \in Threads : call[t].result = "ok" =>
    /\ call[t].expected \in {None, call[t].digest}
    /\ damage = 0 => entry[call[t].digest] = call[t].digest

(* Only a thread that is still working under a lock holds it: every way    *)
(* out of a call (return, error, time-out, kill) gives both locks back.    *)
NoOrphanLock ==
  \A d \in Digest :
    /\ \A h \in Host : threadLock[d][h] # None =>
         /\ call[threadLock[d][h]].at \in Locked \cup {"file-wait"}
         /\ call[threadLock[d][h]].digest = d
    /\ fileLock[d] # None =>
         call[fileLock[d]].at \in Locked /\ call[fileLock[d]].digest = d

(* Only a kill leaves a temporary file behind; no code removes it later.   *)
OnlyKillsLitter ==
  \A t \in Threads : call[t].at \in {"idle", "done"} => temp[t] = None

(* No rename ever lands on an existing entry: the lookup and the rename of *)
(* one call are never separated by another call's rename to that digest,   *)
(* in the same process or in another one.                                  *)
RenameOntoNothing ==
  \A t \in Threads : call[t].at = "replace" => entry[call[t].digest] = None

(* Every call that starts ends, by returning, raising or being killed.     *)
EveryCallEnds ==
  \A t \in Threads : call[t].at # "idle" ~> call[t].at \in {"done", "killed"}
=============================================================================
