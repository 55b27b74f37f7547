-------------------------- MODULE ContentCacheProofs --------------------------
(***************************************************************************)
(* Proofs about ContentCache for every set of threads, assignment of       *)
(* threads to hosts, set of blocks and bound.                              *)
(***************************************************************************)
EXTENDS ContentCache, TLAPS

(* A thread past the thread lock (past the file lock) of its digest is the *)
(* one that lock names.                                                    *)
HoldsItsLocks ==
  \A t \in Threads :
    /\ call[t].at \in Locked \cup {"file-wait"} =>
         threadLock[call[t].digest][HostOf[t]] = t
    /\ call[t].at \in Locked => fileLock[call[t].digest] = t

(* Bytes waiting to be published under a digest are the bytes it names.    *)
StagedBytesMatch ==
  \A t \in Threads :
    /\ call[t].at = "copy-rest" => temp[t] \in Digest
    /\ call[t].at \in {"thread-wait", "file-wait", "check"} /\ call[t].lockFor = "store"
         => temp[t] = call[t].digest
    /\ call[t].at = "replace" => temp[t] = call[t].digest

(* A call has no result before it leaves its lock, and while it asks for a *)
(* lock or holds one that lock is for the digest its caller expects.       *)
AsksForTheExpected ==
  \A t \in Threads :
    /\ call[t].result # "none" => call[t].at \in {"unlock", "done", "killed"}
    /\ call[t].at = "idle" => call[t].expected = None
    /\ call[t].at \in Locked \cup {"thread-wait", "file-wait"} =>
         call[t].expected \in {None, call[t].digest}

(* NoOrphanLock and the host of a thread lock's owner, owner by owner.      *)
OwnersWork ==
  \A u \in Threads, d \in Digest :
    /\ \A h \in Host : threadLock[d][h] = u =>
         /\ call[u].at \in Locked \cup {"file-wait"}
         /\ call[u].digest = d /\ HostOf[u] = h
    /\ fileLock[d] = u => call[u].at \in Locked /\ call[u].digest = d

(* The entry is still absent from the moment its absence was seen.         *)
AbsentUntilRenamed ==
  \A t \in Threads : call[t].at \in {"write", "replace"} => entry[call[t].digest] = None

IInv ==
  /\ TypeOK
  /\ HoldsItsLocks
  /\ StagedBytesMatch
  /\ AsksForTheExpected
  /\ OwnersWork
  /\ OnlyKillsLitter
  /\ AbsentUntilRenamed
  /\ StoredBytesMatch
  /\ OkMeansStored

-----------------------------------------------------------------------------
(* What the three ways of moving a call on leave in it.                    *)
Moved(t, phase, purpose, d, result) ==
  /\ call' \in [Threads -> Call]
  /\ \A u \in Threads \ {t} : call'[u] = call[u]
  /\ call'[t].at = phase /\ call'[t].lockFor = purpose /\ call'[t].digest = d
  /\ call'[t].expected = call[t].expected /\ call'[t].result = result

LEMMA GotoMoves ==
  ASSUME TypeOK, NEW t \in Threads, NEW phase \in Phase, Goto(t, phase)
  PROVE  Moved(t, phase, call[t].lockFor, call[t].digest, call[t].result)
  BY DEF Goto, Moved, TypeOK, Call

LEMMA OutcomeMoves ==
  ASSUME TypeOK, NEW t \in Threads, NEW phase \in Phase, NEW r \in Result,
         Outcome(t, phase, r)
  PROVE  Moved(t, phase, call[t].lockFor, call[t].digest, r)
  BY DEF Outcome, Moved, TypeOK, Call

LEMMA LockMoves ==
  ASSUME TypeOK, NEW t \in Threads, NEW d \in Digest, NEW p \in Purpose,
         Lock(t, d, p)
  PROVE  Moved(t, "thread-wait", p, d, call[t].result)
  BY DEF Lock, Moved, TypeOK, Call, Phase

LEMMA InitIInv == Init => IInv
<1> SUFFICES ASSUME Init PROVE IInv
  OBVIOUS
<1> USE DEF Init
<1>1. source \in Digest
  BY GivenAreDigests DEF Digest
<1>2. call \in [Threads -> Call]
  BY <1>1 DEF Call, Phase, Purpose, Result
<1>3. TypeOK
  BY <1>1, <1>2, BoundsAreNat DEF TypeOK
<1>4. \A t \in Threads : call[t].at = "idle" /\ call[t].result = "none"
  OBVIOUS
<1> QED
  BY <1>1, <1>2, <1>3, <1>4, NoneIsNew DEF IInv, Locked, HoldsItsLocks,
     StagedBytesMatch, AsksForTheExpected, OwnersWork, OnlyKillsLitter,
     AbsentUntilRenamed, StoredBytesMatch, OkMeansStored

LEMMA StepIInv == ASSUME IInv, NEW t \in Threads, Step(t) PROVE IInv'
<1> TypeOK
  BY DEF IInv
<1> DEFINE d == call[t].digest
<1>0. /\ d \in Digest /\ HostOf[t] \in Host /\ call[t].lockFor \in Purpose
      /\ call[t].expected \in Digest \cup {None} /\ call[t].result \in Result
      /\ \A u \in Threads : call[u].digest \in Digest /\ HostOf[u] \in Host
  BY DEF TypeOK, Call, Host
<1>1. CASE TakeThreadLock(t)
  <2>1. Moved(t, "file-wait", call[t].lockFor, call[t].digest, call[t].result)
    BY <1>1, GotoMoves DEF TakeThreadLock, Phase
  <2>2. TypeOK'
    BY <1>0, <1>1, <2>1 DEF TakeThreadLock, TypeOK, Moved
  <2>3. HoldsItsLocks'
    BY <1>0, <1>1, <2>1, NoneIsNew DEF TakeThreadLock, IInv, TypeOK, Moved,
       Locked, HoldsItsLocks
  <2>4. StagedBytesMatch'
    BY <1>0, <1>1, <2>1, NoneIsNew DEF TakeThreadLock, IInv, TypeOK, Moved,
       Locked, StagedBytesMatch
  <2>5. AsksForTheExpected'
    BY <1>0, <1>1, <2>1, NoneIsNew DEF TakeThreadLock, IInv, TypeOK, Moved,
       Locked, AsksForTheExpected
  <2>6. OwnersWork'
    BY <1>0, <1>1, <2>1, NoneIsNew DEF TakeThreadLock, IInv, TypeOK, Moved,
       Locked, OwnersWork, HoldsItsLocks
  <2>7. OnlyKillsLitter'
    BY <1>0, <1>1, <2>1, NoneIsNew DEF TakeThreadLock, IInv, TypeOK, Moved,
       Locked, OnlyKillsLitter
  <2>8. AbsentUntilRenamed'
    BY <1>0, <1>1, <2>1, NoneIsNew DEF TakeThreadLock, IInv, TypeOK, Moved,
       Locked, AbsentUntilRenamed, HoldsItsLocks
  <2>9. StoredBytesMatch'
    BY <1>0, <1>1, <2>1, NoneIsNew DEF TakeThreadLock, IInv, TypeOK, Moved,
       Locked, StoredBytesMatch, StagedBytesMatch
  <2>10. OkMeansStored'
    BY <1>0, <1>1, <2>1, NoneIsNew DEF TakeThreadLock, IInv, TypeOK, Moved,
       Locked, OkMeansStored, AbsentUntilRenamed, StagedBytesMatch,
       AsksForTheExpected
  <2> QED
    BY <2>2, <2>3, <2>4, <2>5, <2>6, <2>7, <2>8, <2>9, <2>10 DEF IInv
<1>2. CASE TakeFileLock(t)
  <2>1. Moved(t, "check", call[t].lockFor, call[t].digest, call[t].result)
    BY <1>2, GotoMoves DEF TakeFileLock, Phase
  <2>2. TypeOK'
    BY <1>0, <1>2, <2>1 DEF TakeFileLock, TypeOK, Moved
  <2>3. HoldsItsLocks'
    BY <1>0, <1>2, <2>1, NoneIsNew DEF TakeFileLock, IInv, TypeOK, Moved, Locked,
       HoldsItsLocks
  <2>4. StagedBytesMatch'
    BY <1>0, <1>2, <2>1, NoneIsNew DEF TakeFileLock, IInv, TypeOK, Moved, Locked,
       StagedBytesMatch
  <2>5. AsksForTheExpected'
    BY <1>0, <1>2, <2>1, NoneIsNew DEF TakeFileLock, IInv, TypeOK, Moved, Locked,
       AsksForTheExpected
  <2>6. OwnersWork'
    BY <1>0, <1>2, <2>1, NoneIsNew DEF TakeFileLock, IInv, TypeOK, Moved, Locked,
       OwnersWork, HoldsItsLocks
  <2>7. OnlyKillsLitter'
    BY <1>0, <1>2, <2>1, NoneIsNew DEF TakeFileLock, IInv, TypeOK, Moved, Locked,
       OnlyKillsLitter
  <2>8. AbsentUntilRenamed'
    BY <1>0, <1>2, <2>1, NoneIsNew DEF TakeFileLock, IInv, TypeOK, Moved, Locked,
       AbsentUntilRenamed, HoldsItsLocks
  <2>9. StoredBytesMatch'
    BY <1>0, <1>2, <2>1, NoneIsNew DEF TakeFileLock, IInv, TypeOK, Moved, Locked,
       StoredBytesMatch, StagedBytesMatch
  <2>10. OkMeansStored'
    BY <1>0, <1>2, <2>1, NoneIsNew DEF TakeFileLock, IInv, TypeOK, Moved, Locked,
       OkMeansStored, AbsentUntilRenamed, StagedBytesMatch, AsksForTheExpected
  <2> QED
    BY <2>2, <2>3, <2>4, <2>5, <2>6, <2>7, <2>8, <2>9, <2>10 DEF IInv
<1>3. CASE FileLockTimeout(t)
  <2>1. Moved(t, "done", call[t].lockFor, call[t].digest, "timeout")
    BY <1>3, OutcomeMoves DEF FileLockTimeout, Phase, Result
  <2>2. TypeOK'
    BY <1>0, <1>3, <2>1 DEF FileLockTimeout, TypeOK, Moved
  <2>3. HoldsItsLocks'
    BY <1>0, <1>3, <2>1, NoneIsNew DEF FileLockTimeout, IInv, TypeOK, Moved,
       Locked, HoldsItsLocks
  <2>4. StagedBytesMatch'
    BY <1>0, <1>3, <2>1, NoneIsNew DEF FileLockTimeout, IInv, TypeOK, Moved,
       Locked, StagedBytesMatch
  <2>5. AsksForTheExpected'
    BY <1>0, <1>3, <2>1, NoneIsNew DEF FileLockTimeout, IInv, TypeOK, Moved,
       Locked, AsksForTheExpected
  <2>6. OwnersWork'
    BY <1>0, <1>3, <2>1, NoneIsNew DEF FileLockTimeout, IInv, TypeOK, Moved,
       Locked, OwnersWork, HoldsItsLocks
  <2>7. OnlyKillsLitter'
    BY <1>0, <1>3, <2>1, NoneIsNew DEF FileLockTimeout, IInv, TypeOK, Moved,
       Locked, OnlyKillsLitter
  <2>8. AbsentUntilRenamed'
    BY <1>0, <1>3, <2>1, NoneIsNew DEF FileLockTimeout, IInv, TypeOK, Moved,
       Locked, AbsentUntilRenamed, HoldsItsLocks
  <2>9. StoredBytesMatch'
    BY <1>0, <1>3, <2>1, NoneIsNew DEF FileLockTimeout, IInv, TypeOK, Moved,
       Locked, StoredBytesMatch, StagedBytesMatch
  <2>10. OkMeansStored'
    BY <1>0, <1>3, <2>1, NoneIsNew DEF FileLockTimeout, IInv, TypeOK, Moved,
       Locked, OkMeansStored, AbsentUntilRenamed, StagedBytesMatch,
       AsksForTheExpected
  <2> QED
    BY <2>2, <2>3, <2>4, <2>5, <2>6, <2>7, <2>8, <2>9, <2>10 DEF IInv
<1>4. CASE Check(t)
  <2>1. PICK p \in {"write", "replace", "unlock"}, r \in Result :
          /\ Moved(t, p, call[t].lockFor, d, r)
          /\ r = "ok" => entry[d] = d
          /\ p # "unlock" => entry[d] = None /\ r = call[t].result
          /\ p = "replace" => call[t].lockFor = "store"
    <3>1. CASE entry[d] # None
      <4> DEFINE r == IF entry[d] = d THEN "ok" ELSE "integrity"
      <4>1. Outcome(t, "unlock", r)
        BY <1>4, <3>1 DEF Check
      <4>2. r \in Result /\ (r = "ok" => entry[d] = d)
        BY DEF Result
      <4> HIDE DEF r
      <4> QED
        BY <3>1, <4>1, <4>2, OutcomeMoves DEF Phase
    <3>2. CASE entry[d] = None
      <4>0. call[t].result = "none"
        BY <1>4 DEF Check, IInv, AsksForTheExpected
      <4>1. CASE call[t].lockFor = "bytes"
        <5>1. Goto(t, "write")
          BY <1>4, <3>2, <4>1 DEF Check
        <5> QED
          BY <1>0, <3>2, <4>0, <4>1, <5>1, GotoMoves, NoneIsNew DEF Phase
      <4>2. CASE call[t].lockFor = "store"
        <5>1. Goto(t, "replace")
          BY <1>4, <3>2, <4>2 DEF Check
        <5> QED
          BY <1>0, <3>2, <4>0, <4>2, <5>1, GotoMoves, NoneIsNew DEF Phase
      <4>3. CASE call[t].lockFor = "probe"
        <5>1. Goto(t, "unlock")
          BY <1>4, <3>2, <4>3 DEF Check
        <5> QED
          BY <1>0, <3>2, <4>0, <4>3, <5>1, GotoMoves, NoneIsNew DEF Phase
      <4> QED
        BY <1>0, <4>1, <4>2, <4>3 DEF Purpose
    <3> QED
      BY <3>1, <3>2
  <2>2. TypeOK'
    BY <1>0, <1>4, <2>1 DEF Check, TypeOK, Moved
  <2>3. HoldsItsLocks'
    BY <1>0, <1>4, <2>1, NoneIsNew DEF Check, IInv, TypeOK, Moved, Locked, HoldsItsLocks
  <2>4. StagedBytesMatch'
    BY <1>0, <1>4, <2>1, NoneIsNew DEF Check, IInv, TypeOK, Moved, Locked,
       StagedBytesMatch
  <2>5. AsksForTheExpected'
    BY <1>0, <1>4, <2>1, NoneIsNew DEF Check, IInv, TypeOK, Moved, Locked,
       AsksForTheExpected
  <2>6. OwnersWork'
    BY <1>0, <1>4, <2>1, NoneIsNew DEF Check, IInv, TypeOK, Moved, Locked,
       OwnersWork, HoldsItsLocks
  <2>7. OnlyKillsLitter'
    BY <1>0, <1>4, <2>1, NoneIsNew DEF Check, IInv, TypeOK, Moved, Locked,
       OnlyKillsLitter
  <2>8. AbsentUntilRenamed'
    BY <1>0, <1>4, <2>1, NoneIsNew DEF Check, IInv, TypeOK, Moved, Locked,
       AbsentUntilRenamed, HoldsItsLocks
  <2>9. StoredBytesMatch'
    BY <1>0, <1>4, <2>1, NoneIsNew DEF Check, IInv, TypeOK, Moved, Locked,
       StoredBytesMatch, StagedBytesMatch
  <2>10. OkMeansStored'
    BY <1>0, <1>4, <2>1, NoneIsNew DEF Check, IInv, TypeOK, Moved, Locked,
       OkMeansStored, AbsentUntilRenamed, StagedBytesMatch, AsksForTheExpected
  <2> QED
    BY <2>2, <2>3, <2>4, <2>5, <2>6, <2>7, <2>8, <2>9, <2>10 DEF IInv
<1>5. CASE WriteTemp(t)
  <2>1. Moved(t, "replace", call[t].lockFor, call[t].digest, call[t].result)
    BY <1>5, GotoMoves DEF WriteTemp, Phase
  <2>2. TypeOK'
    BY <1>0, <1>5, <2>1 DEF WriteTemp, TypeOK, Moved
  <2>3. HoldsItsLocks'
    BY <1>0, <1>5, <2>1, NoneIsNew DEF WriteTemp, IInv, TypeOK, Moved, Locked,
       HoldsItsLocks
  <2>4. StagedBytesMatch'
    BY <1>0, <1>5, <2>1, NoneIsNew DEF WriteTemp, IInv, TypeOK, Moved, Locked,
       StagedBytesMatch
  <2>5. AsksForTheExpected'
    BY <1>0, <1>5, <2>1, NoneIsNew DEF WriteTemp, IInv, TypeOK, Moved, Locked,
       AsksForTheExpected
  <2>6. OwnersWork'
    BY <1>0, <1>5, <2>1, NoneIsNew DEF WriteTemp, IInv, TypeOK, Moved, Locked,
       OwnersWork, HoldsItsLocks
  <2>7. OnlyKillsLitter'
    BY <1>0, <1>5, <2>1, NoneIsNew DEF WriteTemp, IInv, TypeOK, Moved, Locked,
       OnlyKillsLitter
  <2>8. AbsentUntilRenamed'
    BY <1>0, <1>5, <2>1, NoneIsNew DEF WriteTemp, IInv, TypeOK, Moved, Locked,
       AbsentUntilRenamed, HoldsItsLocks
  <2>9. StoredBytesMatch'
    BY <1>0, <1>5, <2>1, NoneIsNew DEF WriteTemp, IInv, TypeOK, Moved, Locked,
       StoredBytesMatch, StagedBytesMatch
  <2>10. OkMeansStored'
    BY <1>0, <1>5, <2>1, NoneIsNew DEF WriteTemp, IInv, TypeOK, Moved, Locked,
       OkMeansStored, AbsentUntilRenamed, StagedBytesMatch, AsksForTheExpected
  <2> QED
    BY <2>2, <2>3, <2>4, <2>5, <2>6, <2>7, <2>8, <2>9, <2>10 DEF IInv
<1>6. CASE Replace(t)
  <2>1. Moved(t, "unlock", call[t].lockFor, call[t].digest, "ok")
    BY <1>6, OutcomeMoves DEF Replace, Phase, Result
  <2>2. TypeOK'
    BY <1>0, <1>6, <2>1 DEF Replace, TypeOK, Moved
  <2>3. HoldsItsLocks'
    BY <1>0, <1>6, <2>1, NoneIsNew DEF Replace, IInv, TypeOK, Moved, Locked,
       HoldsItsLocks
  <2>4. StagedBytesMatch'
    BY <1>0, <1>6, <2>1, NoneIsNew DEF Replace, IInv, TypeOK, Moved, Locked,
       StagedBytesMatch
  <2>5. AsksForTheExpected'
    BY <1>0, <1>6, <2>1, NoneIsNew DEF Replace, IInv, TypeOK, Moved, Locked,
       AsksForTheExpected
  <2>6. OwnersWork'
    BY <1>0, <1>6, <2>1, NoneIsNew DEF Replace, IInv, TypeOK, Moved, Locked,
       OwnersWork, HoldsItsLocks
  <2>7. OnlyKillsLitter'
    BY <1>0, <1>6, <2>1, NoneIsNew DEF Replace, IInv, TypeOK, Moved, Locked,
       OnlyKillsLitter
  <2>8. AbsentUntilRenamed'
    BY <1>0, <1>6, <2>1, NoneIsNew DEF Replace, IInv, TypeOK, Moved, Locked,
       AbsentUntilRenamed, HoldsItsLocks
  <2>9. StoredBytesMatch'
    BY <1>0, <1>6, <2>1, NoneIsNew DEF Replace, IInv, TypeOK, Moved, Locked,
       StoredBytesMatch, StagedBytesMatch
  <2>10. OkMeansStored'
    BY <1>0, <1>6, <2>1, NoneIsNew DEF Replace, IInv, TypeOK, Moved, Locked,
       OkMeansStored, AbsentUntilRenamed, StagedBytesMatch, AsksForTheExpected
  <2> QED
    BY <2>2, <2>3, <2>4, <2>5, <2>6, <2>7, <2>8, <2>9, <2>10 DEF IInv
<1>7. CASE StoreFails(t)
  <2>1. Moved(t, "unlock", call[t].lockFor, call[t].digest, "failed")
    BY <1>7, OutcomeMoves DEF StoreFails, Phase, Result
  <2>2. TypeOK'
    BY <1>0, <1>7, <2>1 DEF StoreFails, TypeOK, Moved
  <2>3. HoldsItsLocks'
    BY <1>0, <1>7, <2>1, NoneIsNew DEF StoreFails, IInv, TypeOK, Moved, Locked,
       HoldsItsLocks
  <2>4. StagedBytesMatch'
    BY <1>0, <1>7, <2>1, NoneIsNew DEF StoreFails, IInv, TypeOK, Moved, Locked,
       StagedBytesMatch
  <2>5. AsksForTheExpected'
    BY <1>0, <1>7, <2>1, NoneIsNew DEF StoreFails, IInv, TypeOK, Moved, Locked,
       AsksForTheExpected
  <2>6. OwnersWork'
    BY <1>0, <1>7, <2>1, NoneIsNew DEF StoreFails, IInv, TypeOK, Moved, Locked,
       OwnersWork, HoldsItsLocks
  <2>7. OnlyKillsLitter'
    BY <1>0, <1>7, <2>1, NoneIsNew DEF StoreFails, IInv, TypeOK, Moved, Locked,
       OnlyKillsLitter
  <2>8. AbsentUntilRenamed'
    BY <1>0, <1>7, <2>1, NoneIsNew DEF StoreFails, IInv, TypeOK, Moved, Locked,
       AbsentUntilRenamed, HoldsItsLocks
  <2>9. StoredBytesMatch'
    BY <1>0, <1>7, <2>1, NoneIsNew DEF StoreFails, IInv, TypeOK, Moved, Locked,
       StoredBytesMatch, StagedBytesMatch
  <2>10. OkMeansStored'
    BY <1>0, <1>7, <2>1, NoneIsNew DEF StoreFails, IInv, TypeOK, Moved, Locked,
       OkMeansStored, AbsentUntilRenamed, StagedBytesMatch, AsksForTheExpected
  <2> QED
    BY <2>2, <2>3, <2>4, <2>5, <2>6, <2>7, <2>8, <2>9, <2>10 DEF IInv
<1>8. CASE Unlock(t)
  <2>1. PICK p \in {"copy", "done"} :
          /\ Moved(t, p, call[t].lockFor, d, call[t].result)
          /\ p = "copy" => call[t].result = "none"
    BY <1>8, GotoMoves DEF Unlock, Phase
  <2>2. TypeOK'
    BY <1>0, <1>8, <2>1 DEF Unlock, TypeOK, Moved
  <2>3. HoldsItsLocks'
    BY <1>0, <1>8, <2>1, NoneIsNew DEF Unlock, IInv, TypeOK, Moved, Locked,
       HoldsItsLocks
  <2>4. StagedBytesMatch'
    BY <1>0, <1>8, <2>1, NoneIsNew DEF Unlock, IInv, TypeOK, Moved, Locked,
       StagedBytesMatch
  <2>5. AsksForTheExpected'
    BY <1>0, <1>8, <2>1, NoneIsNew DEF Unlock, IInv, TypeOK, Moved, Locked,
       AsksForTheExpected
  <2>6. OwnersWork'
    BY <1>0, <1>8, <2>1, NoneIsNew DEF Unlock, IInv, TypeOK, Moved, Locked,
       OwnersWork, HoldsItsLocks
  <2>7. OnlyKillsLitter'
    BY <1>0, <1>8, <2>1, NoneIsNew DEF Unlock, IInv, TypeOK, Moved, Locked,
       OnlyKillsLitter
  <2>8. AbsentUntilRenamed'
    BY <1>0, <1>8, <2>1, NoneIsNew DEF Unlock, IInv, TypeOK, Moved, Locked,
       AbsentUntilRenamed, HoldsItsLocks
  <2>9. StoredBytesMatch'
    BY <1>0, <1>8, <2>1, NoneIsNew DEF Unlock, IInv, TypeOK, Moved, Locked,
       StoredBytesMatch, StagedBytesMatch
  <2>10. OkMeansStored'
    BY <1>0, <1>8, <2>1, NoneIsNew DEF Unlock, IInv, TypeOK, Moved, Locked,
       OkMeansStored, AbsentUntilRenamed, StagedBytesMatch, AsksForTheExpected
  <2> QED
    BY <2>2, <2>3, <2>4, <2>5, <2>6, <2>7, <2>8, <2>9, <2>10 DEF IInv
<1>9. CASE CopyFirst(t)
  <2>1. Moved(t, "copy-rest", call[t].lockFor, call[t].digest, call[t].result)
    BY <1>9, GotoMoves DEF CopyFirst, Phase
  <2>2. TypeOK'
    BY <1>0, <1>9, <2>1 DEF CopyFirst, TypeOK, Moved
  <2>3. HoldsItsLocks'
    BY <1>0, <1>9, <2>1, NoneIsNew DEF CopyFirst, IInv, TypeOK, Moved, Locked,
       HoldsItsLocks
  <2>4. StagedBytesMatch'
    BY <1>0, <1>9, <2>1, NoneIsNew DEF CopyFirst, IInv, TypeOK, Moved, Locked,
       StagedBytesMatch
  <2>5. AsksForTheExpected'
    BY <1>0, <1>9, <2>1, NoneIsNew DEF CopyFirst, IInv, TypeOK, Moved, Locked,
       AsksForTheExpected
  <2>6. OwnersWork'
    BY <1>0, <1>9, <2>1, NoneIsNew DEF CopyFirst, IInv, TypeOK, Moved, Locked,
       OwnersWork, HoldsItsLocks
  <2>7. OnlyKillsLitter'
    BY <1>0, <1>9, <2>1, NoneIsNew DEF CopyFirst, IInv, TypeOK, Moved, Locked,
       OnlyKillsLitter
  <2>8. AbsentUntilRenamed'
    BY <1>0, <1>9, <2>1, NoneIsNew DEF CopyFirst, IInv, TypeOK, Moved, Locked,
       AbsentUntilRenamed, HoldsItsLocks
  <2>9. StoredBytesMatch'
    BY <1>0, <1>9, <2>1, NoneIsNew DEF CopyFirst, IInv, TypeOK, Moved, Locked,
       StoredBytesMatch, StagedBytesMatch
  <2>10. OkMeansStored'
    BY <1>0, <1>9, <2>1, NoneIsNew DEF CopyFirst, IInv, TypeOK, Moved, Locked,
       OkMeansStored, AbsentUntilRenamed, StagedBytesMatch, AsksForTheExpected
  <2> QED
    BY <2>2, <2>3, <2>4, <2>5, <2>6, <2>7, <2>8, <2>9, <2>10 DEF IInv
<1>10. CASE CopyRest(t)
  <2> DEFINE copied == <<temp[t][1], source[2]>>
  <2>0. copied \in Digest
    BY <1>10 DEF CopyRest, IInv, TypeOK, StagedBytesMatch, Digest
  <2>1. \/ /\ Moved(t, "thread-wait", "store", copied, call[t].result)
           /\ call[t].expected \in {None, copied}
           /\ temp' = [temp EXCEPT ![t] = copied]
        \/ /\ Moved(t, "done", call[t].lockFor, d, "integrity")
           /\ temp' = [temp EXCEPT ![t] = None]
    BY <1>10, <2>0, LockMoves, OutcomeMoves DEF CopyRest, Phase, Purpose, Result
  <2> HIDE DEF copied
  <2>2. TypeOK'
    BY <1>0, <1>10, <2>1, <2>0 DEF CopyRest, TypeOK, Moved
  <2>3. HoldsItsLocks'
    BY <1>0, <1>10, <2>1, <2>0, NoneIsNew DEF CopyRest, IInv, TypeOK, Moved,
       Locked, HoldsItsLocks
  <2>4. StagedBytesMatch'
    BY <1>0, <1>10, <2>1, <2>0, NoneIsNew DEF CopyRest, IInv, TypeOK, Moved,
       Locked, StagedBytesMatch
  <2>5. AsksForTheExpected'
    BY <1>0, <1>10, <2>1, <2>0, NoneIsNew DEF CopyRest, IInv, TypeOK, Moved,
       Locked, AsksForTheExpected
  <2>6. OwnersWork'
    BY <1>0, <1>10, <2>1, <2>0, NoneIsNew DEF CopyRest, IInv, TypeOK, Moved,
       Locked, OwnersWork, HoldsItsLocks
  <2>7. OnlyKillsLitter'
    BY <1>0, <1>10, <2>1, <2>0, NoneIsNew DEF CopyRest, IInv, TypeOK, Moved,
       Locked, OnlyKillsLitter
  <2>8. AbsentUntilRenamed'
    BY <1>0, <1>10, <2>1, <2>0, NoneIsNew DEF CopyRest, IInv, TypeOK, Moved,
       Locked, AbsentUntilRenamed, HoldsItsLocks
  <2>9. StoredBytesMatch'
    BY <1>0, <1>10, <2>1, <2>0, NoneIsNew DEF CopyRest, IInv, TypeOK, Moved,
       Locked, StoredBytesMatch, StagedBytesMatch
  <2>10. OkMeansStored'
    BY <1>0, <1>10, <2>1, <2>0, NoneIsNew DEF CopyRest, IInv, TypeOK, Moved,
       Locked, OkMeansStored, AbsentUntilRenamed, StagedBytesMatch,
       AsksForTheExpected
  <2> QED
    BY <2>2, <2>3, <2>4, <2>5, <2>6, <2>7, <2>8, <2>9, <2>10 DEF IInv
<1>11. CASE CopyFails(t)
  <2>1. Moved(t, "done", call[t].lockFor, call[t].digest, "failed")
    BY <1>11, OutcomeMoves DEF CopyFails, Phase, Result
  <2>2. TypeOK'
    BY <1>0, <1>11, <2>1 DEF CopyFails, TypeOK, Moved
  <2>3. HoldsItsLocks'
    BY <1>0, <1>11, <2>1, NoneIsNew DEF CopyFails, IInv, TypeOK, Moved, Locked,
       HoldsItsLocks
  <2>4. StagedBytesMatch'
    BY <1>0, <1>11, <2>1, NoneIsNew DEF CopyFails, IInv, TypeOK, Moved, Locked,
       StagedBytesMatch
  <2>5. AsksForTheExpected'
    BY <1>0, <1>11, <2>1, NoneIsNew DEF CopyFails, IInv, TypeOK, Moved, Locked,
       AsksForTheExpected
  <2>6. OwnersWork'
    BY <1>0, <1>11, <2>1, NoneIsNew DEF CopyFails, IInv, TypeOK, Moved, Locked,
       OwnersWork, HoldsItsLocks
  <2>7. OnlyKillsLitter'
    BY <1>0, <1>11, <2>1, NoneIsNew DEF CopyFails, IInv, TypeOK, Moved, Locked,
       OnlyKillsLitter
  <2>8. AbsentUntilRenamed'
    BY <1>0, <1>11, <2>1, NoneIsNew DEF CopyFails, IInv, TypeOK, Moved, Locked,
       AbsentUntilRenamed, HoldsItsLocks
  <2>9. StoredBytesMatch'
    BY <1>0, <1>11, <2>1, NoneIsNew DEF CopyFails, IInv, TypeOK, Moved, Locked,
       StoredBytesMatch, StagedBytesMatch
  <2>10. OkMeansStored'
    BY <1>0, <1>11, <2>1, NoneIsNew DEF CopyFails, IInv, TypeOK, Moved, Locked,
       OkMeansStored, AbsentUntilRenamed, StagedBytesMatch, AsksForTheExpected
  <2> QED
    BY <2>2, <2>3, <2>4, <2>5, <2>6, <2>7, <2>8, <2>9, <2>10 DEF IInv
<1> QED
  BY <1>1, <1>2, <1>3, <1>4, <1>5, <1>6, <1>7, <1>8, <1>9, <1>10, <1>11 DEF Step

LEMMA NextIInv == IInv /\ [Next]_vars => IInv'
<1> SUFFICES ASSUME IInv, [Next]_vars PROVE IInv'
  OBVIOUS
<1> TypeOK
  BY DEF IInv
<1>0. /\ Given \subseteq Digest
      /\ \A u \in Threads : call[u].digest \in Digest /\ HostOf[u] \in Host
      /\ \A u \in Threads : call[u].lockFor \in Purpose
  BY GivenAreDigests DEF TypeOK, Call, Digest, Host
<1>1. ASSUME NEW t \in Threads, NEW d \in Given, PutBytes(t, d) PROVE IInv'
  <2>1. Moved(t, "thread-wait", "bytes", d, call[t].result)
    BY <1>0, <1>1, LockMoves DEF PutBytes, Purpose
  <2>2. TypeOK'
    BY <1>0, <1>1, <2>1, NoneIsNew, BoundsAreNat DEF PutBytes, Moved, TypeOK
  <2>3. HoldsItsLocks'
    BY <1>0, <1>1, <2>1, NoneIsNew, BoundsAreNat DEF PutBytes, Moved, IInv,
       TypeOK, Locked, HoldsItsLocks
  <2>4. StagedBytesMatch'
    BY <1>0, <1>1, <2>1, NoneIsNew, BoundsAreNat DEF PutBytes, Moved, IInv,
       TypeOK, Locked, StagedBytesMatch
  <2>5. AsksForTheExpected'
    BY <1>0, <1>1, <2>1, NoneIsNew, BoundsAreNat DEF PutBytes, Moved, IInv,
       TypeOK, Locked, AsksForTheExpected
  <2>6. OwnersWork'
    BY <1>0, <1>1, <2>1, NoneIsNew, BoundsAreNat DEF PutBytes, Moved, IInv,
       TypeOK, Locked, OwnersWork, HoldsItsLocks
  <2>7. OnlyKillsLitter'
    BY <1>0, <1>1, <2>1, NoneIsNew, BoundsAreNat DEF PutBytes, Moved, IInv,
       TypeOK, Locked, OnlyKillsLitter
  <2>8. AbsentUntilRenamed'
    BY <1>0, <1>1, <2>1, NoneIsNew, BoundsAreNat DEF PutBytes, Moved, IInv,
       TypeOK, Locked, AbsentUntilRenamed, HoldsItsLocks
  <2>9. StoredBytesMatch'
    BY <1>0, <1>1, <2>1, NoneIsNew, BoundsAreNat DEF PutBytes, Moved, IInv,
       TypeOK, Locked, StoredBytesMatch, StagedBytesMatch
  <2>10. OkMeansStored'
    BY <1>0, <1>1, <2>1, NoneIsNew, BoundsAreNat DEF PutBytes, Moved, IInv,
       TypeOK, Locked, OkMeansStored, AbsentUntilRenamed, StagedBytesMatch,
       AsksForTheExpected
  <2> QED
    BY <2>2, <2>3, <2>4, <2>5, <2>6, <2>7, <2>8, <2>9, <2>10 DEF IInv
<1>2. ASSUME NEW t \in Threads, NEW e \in Given \cup {None}, PutFile(t, e) PROVE IInv'
  <2>1. /\ call' \in [Threads -> Call]
        /\ \A u \in Threads \ {t} : call'[u] = call[u]
        /\ call'[t].result = call[t].result
        /\ \/ /\ call'[t].at = "copy" /\ call'[t].lockFor = call[t].lockFor
           \/ /\ call'[t].at = "thread-wait" /\ call'[t].lockFor = "probe"
              /\ call'[t].digest = e /\ call'[t].expected = e
    <3>1. CASE e = None
      <4>1. Moved(t, "copy", call[t].lockFor, call[t].digest, call[t].result)
        BY <1>2, <3>1, GotoMoves DEF PutFile, Phase
      <4> QED
        BY <4>1 DEF Moved
    <3>2. CASE e # None
      <4>1. call' = [call EXCEPT ![t] = [call[t] EXCEPT !.at = "thread-wait",
                        !.lockFor = "probe", !.digest = e, !.expected = e]]
        BY <1>2, <3>2 DEF PutFile
      <4>2. [call[t] EXCEPT !.at = "thread-wait", !.lockFor = "probe",
                            !.digest = e, !.expected = e] \in Call
        BY <1>0, <3>2 DEF TypeOK, Call, Phase, Purpose
      <4> QED
        BY <4>1, <4>2 DEF TypeOK, Call
    <3> QED
      BY <3>1, <3>2
  <2>2. TypeOK'
    BY <1>0, <1>2, <2>1, NoneIsNew, BoundsAreNat DEF PutFile, TypeOK
  <2>3. HoldsItsLocks'
    BY <1>0, <1>2, <2>1, NoneIsNew, BoundsAreNat DEF PutFile, IInv, TypeOK,
       Locked, HoldsItsLocks
  <2>4. StagedBytesMatch'
    BY <1>0, <1>2, <2>1, NoneIsNew, BoundsAreNat DEF PutFile, IInv, TypeOK,
       Locked, StagedBytesMatch
  <2>5. AsksForTheExpected'
    BY <1>0, <1>2, <2>1, NoneIsNew, BoundsAreNat DEF PutFile, IInv, TypeOK,
       Locked, AsksForTheExpected
  <2>6. OwnersWork'
    BY <1>0, <1>2, <2>1, NoneIsNew, BoundsAreNat DEF PutFile, IInv, TypeOK,
       Locked, OwnersWork, HoldsItsLocks
  <2>7. OnlyKillsLitter'
    BY <1>0, <1>2, <2>1, NoneIsNew, BoundsAreNat DEF PutFile, IInv, TypeOK,
       Locked, OnlyKillsLitter
  <2>8. AbsentUntilRenamed'
    BY <1>0, <1>2, <2>1, NoneIsNew, BoundsAreNat DEF PutFile, IInv, TypeOK,
       Locked, AbsentUntilRenamed, HoldsItsLocks
  <2>9. StoredBytesMatch'
    BY <1>0, <1>2, <2>1, NoneIsNew, BoundsAreNat DEF PutFile, IInv, TypeOK,
       Locked, StoredBytesMatch, StagedBytesMatch
  <2>10. OkMeansStored'
    BY <1>0, <1>2, <2>1, NoneIsNew, BoundsAreNat DEF PutFile, IInv, TypeOK,
       Locked, OkMeansStored, AbsentUntilRenamed, StagedBytesMatch,
       AsksForTheExpected
  <2> QED
    BY <2>2, <2>3, <2>4, <2>5, <2>6, <2>7, <2>8, <2>9, <2>10 DEF IInv
<1>3. ASSUME NEW h \in Host, Kill(h) PROVE IInv'
  <2> DEFINE dead == {u \in Threads : HostOf[u] = h}
  <2>1. /\ call' \in [Threads -> Call]
        /\ \A u \in Threads \ dead : call'[u] = call[u]
        /\ \A u \in dead :
             /\ call'[u].at = IF call[u].at = "done" THEN "done" ELSE "killed"
             /\ call'[u].digest = call[u].digest /\ call'[u].lockFor = call[u].lockFor
             /\ call'[u].expected = call[u].expected /\ call'[u].result = call[u].result
    BY <1>3 DEF Kill, TypeOK, Call, Phase
  <2>2. TypeOK'
    BY <1>0, <1>3, <2>1, NoneIsNew, BoundsAreNat DEF Kill, TypeOK
  <2>3. HoldsItsLocks'
    BY <1>0, <1>3, <2>1, NoneIsNew, BoundsAreNat DEF Kill, IInv, TypeOK, Locked,
       HoldsItsLocks
  <2>4. StagedBytesMatch'
    BY <1>0, <1>3, <2>1, NoneIsNew, BoundsAreNat DEF Kill, IInv, TypeOK, Locked,
       StagedBytesMatch
  <2>5. AsksForTheExpected'
    BY <1>0, <1>3, <2>1, NoneIsNew, BoundsAreNat DEF Kill, IInv, TypeOK, Locked,
       AsksForTheExpected
  <2>6. OwnersWork'
    BY <1>0, <1>3, <2>1, NoneIsNew, BoundsAreNat DEF Kill, IInv, TypeOK, Locked,
       OwnersWork, HoldsItsLocks
  <2>7. OnlyKillsLitter'
    BY <1>0, <1>3, <2>1, NoneIsNew, BoundsAreNat DEF Kill, IInv, TypeOK, Locked,
       OnlyKillsLitter
  <2>8. AbsentUntilRenamed'
    BY <1>0, <1>3, <2>1, NoneIsNew, BoundsAreNat DEF Kill, IInv, TypeOK, Locked,
       AbsentUntilRenamed, HoldsItsLocks
  <2>9. StoredBytesMatch'
    BY <1>0, <1>3, <2>1, NoneIsNew, BoundsAreNat DEF Kill, IInv, TypeOK, Locked,
       StoredBytesMatch, StagedBytesMatch
  <2>10. OkMeansStored'
    BY <1>0, <1>3, <2>1, NoneIsNew, BoundsAreNat DEF Kill, IInv, TypeOK, Locked,
       OkMeansStored, AbsentUntilRenamed, StagedBytesMatch, AsksForTheExpected
  <2> QED
    BY <2>2, <2>3, <2>4, <2>5, <2>6, <2>7, <2>8, <2>9, <2>10 DEF IInv
<1>4. ASSUME NEW d \in Given, Edit(d) PROVE IInv'
  <2>2. TypeOK'
    BY <1>0, <1>4, NoneIsNew, BoundsAreNat DEF Edit, TypeOK
  <2>3. HoldsItsLocks'
    BY <1>0, <1>4, NoneIsNew, BoundsAreNat DEF Edit, IInv, TypeOK, Locked, HoldsItsLocks
  <2>4. StagedBytesMatch'
    BY <1>0, <1>4, NoneIsNew, BoundsAreNat DEF Edit, IInv, TypeOK, Locked,
       StagedBytesMatch
  <2>5. AsksForTheExpected'
    BY <1>0, <1>4, NoneIsNew, BoundsAreNat DEF Edit, IInv, TypeOK, Locked,
       AsksForTheExpected
  <2>6. OwnersWork'
    BY <1>0, <1>4, NoneIsNew, BoundsAreNat DEF Edit, IInv, TypeOK, Locked,
       OwnersWork, HoldsItsLocks
  <2>7. OnlyKillsLitter'
    BY <1>0, <1>4, NoneIsNew, BoundsAreNat DEF Edit, IInv, TypeOK, Locked,
       OnlyKillsLitter
  <2>8. AbsentUntilRenamed'
    BY <1>0, <1>4, NoneIsNew, BoundsAreNat DEF Edit, IInv, TypeOK, Locked,
       AbsentUntilRenamed, HoldsItsLocks
  <2>9. StoredBytesMatch'
    BY <1>0, <1>4, NoneIsNew, BoundsAreNat DEF Edit, IInv, TypeOK, Locked,
       StoredBytesMatch, StagedBytesMatch
  <2>10. OkMeansStored'
    BY <1>0, <1>4, NoneIsNew, BoundsAreNat DEF Edit, IInv, TypeOK, Locked,
       OkMeansStored, AbsentUntilRenamed, StagedBytesMatch, AsksForTheExpected
  <2> QED
    BY <2>2, <2>3, <2>4, <2>5, <2>6, <2>7, <2>8, <2>9, <2>10 DEF IInv
<1>5. ASSUME NEW d \in Digest, NEW v \in Digest \cup {None}, Damage(d, v) PROVE IInv'
  <2>2. TypeOK'
    BY <1>0, <1>5, NoneIsNew, BoundsAreNat DEF Damage, TypeOK
  <2>3. HoldsItsLocks'
    BY <1>0, <1>5, NoneIsNew, BoundsAreNat DEF Damage, IInv, TypeOK, Locked,
       HoldsItsLocks
  <2>4. StagedBytesMatch'
    BY <1>0, <1>5, NoneIsNew, BoundsAreNat DEF Damage, IInv, TypeOK, Locked,
       StagedBytesMatch
  <2>5. AsksForTheExpected'
    BY <1>0, <1>5, NoneIsNew, BoundsAreNat DEF Damage, IInv, TypeOK, Locked,
       AsksForTheExpected
  <2>6. OwnersWork'
    BY <1>0, <1>5, NoneIsNew, BoundsAreNat DEF Damage, IInv, TypeOK, Locked,
       OwnersWork, HoldsItsLocks
  <2>7. OnlyKillsLitter'
    BY <1>0, <1>5, NoneIsNew, BoundsAreNat DEF Damage, IInv, TypeOK, Locked,
       OnlyKillsLitter
  <2>8. AbsentUntilRenamed'
    BY <1>0, <1>5, NoneIsNew, BoundsAreNat DEF Damage, IInv, TypeOK, Locked,
       AbsentUntilRenamed, HoldsItsLocks
  <2>9. StoredBytesMatch'
    BY <1>0, <1>5, NoneIsNew, BoundsAreNat DEF Damage, IInv, TypeOK, Locked,
       StoredBytesMatch, StagedBytesMatch
  <2>10. OkMeansStored'
    BY <1>0, <1>5, NoneIsNew, BoundsAreNat DEF Damage, IInv, TypeOK, Locked,
       OkMeansStored, AbsentUntilRenamed, StagedBytesMatch, AsksForTheExpected
  <2> QED
    BY <2>2, <2>3, <2>4, <2>5, <2>6, <2>7, <2>8, <2>9, <2>10 DEF IInv
<1>6. ASSUME UNCHANGED vars PROVE IInv'
  <2>2. TypeOK'
    BY <1>0, <1>6, NoneIsNew, BoundsAreNat DEF vars, TypeOK
  <2>3. HoldsItsLocks'
    BY <1>0, <1>6, NoneIsNew, BoundsAreNat DEF vars, IInv, TypeOK, Locked, HoldsItsLocks
  <2>4. StagedBytesMatch'
    BY <1>0, <1>6, NoneIsNew, BoundsAreNat DEF vars, IInv, TypeOK, Locked,
       StagedBytesMatch
  <2>5. AsksForTheExpected'
    BY <1>0, <1>6, NoneIsNew, BoundsAreNat DEF vars, IInv, TypeOK, Locked,
       AsksForTheExpected
  <2>6. OwnersWork'
    BY <1>0, <1>6, NoneIsNew, BoundsAreNat DEF vars, IInv, TypeOK, Locked,
       OwnersWork, HoldsItsLocks
  <2>7. OnlyKillsLitter'
    BY <1>0, <1>6, NoneIsNew, BoundsAreNat DEF vars, IInv, TypeOK, Locked,
       OnlyKillsLitter
  <2>8. AbsentUntilRenamed'
    BY <1>0, <1>6, NoneIsNew, BoundsAreNat DEF vars, IInv, TypeOK, Locked,
       AbsentUntilRenamed, HoldsItsLocks
  <2>9. StoredBytesMatch'
    BY <1>0, <1>6, NoneIsNew, BoundsAreNat DEF vars, IInv, TypeOK, Locked,
       StoredBytesMatch, StagedBytesMatch
  <2>10. OkMeansStored'
    BY <1>0, <1>6, NoneIsNew, BoundsAreNat DEF vars, IInv, TypeOK, Locked,
       OkMeansStored, AbsentUntilRenamed, StagedBytesMatch, AsksForTheExpected
  <2> QED
    BY <2>2, <2>3, <2>4, <2>5, <2>6, <2>7, <2>8, <2>9, <2>10 DEF IInv
<1>7. ASSUME NEW t \in Threads, Step(t) PROVE IInv'
  BY <1>7, StepIInv
<1> QED
  BY <1>1, <1>2, <1>3, <1>4, <1>5, <1>6, <1>7 DEF Next

-----------------------------------------------------------------------------
LEMMA Invariant == Spec => []IInv
  BY InitIInv, NextIInv, PTL DEF Spec

(* Every reachable state has the declared types, for every set of threads,  *)
(* hosts and blocks: the record of a call in cache.py never holds a field   *)
(* the code could not have assigned.                                        *)
THEOREM TypeCorrect == Spec => []TypeOK
<1>1. IInv => TypeOK
  BY DEF IInv
<1> QED
  BY <1>1, Invariant, PTL

(* put_bytes and put_file never publish bytes under another name than their *)
(* digest, however the author's edits fall between the blocks put_file reads. *)
THEOREM BytesMatchNames == Spec => []StoredBytesMatch
<1>1. IInv => StoredBytesMatch
  BY DEF IInv
<1> QED
  BY <1>1, Invariant, PTL

(* A path returned by put_bytes or put_file names the entry that was asked  *)
(* for, and that entry is there with its bytes.                             *)
THEOREM ReturnedPathsAreStored == Spec => []OkMeansStored
<1>1. IInv => OkMeansStored
  BY DEF IInv
<1> QED
  BY <1>1, Invariant, PTL

(* os.replace never lands on an entry another call published: the look-up   *)
(* and the rename of a call are atomic for that digest, across processes.   *)
THEOREM NoOverwrite == Spec => []RenameOntoNothing
<1>1. IInv => RenameOntoNothing
  BY DEF IInv, AbsentUntilRenamed, RenameOntoNothing
<1> QED
  BY <1>1, Invariant, PTL

(* Returning, raising, timing out or being killed, a call gives both locks  *)
(* of its digest back.                                                      *)
THEOREM LocksComeBack == Spec => []NoOrphanLock
<1>1. ASSUME IInv PROVE NoOrphanLock
  <2>1. threadLock \in [Digest -> [Host -> Threads \cup {None}]]
        /\ fileLock \in [Digest -> Threads \cup {None}]
    BY <1>1 DEF IInv, TypeOK
  <2> SUFFICES ASSUME NEW d \in Digest
               PROVE  /\ \A h \in Host : threadLock[d][h] # None =>
                           /\ call[threadLock[d][h]].at \in Locked \cup {"file-wait"}
                           /\ call[threadLock[d][h]].digest = d
                      /\ fileLock[d] # None =>
                           /\ call[fileLock[d]].at \in Locked
                           /\ call[fileLock[d]].digest = d
    BY DEF NoOrphanLock
  <2>2. ASSUME NEW h \in Host, threadLock[d][h] # None
        PROVE  /\ call[threadLock[d][h]].at \in Locked \cup {"file-wait"}
               /\ call[threadLock[d][h]].digest = d
    <3>1. threadLock[d][h] \in Threads
      BY <2>1, <2>2
    <3> QED
      BY <1>1, <3>1 DEF IInv, OwnersWork
  <2>3. ASSUME fileLock[d] # None
        PROVE  call[fileLock[d]].at \in Locked /\ call[fileLock[d]].digest = d
    <3>1. fileLock[d] \in Threads
      BY <2>1, <2>3
    <3> QED
      BY <1>1, <3>1 DEF IInv, OwnersWork
  <2> QED
    BY <2>2, <2>3
<1> QED
  BY <1>1, Invariant, PTL

(* Only a killed host leaves temporary files behind.                        *)
THEOREM OnlyKillsLeaveFiles == Spec => []OnlyKillsLitter
<1>1. IInv => OnlyKillsLitter
  BY DEF IInv
<1> QED
  BY <1>1, Invariant, PTL
===============================================================================
