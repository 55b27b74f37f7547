------------------------ MODULE GenerationBundleProofs ------------------------
(***************************************************************************)
(* Proofs about the generation of topics: GenerationBundle for every set of *)
(* sciences, modes, wordings and bounds, with the refinement of            *)
(* GenerationRegister; TopicWording for every batch and every text of a    *)
(* provider; TopicRecords for every table of records and every order of    *)
(* saves, imports and reads.                                               *)
(***************************************************************************)
EXTENDS GenerationBundle, TopicWording, TopicRecords, SequenceTheorems, FiniteSetTheorems,
        WellFoundedInduction, TLAPS

Publishing == {"cache-opp", "cache-cand", "write-opp", "write-cand", "write-report"}

(* A call in progress has returned nothing yet, and only a successful one  *)
(* ever returns a bundle.                                                  *)
NothingReturnedYet ==
  /\ run.at # "idle" => run.result = "none"
  /\ run.result \notin {"reused", "generated"} => run.bundle = None

(* What each phase knows of the report on disk: plan.lock keeps it fixed.  *)
KnowsMarker ==
  /\ run.at = "clear-cand" => marker = None /\ run.committed = None
  /\ run.at = "recover" => run.committed = None
  /\ run.at \in {"restore-cand", "load", "load-new"} => marker # None
  /\ run.at \in Publishing \cup {"decide"} => run.committed = marker

(* The report being published is for the science and mode of this call, it *)
(* is the next revision, and there is a cause for it.                      *)
NewIsNext ==
  run.at \in Publishing =>
    /\ \E w \in Wording :
         run.new = [science |-> run.science, mode |-> run.mode,
                    opp |-> OppOf[run.science], cand |-> <<OppOf[run.science], w>>,
                    revision |-> IF marker = None THEN 1 ELSE marker.revision + 1]
    /\ marker # None => run.regenerate \/ marker.science # run.science

(* What is already cached of the report being published.                   *)
NewIsCached ==
  damage = 0 =>
    /\ run.at \in Publishing \ {"cache-opp"} => oppCache[run.new.opp] = "intact"
    /\ run.at \in Publishing \ {"cache-opp", "cache-cand"} =>
         candCache[run.new.cand] = "intact"

(* A damaged entry needs someone to damage it.                             *)
CacheIsSound ==
  damage = 0 => /\ \A o \in Opportunity : oppCache[o] # "corrupt"
                /\ \A c \in Candidate : candCache[c] # "corrupt"

(* What is already in the output files, when nobody else writes them.      *)
FilesSoFar ==
  touches = 0 =>
    /\ run.at \in {"restore-cand", "load", "load-new"} => oppFile = marker.opp
    /\ run.at \in {"load", "load-new"} => candFile = marker.cand
    /\ run.at = "decide" /\ marker # None => oppFile = marker.opp /\ candFile = marker.cand
    /\ run.at \in {"write-cand", "write-report"} => oppFile = run.new.opp
    /\ run.at = "write-report" => candFile = run.new.cand

IInv ==
  /\ TypeOK
  /\ NothingReturnedYet
  /\ KnowsMarker
  /\ NewIsNext
  /\ NewIsCached
  /\ CacheIsSound
  /\ FilesSoFar
  /\ MarkerIsRestorable
  /\ ConflictNeedsOutsider
  /\ ReturnedIsCommitted

-----------------------------------------------------------------------------
(* The three ways a step of the call changes its record.                   *)
LEMMA GotoRun ==
  ASSUME TypeOK, NEW phase \in Phase, Goto(phase)
  PROVE  /\ run' \in Run /\ run'.at = phase
         /\ run'.mode = run.mode /\ run'.regenerate = run.regenerate
         /\ run'.science = run.science /\ run'.committed = run.committed
         /\ run'.new = run.new /\ run'.result = run.result /\ run'.bundle = run.bundle
  BY DEF TypeOK, Run, Goto

LEMMA FinishRun ==
  ASSUME TypeOK, NEW result \in Result, NEW b \in Report \cup {None}, Finish(result, b)
  PROVE  /\ run' \in Run /\ run'.at = "idle"
         /\ run'.mode = run.mode /\ run'.regenerate = run.regenerate
         /\ run'.science = run.science
         /\ run'.result = result /\ run'.bundle = b
  BY DEF TypeOK, Run, Finish, Phase

LEMMA InitIInv == Init => IInv
<1> SUFFICES ASSUME Init PROVE IInv
  OBVIOUS
<1> USE DEF Init
<1>1. run \in Run /\ run.at = "idle" /\ run.result = "none" /\ run.bundle = None
  BY DEF Run, Phase, Result
<1>2. TypeOK
  BY <1>1, GenBounds DEF TypeOK, Health
<1> QED
  BY <1>1, <1>2 DEF IInv, NothingReturnedYet, KnowsMarker, NewIsNext, NewIsCached,
    CacheIsSound, FilesSoFar, MarkerIsRestorable, ConflictNeedsOutsider,
    ReturnedIsCommitted, Publishing

LEMMA CallIInv == ASSUME IInv, Call PROVE IInv'
<1> TypeOK
  BY DEF IInv
<1>0. /\ run.science \in Science /\ run.mode \in Mode /\ OppOf[run.science] \in Opportunity
      /\ run.committed \in Report \cup {None} /\ run.new \in Report \cup {None}
      /\ run.bundle \in Report \cup {None} /\ run.result \in Result /\ run.at \in Phase
      /\ run.regenerate \in BOOLEAN
      /\ \A r \in Report : r.opp \in Opportunity /\ r.cand \in Candidate /\ r.revision \in Nat \ {0}
  BY OppOfType DEF TypeOK, Run, Report
<1>a. run.at \in Publishing => run.new \in Report
  <2>1. ASSUME NEW w \in Wording
        PROVE  [science |-> run.science, mode |-> run.mode, opp |-> OppOf[run.science],
                cand |-> <<OppOf[run.science], w>>,
                revision |-> IF marker = None THEN 1 ELSE marker.revision + 1] \in Report
    BY <1>0 DEF TypeOK, Report, Candidate
  <2> QED
    BY <2>1 DEF IInv, NewIsNext
<1>1. CASE ClearOpp
  <2>1. Goto("clear-cand") /\ "clear-cand" \in Phase
    BY <1>1 DEF ClearOpp, Phase
  <2>8. TypeOK'
    BY <1>0, <1>1, <2>1, GotoRun DEF ClearOpp, TypeOK, Put, Health, files, cache,
       outside
  <2>9. NothingReturnedYet'
    BY <1>0, <1>1, <2>1, GotoRun, NoneIsNoReport DEF ClearOpp, IInv, TypeOK,
       NothingReturnedYet, Publishing, Put, Health, files, cache, outside
  <2>10. KnowsMarker'
    BY <1>0, <1>1, <2>1, GotoRun, NoneIsNoReport DEF ClearOpp, IInv, TypeOK,
       KnowsMarker, Publishing, Put, Health, files, cache, outside
  <2>11. NewIsNext'
    BY <1>0, <1>1, <2>1, GotoRun, NoneIsNoReport DEF ClearOpp, IInv, TypeOK,
       NewIsNext, KnowsMarker, Publishing, Put, Health, files, cache, outside
  <2>12. NewIsCached'
    BY <1>0, <1>1, <2>1, GotoRun, NoneIsNoReport DEF ClearOpp, IInv, TypeOK,
       NewIsCached, CacheIsSound, NewIsNext, Publishing, Put, Health, files,
       cache, outside
  <2>13. CacheIsSound'
    BY <1>0, <1>1, <2>1, GotoRun, NoneIsNoReport DEF ClearOpp, IInv, TypeOK,
       CacheIsSound, Publishing, Put, Health, files, cache, outside
  <2>14. FilesSoFar'
    BY <1>0, <1>1, <2>1, GotoRun, NoneIsNoReport DEF ClearOpp, IInv, TypeOK,
       FilesSoFar, KnowsMarker, NewIsNext, Publishing, Put, Health, files, cache,
       outside
  <2>15. MarkerIsRestorable'
    BY <1>0, <1>1, <2>1, GotoRun, NoneIsNoReport DEF ClearOpp, IInv, TypeOK,
       MarkerIsRestorable, NewIsCached, KnowsMarker, Publishing, Put, Health,
       files, cache, outside
  <2>16. ConflictNeedsOutsider'
    BY <1>0, <1>1, <2>1, GotoRun, NoneIsNoReport DEF ClearOpp, IInv, TypeOK,
       ConflictNeedsOutsider, MarkerIsRestorable, FilesSoFar, KnowsMarker,
       NothingReturnedYet, Publishing, Put, Health, files, cache, outside
  <2>17. ReturnedIsCommitted'
    BY <1>0, <1>1, <2>1, GotoRun, NoneIsNoReport DEF ClearOpp, IInv, TypeOK,
       ReturnedIsCommitted, NothingReturnedYet, FilesSoFar, KnowsMarker,
       Publishing, Put, Health, files, cache, outside
  <2> QED
    BY <2>8, <2>9, <2>10, <2>11, <2>12, <2>13, <2>14, <2>15, <2>16, <2>17 DEF IInv
<1>2. CASE ClearCand
  <2>1. Goto("decide") /\ "decide" \in Phase
    BY <1>2 DEF ClearCand, Phase
  <2>8. TypeOK'
    BY <1>0, <1>2, <2>1, GotoRun DEF ClearCand, TypeOK, Put, Health, files, cache,
       outside
  <2>9. NothingReturnedYet'
    BY <1>0, <1>2, <2>1, GotoRun, NoneIsNoReport DEF ClearCand, IInv, TypeOK,
       NothingReturnedYet, Publishing, Put, Health, files, cache, outside
  <2>10. KnowsMarker'
    BY <1>0, <1>2, <2>1, GotoRun, NoneIsNoReport DEF ClearCand, IInv, TypeOK,
       KnowsMarker, Publishing, Put, Health, files, cache, outside
  <2>11. NewIsNext'
    BY <1>0, <1>2, <2>1, GotoRun, NoneIsNoReport DEF ClearCand, IInv, TypeOK,
       NewIsNext, KnowsMarker, Publishing, Put, Health, files, cache, outside
  <2>12. NewIsCached'
    BY <1>0, <1>2, <2>1, GotoRun, NoneIsNoReport DEF ClearCand, IInv, TypeOK,
       NewIsCached, CacheIsSound, NewIsNext, Publishing, Put, Health, files,
       cache, outside
  <2>13. CacheIsSound'
    BY <1>0, <1>2, <2>1, GotoRun, NoneIsNoReport DEF ClearCand, IInv, TypeOK,
       CacheIsSound, Publishing, Put, Health, files, cache, outside
  <2>14. FilesSoFar'
    BY <1>0, <1>2, <2>1, GotoRun, NoneIsNoReport DEF ClearCand, IInv, TypeOK,
       FilesSoFar, KnowsMarker, NewIsNext, Publishing, Put, Health, files, cache,
       outside
  <2>15. MarkerIsRestorable'
    BY <1>0, <1>2, <2>1, GotoRun, NoneIsNoReport DEF ClearCand, IInv, TypeOK,
       MarkerIsRestorable, NewIsCached, KnowsMarker, Publishing, Put, Health,
       files, cache, outside
  <2>16. ConflictNeedsOutsider'
    BY <1>0, <1>2, <2>1, GotoRun, NoneIsNoReport DEF ClearCand, IInv, TypeOK,
       ConflictNeedsOutsider, MarkerIsRestorable, FilesSoFar, KnowsMarker,
       NothingReturnedYet, Publishing, Put, Health, files, cache, outside
  <2>17. ReturnedIsCommitted'
    BY <1>0, <1>2, <2>1, GotoRun, NoneIsNoReport DEF ClearCand, IInv, TypeOK,
       ReturnedIsCommitted, NothingReturnedYet, FilesSoFar, KnowsMarker,
       Publishing, Put, Health, files, cache, outside
  <2> QED
    BY <2>8, <2>9, <2>10, <2>11, <2>12, <2>13, <2>14, <2>15, <2>16, <2>17 DEF IInv
<1>3. CASE RestoreOpp
  <2>1. \/ Goto("restore-cand") \/ Finish("conflict", None)
    BY <1>3 DEF RestoreOpp, Raise
  <2>2. "restore-cand" \in Phase /\ "conflict" \in Result
    BY DEF Phase, Result
  <2>8. TypeOK'
    BY <1>0, <1>3, <2>1, <2>2, GotoRun, FinishRun DEF RestoreOpp, TypeOK, Put,
       Health, files, cache, outside, Raise
  <2>9. NothingReturnedYet'
    BY <1>0, <1>3, <2>1, <2>2, GotoRun, FinishRun, NoneIsNoReport DEF RestoreOpp,
       IInv, TypeOK, NothingReturnedYet, Publishing, Put, Health, files, cache,
       outside, Raise
  <2>10. KnowsMarker'
    BY <1>0, <1>3, <2>1, <2>2, GotoRun, FinishRun, NoneIsNoReport DEF RestoreOpp,
       IInv, TypeOK, KnowsMarker, Publishing, Put, Health, files, cache, outside,
       Raise
  <2>11. NewIsNext'
    BY <1>0, <1>3, <2>1, <2>2, GotoRun, FinishRun, NoneIsNoReport DEF RestoreOpp,
       IInv, TypeOK, NewIsNext, KnowsMarker, Publishing, Put, Health, files,
       cache, outside, Raise
  <2>12. NewIsCached'
    BY <1>0, <1>3, <2>1, <2>2, GotoRun, FinishRun, NoneIsNoReport DEF RestoreOpp,
       IInv, TypeOK, NewIsCached, CacheIsSound, NewIsNext, Publishing, Put,
       Health, files, cache, outside, Raise
  <2>13. CacheIsSound'
    BY <1>0, <1>3, <2>1, <2>2, GotoRun, FinishRun, NoneIsNoReport DEF RestoreOpp,
       IInv, TypeOK, CacheIsSound, Publishing, Put, Health, files, cache, outside,
       Raise
  <2>14. FilesSoFar'
    BY <1>0, <1>3, <2>1, <2>2, GotoRun, FinishRun, NoneIsNoReport DEF RestoreOpp,
       IInv, TypeOK, FilesSoFar, KnowsMarker, NewIsNext, Publishing, Put, Health,
       files, cache, outside, Raise
  <2>15. MarkerIsRestorable'
    BY <1>0, <1>3, <2>1, <2>2, GotoRun, FinishRun, NoneIsNoReport DEF RestoreOpp,
       IInv, TypeOK, MarkerIsRestorable, NewIsCached, KnowsMarker, Publishing,
       Put, Health, files, cache, outside, Raise
  <2>16. ConflictNeedsOutsider'
    BY <1>0, <1>3, <2>1, <2>2, GotoRun, FinishRun, NoneIsNoReport DEF RestoreOpp,
       IInv, TypeOK, ConflictNeedsOutsider, MarkerIsRestorable, FilesSoFar,
       KnowsMarker, NothingReturnedYet, Publishing, Put, Health, files, cache,
       outside, Raise
  <2>17. ReturnedIsCommitted'
    BY <1>0, <1>3, <2>1, <2>2, GotoRun, FinishRun, NoneIsNoReport DEF RestoreOpp,
       IInv, TypeOK, ReturnedIsCommitted, NothingReturnedYet, FilesSoFar,
       KnowsMarker, Publishing, Put, Health, files, cache, outside, Raise
  <2> QED
    BY <2>8, <2>9, <2>10, <2>11, <2>12, <2>13, <2>14, <2>15, <2>16, <2>17 DEF IInv
<1>4. CASE RestoreCand
  <2>1. \/ Goto("load") \/ Finish("conflict", None)
    BY <1>4 DEF RestoreCand, Raise
  <2>2. "load" \in Phase /\ "conflict" \in Result
    BY DEF Phase, Result
  <2>8. TypeOK'
    BY <1>0, <1>4, <2>1, <2>2, GotoRun, FinishRun DEF RestoreCand, TypeOK, Put,
       Health, IInv, KnowsMarker, files, cache, outside, Raise
  <2>9. NothingReturnedYet'
    BY <1>0, <1>4, <2>1, <2>2, GotoRun, FinishRun, NoneIsNoReport DEF RestoreCand,
       IInv, TypeOK, NothingReturnedYet, Publishing, Put, Health, files, cache,
       outside, Raise
  <2>10. KnowsMarker'
    BY <1>0, <1>4, <2>1, <2>2, GotoRun, FinishRun, NoneIsNoReport DEF RestoreCand,
       IInv, TypeOK, KnowsMarker, Publishing, Put, Health, files, cache, outside,
       Raise
  <2>11. NewIsNext'
    BY <1>0, <1>4, <2>1, <2>2, GotoRun, FinishRun, NoneIsNoReport DEF RestoreCand,
       IInv, TypeOK, NewIsNext, KnowsMarker, Publishing, Put, Health, files,
       cache, outside, Raise
  <2>12. NewIsCached'
    BY <1>0, <1>4, <2>1, <2>2, GotoRun, FinishRun, NoneIsNoReport DEF RestoreCand,
       IInv, TypeOK, NewIsCached, CacheIsSound, NewIsNext, Publishing, Put,
       Health, files, cache, outside, Raise
  <2>13. CacheIsSound'
    BY <1>0, <1>4, <2>1, <2>2, GotoRun, FinishRun, NoneIsNoReport DEF RestoreCand,
       IInv, TypeOK, CacheIsSound, Publishing, Put, Health, files, cache, outside,
       Raise
  <2>14. FilesSoFar'
    BY <1>0, <1>4, <2>1, <2>2, GotoRun, FinishRun, NoneIsNoReport DEF RestoreCand,
       IInv, TypeOK, FilesSoFar, KnowsMarker, NewIsNext, Publishing, Put, Health,
       files, cache, outside, Raise
  <2>15. MarkerIsRestorable'
    BY <1>0, <1>4, <2>1, <2>2, GotoRun, FinishRun, NoneIsNoReport DEF RestoreCand,
       IInv, TypeOK, MarkerIsRestorable, NewIsCached, KnowsMarker, Publishing,
       Put, Health, files, cache, outside, Raise
  <2>16. ConflictNeedsOutsider'
    BY <1>0, <1>4, <2>1, <2>2, GotoRun, FinishRun, NoneIsNoReport DEF RestoreCand,
       IInv, TypeOK, ConflictNeedsOutsider, MarkerIsRestorable, FilesSoFar,
       KnowsMarker, NothingReturnedYet, Publishing, Put, Health, files, cache,
       outside, Raise
  <2>17. ReturnedIsCommitted'
    BY <1>0, <1>4, <2>1, <2>2, GotoRun, FinishRun, NoneIsNoReport DEF RestoreCand,
       IInv, TypeOK, ReturnedIsCommitted, NothingReturnedYet, FilesSoFar,
       KnowsMarker, Publishing, Put, Health, files, cache, outside, Raise
  <2> QED
    BY <2>8, <2>9, <2>10, <2>11, <2>12, <2>13, <2>14, <2>15, <2>16, <2>17 DEF IInv
<1>5. CASE CacheOpp
  <2>1. \/ Goto("cache-cand") \/ Finish("failed", None)
    BY <1>5 DEF CacheOpp, Raise
  <2>2. "cache-cand" \in Phase /\ "failed" \in Result
    BY DEF Phase, Result
  <2>8. TypeOK'
    BY <1>0, <1>a, <1>5, <2>1, <2>2, GotoRun, FinishRun DEF CacheOpp, TypeOK, Put,
       Health, Publishing, files, cache, outside, Raise
  <2>9. NothingReturnedYet'
    BY <1>0, <1>a, <1>5, <2>1, <2>2, GotoRun, FinishRun, NoneIsNoReport DEF
       CacheOpp, IInv, TypeOK, NothingReturnedYet, Publishing, Put, Health, files,
       cache, outside, Raise
  <2>10. KnowsMarker'
    BY <1>0, <1>a, <1>5, <2>1, <2>2, GotoRun, FinishRun, NoneIsNoReport DEF
       CacheOpp, IInv, TypeOK, KnowsMarker, Publishing, Put, Health, files, cache,
       outside, Raise
  <2>11. NewIsNext'
    BY <1>0, <1>a, <1>5, <2>1, <2>2, GotoRun, FinishRun, NoneIsNoReport DEF
       CacheOpp, IInv, TypeOK, NewIsNext, KnowsMarker, Publishing, Put, Health,
       files, cache, outside, Raise
  <2>12. NewIsCached'
    BY <1>0, <1>a, <1>5, <2>1, <2>2, GotoRun, FinishRun, NoneIsNoReport DEF
       CacheOpp, IInv, TypeOK, NewIsCached, CacheIsSound, NewIsNext, Publishing,
       Put, Health, files, cache, outside, Raise
  <2>13. CacheIsSound'
    BY <1>0, <1>a, <1>5, <2>1, <2>2, GotoRun, FinishRun, NoneIsNoReport DEF
       CacheOpp, IInv, TypeOK, CacheIsSound, Publishing, Put, Health, files,
       cache, outside, Raise
  <2>14. FilesSoFar'
    BY <1>0, <1>a, <1>5, <2>1, <2>2, GotoRun, FinishRun, NoneIsNoReport DEF
       CacheOpp, IInv, TypeOK, FilesSoFar, KnowsMarker, NewIsNext, Publishing,
       Put, Health, files, cache, outside, Raise
  <2>15. MarkerIsRestorable'
    BY <1>0, <1>a, <1>5, <2>1, <2>2, GotoRun, FinishRun, NoneIsNoReport DEF
       CacheOpp, IInv, TypeOK, MarkerIsRestorable, NewIsCached, KnowsMarker,
       Publishing, Put, Health, files, cache, outside, Raise
  <2>16. ConflictNeedsOutsider'
    BY <1>0, <1>a, <1>5, <2>1, <2>2, GotoRun, FinishRun, NoneIsNoReport DEF
       CacheOpp, IInv, TypeOK, ConflictNeedsOutsider, MarkerIsRestorable,
       FilesSoFar, KnowsMarker, NothingReturnedYet, Publishing, Put, Health,
       files, cache, outside, Raise
  <2>17. ReturnedIsCommitted'
    BY <1>0, <1>a, <1>5, <2>1, <2>2, GotoRun, FinishRun, NoneIsNoReport DEF
       CacheOpp, IInv, TypeOK, ReturnedIsCommitted, NothingReturnedYet,
       FilesSoFar, KnowsMarker, Publishing, Put, Health, files, cache, outside,
       Raise
  <2> QED
    BY <2>8, <2>9, <2>10, <2>11, <2>12, <2>13, <2>14, <2>15, <2>16, <2>17 DEF IInv
<1>6. CASE CacheCand
  <2>1. \/ Goto("write-opp") \/ Finish("failed", None)
    BY <1>6 DEF CacheCand, Raise
  <2>2. "write-opp" \in Phase /\ "failed" \in Result
    BY DEF Phase, Result
  <2>8. TypeOK'
    BY <1>0, <1>a, <1>6, <2>1, <2>2, GotoRun, FinishRun DEF CacheCand, TypeOK,
       Put, Health, Publishing, files, cache, outside, Raise
  <2>9. NothingReturnedYet'
    BY <1>0, <1>a, <1>6, <2>1, <2>2, GotoRun, FinishRun, NoneIsNoReport DEF
       CacheCand, IInv, TypeOK, NothingReturnedYet, Publishing, Put, Health,
       files, cache, outside, Raise
  <2>10. KnowsMarker'
    BY <1>0, <1>a, <1>6, <2>1, <2>2, GotoRun, FinishRun, NoneIsNoReport DEF
       CacheCand, IInv, TypeOK, KnowsMarker, Publishing, Put, Health, files,
       cache, outside, Raise
  <2>11. NewIsNext'
    BY <1>0, <1>a, <1>6, <2>1, <2>2, GotoRun, FinishRun, NoneIsNoReport DEF
       CacheCand, IInv, TypeOK, NewIsNext, KnowsMarker, Publishing, Put, Health,
       files, cache, outside, Raise
  <2>12. NewIsCached'
    BY <1>0, <1>a, <1>6, <2>1, <2>2, GotoRun, FinishRun, NoneIsNoReport DEF
       CacheCand, IInv, TypeOK, NewIsCached, CacheIsSound, NewIsNext, Publishing,
       Put, Health, files, cache, outside, Raise
  <2>13. CacheIsSound'
    BY <1>0, <1>a, <1>6, <2>1, <2>2, GotoRun, FinishRun, NoneIsNoReport DEF
       CacheCand, IInv, TypeOK, CacheIsSound, Publishing, Put, Health, files,
       cache, outside, Raise
  <2>14. FilesSoFar'
    BY <1>0, <1>a, <1>6, <2>1, <2>2, GotoRun, FinishRun, NoneIsNoReport DEF
       CacheCand, IInv, TypeOK, FilesSoFar, KnowsMarker, NewIsNext, Publishing,
       Put, Health, files, cache, outside, Raise
  <2>15. MarkerIsRestorable'
    BY <1>0, <1>a, <1>6, <2>1, <2>2, GotoRun, FinishRun, NoneIsNoReport DEF
       CacheCand, IInv, TypeOK, MarkerIsRestorable, NewIsCached, KnowsMarker,
       Publishing, Put, Health, files, cache, outside, Raise
  <2>16. ConflictNeedsOutsider'
    BY <1>0, <1>a, <1>6, <2>1, <2>2, GotoRun, FinishRun, NoneIsNoReport DEF
       CacheCand, IInv, TypeOK, ConflictNeedsOutsider, MarkerIsRestorable,
       FilesSoFar, KnowsMarker, NothingReturnedYet, Publishing, Put, Health,
       files, cache, outside, Raise
  <2>17. ReturnedIsCommitted'
    BY <1>0, <1>a, <1>6, <2>1, <2>2, GotoRun, FinishRun, NoneIsNoReport DEF
       CacheCand, IInv, TypeOK, ReturnedIsCommitted, NothingReturnedYet,
       FilesSoFar, KnowsMarker, Publishing, Put, Health, files, cache, outside,
       Raise
  <2> QED
    BY <2>8, <2>9, <2>10, <2>11, <2>12, <2>13, <2>14, <2>15, <2>16, <2>17 DEF IInv
<1>7. CASE WriteOpp
  <2>1. Goto("write-cand") /\ "write-cand" \in Phase
    BY <1>7 DEF WriteOpp, Phase
  <2>8. TypeOK'
    BY <1>0, <1>a, <1>7, <2>1, GotoRun DEF WriteOpp, TypeOK, Put, Health,
       Publishing, files, cache, outside
  <2>9. NothingReturnedYet'
    BY <1>0, <1>a, <1>7, <2>1, GotoRun, NoneIsNoReport DEF WriteOpp, IInv, TypeOK,
       NothingReturnedYet, Publishing, Put, Health, files, cache, outside
  <2>10. KnowsMarker'
    BY <1>0, <1>a, <1>7, <2>1, GotoRun, NoneIsNoReport DEF WriteOpp, IInv, TypeOK,
       KnowsMarker, Publishing, Put, Health, files, cache, outside
  <2>11. NewIsNext'
    BY <1>0, <1>a, <1>7, <2>1, GotoRun, NoneIsNoReport DEF WriteOpp, IInv, TypeOK,
       NewIsNext, KnowsMarker, Publishing, Put, Health, files, cache, outside
  <2>12. NewIsCached'
    BY <1>0, <1>a, <1>7, <2>1, GotoRun, NoneIsNoReport DEF WriteOpp, IInv, TypeOK,
       NewIsCached, CacheIsSound, NewIsNext, Publishing, Put, Health, files,
       cache, outside
  <2>13. CacheIsSound'
    BY <1>0, <1>a, <1>7, <2>1, GotoRun, NoneIsNoReport DEF WriteOpp, IInv, TypeOK,
       CacheIsSound, Publishing, Put, Health, files, cache, outside
  <2>14. FilesSoFar'
    BY <1>0, <1>a, <1>7, <2>1, GotoRun, NoneIsNoReport DEF WriteOpp, IInv, TypeOK,
       FilesSoFar, KnowsMarker, NewIsNext, Publishing, Put, Health, files, cache,
       outside
  <2>15. MarkerIsRestorable'
    BY <1>0, <1>a, <1>7, <2>1, GotoRun, NoneIsNoReport DEF WriteOpp, IInv, TypeOK,
       MarkerIsRestorable, NewIsCached, KnowsMarker, Publishing, Put, Health,
       files, cache, outside
  <2>16. ConflictNeedsOutsider'
    BY <1>0, <1>a, <1>7, <2>1, GotoRun, NoneIsNoReport DEF WriteOpp, IInv, TypeOK,
       ConflictNeedsOutsider, MarkerIsRestorable, FilesSoFar, KnowsMarker,
       NothingReturnedYet, Publishing, Put, Health, files, cache, outside
  <2>17. ReturnedIsCommitted'
    BY <1>0, <1>a, <1>7, <2>1, GotoRun, NoneIsNoReport DEF WriteOpp, IInv, TypeOK,
       ReturnedIsCommitted, NothingReturnedYet, FilesSoFar, KnowsMarker,
       Publishing, Put, Health, files, cache, outside
  <2> QED
    BY <2>8, <2>9, <2>10, <2>11, <2>12, <2>13, <2>14, <2>15, <2>16, <2>17 DEF IInv
<1>8. CASE WriteCand
  <2>1. Goto("write-report") /\ "write-report" \in Phase
    BY <1>8 DEF WriteCand, Phase
  <2>8. TypeOK'
    BY <1>0, <1>a, <1>8, <2>1, GotoRun DEF WriteCand, TypeOK, Put, Health,
       Publishing, files, cache, outside
  <2>9. NothingReturnedYet'
    BY <1>0, <1>a, <1>8, <2>1, GotoRun, NoneIsNoReport DEF WriteCand, IInv,
       TypeOK, NothingReturnedYet, Publishing, Put, Health, files, cache, outside
  <2>10. KnowsMarker'
    BY <1>0, <1>a, <1>8, <2>1, GotoRun, NoneIsNoReport DEF WriteCand, IInv,
       TypeOK, KnowsMarker, Publishing, Put, Health, files, cache, outside
  <2>11. NewIsNext'
    BY <1>0, <1>a, <1>8, <2>1, GotoRun, NoneIsNoReport DEF WriteCand, IInv,
       TypeOK, NewIsNext, KnowsMarker, Publishing, Put, Health, files, cache,
       outside
  <2>12. NewIsCached'
    BY <1>0, <1>a, <1>8, <2>1, GotoRun, NoneIsNoReport DEF WriteCand, IInv,
       TypeOK, NewIsCached, CacheIsSound, NewIsNext, Publishing, Put, Health,
       files, cache, outside
  <2>13. CacheIsSound'
    BY <1>0, <1>a, <1>8, <2>1, GotoRun, NoneIsNoReport DEF WriteCand, IInv,
       TypeOK, CacheIsSound, Publishing, Put, Health, files, cache, outside
  <2>14. FilesSoFar'
    BY <1>0, <1>a, <1>8, <2>1, GotoRun, NoneIsNoReport DEF WriteCand, IInv,
       TypeOK, FilesSoFar, KnowsMarker, NewIsNext, Publishing, Put, Health, files,
       cache, outside
  <2>15. MarkerIsRestorable'
    BY <1>0, <1>a, <1>8, <2>1, GotoRun, NoneIsNoReport DEF WriteCand, IInv,
       TypeOK, MarkerIsRestorable, NewIsCached, KnowsMarker, Publishing, Put,
       Health, files, cache, outside
  <2>16. ConflictNeedsOutsider'
    BY <1>0, <1>a, <1>8, <2>1, GotoRun, NoneIsNoReport DEF WriteCand, IInv,
       TypeOK, ConflictNeedsOutsider, MarkerIsRestorable, FilesSoFar, KnowsMarker,
       NothingReturnedYet, Publishing, Put, Health, files, cache, outside
  <2>17. ReturnedIsCommitted'
    BY <1>0, <1>a, <1>8, <2>1, GotoRun, NoneIsNoReport DEF WriteCand, IInv,
       TypeOK, ReturnedIsCommitted, NothingReturnedYet, FilesSoFar, KnowsMarker,
       Publishing, Put, Health, files, cache, outside
  <2> QED
    BY <2>8, <2>9, <2>10, <2>11, <2>12, <2>13, <2>14, <2>15, <2>16, <2>17 DEF IInv
<1>9. CASE WriteReport
  <2>1. Goto("load-new") /\ "load-new" \in Phase
    BY <1>9 DEF WriteReport, Phase
  <2>8. TypeOK'
    BY <1>0, <1>a, <1>9, <2>1, GotoRun DEF WriteReport, TypeOK, Put, Health,
       Publishing, files, cache, outside
  <2>9. NothingReturnedYet'
    BY <1>0, <1>a, <1>9, <2>1, GotoRun, NoneIsNoReport DEF WriteReport, IInv,
       TypeOK, NothingReturnedYet, Publishing, Put, Health, files, cache, outside
  <2>10. KnowsMarker'
    BY <1>0, <1>a, <1>9, <2>1, GotoRun, NoneIsNoReport DEF WriteReport, IInv,
       TypeOK, KnowsMarker, Publishing, Put, Health, files, cache, outside
  <2>11. NewIsNext'
    BY <1>0, <1>a, <1>9, <2>1, GotoRun, NoneIsNoReport DEF WriteReport, IInv,
       TypeOK, NewIsNext, KnowsMarker, Publishing, Put, Health, files, cache,
       outside
  <2>12. NewIsCached'
    BY <1>0, <1>a, <1>9, <2>1, GotoRun, NoneIsNoReport DEF WriteReport, IInv,
       TypeOK, NewIsCached, CacheIsSound, NewIsNext, Publishing, Put, Health,
       files, cache, outside
  <2>13. CacheIsSound'
    BY <1>0, <1>a, <1>9, <2>1, GotoRun, NoneIsNoReport DEF WriteReport, IInv,
       TypeOK, CacheIsSound, Publishing, Put, Health, files, cache, outside
  <2>14. FilesSoFar'
    BY <1>0, <1>a, <1>9, <2>1, GotoRun, NoneIsNoReport DEF WriteReport, IInv,
       TypeOK, FilesSoFar, KnowsMarker, NewIsNext, Publishing, Put, Health, files,
       cache, outside
  <2>15. MarkerIsRestorable'
    BY <1>0, <1>a, <1>9, <2>1, GotoRun, NoneIsNoReport DEF WriteReport, IInv,
       TypeOK, MarkerIsRestorable, NewIsCached, KnowsMarker, Publishing, Put,
       Health, files, cache, outside
  <2>16. ConflictNeedsOutsider'
    BY <1>0, <1>a, <1>9, <2>1, GotoRun, NoneIsNoReport DEF WriteReport, IInv,
       TypeOK, ConflictNeedsOutsider, MarkerIsRestorable, FilesSoFar, KnowsMarker,
       NothingReturnedYet, Publishing, Put, Health, files, cache, outside
  <2>17. ReturnedIsCommitted'
    BY <1>0, <1>a, <1>9, <2>1, GotoRun, NoneIsNoReport DEF WriteReport, IInv,
       TypeOK, ReturnedIsCommitted, NothingReturnedYet, FilesSoFar, KnowsMarker,
       Publishing, Put, Health, files, cache, outside
  <2> QED
    BY <2>8, <2>9, <2>10, <2>11, <2>12, <2>13, <2>14, <2>15, <2>16, <2>17 DEF IInv
<1>10. CASE Reuse
  <2>1. Finish("reused", run.committed) /\ "reused" \in Result
    BY <1>10 DEF Reuse, Raise, Result
  <2>8. TypeOK'
    BY <1>0, <1>10, <2>1, FinishRun DEF Reuse, TypeOK, Put, Health, files, cache,
       outside, SameKey
  <2>9. NothingReturnedYet'
    BY <1>0, <1>10, <2>1, FinishRun, NoneIsNoReport DEF Reuse, IInv, TypeOK,
       NothingReturnedYet, Publishing, Put, Health, files, cache, outside, SameKey
  <2>10. KnowsMarker'
    BY <1>0, <1>10, <2>1, FinishRun, NoneIsNoReport DEF Reuse, IInv, TypeOK,
       KnowsMarker, Publishing, Put, Health, files, cache, outside, SameKey
  <2>11. NewIsNext'
    BY <1>0, <1>10, <2>1, FinishRun, NoneIsNoReport DEF Reuse, IInv, TypeOK,
       NewIsNext, KnowsMarker, Publishing, Put, Health, files, cache, outside,
       SameKey
  <2>12. NewIsCached'
    BY <1>0, <1>10, <2>1, FinishRun, NoneIsNoReport DEF Reuse, IInv, TypeOK,
       NewIsCached, CacheIsSound, NewIsNext, Publishing, Put, Health, files,
       cache, outside, SameKey
  <2>13. CacheIsSound'
    BY <1>0, <1>10, <2>1, FinishRun, NoneIsNoReport DEF Reuse, IInv, TypeOK,
       CacheIsSound, Publishing, Put, Health, files, cache, outside, SameKey
  <2>14. FilesSoFar'
    BY <1>0, <1>10, <2>1, FinishRun, NoneIsNoReport DEF Reuse, IInv, TypeOK,
       FilesSoFar, KnowsMarker, NewIsNext, Publishing, Put, Health, files, cache,
       outside, SameKey
  <2>15. MarkerIsRestorable'
    BY <1>0, <1>10, <2>1, FinishRun, NoneIsNoReport DEF Reuse, IInv, TypeOK,
       MarkerIsRestorable, NewIsCached, KnowsMarker, Publishing, Put, Health,
       files, cache, outside, SameKey
  <2>16. ConflictNeedsOutsider'
    BY <1>0, <1>10, <2>1, FinishRun, NoneIsNoReport DEF Reuse, IInv, TypeOK,
       ConflictNeedsOutsider, MarkerIsRestorable, FilesSoFar, KnowsMarker,
       NothingReturnedYet, Publishing, Put, Health, files, cache, outside, SameKey
  <2>17. ReturnedIsCommitted'
    BY <1>0, <1>10, <2>1, FinishRun, NoneIsNoReport DEF Reuse, IInv, TypeOK,
       ReturnedIsCommitted, NothingReturnedYet, FilesSoFar, KnowsMarker,
       Publishing, Put, Health, files, cache, outside, SameKey
  <2> QED
    BY <2>8, <2>9, <2>10, <2>11, <2>12, <2>13, <2>14, <2>15, <2>16, <2>17 DEF IInv
<1>11. CASE Refuse
  <2>1. Finish("refused", None) /\ "refused" \in Result
    BY <1>11 DEF Refuse, Raise, Result
  <2>8. TypeOK'
    BY <1>0, <1>11, <2>1, FinishRun DEF Refuse, TypeOK, Put, Health, files, cache,
       outside
  <2>9. NothingReturnedYet'
    BY <1>0, <1>11, <2>1, FinishRun, NoneIsNoReport DEF Refuse, IInv, TypeOK,
       NothingReturnedYet, Publishing, Put, Health, files, cache, outside
  <2>10. KnowsMarker'
    BY <1>0, <1>11, <2>1, FinishRun, NoneIsNoReport DEF Refuse, IInv, TypeOK,
       KnowsMarker, Publishing, Put, Health, files, cache, outside
  <2>11. NewIsNext'
    BY <1>0, <1>11, <2>1, FinishRun, NoneIsNoReport DEF Refuse, IInv, TypeOK,
       NewIsNext, KnowsMarker, Publishing, Put, Health, files, cache, outside
  <2>12. NewIsCached'
    BY <1>0, <1>11, <2>1, FinishRun, NoneIsNoReport DEF Refuse, IInv, TypeOK,
       NewIsCached, CacheIsSound, NewIsNext, Publishing, Put, Health, files,
       cache, outside
  <2>13. CacheIsSound'
    BY <1>0, <1>11, <2>1, FinishRun, NoneIsNoReport DEF Refuse, IInv, TypeOK,
       CacheIsSound, Publishing, Put, Health, files, cache, outside
  <2>14. FilesSoFar'
    BY <1>0, <1>11, <2>1, FinishRun, NoneIsNoReport DEF Refuse, IInv, TypeOK,
       FilesSoFar, KnowsMarker, NewIsNext, Publishing, Put, Health, files, cache,
       outside
  <2>15. MarkerIsRestorable'
    BY <1>0, <1>11, <2>1, FinishRun, NoneIsNoReport DEF Refuse, IInv, TypeOK,
       MarkerIsRestorable, NewIsCached, KnowsMarker, Publishing, Put, Health,
       files, cache, outside
  <2>16. ConflictNeedsOutsider'
    BY <1>0, <1>11, <2>1, FinishRun, NoneIsNoReport DEF Refuse, IInv, TypeOK,
       ConflictNeedsOutsider, MarkerIsRestorable, FilesSoFar, KnowsMarker,
       NothingReturnedYet, Publishing, Put, Health, files, cache, outside
  <2>17. ReturnedIsCommitted'
    BY <1>0, <1>11, <2>1, FinishRun, NoneIsNoReport DEF Refuse, IInv, TypeOK,
       ReturnedIsCommitted, NothingReturnedYet, FilesSoFar, KnowsMarker,
       Publishing, Put, Health, files, cache, outside
  <2> QED
    BY <2>8, <2>9, <2>10, <2>11, <2>12, <2>13, <2>14, <2>15, <2>16, <2>17 DEF IInv
<1>12. CASE ProviderFails
  <2>1. Finish("failed", None) /\ "failed" \in Result
    BY <1>12 DEF ProviderFails, Raise, Result
  <2>8. TypeOK'
    BY <1>0, <1>12, <2>1, FinishRun DEF ProviderFails, TypeOK, Put, Health, files,
       cache, outside
  <2>9. NothingReturnedYet'
    BY <1>0, <1>12, <2>1, FinishRun, NoneIsNoReport DEF ProviderFails, IInv,
       TypeOK, NothingReturnedYet, Publishing, Put, Health, files, cache, outside
  <2>10. KnowsMarker'
    BY <1>0, <1>12, <2>1, FinishRun, NoneIsNoReport DEF ProviderFails, IInv,
       TypeOK, KnowsMarker, Publishing, Put, Health, files, cache, outside
  <2>11. NewIsNext'
    BY <1>0, <1>12, <2>1, FinishRun, NoneIsNoReport DEF ProviderFails, IInv,
       TypeOK, NewIsNext, KnowsMarker, Publishing, Put, Health, files, cache,
       outside
  <2>12. NewIsCached'
    BY <1>0, <1>12, <2>1, FinishRun, NoneIsNoReport DEF ProviderFails, IInv,
       TypeOK, NewIsCached, CacheIsSound, NewIsNext, Publishing, Put, Health,
       files, cache, outside
  <2>13. CacheIsSound'
    BY <1>0, <1>12, <2>1, FinishRun, NoneIsNoReport DEF ProviderFails, IInv,
       TypeOK, CacheIsSound, Publishing, Put, Health, files, cache, outside
  <2>14. FilesSoFar'
    BY <1>0, <1>12, <2>1, FinishRun, NoneIsNoReport DEF ProviderFails, IInv,
       TypeOK, FilesSoFar, KnowsMarker, NewIsNext, Publishing, Put, Health, files,
       cache, outside
  <2>15. MarkerIsRestorable'
    BY <1>0, <1>12, <2>1, FinishRun, NoneIsNoReport DEF ProviderFails, IInv,
       TypeOK, MarkerIsRestorable, NewIsCached, KnowsMarker, Publishing, Put,
       Health, files, cache, outside
  <2>16. ConflictNeedsOutsider'
    BY <1>0, <1>12, <2>1, FinishRun, NoneIsNoReport DEF ProviderFails, IInv,
       TypeOK, ConflictNeedsOutsider, MarkerIsRestorable, FilesSoFar, KnowsMarker,
       NothingReturnedYet, Publishing, Put, Health, files, cache, outside
  <2>17. ReturnedIsCommitted'
    BY <1>0, <1>12, <2>1, FinishRun, NoneIsNoReport DEF ProviderFails, IInv,
       TypeOK, ReturnedIsCommitted, NothingReturnedYet, FilesSoFar, KnowsMarker,
       Publishing, Put, Health, files, cache, outside
  <2> QED
    BY <2>8, <2>9, <2>10, <2>11, <2>12, <2>13, <2>14, <2>15, <2>16, <2>17 DEF IInv
<1>13. CASE LoadCommitted
  <2>1. \/ /\ Consistent(marker)
           /\ run' \in Run /\ run'.at = "decide" /\ run'.committed = marker
           /\ run'.mode = run.mode /\ run'.regenerate = run.regenerate
           /\ run'.science = run.science /\ run'.new = run.new
           /\ run'.result = run.result /\ run'.bundle = run.bundle
        \/ ~Consistent(marker) /\ Finish("conflict", None)
    BY <1>13 DEF LoadCommitted, Raise, TypeOK, Run, Phase
  <2>2. "conflict" \in Result
    BY DEF Result
  <2>8. TypeOK'
    BY <1>0, <1>13, <2>1, <2>2, FinishRun DEF LoadCommitted, TypeOK, Put, Health,
       files, cache, outside, Consistent
  <2>9. NothingReturnedYet'
    BY <1>0, <1>13, <2>1, <2>2, FinishRun, NoneIsNoReport DEF LoadCommitted, IInv,
       TypeOK, NothingReturnedYet, Publishing, Put, Health, files, cache, outside,
       Consistent
  <2>10. KnowsMarker'
    BY <1>0, <1>13, <2>1, <2>2, FinishRun, NoneIsNoReport DEF LoadCommitted, IInv,
       TypeOK, KnowsMarker, Publishing, Put, Health, files, cache, outside,
       Consistent
  <2>11. NewIsNext'
    BY <1>0, <1>13, <2>1, <2>2, FinishRun, NoneIsNoReport DEF LoadCommitted, IInv,
       TypeOK, NewIsNext, KnowsMarker, Publishing, Put, Health, files, cache,
       outside, Consistent
  <2>12. NewIsCached'
    BY <1>0, <1>13, <2>1, <2>2, FinishRun, NoneIsNoReport DEF LoadCommitted, IInv,
       TypeOK, NewIsCached, CacheIsSound, NewIsNext, Publishing, Put, Health,
       files, cache, outside, Consistent
  <2>13. CacheIsSound'
    BY <1>0, <1>13, <2>1, <2>2, FinishRun, NoneIsNoReport DEF LoadCommitted, IInv,
       TypeOK, CacheIsSound, Publishing, Put, Health, files, cache, outside,
       Consistent
  <2>14. FilesSoFar'
    BY <1>0, <1>13, <2>1, <2>2, FinishRun, NoneIsNoReport DEF LoadCommitted, IInv,
       TypeOK, FilesSoFar, KnowsMarker, NewIsNext, Publishing, Put, Health, files,
       cache, outside, Consistent
  <2>15. MarkerIsRestorable'
    BY <1>0, <1>13, <2>1, <2>2, FinishRun, NoneIsNoReport DEF LoadCommitted, IInv,
       TypeOK, MarkerIsRestorable, NewIsCached, KnowsMarker, Publishing, Put,
       Health, files, cache, outside, Consistent
  <2>16. ConflictNeedsOutsider'
    BY <1>0, <1>13, <2>1, <2>2, FinishRun, NoneIsNoReport DEF LoadCommitted, IInv,
       TypeOK, ConflictNeedsOutsider, MarkerIsRestorable, FilesSoFar, KnowsMarker,
       NothingReturnedYet, Publishing, Put, Health, files, cache, outside,
       Consistent
  <2>17. ReturnedIsCommitted'
    BY <1>0, <1>13, <2>1, <2>2, FinishRun, NoneIsNoReport DEF LoadCommitted, IInv,
       TypeOK, ReturnedIsCommitted, NothingReturnedYet, FilesSoFar, KnowsMarker,
       Publishing, Put, Health, files, cache, outside, Consistent
  <2> QED
    BY <2>8, <2>9, <2>10, <2>11, <2>12, <2>13, <2>14, <2>15, <2>16, <2>17 DEF IInv
<1>14. CASE LoadNew
  <2>1. \/ Consistent(marker) /\ Finish("generated", marker)
        \/ ~Consistent(marker) /\ Finish("conflict", None)
    <3>1. ASSUME Consistent(marker)
          PROVE  marker = [marker EXCEPT !.opp = oppFile, !.cand = candFile]
      BY <1>14, <3>1 DEF LoadNew, IInv, KnowsMarker, TypeOK, Report, Consistent
    <3> QED
      BY <1>14, <3>1 DEF LoadNew, Raise
  <2>2. "conflict" \in Result /\ "generated" \in Result
    BY DEF Result
  <2>8. TypeOK'
    BY <1>0, <1>14, <2>1, <2>2, FinishRun DEF LoadNew, TypeOK, Put, Health, files,
       cache, outside, Consistent
  <2>9. NothingReturnedYet'
    BY <1>0, <1>14, <2>1, <2>2, FinishRun, NoneIsNoReport DEF LoadNew, IInv,
       TypeOK, NothingReturnedYet, Publishing, Put, Health, files, cache, outside,
       Consistent
  <2>10. KnowsMarker'
    BY <1>0, <1>14, <2>1, <2>2, FinishRun, NoneIsNoReport DEF LoadNew, IInv,
       TypeOK, KnowsMarker, Publishing, Put, Health, files, cache, outside,
       Consistent
  <2>11. NewIsNext'
    BY <1>0, <1>14, <2>1, <2>2, FinishRun, NoneIsNoReport DEF LoadNew, IInv,
       TypeOK, NewIsNext, KnowsMarker, Publishing, Put, Health, files, cache,
       outside, Consistent
  <2>12. NewIsCached'
    BY <1>0, <1>14, <2>1, <2>2, FinishRun, NoneIsNoReport DEF LoadNew, IInv,
       TypeOK, NewIsCached, CacheIsSound, NewIsNext, Publishing, Put, Health,
       files, cache, outside, Consistent
  <2>13. CacheIsSound'
    BY <1>0, <1>14, <2>1, <2>2, FinishRun, NoneIsNoReport DEF LoadNew, IInv,
       TypeOK, CacheIsSound, Publishing, Put, Health, files, cache, outside,
       Consistent
  <2>14. FilesSoFar'
    BY <1>0, <1>14, <2>1, <2>2, FinishRun, NoneIsNoReport DEF LoadNew, IInv,
       TypeOK, FilesSoFar, KnowsMarker, NewIsNext, Publishing, Put, Health, files,
       cache, outside, Consistent
  <2>15. MarkerIsRestorable'
    BY <1>0, <1>14, <2>1, <2>2, FinishRun, NoneIsNoReport DEF LoadNew, IInv,
       TypeOK, MarkerIsRestorable, NewIsCached, KnowsMarker, Publishing, Put,
       Health, files, cache, outside, Consistent
  <2>16. ConflictNeedsOutsider'
    BY <1>0, <1>14, <2>1, <2>2, FinishRun, NoneIsNoReport DEF LoadNew, IInv,
       TypeOK, ConflictNeedsOutsider, MarkerIsRestorable, FilesSoFar, KnowsMarker,
       NothingReturnedYet, Publishing, Put, Health, files, cache, outside,
       Consistent
  <2>17. ReturnedIsCommitted'
    BY <1>0, <1>14, <2>1, <2>2, FinishRun, NoneIsNoReport DEF LoadNew, IInv,
       TypeOK, ReturnedIsCommitted, NothingReturnedYet, FilesSoFar, KnowsMarker,
       Publishing, Put, Health, files, cache, outside, Consistent
  <2> QED
    BY <2>8, <2>9, <2>10, <2>11, <2>12, <2>13, <2>14, <2>15, <2>16, <2>17 DEF IInv
<1>15. ASSUME NEW w \in Wording, Generate(w) PROVE IInv'
  <2> DEFINE new == [science |-> run.science, mode |-> run.mode, opp |-> OppOf[run.science],
                     cand |-> <<OppOf[run.science], w>>, revision |-> NextRevision]
  <2>1. new \in Report
    BY <1>0 DEF Report, Candidate, NextRevision
  <2>2. /\ run' \in Run /\ run'.at = "cache-opp" /\ run'.new = new
        /\ run'.committed = run.committed /\ run'.mode = run.mode
        /\ run'.regenerate = run.regenerate /\ run'.science = run.science
        /\ run'.result = run.result /\ run'.bundle = run.bundle
    BY <1>15, <2>1 DEF Generate, TypeOK, Run, Phase
  <2>3. run.at = "decide" /\ (run.committed # None /\ ~run.regenerate => run.committed.science # run.science)
    BY <1>15 DEF Generate, MustGenerate
  <2>8. TypeOK'
    BY <1>0, <1>15, <2>1, <2>2, <2>3 DEF Generate, TypeOK, Put, Health, files,
       cache, outside, NextRevision
  <2>9. NothingReturnedYet'
    BY <1>0, <1>15, <2>1, <2>2, <2>3, NoneIsNoReport DEF Generate, IInv, TypeOK,
       NothingReturnedYet, Publishing, Put, Health, files, cache, outside,
       NextRevision
  <2>10. KnowsMarker'
    BY <1>0, <1>15, <2>1, <2>2, <2>3, NoneIsNoReport DEF Generate, IInv, TypeOK,
       KnowsMarker, Publishing, Put, Health, files, cache, outside, NextRevision
  <2>11. NewIsNext'
    BY <1>0, <1>15, <2>1, <2>2, <2>3, NoneIsNoReport DEF Generate, IInv, TypeOK,
       NewIsNext, KnowsMarker, Publishing, Put, Health, files, cache, outside,
       NextRevision
  <2>12. NewIsCached'
    BY <1>0, <1>15, <2>1, <2>2, <2>3, NoneIsNoReport DEF Generate, IInv, TypeOK,
       NewIsCached, CacheIsSound, NewIsNext, Publishing, Put, Health, files,
       cache, outside, NextRevision
  <2>13. CacheIsSound'
    BY <1>0, <1>15, <2>1, <2>2, <2>3, NoneIsNoReport DEF Generate, IInv, TypeOK,
       CacheIsSound, Publishing, Put, Health, files, cache, outside, NextRevision
  <2>14. FilesSoFar'
    BY <1>0, <1>15, <2>1, <2>2, <2>3, NoneIsNoReport DEF Generate, IInv, TypeOK,
       FilesSoFar, KnowsMarker, NewIsNext, Publishing, Put, Health, files, cache,
       outside, NextRevision
  <2>15. MarkerIsRestorable'
    BY <1>0, <1>15, <2>1, <2>2, <2>3, NoneIsNoReport DEF Generate, IInv, TypeOK,
       MarkerIsRestorable, NewIsCached, KnowsMarker, Publishing, Put, Health,
       files, cache, outside, NextRevision
  <2>16. ConflictNeedsOutsider'
    BY <1>0, <1>15, <2>1, <2>2, <2>3, NoneIsNoReport DEF Generate, IInv, TypeOK,
       ConflictNeedsOutsider, MarkerIsRestorable, FilesSoFar, KnowsMarker,
       NothingReturnedYet, Publishing, Put, Health, files, cache, outside,
       NextRevision
  <2>17. ReturnedIsCommitted'
    BY <1>0, <1>15, <2>1, <2>2, <2>3, NoneIsNoReport DEF Generate, IInv, TypeOK,
       ReturnedIsCommitted, NothingReturnedYet, FilesSoFar, KnowsMarker,
       Publishing, Put, Health, files, cache, outside, NextRevision
  <2> QED
    BY <2>8, <2>9, <2>10, <2>11, <2>12, <2>13, <2>14, <2>15, <2>16, <2>17 DEF IInv
<1> QED
  BY <1>1, <1>2, <1>3, <1>4, <1>5, <1>6, <1>7, <1>8, <1>9, <1>10, <1>11, <1>12,
     <1>13, <1>14, <1>15 DEF Call

LEMMA NextIInv == IInv /\ [Next]_vars => IInv'
<1> SUFFICES ASSUME IInv, [Next]_vars PROVE IInv'
  OBVIOUS
<1> TypeOK
  BY DEF IInv
<1>0. /\ \A r \in Report : r.opp \in Opportunity /\ r.cand \in Candidate
      /\ run.new \in Report \cup {None} /\ run.at \in Phase
  BY DEF TypeOK, Run, Report
<1>1. ASSUME NEW m \in Mode, NEW b \in BOOLEAN, Start(m, b) PROVE IInv'
  <2>1. /\ run' \in Run /\ run'.at = "recover" /\ run'.committed = None
        /\ run'.result = "none" /\ run'.bundle = None
    BY <1>1 DEF Start, TypeOK, Run, Phase, Result
  <2>8. TypeOK'
    BY <1>0, <1>1, <2>1, GenBounds DEF Start, TypeOK, Put, Health, files, cache, outside
  <2>9. NothingReturnedYet'
    BY <1>0, <1>1, <2>1, GenBounds, NoneIsNoReport DEF Start, IInv, TypeOK,
       NothingReturnedYet, Publishing, Put, Health, files, cache, outside
  <2>10. KnowsMarker'
    BY <1>0, <1>1, <2>1, GenBounds, NoneIsNoReport DEF Start, IInv, TypeOK,
       KnowsMarker, Publishing, Put, Health, files, cache, outside
  <2>11. NewIsNext'
    BY <1>0, <1>1, <2>1, GenBounds, NoneIsNoReport DEF Start, IInv, TypeOK,
       NewIsNext, KnowsMarker, Publishing, Put, Health, files, cache, outside
  <2>12. NewIsCached'
    BY <1>0, <1>1, <2>1, GenBounds, NoneIsNoReport DEF Start, IInv, TypeOK,
       NewIsCached, CacheIsSound, NewIsNext, Publishing, Put, Health, files,
       cache, outside
  <2>13. CacheIsSound'
    BY <1>0, <1>1, <2>1, GenBounds, NoneIsNoReport DEF Start, IInv, TypeOK,
       CacheIsSound, Publishing, Put, Health, files, cache, outside
  <2>14. FilesSoFar'
    BY <1>0, <1>1, <2>1, GenBounds, NoneIsNoReport DEF Start, IInv, TypeOK,
       FilesSoFar, KnowsMarker, NewIsNext, Publishing, Put, Health, files, cache,
       outside
  <2>15. MarkerIsRestorable'
    BY <1>0, <1>1, <2>1, GenBounds, NoneIsNoReport DEF Start, IInv, TypeOK,
       MarkerIsRestorable, NewIsCached, KnowsMarker, Publishing, Put, Health,
       files, cache, outside
  <2>16. ConflictNeedsOutsider'
    BY <1>0, <1>1, <2>1, GenBounds, NoneIsNoReport DEF Start, IInv, TypeOK,
       ConflictNeedsOutsider, MarkerIsRestorable, FilesSoFar, KnowsMarker,
       NothingReturnedYet, Publishing, Put, Health, files, cache, outside
  <2>17. ReturnedIsCommitted'
    BY <1>0, <1>1, <2>1, GenBounds, NoneIsNoReport DEF Start, IInv, TypeOK,
       ReturnedIsCommitted, NothingReturnedYet, FilesSoFar, KnowsMarker,
       Publishing, Put, Health, files, cache, outside
  <2> QED
    BY <2>8, <2>9, <2>10, <2>11, <2>12, <2>13, <2>14, <2>15, <2>16, <2>17 DEF IInv
<1>2. ASSUME NEW why \in {"failed", "killed"}, Stop(why) PROVE IInv'
  <2>1. Finish(why, None) /\ why \in Result
    BY <1>2 DEF Stop, Raise, Result
  <2>8. TypeOK'
    BY <1>0, <1>2, <2>1, FinishRun, GenBounds DEF Stop, TypeOK, Put, Health,
       files, cache, outside
  <2>9. NothingReturnedYet'
    BY <1>0, <1>2, <2>1, FinishRun, GenBounds, NoneIsNoReport DEF Stop, IInv,
       TypeOK, NothingReturnedYet, Publishing, Put, Health, files, cache, outside
  <2>10. KnowsMarker'
    BY <1>0, <1>2, <2>1, FinishRun, GenBounds, NoneIsNoReport DEF Stop, IInv,
       TypeOK, KnowsMarker, Publishing, Put, Health, files, cache, outside
  <2>11. NewIsNext'
    BY <1>0, <1>2, <2>1, FinishRun, GenBounds, NoneIsNoReport DEF Stop, IInv,
       TypeOK, NewIsNext, KnowsMarker, Publishing, Put, Health, files, cache,
       outside
  <2>12. NewIsCached'
    BY <1>0, <1>2, <2>1, FinishRun, GenBounds, NoneIsNoReport DEF Stop, IInv,
       TypeOK, NewIsCached, CacheIsSound, NewIsNext, Publishing, Put, Health,
       files, cache, outside
  <2>13. CacheIsSound'
    BY <1>0, <1>2, <2>1, FinishRun, GenBounds, NoneIsNoReport DEF Stop, IInv,
       TypeOK, CacheIsSound, Publishing, Put, Health, files, cache, outside
  <2>14. FilesSoFar'
    BY <1>0, <1>2, <2>1, FinishRun, GenBounds, NoneIsNoReport DEF Stop, IInv,
       TypeOK, FilesSoFar, KnowsMarker, NewIsNext, Publishing, Put, Health, files,
       cache, outside
  <2>15. MarkerIsRestorable'
    BY <1>0, <1>2, <2>1, FinishRun, GenBounds, NoneIsNoReport DEF Stop, IInv,
       TypeOK, MarkerIsRestorable, NewIsCached, KnowsMarker, Publishing, Put,
       Health, files, cache, outside
  <2>16. ConflictNeedsOutsider'
    BY <1>0, <1>2, <2>1, FinishRun, GenBounds, NoneIsNoReport DEF Stop, IInv,
       TypeOK, ConflictNeedsOutsider, MarkerIsRestorable, FilesSoFar, KnowsMarker,
       NothingReturnedYet, Publishing, Put, Health, files, cache, outside
  <2>17. ReturnedIsCommitted'
    BY <1>0, <1>2, <2>1, FinishRun, GenBounds, NoneIsNoReport DEF Stop, IInv,
       TypeOK, ReturnedIsCommitted, NothingReturnedYet, FilesSoFar, KnowsMarker,
       Publishing, Put, Health, files, cache, outside
  <2> QED
    BY <2>8, <2>9, <2>10, <2>11, <2>12, <2>13, <2>14, <2>15, <2>16, <2>17 DEF IInv
<1>3. ASSUME NEW s \in Science, ChangeScience(s) PROVE IInv'
  <2>8. TypeOK'
    BY <1>0, <1>3, GenBounds DEF ChangeScience, TypeOK, Put, Health, files, cache,
       outside
  <2>9. NothingReturnedYet'
    BY <1>0, <1>3, GenBounds, NoneIsNoReport DEF ChangeScience, IInv, TypeOK,
       NothingReturnedYet, Publishing, Put, Health, files, cache, outside
  <2>10. KnowsMarker'
    BY <1>0, <1>3, GenBounds, NoneIsNoReport DEF ChangeScience, IInv, TypeOK,
       KnowsMarker, Publishing, Put, Health, files, cache, outside
  <2>11. NewIsNext'
    BY <1>0, <1>3, GenBounds, NoneIsNoReport DEF ChangeScience, IInv, TypeOK,
       NewIsNext, KnowsMarker, Publishing, Put, Health, files, cache, outside
  <2>12. NewIsCached'
    BY <1>0, <1>3, GenBounds, NoneIsNoReport DEF ChangeScience, IInv, TypeOK,
       NewIsCached, CacheIsSound, NewIsNext, Publishing, Put, Health, files,
       cache, outside
  <2>13. CacheIsSound'
    BY <1>0, <1>3, GenBounds, NoneIsNoReport DEF ChangeScience, IInv, TypeOK,
       CacheIsSound, Publishing, Put, Health, files, cache, outside
  <2>14. FilesSoFar'
    BY <1>0, <1>3, GenBounds, NoneIsNoReport DEF ChangeScience, IInv, TypeOK,
       FilesSoFar, KnowsMarker, NewIsNext, Publishing, Put, Health, files, cache,
       outside
  <2>15. MarkerIsRestorable'
    BY <1>0, <1>3, GenBounds, NoneIsNoReport DEF ChangeScience, IInv, TypeOK,
       MarkerIsRestorable, NewIsCached, KnowsMarker, Publishing, Put, Health,
       files, cache, outside
  <2>16. ConflictNeedsOutsider'
    BY <1>0, <1>3, GenBounds, NoneIsNoReport DEF ChangeScience, IInv, TypeOK,
       ConflictNeedsOutsider, MarkerIsRestorable, FilesSoFar, KnowsMarker,
       NothingReturnedYet, Publishing, Put, Health, files, cache, outside
  <2>17. ReturnedIsCommitted'
    BY <1>0, <1>3, GenBounds, NoneIsNoReport DEF ChangeScience, IInv, TypeOK,
       ReturnedIsCommitted, NothingReturnedYet, FilesSoFar, KnowsMarker,
       Publishing, Put, Health, files, cache, outside
  <2> QED
    BY <2>8, <2>9, <2>10, <2>11, <2>12, <2>13, <2>14, <2>15, <2>16, <2>17 DEF IInv
<1>4. ASSUME Touch PROVE IInv'
  <2>8. TypeOK'
    BY <1>0, <1>4, GenBounds DEF Touch, TypeOK, Put, Health, files, cache, outside
  <2>9. NothingReturnedYet'
    BY <1>0, <1>4, GenBounds, NoneIsNoReport DEF Touch, IInv, TypeOK,
       NothingReturnedYet, Publishing, Put, Health, files, cache, outside
  <2>10. KnowsMarker'
    BY <1>0, <1>4, GenBounds, NoneIsNoReport DEF Touch, IInv, TypeOK, KnowsMarker,
       Publishing, Put, Health, files, cache, outside
  <2>11. NewIsNext'
    BY <1>0, <1>4, GenBounds, NoneIsNoReport DEF Touch, IInv, TypeOK, NewIsNext,
       KnowsMarker, Publishing, Put, Health, files, cache, outside
  <2>12. NewIsCached'
    BY <1>0, <1>4, GenBounds, NoneIsNoReport DEF Touch, IInv, TypeOK, NewIsCached,
       CacheIsSound, NewIsNext, Publishing, Put, Health, files, cache, outside
  <2>13. CacheIsSound'
    BY <1>0, <1>4, GenBounds, NoneIsNoReport DEF Touch, IInv, TypeOK,
       CacheIsSound, Publishing, Put, Health, files, cache, outside
  <2>14. FilesSoFar'
    BY <1>0, <1>4, GenBounds, NoneIsNoReport DEF Touch, IInv, TypeOK, FilesSoFar,
       KnowsMarker, NewIsNext, Publishing, Put, Health, files, cache, outside
  <2>15. MarkerIsRestorable'
    BY <1>0, <1>4, GenBounds, NoneIsNoReport DEF Touch, IInv, TypeOK,
       MarkerIsRestorable, NewIsCached, KnowsMarker, Publishing, Put, Health,
       files, cache, outside
  <2>16. ConflictNeedsOutsider'
    BY <1>0, <1>4, GenBounds, NoneIsNoReport DEF Touch, IInv, TypeOK,
       ConflictNeedsOutsider, MarkerIsRestorable, FilesSoFar, KnowsMarker,
       NothingReturnedYet, Publishing, Put, Health, files, cache, outside
  <2>17. ReturnedIsCommitted'
    BY <1>0, <1>4, GenBounds, NoneIsNoReport DEF Touch, IInv, TypeOK,
       ReturnedIsCommitted, NothingReturnedYet, FilesSoFar, KnowsMarker,
       Publishing, Put, Health, files, cache, outside
  <2> QED
    BY <2>8, <2>9, <2>10, <2>11, <2>12, <2>13, <2>14, <2>15, <2>16, <2>17 DEF IInv
<1>5. ASSUME Damage PROVE IInv'
  <2>8. TypeOK'
    BY <1>0, <1>5, GenBounds DEF Damage, TypeOK, Put, Health, files, cache, outside
  <2>9. NothingReturnedYet'
    BY <1>0, <1>5, GenBounds, NoneIsNoReport DEF Damage, IInv, TypeOK,
       NothingReturnedYet, Publishing, Put, Health, files, cache, outside
  <2>10. KnowsMarker'
    BY <1>0, <1>5, GenBounds, NoneIsNoReport DEF Damage, IInv, TypeOK,
       KnowsMarker, Publishing, Put, Health, files, cache, outside
  <2>11. NewIsNext'
    BY <1>0, <1>5, GenBounds, NoneIsNoReport DEF Damage, IInv, TypeOK, NewIsNext,
       KnowsMarker, Publishing, Put, Health, files, cache, outside
  <2>12. NewIsCached'
    BY <1>0, <1>5, GenBounds, NoneIsNoReport DEF Damage, IInv, TypeOK,
       NewIsCached, CacheIsSound, NewIsNext, Publishing, Put, Health, files,
       cache, outside
  <2>13. CacheIsSound'
    BY <1>0, <1>5, GenBounds, NoneIsNoReport DEF Damage, IInv, TypeOK,
       CacheIsSound, Publishing, Put, Health, files, cache, outside
  <2>14. FilesSoFar'
    BY <1>0, <1>5, GenBounds, NoneIsNoReport DEF Damage, IInv, TypeOK, FilesSoFar,
       KnowsMarker, NewIsNext, Publishing, Put, Health, files, cache, outside
  <2>15. MarkerIsRestorable'
    BY <1>0, <1>5, GenBounds, NoneIsNoReport DEF Damage, IInv, TypeOK,
       MarkerIsRestorable, NewIsCached, KnowsMarker, Publishing, Put, Health,
       files, cache, outside
  <2>16. ConflictNeedsOutsider'
    BY <1>0, <1>5, GenBounds, NoneIsNoReport DEF Damage, IInv, TypeOK,
       ConflictNeedsOutsider, MarkerIsRestorable, FilesSoFar, KnowsMarker,
       NothingReturnedYet, Publishing, Put, Health, files, cache, outside
  <2>17. ReturnedIsCommitted'
    BY <1>0, <1>5, GenBounds, NoneIsNoReport DEF Damage, IInv, TypeOK,
       ReturnedIsCommitted, NothingReturnedYet, FilesSoFar, KnowsMarker,
       Publishing, Put, Health, files, cache, outside
  <2> QED
    BY <2>8, <2>9, <2>10, <2>11, <2>12, <2>13, <2>14, <2>15, <2>16, <2>17 DEF IInv
<1>6. ASSUME UNCHANGED vars PROVE IInv'
  <2>8. TypeOK'
    BY <1>0, <1>6, GenBounds DEF vars, TypeOK, Put, Health, files, cache, outside, vars
  <2>9. NothingReturnedYet'
    BY <1>0, <1>6, GenBounds, NoneIsNoReport DEF vars, IInv, TypeOK,
       NothingReturnedYet, Publishing, Put, Health, files, cache, outside, vars
  <2>10. KnowsMarker'
    BY <1>0, <1>6, GenBounds, NoneIsNoReport DEF vars, IInv, TypeOK, KnowsMarker,
       Publishing, Put, Health, files, cache, outside, vars
  <2>11. NewIsNext'
    BY <1>0, <1>6, GenBounds, NoneIsNoReport DEF vars, IInv, TypeOK, NewIsNext,
       KnowsMarker, Publishing, Put, Health, files, cache, outside, vars
  <2>12. NewIsCached'
    BY <1>0, <1>6, GenBounds, NoneIsNoReport DEF vars, IInv, TypeOK, NewIsCached,
       CacheIsSound, NewIsNext, Publishing, Put, Health, files, cache, outside,
       vars
  <2>13. CacheIsSound'
    BY <1>0, <1>6, GenBounds, NoneIsNoReport DEF vars, IInv, TypeOK, CacheIsSound,
       Publishing, Put, Health, files, cache, outside, vars
  <2>14. FilesSoFar'
    BY <1>0, <1>6, GenBounds, NoneIsNoReport DEF vars, IInv, TypeOK, FilesSoFar,
       KnowsMarker, NewIsNext, Publishing, Put, Health, files, cache, outside,
       vars
  <2>15. MarkerIsRestorable'
    BY <1>0, <1>6, GenBounds, NoneIsNoReport DEF vars, IInv, TypeOK,
       MarkerIsRestorable, NewIsCached, KnowsMarker, Publishing, Put, Health,
       files, cache, outside, vars
  <2>16. ConflictNeedsOutsider'
    BY <1>0, <1>6, GenBounds, NoneIsNoReport DEF vars, IInv, TypeOK,
       ConflictNeedsOutsider, MarkerIsRestorable, FilesSoFar, KnowsMarker,
       NothingReturnedYet, Publishing, Put, Health, files, cache, outside, vars
  <2>17. ReturnedIsCommitted'
    BY <1>0, <1>6, GenBounds, NoneIsNoReport DEF vars, IInv, TypeOK,
       ReturnedIsCommitted, NothingReturnedYet, FilesSoFar, KnowsMarker,
       Publishing, Put, Health, files, cache, outside, vars
  <2> QED
    BY <2>8, <2>9, <2>10, <2>11, <2>12, <2>13, <2>14, <2>15, <2>16, <2>17 DEF IInv
<1>7. ASSUME Call PROVE IInv'
  BY <1>7, CallIInv
<1> QED
  BY <1>1, <1>2, <1>3, <1>4, <1>5, <1>6, <1>7 DEF Next

-----------------------------------------------------------------------------
LEMMA Invariant == Spec => []IInv
  BY InitIInv, NextIInv, PTL DEF Spec

(* Every reachable state has the declared types: a call never handles an   *)
(* artifact, report or phase the code could not have produced.             *)
THEOREM GenerationTypeCorrect == Spec => []TypeOK
<1>1. IInv => TypeOK
  BY DEF IInv
<1> QED
  BY <1>1, Invariant, PTL

(* publish_generation_bundle puts both artifacts in the cache before the    *)
(* report names them, so recover_generation_bundle can always restore them. *)
THEOREM MarkerAlwaysRestorable == Spec => []MarkerIsRestorable
<1>1. IInv => MarkerIsRestorable
  BY DEF IInv
<1> QED
  BY <1>1, Invariant, PTL

(* However often calls are killed, and wherever, GenerationArtifactConflict *)
(* is raised only after something outside the program changed a file.       *)
THEOREM CrashesNeverConflict == Spec => []ConflictNeedsOutsider
<1>1. IInv => ConflictNeedsOutsider
  BY DEF IInv
<1> QED
  BY <1>1, Invariant, PTL

(* generate returns the bundle of the report on disk, with its artifacts in *)
(* the output files.                                                        *)
THEOREM ReturnsTheCommitted == Spec => []ReturnedIsCommitted
<1>1. IInv => ReturnedIsCommitted
  BY DEF IInv
<1> QED
  BY <1>1, Invariant, PTL

-----------------------------------------------------------------------------
(* Only WriteReport changes the report.                                     *)
LEMMA OnlyWriteReportCommits ==
  ASSUME [Next]_vars, marker' # marker PROVE WriteReport
  BY DEF Next, Call, vars, files, cache, outside, Start, Stop, ChangeScience, Touch,
     Damage,
    ClearOpp, ClearCand, RestoreOpp, RestoreCand, LoadCommitted, Reuse, Refuse, ProviderFails,
    Generate, CacheOpp, CacheCand, WriteOpp, WriteCand, LoadNew

(* A committed bundle is replaced only for changed science or on request.   *)
THEOREM OnlyReplacedForCause == Spec => ReplacedOnlyForCause
<1>1. IInv /\ [Next]_vars =>
        [marker' # marker /\ marker # None =>
           marker'.science # marker.science \/ run.regenerate]_vars
  <2> SUFFICES ASSUME IInv, [Next]_vars, marker' # marker, marker # None
               PROVE  marker'.science # marker.science \/ run.regenerate
    OBVIOUS
  <2>1. WriteReport
    BY OnlyWriteReportCommits
  <2>2. run.at \in Publishing /\ marker' = run.new
    BY <2>1 DEF WriteReport, Publishing
  <2>3. NewIsNext
    BY DEF IInv
  <2>4. PICK w \in Wording :
          run.new = [science |-> run.science, mode |-> run.mode,
                     opp |-> OppOf[run.science], cand |-> <<OppOf[run.science], w>>,
                     revision |-> IF marker = None THEN 1 ELSE marker.revision + 1]
    BY <2>2, <2>3 DEF NewIsNext
  <2>5. run.new.science = run.science
    BY <2>4
  <2> QED
    BY <2>2, <2>3, <2>5 DEF NewIsNext
<1> QED
  BY <1>1, Invariant, PTL DEF Spec, ReplacedOnlyForCause

(* What a step of the call shows its caller: the bundle is committed by the *)
(* rename of the report, returned by the step that ends the call.           *)
LEMMA StepRefines ==
  ASSUME IInv, [Next]_vars PROVE [Register!Next]_(Register!vars)
<1> USE DEF Register!vars
<1> TypeOK
  BY DEF IInv
<1>1. CASE WriteReport
  <2>1. run.at = "write-report" /\ marker' = run.new /\ run'.bundle = run.bundle
    BY <1>1, GotoRun DEF WriteReport, Phase
  <2>2. PICK w \in Wording :
          run.new = [science |-> run.science, mode |-> run.mode,
                     opp |-> OppOf[run.science], cand |-> <<OppOf[run.science], w>>,
                     revision |-> IF marker = None THEN 1 ELSE marker.revision + 1]
    BY <2>1 DEF IInv, NewIsNext, Publishing
  <2>3. run.science \in Science /\ run.mode \in Mode /\ OppOf[run.science] \in Opportunity
    BY OppOfType DEF TypeOK, Run
  <2>4. Register!Commit(run.science, run.mode, OppOf[run.science], w)
    BY <2>1, <2>2 DEF Register!Commit
  <2> QED
    BY <2>3, <2>4 DEF Register!Next
<1>2. CASE Reuse \/ LoadNew
  <2>1. marker' = marker /\ (run'.bundle = marker \/ run'.bundle = run.bundle)
    <3>1. CASE Reuse
      <4>1. Finish("reused", run.committed) /\ run.committed = marker
        BY <3>1 DEF Reuse, IInv, KnowsMarker
      <4> QED
        BY <3>1, <4>1 DEF Reuse, Finish, TypeOK, Run, files
    <3>2. CASE LoadNew /\ Consistent(marker)
      <4>1. marker = [marker EXCEPT !.opp = oppFile, !.cand = candFile]
        BY <3>2 DEF LoadNew, IInv, KnowsMarker, TypeOK, Report, Consistent
      <4>2. Finish("generated", marker)
        BY <3>2, <4>1 DEF LoadNew
      <4> QED
        BY <3>2, <4>2 DEF LoadNew, Finish, TypeOK, Run, files
    <3>3. CASE LoadNew /\ ~Consistent(marker)
      <4>1. run'.bundle = None /\ run.bundle = None
        BY <3>3 DEF LoadNew, Raise, Finish, TypeOK, Run, IInv, NothingReturnedYet
      <4> QED
        BY <3>3, <4>1 DEF LoadNew, files
    <3> QED
      BY <1>2, <3>1, <3>2, <3>3
  <2>2. marker # None
    BY <1>2 DEF Reuse, LoadNew, IInv, KnowsMarker, Publishing
  <2> QED
    BY <2>1, <2>2 DEF Register!Next, Register!Return
<1>3. ASSUME NEW m \in Mode, NEW b \in BOOLEAN, Start(m, b)
      PROVE  Register!Begin
  BY <1>3 DEF Start, Register!Begin, files
<1>4. ASSUME ~WriteReport, ~Reuse, ~LoadNew, ~(\E m \in Mode, b \in BOOLEAN : Start(m, b))
      PROVE  run'.bundle = run.bundle /\ marker' = marker
  <2>1. marker' = marker
    BY <1>4, OnlyWriteReportCommits
  <2>2. run'.bundle = run.bundle
    <3>1. CASE run' = run
      BY <3>1
    <3>2. CASE \E why : Raise(why) /\ run.at # "idle"
      BY <3>2 DEF Raise, Finish, TypeOK, Run, IInv, NothingReturnedYet
    <3>3. CASE \E phase : Goto(phase)
      BY <3>3 DEF Goto, TypeOK, Run
    <3>4. CASE \E w \in Wording : Generate(w)
      BY <3>4 DEF Generate, TypeOK, Run
    <3>5. CASE LoadCommitted /\ Consistent(marker)
      BY <3>5 DEF LoadCommitted, TypeOK, Run
    <3> QED
      BY <1>4, <3>1, <3>2, <3>3, <3>4, <3>5 DEF Next, Call, vars, Stop,
         ChangeScience, Touch,
        Damage, ClearOpp, ClearCand, RestoreOpp, RestoreCand, LoadCommitted, Refuse, MustGenerate,
        ProviderFails, CacheOpp, CacheCand, WriteOpp, WriteCand
  <2> QED
    BY <2>1, <2>2
<1> QED
  BY <1>1, <1>2, <1>3, <1>4 DEF Register!Next

(* Seen through its return values and the report on disk, generation with   *)
(* its crashes and its recovery is an atomic register of one bundle.        *)
THEOREM Refinement == Spec => RefinesRegister
<1>1. Init => Register!Init
  BY DEF Init, Register!Init
<1>2. IInv /\ [Next]_vars => [Register!Next]_(Register!vars)
  BY StepRefines
<1> QED
  BY <1>1, <1>2, Invariant, PTL DEF Spec, RefinesRegister, Register!Spec

-----------------------------------------------------------------------------
(* The wording of the topics a generation publishes (TopicWording).         *)

\* A set of numbers that is not empty has a least one.
LEMMA LeastNat ==
  ASSUME NEW T \in SUBSET Nat, T # {}
  PROVE  \E n \in T : \A m \in T : n <= m
<1> DEFINE R == OpToRel(<, Nat)
<1>1. IsWellFoundedOn(R, Nat)
  BY NatLessThanWellFounded
<1>2. \A x, y \in Nat : x < y => <<x, y>> \in R
  BY DEF OpToRel
<1> HIDE DEF R
<1>3. PICK x \in T : \A y \in T : ~ (<<y, x>> \in R)
  BY <1>1, WFMin
<1>4. ASSUME NEW y \in T PROVE x <= y
  <2>1. x \in Nat /\ y \in Nat
    OBVIOUS
  <2>2. ~ (y < x)
    BY <1>2, <1>3, <2>1
  <2> QED
    BY <2>1, <2>2
<1> QED
  BY <1>4

\* The positions of a sequence are numbers.
LEMMA Numbered ==
  ASSUME NEW S, NEW s \in Seq(S)
  PROVE  DOMAIN s \subseteq Nat
OBVIOUS

\* An objection to one topic is an objection to the batch.
LEMMA RefusalIsStrict ==
  ASSUME NEW b \in Batches, NEW texts, Refusal(b, texts) = "", NEW i \in DOMAIN b
  PROVE  Objection(b[i], texts[i]) = "" /\ Gains(b, texts, i)
<1> DEFINE objections == {k \in DOMAIN b : Objection(b[k], texts[k]) # ""}
           first == CHOOSE k \in objections : \A j \in objections : k <= j
           alike == \E k, j \in DOMAIN b : k # j /\ Alike(texts[k], texts[j])
           poor == \E k \in DOMAIN b : ~Gains(b, texts, k)
<1>1. objections \in SUBSET Nat
  <2>1. DOMAIN b \subseteq Nat
    <3> DEFINE S == ToSet(b)
    <3>1. b \in Seq(S)
      BY WordingTypes
    <3> QED
      BY <3>1, Numbered
  <2>2. \A k \in objections : k \in DOMAIN b
    OBVIOUS
  <2> HIDE DEF objections
  <2> QED
    BY <2>1, <2>2
<1>2. objections # {} => first \in objections
  <2> SUFFICES ASSUME objections # {} PROVE \E k \in objections : \A j \in objections : k <= j
    OBVIOUS
  <2> HIDE DEF objections
  <2> QED
    BY <1>1, LeastNat
<1>3. objections # {} => Objection(b[first], texts[first]) # ""
  BY <1>2
<1>4. Refusal(b, texts) = IF alike THEN "duplicate"
                          ELSE IF objections # {} THEN Objection(b[first], texts[first])
                          ELSE IF poor THEN "no-gain" ELSE ""
  BY DEF Refusal
<1> HIDE DEF alike, poor, objections, first
<1>5. objections = {} /\ ~poor
  <2>1. ~alike
    BY <1>4
  <2>2. objections = {}
    BY <1>3, <1>4, <2>1
  <2> QED
    BY <1>4, <2>1, <2>2
<1> QED
  BY <1>5 DEF objections, poor

\* What a topic without an objection has passed.
LEMMA NoObjection ==
  ASSUME NEW f, NEW t, Objection(f, t) = ""
  PROVE  Stands(f, t) /\ \A field \in Fields : ~Risky(f, t[field])
BY DEF Objection

\* The opposites of a relation are forbidden words of the frame.
LEMMA OppositesAreForbidden ==
  ASSUME NEW f, f.class \in Classes
  PROVE  Opposites(f) \subseteq Forbidden(f)
<1> SUFFICES ASSUME NEW word \in Kin(f), word # Operator(f) PROVE word \in Forbidden(f)
  BY DEF Opposites, Forbidden
<1>1. CASE f.class = "difference"
  <2>1. f.polarity # "difference-only"
    BY <1>1 DEF Kin
  <2>2. word \in Values(Signed)
    BY <1>1, <2>1 DEF Kin
  <2> QED
    BY <1>1, <2>2 DEF Forbidden
<1>2. CASE f.class = "ordered"
  <2>1. word \in Values(Ordered)
    BY <1>2 DEF Kin
  <2>2. word \in Others(Ordered, f.polarity)
    BY <1>2, <2>1 DEF Values, Others, Operator
  <2> QED
    BY <1>2, <2>2 DEF Forbidden
<1>3. CASE f.class = "association"
  <2>1. f.polarity # "unsigned"
    BY <1>3 DEF Kin
  <2>2. word \in {"positively", "negatively"}
    BY <1>3, <2>1 DEF Kin
  <2>3. word \in Values(Associated)
    BY <2>2 DEF Values, Associated
  <2> QED
    BY <1>3, <2>1, <2>2, <2>3 DEF Forbidden
<1>4. CASE f.class = "robustness"
  BY <1>4 DEF Kin
<1> QED
  BY <1>1, <1>2, <1>3, <1>4 DEF Classes

\* A clause that asserts a word has it among its phrases.
LEMMA AssertionMentions ==
  ASSUME NEW f, f.class \in Classes, NEW clause, NEW word, Asserts(f, clause, word)
  PROVE  Mentions(clause, word)
<1> DEFINE said == Statement(f, word)
           about == Required(f) \cup Kin(f) \cup Opposites(f)
<1>1. PICK at \in [DOMAIN said -> {i \in DOMAIN clause : clause[i] \in about}] :
        \A k \in DOMAIN said : clause[at[k]] = said[k]
  BY DEF Asserts
<1>2. PICK k \in DOMAIN said : said[k] = word
  BY DEF Statement, Classes
<1> HIDE DEF said, about
<1>3. at[k] \in DOMAIN clause /\ clause[at[k]] = word
  BY <1>1, <1>2
<1> QED
  BY <1>3 DEF Mentions, Says

\* Whoever denies the relation in plain words contradicts it in the words
\* the program looks for.
LEMMA DenialContradicts ==
  ASSUME NEW f, f.class \in Classes, NEW clause, Denies(f, clause)
  PROVE  Contradicts(f, clause)
<1>1. PICK word \in Opposites(f) : Asserts(f, clause, word)
  BY DEF Denies
<1>2. word \in Forbidden(f) /\ Mentions(clause, word)
  BY <1>1, OppositesAreForbidden, AssertionMentions
<1> QED
  BY <1>2 DEF Contradicts

\* The clauses of a legible text are numbered.
LEMMA ClausesAreNumbered ==
  ASSUME NEW t \in [Fields -> Seq(Seq(STRING))]
  PROVE  DOMAIN Clauses(t) \subseteq Nat
<1>1. t.question \in Seq(Seq(STRING)) /\ t.rationale \in Seq(Seq(STRING))
  BY DEF Fields
<1>2. Clauses(t) \in Seq(Seq(STRING))
  BY <1>1 DEF Clauses
<1> QED
  BY <1>2

\* A text that stands states its relation before any clause that denies it.
LEMMA StandingStatesFirst ==
  ASSUME NEW f, f.class \in Classes, NEW t \in [Fields -> Seq(Seq(STRING))], Stands(f, t),
         NEW j \in DOMAIN Clauses(t), Denies(f, Clauses(t)[j])
  PROVE  \E k \in 1..(j - 1) : States(f, Clauses(t)[k])
<1>1. Contradicts(f, Clauses(t)[j])
  BY DenialContradicts
<1>2. Preserved(f, t)
  BY <1>1 DEF Stands
<1>3. PICK k \in DOMAIN Clauses(t) :
        States(f, Clauses(t)[k]) /\ \A i \in 1..k : ~Contradicts(f, Clauses(t)[i])
  BY <1>2 DEF Preserved
<1>4. j \in Nat /\ k \in Nat /\ j >= 1 /\ k >= 1
  BY ClausesAreNumbered DEF Clauses, Fields
<1>5. ~ (j <= k)
  BY <1>1, <1>3, <1>4
<1>6. k \in 1..(j - 1)
  BY <1>4, <1>5
<1> QED
  BY <1>3, <1>6

\* A text without risky words claims no more than its frame.
LEMMA UnriskyClaimsLittle ==
  ASSUME NEW f, NEW text, ~Risky(f, text),
         NEW clause \in ToSet(text), NEW word \in ToSet(clause)
  PROVE  /\ word \notin Superlatives
         /\ \A class \in DOMAIN Claims :
              word \in Claims[class] => f.ceiling = class /\ f.class # "association"
<1>1. PICK i \in DOMAIN text : text[i] = clause
  BY DEF ToSet
<1>2. Mentions(text[i], word)
  BY <1>1 DEF Mentions, Says, ToSet
<1>3. word \notin Superlatives
  BY <1>2 DEF Risky
<1>4. ASSUME NEW class \in DOMAIN Claims, word \in Claims[class]
      PROVE  f.ceiling = class /\ f.class # "association"
  <2>1. word \in UNION Values(Claims)
    BY <1>4 DEF Values
  <2>2. Predicate(f) = class
    BY <1>2, <1>4, <2>1 DEF Risky
  <2>3. class # "association"
    BY <1>4 DEF Claims
  <2> QED
    BY <2>2, <2>3 DEF Predicate
<1> QED
  BY <1>3, <1>4

\* A topic that gains differs from the program's own wording.
LEMMA GainChanges ==
  ASSUME NEW b, NEW texts, NEW i \in DOMAIN b, Gains(b, texts, i)
  PROVE  texts[i] # Own(b)[i]
<1> DEFINE changed == {field \in Fields : texts[i][field] # Offline(b[i])[field]}
<1>1. Cardinality(changed) >= 2
  BY DEF Gains
<1>2. changed # {}
  <2> HIDE DEF changed
  <2> QED
    BY <1>1, FS_EmptySet
<1>3. texts[i] # Offline(b[i])
  BY <1>2
<1> QED
  BY <1>3 DEF Own

-----------------------------------------------------------------------------
(* A batch that was refined was legible and passed every check; one that    *)
(* fell back has the program's own wording.                                 *)
WordingInv ==
  /\ batch \in Batches
  /\ outcome = "refined" => Legible(batch, wording) /\ Refusal(batch, wording) = ""
  /\ outcome = "fallback" => wording = Own(batch)

\* Nothing is worded at first.
LEMMA WordingStarts == WordingInit => WordingInv
BY DEF WordingInit, WordingInv

\* Whatever the provider replies, the batch keeps its wording or takes it all.
LEMMA WordingStep == WordingInv /\ [WordingNext]_wordingVars => WordingInv'
<1> SUFFICES ASSUME WordingInv, [WordingNext]_wordingVars PROVE WordingInv'
  OBVIOUS
<1>1. CASE UNCHANGED wordingVars
  BY <1>1 DEF WordingInv, wordingVars
<1>2. CASE KeepOffline
  BY <1>2 DEF WordingInv, KeepOffline, Ends
<1>3. CASE Unavailable
  BY <1>3 DEF WordingInv, Unavailable, Ends
<1>4. CASE Malformed
  BY <1>4 DEF WordingInv, Malformed, Ends
<1>5. ASSUME NEW texts, Reply(texts) PROVE WordingInv'
  <2>1. batch' = batch /\ batch \in Batches
    BY <1>5 DEF Reply, Ends, WordingInv
  <2>2. wording' = Taken(batch, texts) /\ Legible(batch, texts)
    BY <1>5 DEF Reply, Ends
  <2>3. outcome' = IF Refusal(batch, texts) = "" THEN "refined" ELSE "fallback"
    BY <1>5 DEF Reply, Ends
  <2>4. CASE Refusal(batch, texts) = ""
    BY <2>1, <2>2, <2>3, <2>4 DEF WordingInv, Taken
  <2>5. CASE Refusal(batch, texts) # ""
    BY <2>1, <2>2, <2>3, <2>5 DEF WordingInv, Taken
  <2> QED
    BY <2>4, <2>5
<1> QED
  BY <1>1, <1>2, <1>3, <1>4, <1>5 DEF WordingNext

\* What was refined passed every check, topic by topic.
LEMMA InvariantKeepsScience == WordingInv => ScienceSurvives
<1> SUFFICES ASSUME WordingInv PROVE ScienceSurvives
  OBVIOUS
<1>1. ASSUME outcome = "refined", NEW i \in DOMAIN batch
      PROVE  /\ batch[i].class \in Classes /\ wording[i] \in [Fields -> Seq(Seq(STRING))]
             /\ Stands(batch[i], wording[i]) /\ wording[i] # Own(batch)[i]
             /\ \A field \in Fields : ~Risky(batch[i], wording[i][field])
  <2>1. batch \in Batches /\ Legible(batch, wording) /\ Refusal(batch, wording) = ""
    BY <1>1 DEF WordingInv
  <2>2. Objection(batch[i], wording[i]) = "" /\ Gains(batch, wording, i)
    BY <1>1, <2>1, RefusalIsStrict
  <2>3. wording[i] # Own(batch)[i]
    BY <1>1, <2>2, GainChanges
  <2>4. Stands(batch[i], wording[i]) /\ \A field \in Fields : ~Risky(batch[i], wording[i][field])
    BY <2>2, NoObjection
  <2> QED
    BY <1>1, <2>1, <2>3, <2>4, WordingTypes DEF Legible
<1>2. RelationComesFirst
  BY <1>1, StandingStatesFirst DEF RelationComesFirst
<1>3. NothingEscalates
  BY <1>1, UnriskyClaimsLittle DEF NothingEscalates
<1>4. WholeBatch
  BY <1>1 DEF WholeBatch, WordingInv
<1> QED
  BY <1>2, <1>3, <1>4 DEF ScienceSurvives, LockedScienceHolds

(* Whatever the provider sends, a topic that takes it states its relation   *)
(* before any clause that denies it, claims no more than its ceiling, and   *)
(* is one of a batch that was taken as a whole (refine_candidate_wording).  *)
THEOREM RewordingKeepsTheScience == WordingSpec => []ScienceSurvives
BY WordingStarts, WordingStep, InvariantKeepsScience, PTL DEF WordingSpec

(***************************************************************************)
(* The topics of a plan and the records they rest on: every topic is made   *)
(* of one snapshot of the records, by rules whose results are bounded by    *)
(* what the snapshot says.                                                  *)
(***************************************************************************)

\* One that is bounded has a greatest.
LEMMA GreatestNat ==
  ASSUME NEW N \in Nat, NEW T \in SUBSET (1..N), T # {}
  PROVE  \E n \in T : \A m \in T : m <= n
<1> DEFINE U == {N - m : m \in T}
<1>1. U \in SUBSET Nat /\ U # {}
  <2>1. \A m \in T : N - m \in Nat
    OBVIOUS
  <2> QED
    BY <2>1
<1> HIDE DEF U
<1>2. PICK u \in U : \A w \in U : u <= w
  BY <1>1, LeastNat
<1>3. PICK n \in T : u = N - n
  BY <1>2 DEF U
<1>4. \A m \in T : N - m \in U
  BY DEF U
<1>5. ASSUME NEW m \in T PROVE m <= n
  <2>1. u <= N - m
    BY <1>2, <1>4
  <2>2. m \in Int /\ n \in Int /\ N - n <= N - m
    BY <1>3, <2>1
  <2> QED
    BY <2>2
<1> QED
  BY <1>5

\* The values of a function over a finite set are finitely many.
LEMMA FiniteImage ==
  ASSUME NEW S, IsFiniteSet(S), NEW f
  PROVE  IsFiniteSet({f[x] : x \in S})
<1> DEFINE T == {f[x] : x \in S}
           h == [x \in S |-> f[x]]
<1>1. h \in Surjection(S, T)
  BY DEF Surjection
<1> HIDE DEF h, T
<1>2. IsFiniteSet(T)
  BY <1>1, FS_Surjection
<1> QED
  BY <1>2 DEF T

LEMMA RangeFinite ==
  ASSUME NEW seq, seq \in Seq(Range(seq))
  PROVE  IsFiniteSet(Range(seq)) /\ IsFiniteSet(DOMAIN seq)
<1>1. PICK n \in Nat : DOMAIN seq = 1..n
  OBVIOUS
<1>2. IsFiniteSet(DOMAIN seq)
  BY <1>1, FS_Interval
<1> QED
  BY <1>2, FiniteImage DEF Range

-----------------------------------------------------------------------------
(* The orders of maturities and ceilings.                                   *)
Distinct(order) == /\ \E n \in Nat : DOMAIN order = 1..n
                   /\ \A i, j \in DOMAIN order : order[i] = order[j] => i = j

LEMMA RankIs ==
  ASSUME NEW order, Distinct(order), NEW i \in DOMAIN order
  PROVE  Rank(order, order[i]) = i
  BY DEF Rank, Distinct

LEMMA RankIn ==
  ASSUME NEW order, Distinct(order), NEW x \in Range(order)
  PROVE  Rank(order, x) \in DOMAIN order /\ order[Rank(order, x)] = x
  BY DEF Rank, Range

LEMMA LowestIs ==
  ASSUME NEW order, Distinct(order), NEW S, S \subseteq Range(order), S # {}
  PROVE  /\ Lowest(order, S) \in S
         /\ \A x \in S : Rank(order, Lowest(order, S)) <= Rank(order, x)
<1> DEFINE T == {Rank(order, x) : x \in S}
<1>0. \A x \in S : Rank(order, x) \in DOMAIN order /\ order[Rank(order, x)] = x
  BY RankIn
<1>1. T \in SUBSET Nat /\ T # {}
  BY <1>0 DEF Distinct
<1>2. \E n \in T : \A m \in T : n <= m
  <2> HIDE DEF T
  <2> QED
    BY <1>1, LeastNat
<1>3. PICK y \in S : \A x \in S : Rank(order, y) <= Rank(order, x)
  BY <1>2
<1> DEFINE Fits(i) == order[i] \in S /\ \A x \in S : i <= Rank(order, x)
           low == CHOOSE i \in DOMAIN order : Fits(i)
<1>4. Rank(order, y) \in DOMAIN order /\ Fits(Rank(order, y))
  BY <1>0, <1>3
<1>5. low \in DOMAIN order /\ Fits(low)
  <2> HIDE DEF Fits
  <2> QED
    BY <1>4
<1>6. Lowest(order, S) = order[low]
  BY DEF Lowest
<1> HIDE DEF low
<1> QED
  BY <1>5, <1>6, RankIs

LEMMA HighestIs ==
  ASSUME NEW order, Distinct(order), NEW S, S \subseteq Range(order), S # {}
  PROVE  /\ Highest(order, S) \in S
         /\ \A x \in S : Rank(order, Highest(order, S)) >= Rank(order, x)
<1> DEFINE T == {Rank(order, x) : x \in S}
<1>0. \A x \in S : Rank(order, x) \in DOMAIN order /\ order[Rank(order, x)] = x
  BY RankIn
<1>1. PICK n \in Nat : DOMAIN order = 1..n
  BY DEF Distinct
<1>2. T \in SUBSET (1..n) /\ T # {}
  BY <1>0, <1>1
<1>3. \E k \in T : \A m \in T : m <= k
  <2> HIDE DEF T
  <2> QED
    BY <1>2, GreatestNat
<1>4. PICK y \in S : \A x \in S : Rank(order, x) <= Rank(order, y)
  BY <1>3
<1> DEFINE Fits(i) == order[i] \in S /\ \A x \in S : i >= Rank(order, x)
           high == CHOOSE i \in DOMAIN order : Fits(i)
<1>5. Rank(order, y) \in DOMAIN order /\ Fits(Rank(order, y))
  <2>1. \A x \in S : Rank(order, x) \in Nat /\ Rank(order, y) \in Nat
    BY <1>0, <1>1
  <2> QED
    BY <1>0, <1>4, <2>1
<1>6. high \in DOMAIN order /\ Fits(high)
  <2> HIDE DEF Fits
  <2> QED
    BY <1>5
<1>7. Highest(order, S) = order[high]
  BY DEF Highest
<1> HIDE DEF high
<1> QED
  BY <1>6, <1>7, RankIs

LEMMA MaturitiesAre ==
  /\ Distinct(Maturities) /\ DOMAIN Maturities = 1..4
  /\ Range(Maturities) = {"raw", "screened", "verified", "author-approved"}
  /\ Rank(Maturities, "raw") = 1 /\ Rank(Maturities, "screened") = 2
  /\ Rank(Maturities, "verified") = 3 /\ Rank(Maturities, "author-approved") = 4
<1>1. Distinct(Maturities) /\ DOMAIN Maturities = 1..4
  BY DEF Distinct, Maturities
<1>2. Range(Maturities) = {"raw", "screened", "verified", "author-approved"}
  BY DEF Range, Maturities
<1>3. Maturities[1] = "raw" /\ Maturities[2] = "screened" /\ Maturities[3] = "verified"
      /\ Maturities[4] = "author-approved"
  BY DEF Maturities
<1> QED
  BY <1>1, <1>2, <1>3, RankIs

LEMMA CeilingsAre ==
  /\ Distinct(Ceilings) /\ DOMAIN Ceilings = 1..5
  /\ Range(Ceilings) = {"observation", "association", "mechanism", "validation", "engineering"}
  /\ Rank(Ceilings, "observation") = 1 /\ Rank(Ceilings, "association") = 2
  /\ Rank(Ceilings, "mechanism") = 3 /\ Rank(Ceilings, "validation") = 4
  /\ Rank(Ceilings, "engineering") = 5
<1>1. Distinct(Ceilings) /\ DOMAIN Ceilings = 1..5
  BY DEF Distinct, Ceilings
<1>2. Range(Ceilings) = {"observation", "association", "mechanism", "validation", "engineering"}
  BY DEF Range, Ceilings
<1>3. Ceilings[1] = "observation" /\ Ceilings[2] = "association" /\ Ceilings[3] = "mechanism"
      /\ Ceilings[4] = "validation" /\ Ceilings[5] = "engineering"
  BY DEF Ceilings
<1> QED
  BY <1>1, <1>2, <1>3, RankIs

-----------------------------------------------------------------------------
(* Sequences: filtering and sorting.                                        *)
LEMMA UpTo ==
  ASSUME NEW N \in Nat, NEW T, 0 \in T, \A i \in 1..N : i - 1 \in T => i \in T
  PROVE  \A i \in 0..N : i \in T
<1> DEFINE Bad == {i \in 0..N : i \notin T}
<1> SUFFICES ASSUME Bad # {} PROVE FALSE
  OBVIOUS
<1>0. Bad \in SUBSET Nat
  OBVIOUS
<1>1. PICK n \in Bad : \A m \in Bad : n <= m
  <2> HIDE DEF Bad
  <2> QED
    BY <1>0, LeastNat
<1>2. n \in 1..N /\ n - 1 \in 0..N /\ n - 1 \notin Bad
  BY <1>1
<1> QED
  BY <1>1, <1>2

\* Rows of values, each made from the one before.
HasRows(V, a, N, F) ==
  \E g \in [0..N -> V] : g[0] = a /\ \A i \in 1..N : g[i] = F[<<i, g[i - 1]>>]

LEMMA Rows ==
  ASSUME NEW V, NEW a \in V, NEW N \in Nat, NEW F \in [(1..N) \X V -> V]
  PROVE  HasRows(V, a, N, F)
<1> DEFINE Filled(n, g) == g[0] = a /\ \A i \in 1..n : g[i] = F[<<i, g[i - 1]>>]
           T == {n \in 0..N : \E g \in [0..n -> V] : Filled(n, g)}
<1>1. 0 \in T
  <2>1. [i \in 0..0 |-> a] \in [0..0 -> V] /\ Filled(0, [i \in 0..0 |-> a])
    OBVIOUS
  <2> HIDE DEF Filled
  <2>2. \E g \in [0..0 -> V] : Filled(0, g)
    BY <2>1
  <2> QED
    BY <2>2
<1>2. ASSUME NEW n \in 1..N, n - 1 \in T PROVE n \in T
  <2>1. PICK g \in [0..(n - 1) -> V] : Filled(n - 1, g)
    BY <1>2
  <2> DEFINE h == [i \in 0..n |-> IF i = n THEN F[<<n, g[n - 1]>>] ELSE g[i]]
  <2>2. h \in [0..n -> V]
    <3>1. g[n - 1] \in V
      BY <2>1
    <3>2. F[<<n, g[n - 1]>>] \in V
      BY <3>1
    <3>3. \A i \in 0..n : i # n => g[i] \in V
      BY <2>1
    <3> QED
      BY <3>2, <3>3
  <2>3. h[0] = a
    BY <2>1
  <2>4. ASSUME NEW i \in 1..n PROVE h[i] = F[<<i, h[i - 1]>>]
    <3>1. i - 1 \in 0..n /\ i - 1 # n /\ h[i - 1] = g[i - 1]
      OBVIOUS
    <3>2. CASE i = n
      BY <3>1, <3>2
    <3>3. CASE i # n
      <4>1. i \in 1..(n - 1) /\ h[i] = g[i]
        BY <3>3
      <4>2. g[i] = F[<<i, g[i - 1]>>]
        BY <2>1, <4>1
      <4> HIDE DEF h
      <4> QED
        BY <3>1, <4>1, <4>2
    <3> QED
      BY <3>2, <3>3
  <2> HIDE DEF h
  <2>5. Filled(n, h)
    BY <2>3, <2>4
  <2> HIDE DEF Filled
  <2>6. \E f \in [0..n -> V] : Filled(n, f)
    BY <2>2, <2>5
  <2> QED
    BY <2>6
<1>3. N \in T
  <2> HIDE DEF T
  <2> QED
    BY <1>1, <1>2, UpTo
<1> QED
  BY <1>3 DEF T, HasRows

LEMMA AppendRange ==
  ASSUME NEW T, NEW s \in Seq(T), NEW x \in T
  PROVE  Append(s, x) \in Seq(T) /\ Range(Append(s, x)) = Range(s) \cup {x}
<1> DEFINE n == Len(s)
           t == Append(s, x)
<1>1. n \in Nat /\ DOMAIN s = 1..n /\ t \in Seq(T) /\ DOMAIN t = 1..(n + 1)
      /\ t[n + 1] = x /\ \A i \in 1..n : t[i] = s[i]
  OBVIOUS
<1>2. 1..(n + 1) = (1..n) \cup {n + 1}
  BY <1>1
<1> HIDE DEF n, t
<1>3. Range(t) = Range(s) \cup {x}
  BY <1>1, <1>2 DEF Range
<1> QED
  BY <1>1, <1>3 DEF t

\* Among keeps the elements of S, all of them.
LEMMA AmongIs ==
  ASSUME NEW T, NEW seq \in Seq(T), NEW S
  PROVE  /\ Among(seq, S) \in Seq(T)
         /\ Range(Among(seq, S)) = {x \in Range(seq) : x \in S}
<1> DEFINE N == Len(seq)
           Step(i, x) == IF seq[i] \in S THEN Append(x, seq[i]) ELSE x
           Is(h) == h = [i \in 0..N |-> IF i = 0 THEN << >> ELSE Step(i, h[i - 1])]
           F == [e \in (1..N) \X Seq(T) |-> Step(e[1], e[2])]
           g == CHOOSE h : Is(h)
<1>0. N \in Nat /\ DOMAIN seq = 1..N /\ \A i \in 1..N : seq[i] \in T
  OBVIOUS
<1>1. Among(seq, S) = g[N]
  BY DEF Among
<1> HIDE DEF N
<1>2. ASSUME NEW i \in 1..N, NEW x \in Seq(T) PROVE Step(i, x) \in Seq(T)
  BY <1>0
<1> HIDE DEF Step
<1>3. F \in [(1..N) \X Seq(T) -> Seq(T)] /\ \A i \in 1..N, x \in Seq(T) : F[<<i, x>>] = Step(i, x)
  BY <1>2
<1>4. HasRows(Seq(T), << >>, N, F)
  <2> HIDE DEF F
  <2>1. << >> \in Seq(T)
    OBVIOUS
  <2> QED
    BY <1>0, <1>3, <2>1, Rows
<1>5. PICK h \in [0..N -> Seq(T)] : h[0] = << >> /\ \A i \in 1..N : h[i] = F[<<i, h[i - 1]>>]
  BY <1>4 DEF HasRows
<1> HIDE DEF F
<1>6. Is(h)
  <2>1. ASSUME NEW i \in 1..N PROVE h[i] = Step(i, h[i - 1])
    <3>1. i - 1 \in 0..N
      BY <1>0
    <3>2. h[i - 1] \in Seq(T)
      BY <1>5, <3>1
    <3> QED
      BY <1>3, <1>5, <3>2
  <2>2. \A i \in 0..N : h[i] = IF i = 0 THEN << >> ELSE Step(i, h[i - 1])
    BY <1>0, <1>5, <2>1
  <2> QED
    BY <1>5, <2>2
<1>7. Is(g)
  <2> HIDE DEF Is
  <2> QED
    BY <1>6
<1> HIDE DEF g
<1>8. g[0] = << >> /\ \A i \in 1..N : g[i] = IF seq[i] \in S THEN Append(g[i - 1], seq[i]) ELSE g[i - 1]
  <2>1. \A i \in 0..N : g[i] = IF i = 0 THEN << >> ELSE Step(i, g[i - 1])
    BY <1>7
  <2> QED
    BY <1>0, <2>1 DEF Step
<1> DEFINE Found(i) == {x \in S \cap T : \E j \in 1..i : seq[j] = x}
           Good == {i \in 0..N : /\ g[i] \in Seq(T)
                                 /\ Range(g[i]) = Found(i)}
<1>9. 0 \in Good
  <2>1. Found(0) = {}
    OBVIOUS
  <2>2. << >> \in Seq(T) /\ Range(<< >>) = {}
    BY DEF Range
  <2>3. 0 \in 0..N /\ g[0] \in Seq(T) /\ Range(g[0]) = Found(0)
    BY <1>0, <1>8, <2>1, <2>2
  <2> HIDE DEF Found
  <2> QED
    BY <2>3
<1>10. ASSUME NEW i \in 1..N, i - 1 \in Good PROVE i \in Good
  <2>1. i \in 0..N /\ seq[i] \in T /\ \A j \in 1..i : j = i \/ j \in 1..(i - 1)
    BY <1>0
  <2>2. g[i - 1] \in Seq(T) /\ Range(g[i - 1]) = Found(i - 1)
    BY <1>10
  <2>3. CASE seq[i] \in S
    <3>1. g[i] = Append(g[i - 1], seq[i])
      BY <1>8, <2>3
    <3>2. g[i] \in Seq(T) /\ Range(g[i]) = Range(g[i - 1]) \cup {seq[i]}
      <4> HIDE DEF Good
      <4> QED
        BY <2>1, <2>2, <3>1, AppendRange
    <3>3. Found(i)
            = Found(i - 1) \cup {seq[i]}
      BY <2>1, <2>3
    <3> QED
      BY <2>1, <2>2, <3>2, <3>3
  <2>4. CASE seq[i] \notin S
    <3>1. g[i] = g[i - 1]
      BY <1>8, <2>4
    <3>2. Found(i)
            = Found(i - 1)
      BY <2>1, <2>4
    <3> QED
      BY <2>1, <2>2, <3>1, <3>2
  <2> QED
    BY <2>3, <2>4
<1>11. g[N] \in Seq(T) /\ Range(g[N]) = Found(N)
  <2>1. \A i \in 0..N : i \in Good
    <3> HIDE DEF Good
    <3> QED
      BY <1>0, <1>9, <1>10, UpTo
  <2>2. N \in Good
    <3>1. N \in 0..N
      BY <1>0
    <3> HIDE DEF Good
    <3> QED
      BY <2>1, <3>1
  <2> HIDE DEF Found
  <2> QED
    BY <2>2
<1>12. Found(N) = {x \in Range(seq) : x \in S}
  <2>1. \A x : x \in Range(seq) <=> \E j \in 1..N : seq[j] = x
    BY <1>0 DEF Range
  <2>2. \A x \in Range(seq) : x \in T
    BY <1>0, <2>1
  <2> QED
    BY <2>1, <2>2
<1> HIDE DEF Found
<1> QED
  BY <1>1, <1>11, <1>12

\* An order of the positions in which "before" never goes back and forth.
Orders(before, D) ==
  /\ \A i, j \in D : <<i, j>> \in before => <<j, i>> \notin before
  /\ \A i, j, k \in D : <<i, k>> \in before => <<i, j>> \in before \/ <<j, k>> \in before
\* What sorting gives: the elements in other places, none before one it follows.
SortedBy(seq, before, p) ==
  /\ p \in Surjection(DOMAIN seq, DOMAIN seq)
  /\ Sorted(seq, before) = [k \in DOMAIN seq |-> seq[p[k]]]
  /\ \A k, l \in DOMAIN seq : k < l => <<p[l], p[k]>> \notin before

LEMMA SortedIs ==
  ASSUME NEW seq, NEW n \in Nat, DOMAIN seq = 1..n, NEW before, Orders(before, 1..n)
  PROVE  \E p : SortedBy(seq, before, p)
<1> DEFINE D == 1..n
           Leads(j, i) == <<j, i>> \in before \/ (j < i /\ <<i, j>> \notin before)
           Upto(i) == {j \in D : <<j, i>> \in before \/ (j <= i /\ <<i, j>> \notin before)}
           place == [i \in D |-> Cardinality(Upto(i))]
           p == [k \in D |-> CHOOSE i \in D : place[i] = k]
<1>1. \A i \in D : <<i, i>> \notin before
  BY DEF Orders
<1>2. \A i \in D : Upto(i) = {j \in D : j = i \/ Leads(j, i)}
  BY <1>1
<1>3. \A i, j, k \in D : Leads(i, j) /\ Leads(j, k) => Leads(i, k)
  BY DEF Orders
<1>4. ASSUME NEW i \in D, NEW j \in D PROVE i # j => Leads(i, j) \/ Leads(j, i)
  <2>1. i \in Int /\ j \in Int
    OBVIOUS
  <2> HIDE DEF D
  <2>2. i # j => i < j \/ j < i
    BY <2>1
  <2> QED
    BY <2>2 DEF Orders
<1>5. ASSUME NEW i \in D, NEW j \in D, Leads(i, j) PROVE i # j /\ ~Leads(j, i)
  <2>1. i \in Int /\ j \in Int
    OBVIOUS
  <2>2. <<i, j>> \in before => <<j, i>> \notin before
    BY DEF Orders
  <2>3. ~ (i < j /\ j < i) /\ ~ (i < i)
    BY <2>1
  <2>4. <<i, i>> \notin before
    BY <1>1
  <2> HIDE DEF D
  <2> QED
    BY <1>5, <2>2, <2>3, <2>4
<1>6. IsFiniteSet(D) /\ Cardinality(D) = n
  BY FS_Interval
<1> HIDE DEF D, Leads
<1>7. ASSUME NEW i \in D PROVE Upto(i) \in SUBSET D /\ IsFiniteSet(Upto(i)) /\ place[i] \in D
  <2>1. Upto(i) \in SUBSET D /\ i \in Upto(i)
    BY <1>2
  <2> HIDE DEF Upto
  <2>2. IsFiniteSet(Upto(i)) /\ Cardinality(Upto(i)) \in Nat /\ Cardinality(Upto(i)) <= n
    BY <1>6, <2>1, FS_Subset, FS_CardinalityType
  <2>3. Cardinality(Upto(i)) # 0
    BY <2>1, <2>2, FS_EmptySet
  <2> QED
    BY <2>1, <2>2, <2>3 DEF D
<1>8. ASSUME NEW i \in D, NEW j \in D, Leads(j, i) PROVE place[j] < place[i]
  <2>1. Upto(j) \subseteq Upto(i) /\ i \in Upto(i) /\ i \notin Upto(j)
    BY <1>2, <1>3, <1>5, <1>8
  <2>2. IsFiniteSet(Upto(i)) /\ Upto(j) \in SUBSET Upto(i) /\ Upto(j) # Upto(i)
    BY <1>7, <2>1
  <2> HIDE DEF Upto
  <2>3. Cardinality(Upto(j)) <= Cardinality(Upto(i)) /\ Cardinality(Upto(j)) # Cardinality(Upto(i))
    BY <2>2, FS_Subset
  <2>4. place[i] \in Nat /\ place[j] \in Nat
    BY <1>7 DEF D
  <2> QED
    BY <2>3, <2>4
<1> HIDE DEF Upto
<1>9. place \in Surjection(D, D)
  <2>1. place \in [D -> D]
    BY <1>7
  <2>2. \A i, j \in D : place[i] = place[j] => i = j
    <3>1. \A i \in D : place[i] \in Int
      BY <1>7 DEF D
    <3> HIDE DEF place
    <3> QED
      BY <1>4, <1>8, <3>1
  <2> HIDE DEF place
  <2>3. place \in Injection(D, D)
    BY <2>1, <2>2 DEF Injection, IsInjective
  <2> QED
    BY <1>6, <2>3, FS_Injection
<1>10. \A k \in D : p[k] \in D /\ place[p[k]] = k
  <2> HIDE DEF place
  <2> QED
    BY <1>9 DEF Surjection
<1>11. \A i \in D : p[place[i]] = i
  <2>1. \A i, j \in D : place[i] = place[j] => i = j
    <3>1. \A i \in D : place[i] \in Int
      BY <1>7 DEF D
    <3> HIDE DEF place
    <3> QED
      BY <1>4, <1>8, <3>1
  <2> HIDE DEF place, p
  <2> QED
    BY <1>7, <1>10, <2>1
<1>12. Sorted(seq, before) = [k \in DOMAIN seq |-> seq[p[k]]]
  BY DEF Sorted, D, Upto
<1>13. p \in [D -> D]
  BY <1>10
<1> HIDE DEF place, p
<1>14. p \in Surjection(D, D)
  BY <1>7, <1>11, <1>13 DEF Surjection
<1>15. ASSUME NEW k \in D, NEW l \in D, k < l PROVE <<p[l], p[k]>> \notin before
  <2>1. p[k] \in D /\ p[l] \in D /\ place[p[k]] = k /\ place[p[l]] = l
    BY <1>10
  <2>2. ~Leads(p[l], p[k])
    <3>1. SUFFICES ASSUME Leads(p[l], p[k]) PROVE FALSE
      OBVIOUS
    <3>2. place[p[l]] < place[p[k]]
      BY <1>8, <2>1, <3>1
    <3> QED
      BY <1>15, <2>1, <3>2 DEF D
  <2> QED
    BY <2>2 DEF Leads
<1>16. SortedBy(seq, before, p)
  BY <1>12, <1>14, <1>15 DEF SortedBy, D
<1> QED
  BY <1>16

-----------------------------------------------------------------------------
(* The records of a project and of a snapshot.                              *)
IsCase(r, c) == /\ r = [src |-> r.src, solver |-> r.solver, stale |-> r.stale]
                /\ r.src \in {c} \X Versions
IsBound(r) == /\ r = [id |-> r.id, case |-> r.case, role |-> r.role, values |-> r.values,
                      src |-> r.src, loc |-> r.loc, stale |-> r.stale]
              /\ r.src \in {r.case} \X Versions
              /\ \A p \in DOMAIN r.values : p \in Params /\ r.values[p][1] \in Int
IsQoI(r) == /\ r = [value |-> r.value, unit |-> r.unit, status |-> r.status, src |-> r.src, stale |-> r.stale]
            /\ r.value \subseteq Int
IsEvidence(r) == /\ r = [kind |-> r.kind, loc |-> r.loc, maturity |-> r.maturity, src |-> r.src, stale |-> r.stale]
                 /\ r.src \in CaseSet \X Versions /\ r.maturity \in Range(Maturities)
IsAssessment(a) == a.inflow \in Int /\ a.outflow \in Int /\ a.tolerance \in Nat

CasesOK(f) == DOMAIN f \subseteq CaseSet /\ \A c \in DOMAIN f : IsCase(f[c], c)
BoundsOK(f) == (\E n \in Nat : DOMAIN f = 1..n) /\ \A i \in DOMAIN f : IsBound(f[i])
QoIsOK(f) == DOMAIN f \subseteq Keys /\ \A k \in DOMAIN f : IsQoI(f[k])
EvidenceOK(f) == IsFiniteSet(DOMAIN f) /\ \A e \in DOMAIN f : IsEvidence(f[e])
ClaimsOK(f) == \A m \in DOMAIN f : f[m].ceiling \in Range(Ceilings)
AssessOK(f) == \A c \in DOMAIN f : IsAssessment(f[c])
RecordsOK(s) == /\ CasesOK(s.cases) /\ BoundsOK(s.bounds) /\ QoIsOK(s.qois)
                /\ EvidenceOK(s.evidence) /\ ClaimsOK(s.claims) /\ AssessOK(s.assess)

\* Evidence that was current when it was read is of one version of its source.
EvidenceAgrees(s) ==
  \A e, x \in DOMAIN s.evidence :
    ~s.evidence[e].stale /\ ~s.evidence[x].stale /\ s.evidence[e].src[1] = s.evidence[x].src[1] =>
      s.evidence[e].src = s.evidence[x].src

RowsShape == rows = [cases |-> rows.cases, bounds |-> rows.bounds, qois |-> rows.qois, defs |-> rows.defs,
                     evidence |-> rows.evidence, claims |-> rows.claims, assess |-> rows.assess]
TableNames == {"cases", "bounds", "qois", "defs", "evidence", "claims", "assess"}
\* What a plan made is of the records it read.
PlanMade == /\ step = "idle" /\ Closable(loaded) /\ AcceptedDiscovery(Discover(loaded))
            /\ topics = [os |-> Discover(loaded), ranked |-> RankTopics(loaded, Discover(loaded))]
TopicsInv ==
  /\ RowsShape /\ RecordsOK(rows)
  /\ DOMAIN loaded = TableNames /\ RecordsOK(loaded) /\ EvidenceAgrees(loaded)
  /\ topics = Nothing \/ PlanMade

LEMMA TablesAre == Range(Tables) = TableNames /\ "idle" \notin Range(Tables) /\ "discover" \notin Range(Tables)
<1>1. DOMAIN Tables = 1..7
  BY DEF Tables
<1>2. /\ Tables[1] = "cases" /\ Tables[2] = "bounds" /\ Tables[3] = "qois" /\ Tables[4] = "defs"
      /\ Tables[5] = "evidence" /\ Tables[6] = "claims" /\ Tables[7] = "assess"
  BY DEF Tables
<1>3. \A i \in 1..7 : i = 1 \/ i = 2 \/ i = 3 \/ i = 4 \/ i = 5 \/ i = 6 \/ i = 7
  OBVIOUS
<1>4. \A x : x \in Range(Tables) <=> \E i \in 1..7 : x = Tables[i]
  BY <1>1 DEF Range
<1>5. Range(Tables) = TableNames
  BY <1>2, <1>3, <1>4 DEF TableNames
<1> QED
  BY <1>5 DEF TableNames

\* What a row is when it is read.
LEMMA ReadCases ==
  ASSUME NEW f, CasesOK(f)
  PROVE  CasesOK(Listed(f))
<1> SUFFICES ASSUME NEW c \in DOMAIN f PROVE IsCase(Listed(f)[c], c)
  BY DEF CasesOK, Listed
<1>1. IsCase(f[c], c)
  BY DEF CasesOK
<1>2. PICK r : r = f[c]
  OBVIOUS
<1>3. Listed(f)[c] = [r EXCEPT !.stale = r.stale \/ Outdated(r.src)]
  BY <1>2 DEF Listed
<1>4. r = [src |-> r.src, solver |-> r.solver, stale |-> r.stale]
  BY <1>1, <1>2 DEF IsCase
<1>5. Listed(f)[c] = [src |-> r.src, solver |-> r.solver, stale |-> r.stale \/ Outdated(r.src)]
  BY <1>3, <1>4
<1> QED
  BY <1>1, <1>2, <1>5 DEF IsCase

LEMMA ReadBounds ==
  ASSUME NEW f, BoundsOK(f)
  PROVE  BoundsOK(Listed(f))
<1> SUFFICES ASSUME NEW i \in DOMAIN f PROVE IsBound(Listed(f)[i])
  BY DEF BoundsOK, Listed
<1>1. IsBound(f[i])
  BY DEF BoundsOK
<1>2. PICK r : r = f[i]
  OBVIOUS
<1>3. Listed(f)[i] = [r EXCEPT !.stale = r.stale \/ Outdated(r.src)]
  BY <1>2 DEF Listed
<1>4. r = [id |-> r.id, case |-> r.case, role |-> r.role, values |-> r.values,
           src |-> r.src, loc |-> r.loc, stale |-> r.stale]
  BY <1>1, <1>2 DEF IsBound
<1>5. Listed(f)[i] = [id |-> r.id, case |-> r.case, role |-> r.role, values |-> r.values,
                      src |-> r.src, loc |-> r.loc, stale |-> r.stale \/ Outdated(r.src)]
  BY <1>3, <1>4
<1> QED
  BY <1>1, <1>2, <1>5 DEF IsBound

LEMMA ReadQoIs ==
  ASSUME NEW f, QoIsOK(f)
  PROVE  QoIsOK(Listed(f))
<1> SUFFICES ASSUME NEW k \in DOMAIN f PROVE IsQoI(Listed(f)[k])
  BY DEF QoIsOK, Listed
<1>1. IsQoI(f[k])
  BY DEF QoIsOK
<1>2. PICK r : r = f[k]
  OBVIOUS
<1>3. Listed(f)[k] = [r EXCEPT !.stale = r.stale \/ Outdated(r.src)]
  BY <1>2 DEF Listed
<1>4. r = [value |-> r.value, unit |-> r.unit, status |-> r.status, src |-> r.src, stale |-> r.stale]
  BY <1>1, <1>2 DEF IsQoI
<1>5. Listed(f)[k] = [value |-> r.value, unit |-> r.unit, status |-> r.status, src |-> r.src,
                      stale |-> r.stale \/ Outdated(r.src)]
  BY <1>3, <1>4
<1> QED
  BY <1>1, <1>2, <1>5 DEF IsQoI

LEMMA ReadEvidence ==
  ASSUME NEW f, EvidenceOK(f), NEW s, s.evidence = Listed(f)
  PROVE  EvidenceOK(Listed(f)) /\ EvidenceAgrees(s)
<1>1. ASSUME NEW e \in DOMAIN f
      PROVE  /\ IsEvidence(Listed(f)[e]) /\ Listed(f)[e].src = f[e].src
             /\ f[e].src = <<f[e].src[1], f[e].src[2]>>
             /\ ~Listed(f)[e].stale => f[e].src[2] = sources[f[e].src[1]].version
  <2>1. IsEvidence(f[e])
    BY DEF EvidenceOK
  <2>2. PICK r : r = f[e]
    OBVIOUS
  <2>3. Listed(f)[e] = [r EXCEPT !.stale = r.stale \/ Outdated(r.src)]
    BY <2>2 DEF Listed
  <2>4. r = [kind |-> r.kind, loc |-> r.loc, maturity |-> r.maturity, src |-> r.src, stale |-> r.stale]
    BY <2>1, <2>2 DEF IsEvidence
  <2>5. Listed(f)[e] = [kind |-> r.kind, loc |-> r.loc, maturity |-> r.maturity, src |-> r.src,
                        stale |-> r.stale \/ Outdated(r.src)]
    BY <2>3, <2>4
  <2>6. IsEvidence(Listed(f)[e]) /\ Listed(f)[e].src = r.src
    BY <2>1, <2>2, <2>5 DEF IsEvidence
  <2>7. ~Listed(f)[e].stale => ~Outdated(r.src)
    <3>1. Listed(f)[e].stale = (r.stale \/ Outdated(r.src))
      BY <2>5
    <3> QED
      BY <3>1, Zenon
  <2>8. r.src = <<r.src[1], r.src[2]>>
    BY <2>1, <2>2 DEF IsEvidence
  <2> QED
    BY <2>2, <2>6, <2>7, <2>8 DEF Outdated
<1>2. DOMAIN Listed(f) = DOMAIN f
  BY DEF Listed
<1>3. EvidenceOK(Listed(f))
  <2>1. IsFiniteSet(DOMAIN f)
    BY DEF EvidenceOK
  <2> QED
    BY <1>1, <1>2, <2>1 DEF EvidenceOK
<1>4. ASSUME NEW e \in DOMAIN f, NEW x \in DOMAIN f, ~Listed(f)[e].stale, ~Listed(f)[x].stale,
             Listed(f)[e].src[1] = Listed(f)[x].src[1]
      PROVE  Listed(f)[e].src = Listed(f)[x].src
  <2>1. f[e].src[1] = f[x].src[1]
    BY <1>1, <1>4
  <2>2. f[e].src[2] = f[x].src[2]
    BY <1>1, <1>4, <2>1
  <2> QED
    BY <1>1, <2>1, <2>2
<1> QED
  BY <1>2, <1>3, <1>4 DEF EvidenceAgrees

\* Rows as they are saved.
LEMMA SavedRows ==
  ASSUME NEW c \in CaseSet, NEW v \in Versions
  PROVE  /\ IsCase(CaseRow(c, v), c)
         /\ \A b \in Range(Envelope[c][v].bounds) : IsBound(BoundRow(c, v, b))
         /\ \A x \in DOMAIN Envelope[c][v].evidence : IsEvidence(EvidenceRow(c, v, x))
         /\ \A n \in Range(QoIs) : IsQoI(QoIRow(<<n, c>>, v))
         /\ IsAssessment(Assessment[c][v])
<1>1. IsCase(CaseRow(c, v), c)
  BY DEF IsCase, CaseRow
<1>2. ASSUME NEW b \in Range(Envelope[c][v].bounds) PROVE IsBound(BoundRow(c, v, b))
  <2>1. \A p \in DOMAIN b.values : p \in Params /\ b.values[p][1] \in Int
    BY RecordTypes DEF CaseSet
  <2> QED
    BY <2>1 DEF IsBound, BoundRow
<1>3. ASSUME NEW x \in DOMAIN Envelope[c][v].evidence PROVE IsEvidence(EvidenceRow(c, v, x))
  <2>1. Envelope[c][v].evidence[x].maturity \in Range(Maturities)
    BY RecordTypes DEF CaseSet
  <2> QED
    BY <2>1 DEF IsEvidence, EvidenceRow
<1>4. ASSUME NEW n \in Range(QoIs) PROVE IsQoI(QoIRow(<<n, c>>, v))
  <2>1. <<n, c>> \in (Range(QoIs)) \X (Range(Cases)) /\ Number[<<n, c>>][v].value \subseteq Int
    BY RecordTypes DEF CaseSet
  <2> QED
    BY <2>1 DEF IsQoI, QoIRow
<1>5. IsAssessment(Assessment[c][v])
  BY RecordTypes DEF CaseSet, IsAssessment
<1> QED
  BY <1>1, <1>2, <1>3, <1>4, <1>5

\* The boundaries of the first versions, case after case.
LEMMA FirstBoundsOK ==
  ASSUME NEW first \in FirstVersions
  PROVE  BoundsOK(FirstBounds(first))
<1> DEFINE N == Len(Cases)
           B == {r \in UNION {{BoundRow(c, first[c], b) : b \in Range(Envelope[c][first[c]].bounds)} : c \in CaseSet} : IsBound(r)}
           Of(c) == LET given == Envelope[c][first[c]].bounds
                    IN [i \in DOMAIN given |-> BoundRow(c, first[c], given[i])]
           Is(h) == h = [i \in 0..N |-> IF i = 0 THEN << >> ELSE h[i - 1] \o Of(Cases[i])]
           F == [e \in (1..N) \X Seq(B) |-> e[2] \o Of(Cases[e[1]])]
           g == CHOOSE h : Is(h)
<1>0. N \in Nat /\ \A i \in 1..N : Cases[i] \in CaseSet
  BY RecordTypes DEF CaseSet
<1>1. FirstBounds(first) = g[N]
  BY DEF FirstBounds
<1> HIDE DEF N
<1>2. ASSUME NEW c \in CaseSet PROVE Of(c) \in Seq(B)
  <2>1. first[c] \in Versions
    BY RecordTypes DEF CaseSet
  <2> DEFINE given == Envelope[c][first[c]].bounds
  <2>2. given \in Seq(Range(given))
    BY <2>1, RecordTypes DEF CaseSet
  <2>3. PICK n \in Nat : DOMAIN given = 1..n
    BY <2>2
  <2>4. ASSUME NEW i \in 1..n PROVE BoundRow(c, first[c], given[i]) \in B
    <3>1. given[i] \in Range(given)
      BY <2>3 DEF Range
    <3>2. IsBound(BoundRow(c, first[c], given[i]))
      BY <2>1, <3>1, SavedRows
    <3> QED
      BY <3>1, <3>2
  <2> HIDE DEF B
  <2>5. [i \in 1..n |-> BoundRow(c, first[c], given[i])] \in Seq(B)
    BY <2>4
  <2> QED
    BY <2>3, <2>5
<1> HIDE DEF Of, B
<1>3. F \in [(1..N) \X Seq(B) -> Seq(B)] /\ \A i \in 1..N, x \in Seq(B) : F[<<i, x>>] = x \o Of(Cases[i])
  <2>1. \A i \in 1..N, x \in Seq(B) : x \o Of(Cases[i]) \in Seq(B)
    BY <1>0, <1>2
  <2> QED
    BY <2>1
<1>4. HasRows(Seq(B), << >>, N, F)
  <2> HIDE DEF F
  <2>1. << >> \in Seq(B)
    OBVIOUS
  <2> QED
    BY <1>0, <1>3, <2>1, Rows
<1>5. PICK h \in [0..N -> Seq(B)] : h[0] = << >> /\ \A i \in 1..N : h[i] = F[<<i, h[i - 1]>>]
  BY <1>4 DEF HasRows
<1> HIDE DEF F
<1> DEFINE Then(i, x) == x \o Of(Cases[i])
           Like(k) == k = [i \in 0..N |-> IF i = 0 THEN << >> ELSE Then(i, k[i - 1])]
<1>6. Like(h)
  <2>0. \A i \in 1..N, x \in Seq(B) : F[<<i, x>>] = Then(i, x)
    BY <1>3
  <2> HIDE DEF Then
  <2>1. ASSUME NEW i \in 1..N PROVE h[i] = Then(i, h[i - 1])
    <3>1. i - 1 \in 0..N
      BY <1>0
    <3>2. h[i - 1] \in Seq(B)
      BY <1>5, <3>1
    <3> QED
      BY <1>5, <2>0, <3>2
  <2>2. \A i \in 0..N : h[i] = IF i = 0 THEN << >> ELSE Then(i, h[i - 1])
    BY <1>0, <1>5, <2>1
  <2> QED
    BY <1>5, <2>2
<1>7. Is(g)
  <2>1. Is(h)
    BY <1>6
  <2> HIDE DEF Is
  <2> QED
    BY <2>1
<1>8. g[0] = << >> /\ \A i \in 1..N : g[i] = Then(i, g[i - 1])
  <2>1. Like(g)
    BY <1>7
  <2> HIDE DEF g, Then
  <2>2. \A i \in 0..N : g[i] = IF i = 0 THEN << >> ELSE Then(i, g[i - 1])
    BY <2>1
  <2> QED
    BY <1>0, <2>2
<1> HIDE DEF g
<1>9. g[N] \in Seq(B)
  <2> DEFINE Good == {i \in 0..N : g[i] \in Seq(B)}
  <2>1. 0 \in Good
    <3>1. << >> \in Seq(B) /\ 0 \in 0..N
      BY <1>0
    <3>2. g[0] \in Seq(B)
      BY <1>8, <3>1
    <3> QED
      BY <3>1, <3>2
  <2>2. ASSUME NEW i \in 1..N, i - 1 \in Good PROVE i \in Good
    <3>1. g[i - 1] \in Seq(B) /\ Of(Cases[i]) \in Seq(B) /\ i \in 0..N
      BY <1>0, <1>2, <2>2
    <3>2. g[i] = g[i - 1] \o Of(Cases[i])
      BY <1>8
    <3>3. g[i] \in Seq(B)
      BY <3>1, <3>2
    <3> QED
      BY <3>1, <3>3
  <2>3. \A i \in 0..N : i \in Good
    <3> HIDE DEF Good
    <3> QED
      BY <1>0, <2>1, <2>2, UpTo
  <2> QED
    BY <1>0, <2>3
<1>10. \A r \in B : IsBound(r)
  BY DEF B
<1> QED
  BY <1>1, <1>9, <1>10 DEF BoundsOK

LEMMA CasesFinite == IsFiniteSet(CaseSet)
  BY RecordTypes, RangeFinite DEF CaseSet

LEMMA TopicsStart == RecordsInit => TopicsInv
<1> SUFFICES ASSUME RecordsInit PROVE TopicsInv
  OBVIOUS
<1>1. PICK first \in FirstVersions : rows = FirstRows(first)
  BY DEF RecordsInit
<1>2. first \in [CaseSet -> Versions]
  BY RecordTypes DEF CaseSet
<1> DEFINE ids == UNION {DOMAIN Envelope[c][first[c]].evidence : c \in CaseSet}
           Home(e) == CHOOSE c \in CaseSet : e \in DOMAIN Envelope[c][first[c]].evidence
<1>3. rows = [cases |-> [c \in CaseSet |-> CaseRow(c, first[c])],
              bounds |-> FirstBounds(first),
              qois |-> [k \in Keys |-> QoIRow(k, first[k[2]])],
              defs |-> [k \in Keys |-> DefinitionRow(k, first[k[2]])],
              evidence |-> [e \in ids |-> EvidenceRow(Home(e), first[Home(e)], e)],
              claims |-> CHOOSE m \in ClaimSets : TRUE,
              assess |-> [c \in CaseSet |-> Assessment[c][first[c]]]]
  BY <1>1 DEF FirstRows
<1> HIDE DEF ids, Home
<1>4. RowsShape
  BY <1>3 DEF RowsShape
<1>5. CasesOK(rows.cases) /\ AssessOK(rows.assess)
  BY <1>2, <1>3, SavedRows DEF CasesOK, AssessOK
<1>6. BoundsOK(rows.bounds)
  BY <1>3, FirstBoundsOK
<1>7. QoIsOK(rows.qois)
  <2>1. rows.qois = [k \in Keys |-> QoIRow(k, first[k[2]])]
    BY <1>3
  <2>2. ASSUME NEW k \in Keys PROVE IsQoI(QoIRow(k, first[k[2]]))
    <3>1. k[1] \in Range(QoIs) /\ k[2] \in CaseSet /\ k = <<k[1], k[2]>>
      BY DEF Keys
    <3> QED
      BY <1>2, <3>1, SavedRows
  <2> QED
    BY <2>1, <2>2 DEF QoIsOK
<1>8. EvidenceOK(rows.evidence)
  <2>1. rows.evidence = [e \in ids |-> EvidenceRow(Home(e), first[Home(e)], e)]
    BY <1>3
  <2>2. ASSUME NEW e \in ids PROVE Home(e) \in CaseSet /\ e \in DOMAIN Envelope[Home(e)][first[Home(e)]].evidence
    <3>1. PICK c \in CaseSet : e \in DOMAIN Envelope[c][first[c]].evidence
      BY DEF ids
    <3> QED
      BY <3>1 DEF Home
  <2>3. ASSUME NEW e \in ids PROVE IsEvidence(EvidenceRow(Home(e), first[Home(e)], e))
    BY <1>2, <2>2, SavedRows
  <2>4. IsFiniteSet(ids)
    <3> DEFINE f == [c \in CaseSet |-> DOMAIN Envelope[c][first[c]].evidence]
    <3>1. IsFiniteSet({f[c] : c \in CaseSet})
      <4> HIDE DEF f
      <4> QED
        BY CasesFinite, FiniteImage
    <3>2. \A T \in {f[c] : c \in CaseSet} : IsFiniteSet(T)
      BY <1>2, RecordTypes DEF CaseSet
    <3>3. ids = UNION {f[c] : c \in CaseSet}
      BY DEF ids
    <3> HIDE DEF f
    <3> QED
      BY <3>1, <3>2, <3>3, FS_UNION
  <2> QED
    BY <2>1, <2>3, <2>4 DEF EvidenceOK
<1>9. ClaimsOK(rows.claims)
  BY <1>3, RecordTypes DEF ClaimsOK
<1>10. RecordsOK(rows)
  BY <1>5, <1>6, <1>7, <1>8, <1>9 DEF RecordsOK
<1>11. loaded = [t \in TableNames |-> << >>]
  BY TablesAre DEF RecordsInit
<1>12. DOMAIN loaded = TableNames /\ loaded.cases = << >> /\ loaded.bounds = << >> /\ loaded.qois = << >>
       /\ loaded.evidence = << >> /\ loaded.claims = << >> /\ loaded.assess = << >>
  BY <1>11 DEF TableNames
<1>13. DOMAIN << >> = {} /\ DOMAIN << >> = 1..0
  OBVIOUS
<1>14. RecordsOK(loaded)
  <2>1. DOMAIN loaded.evidence = {}
    BY <1>12, <1>13
  <2>2. EvidenceOK(loaded.evidence)
    BY <2>1, FS_EmptySet DEF EvidenceOK
  <2> QED
    BY <1>12, <1>13, <2>2 DEF RecordsOK, CasesOK, BoundsOK, QoIsOK, ClaimsOK, AssessOK
<1>15. EvidenceAgrees(loaded)
  BY <1>12, <1>13 DEF EvidenceAgrees
<1>16. topics = Nothing
  BY DEF RecordsInit
<1> QED
  BY <1>4, <1>10, <1>12, <1>14, <1>15, <1>16 DEF TopicsInv

\* An import replaces the rows of one case.
LEMMA ImportKeeps ==
  ASSUME RowsShape, RecordsOK(rows), NEW c \in CaseSet, NEW v \in Versions, rows' = EnvelopeRows(c, v)
  PROVE  RowsShape' /\ RecordsOK(rows)'
<1> DEFINE e == Envelope[c][v]
           Same(row) == {b \in Range(e.bounds) : b.id = row.id}
           cases == [rows.cases EXCEPT ![c] = CaseRow(c, v)]
           bounds == [i \in DOMAIN rows.bounds |->
                        IF Same(rows.bounds[i]) # {}
                        THEN BoundRow(c, v, CHOOSE b \in Same(rows.bounds[i]) : TRUE) ELSE rows.bounds[i]]
           evidence == [x \in DOMAIN e.evidence \cup DOMAIN rows.evidence |->
                          IF x \in DOMAIN e.evidence THEN EvidenceRow(c, v, x) ELSE rows.evidence[x]]
<1>2. rows' = [cases |-> cases, bounds |-> bounds, qois |-> rows.qois, defs |-> rows.defs,
               evidence |-> evidence, claims |-> rows.claims, assess |-> rows.assess]
  BY DEF EnvelopeRows
<1> HIDE DEF cases, bounds, evidence
<1>3. CasesOK(cases)
  BY SavedRows DEF cases, RecordsOK, CasesOK
<1>4. BoundsOK(bounds)
  <2>1. BoundsOK(rows.bounds)
    BY DEF RecordsOK
  <2>2. DOMAIN bounds = DOMAIN rows.bounds
    BY DEF bounds
  <2>3. ASSUME NEW i \in DOMAIN rows.bounds PROVE IsBound(bounds[i])
    <3>1. CASE Same(rows.bounds[i]) = {}
      BY <2>1, <3>1 DEF bounds, BoundsOK
    <3>2. CASE Same(rows.bounds[i]) # {}
      <4> DEFINE b == CHOOSE b \in Same(rows.bounds[i]) : TRUE
      <4>1. b \in Same(rows.bounds[i])
        <5> HIDE DEF Same
        <5> QED
          BY <3>2
      <4>2. b \in Range(e.bounds)
        BY <4>1
      <4>3. bounds[i] = BoundRow(c, v, b)
        BY <3>2 DEF bounds
      <4> HIDE DEF b
      <4> QED
        BY <4>2, <4>3, SavedRows
    <3> QED
      BY <3>1, <3>2
  <2> QED
    BY <2>1, <2>2, <2>3 DEF BoundsOK
<1>5. EvidenceOK(evidence)
  <2>1. EvidenceOK(rows.evidence)
    BY DEF RecordsOK
  <2>2. DOMAIN evidence = DOMAIN e.evidence \cup DOMAIN rows.evidence
    BY DEF evidence
  <2>3. IsFiniteSet(DOMAIN evidence)
    <3>1. IsFiniteSet(DOMAIN e.evidence) /\ IsFiniteSet(DOMAIN rows.evidence)
      BY <2>1, RecordTypes DEF CaseSet, EvidenceOK
    <3> QED
      BY <2>2, <3>1, FS_Union
  <2>4. \A x \in DOMAIN evidence : IsEvidence(evidence[x])
    BY <2>1, SavedRows DEF evidence, EvidenceOK
  <2> QED
    BY <2>3, <2>4 DEF EvidenceOK
<1>6. rows'.cases = cases /\ rows'.bounds = bounds /\ rows'.evidence = evidence
      /\ rows'.qois = rows.qois /\ rows'.claims = rows.claims /\ rows'.assess = rows.assess
  BY <1>2
<1>7. RowsShape'
  BY <1>2, <1>6 DEF RowsShape
<1> QED
  BY <1>3, <1>4, <1>5, <1>6, <1>7 DEF RecordsOK

\* A save replaces one row, or one table.
LEMMA SaveKeeps ==
  ASSUME RowsShape, RecordsOK(rows),
         NEW field \in {"qois", "defs", "claims", "assess"}, NEW table,
         rows' = [rows EXCEPT ![field] = table],
         field = "qois" => QoIsOK(table), field = "claims" => ClaimsOK(table), field = "assess" => AssessOK(table)
  PROVE  RowsShape' /\ RecordsOK(rows)'
<1>1. PICK r : r = rows
  OBVIOUS
<1>2. r = [cases |-> r.cases, bounds |-> r.bounds, qois |-> r.qois, defs |-> r.defs,
           evidence |-> r.evidence, claims |-> r.claims, assess |-> r.assess]
  BY <1>1 DEF RowsShape
<1>3. rows' = [cases |-> r.cases, bounds |-> r.bounds, qois |-> IF field = "qois" THEN table ELSE r.qois,
               defs |-> IF field = "defs" THEN table ELSE r.defs, evidence |-> r.evidence,
               claims |-> IF field = "claims" THEN table ELSE r.claims,
               assess |-> IF field = "assess" THEN table ELSE r.assess]
  <2>1. rows' = [r EXCEPT ![field] = table]
    BY <1>1
  <2> QED
    BY <1>2, <2>1
<1>4. RowsShape'
  BY <1>3 DEF RowsShape
<1> QED
  BY <1>1, <1>3, <1>4 DEF RecordsOK


\* Reading a table adds it to the snapshot.
LEMMA TableRead ==
  ASSUME RowsShape, RecordsOK(rows), DOMAIN loaded = TableNames, RecordsOK(loaded), EvidenceAgrees(loaded),
         NEW t \in TableNames, loaded' = [loaded EXCEPT ![t] = Read(t)]
  PROVE  DOMAIN loaded' = TableNames /\ RecordsOK(loaded)' /\ EvidenceAgrees(loaded)'
<1>1. DOMAIN loaded' = TableNames
  OBVIOUS
<1>2. /\ loaded'.cases = (IF t = "cases" THEN Listed(rows.cases) ELSE loaded.cases)
      /\ loaded'.bounds = (IF t = "bounds" THEN Listed(rows.bounds) ELSE loaded.bounds)
      /\ loaded'.qois = (IF t = "qois" THEN Listed(rows.qois) ELSE loaded.qois)
      /\ loaded'.evidence = (IF t = "evidence" THEN Listed(rows.evidence) ELSE loaded.evidence)
      /\ loaded'.claims = (IF t = "claims" THEN rows.claims ELSE loaded.claims)
      /\ loaded'.assess = (IF t = "assess" THEN rows.assess ELSE loaded.assess)
  <2>1. /\ "cases" \in DOMAIN loaded /\ "bounds" \in DOMAIN loaded /\ "qois" \in DOMAIN loaded
        /\ "evidence" \in DOMAIN loaded /\ "claims" \in DOMAIN loaded /\ "assess" \in DOMAIN loaded
    BY DEF TableNames
  <2> QED
    BY <2>1 DEF Read
<1>3. CasesOK(loaded'.cases)
  <2>1. CasesOK(Listed(rows.cases)) /\ CasesOK(loaded.cases)
    BY ReadCases DEF RecordsOK
  <2> QED
    BY <1>2, <2>1
<1>4. BoundsOK(loaded'.bounds)
  <2>1. BoundsOK(Listed(rows.bounds)) /\ BoundsOK(loaded.bounds)
    BY ReadBounds DEF RecordsOK
  <2> QED
    BY <1>2, <2>1
<1>5. QoIsOK(loaded'.qois)
  <2>1. QoIsOK(Listed(rows.qois)) /\ QoIsOK(loaded.qois)
    BY ReadQoIs DEF RecordsOK
  <2> QED
    BY <1>2, <2>1
<1>6. EvidenceOK(loaded'.evidence) /\ EvidenceAgrees(loaded')
  <2>1. CASE t = "evidence"
    <3>1. loaded'.evidence = Listed(rows.evidence) /\ EvidenceOK(rows.evidence)
      BY <1>2, <2>1 DEF RecordsOK
    <3> QED
      BY <3>1, ReadEvidence
  <2>2. CASE t # "evidence"
    <3>1. loaded'.evidence = loaded.evidence
      BY <1>2, <2>2
    <3> QED
      BY <3>1 DEF RecordsOK, EvidenceAgrees
  <2> QED
    BY <2>1, <2>2
<1>7. ClaimsOK(loaded'.claims) /\ AssessOK(loaded'.assess)
  <2>1. ClaimsOK(rows.claims) /\ ClaimsOK(loaded.claims) /\ AssessOK(rows.assess) /\ AssessOK(loaded.assess)
    BY DEF RecordsOK
  <2> QED
    BY <1>2, <2>1
<1> QED
  BY <1>1, <1>3, <1>4, <1>5, <1>6, <1>7 DEF RecordsOK, EvidenceAgrees

LEMMA TopicsStep == TopicsInv /\ [RecordsNext]_recordVars => TopicsInv'
<1> SUFFICES ASSUME TopicsInv, [RecordsNext]_recordVars PROVE TopicsInv'
  OBVIOUS
<1> DEFINE ReadInv == DOMAIN loaded = TableNames /\ RecordsOK(loaded) /\ EvidenceAgrees(loaded)
<1>0. RowsShape /\ RecordsOK(rows) /\ ReadInv /\ (topics = Nothing \/ PlanMade)
  BY DEF TopicsInv
<1>1. ASSUME UNCHANGED rows PROVE RowsShape' /\ RecordsOK(rows)'
  BY <1>0, <1>1 DEF RowsShape, RecordsOK
<1>2. ASSUME UNCHANGED loaded PROVE ReadInv'
  BY <1>0, <1>2 DEF RecordsOK, EvidenceAgrees
<1>3. ASSUME RowsShape', RecordsOK(rows)', ReadInv', UNCHANGED <<loaded, step, topics>> PROVE TopicsInv'
  BY <1>0, <1>3 DEF TopicsInv, PlanMade
<1> HIDE DEF ReadInv
<1>4. ASSUME Saves, RowsShape', RecordsOK(rows)' PROVE TopicsInv'
  BY <1>2, <1>3, <1>4 DEF Saves
<1>5. ASSUME NEW c \in CaseSet, MarkStale(c) PROVE TopicsInv'
  BY <1>1, <1>4, <1>5 DEF MarkStale
<1>6. ASSUME NEW c \in CaseSet, NEW v \in Versions, IndexSource(c, v) PROVE TopicsInv'
  BY <1>1, <1>4, <1>6 DEF IndexSource
<1>7. ASSUME NEW c \in CaseSet, NEW v \in Versions, Import(c, v) PROVE TopicsInv'
  <2>1. RowsShape' /\ RecordsOK(rows)'
    BY <1>0, <1>7, ImportKeeps DEF Import
  <2> QED
    BY <1>4, <1>7, <2>1 DEF Import
<1>8. ASSUME NEW c \in CaseSet, NEW v \in Versions, SaveAssessments(c, v) PROVE TopicsInv'
  <2> DEFINE table == [rows.assess EXCEPT ![c] = Assessment[c][v]]
  <2>1. rows' = [rows EXCEPT !["assess"] = table]
    BY <1>8 DEF SaveAssessments
  <2>2. AssessOK(table)
    BY <1>0, SavedRows DEF RecordsOK, AssessOK
  <2> HIDE DEF table
  <2>3. RowsShape' /\ RecordsOK(rows)'
    BY <1>0, <2>1, <2>2, SaveKeeps
  <2> QED
    BY <1>4, <1>8, <2>3 DEF SaveAssessments
<1>9. ASSUME NEW k \in Keys, NEW v \in Versions, SaveQoI(k, v) PROVE TopicsInv'
  <2> DEFINE table == [rows.qois EXCEPT ![k] = QoIRow(k, v)]
  <2>1. rows' = [rows EXCEPT !["qois"] = table]
    BY <1>9 DEF SaveQoI
  <2>2. QoIsOK(table)
    <3>1. k[1] \in Range(QoIs) /\ k[2] \in CaseSet /\ k = <<k[1], k[2]>>
      BY DEF Keys
    <3>2. IsQoI(QoIRow(k, v))
      BY <3>1, SavedRows
    <3> QED
      BY <1>0, <3>2 DEF RecordsOK, QoIsOK
  <2> HIDE DEF table
  <2>3. RowsShape' /\ RecordsOK(rows)'
    BY <1>0, <2>1, <2>2, SaveKeeps
  <2> QED
    BY <1>4, <1>9, <2>3 DEF SaveQoI
<1>10. ASSUME NEW k \in Keys, NEW v \in Versions, ReplaceDefinition(k, v) PROVE TopicsInv'
  <2> DEFINE table == [rows.defs EXCEPT ![k] = DefinitionRow(k, v)]
  <2>1. rows' = [rows EXCEPT !["defs"] = table]
    BY <1>10 DEF ReplaceDefinition
  <2> HIDE DEF table
  <2>3. RowsShape' /\ RecordsOK(rows)'
    BY <1>0, <2>1, SaveKeeps
  <2> QED
    BY <1>4, <1>10, <2>3 DEF ReplaceDefinition
<1>11. ASSUME NEW claims \in ClaimSets, SaveClaims(claims) PROVE TopicsInv'
  <2>1. rows' = [rows EXCEPT !["claims"] = claims]
    BY <1>11 DEF SaveClaims
  <2>2. ClaimsOK(claims)
    BY RecordTypes DEF ClaimsOK
  <2>3. RowsShape' /\ RecordsOK(rows)'
    BY <1>0, <2>1, <2>2, SaveKeeps
  <2> QED
    BY <1>4, <1>11, <2>3 DEF SaveClaims
<1>12. CASE StartPlan
  <2>1. topics = Nothing /\ topics' = Nothing /\ UNCHANGED <<rows, loaded>>
    BY <1>12 DEF StartPlan
  <2>2. RowsShape' /\ RecordsOK(rows)' /\ ReadInv'
    BY <1>1, <1>2, <2>1
  <2> QED
    BY <2>1, <2>2 DEF TopicsInv, ReadInv
<1>13. CASE LoadTable
  <2>1. step \in TableNames /\ loaded' = [loaded EXCEPT ![step] = Read(step)] /\ UNCHANGED <<rows, topics>>
    BY <1>13, TablesAre DEF LoadTable
  <2>2. topics = Nothing
    BY <1>0, <2>1 DEF PlanMade, TableNames
  <2>3. ReadInv'
    BY <1>0, <2>1, TableRead DEF ReadInv
  <2> QED
    BY <1>1, <2>1, <2>2, <2>3 DEF TopicsInv, ReadInv
<1>14. CASE GenerateTopics
  <2> DEFINE os == Discover(loaded)
  <2>1. /\ topics' = IF Closable(loaded) /\ AcceptedDiscovery(os)
                     THEN [os |-> os, ranked |-> RankTopics(loaded, os)] ELSE Nothing
        /\ step' = "idle" /\ UNCHANGED <<rows, loaded>>
    BY <1>14 DEF GenerateTopics
  <2>2. topics' = Nothing \/ PlanMade'
    BY <2>1 DEF PlanMade
  <2>3. RowsShape' /\ RecordsOK(rows)' /\ ReadInv'
    BY <1>1, <1>2, <2>1
  <2> QED
    BY <2>2, <2>3 DEF TopicsInv, ReadInv
<1>15. CASE UNCHANGED recordVars
  BY <1>1, <1>2, <1>3, <1>15 DEF recordVars
<1> QED
  BY <1>5, <1>6, <1>7, <1>8, <1>9, <1>10, <1>11, <1>12, <1>13, <1>14, <1>15 DEF RecordsNext

LEMMA TopicsOfRecords == RecordsSpec => []TopicsInv
  BY TopicsStart, TopicsStep, PTL DEF RecordsSpec


-----------------------------------------------------------------------------
(* What is discovered in a snapshot.                                        *)
Snapshot(s) == RecordsOK(s) /\ EvidenceAgrees(s)
Seeds(s, par, cs, comparability) ==
  MatchedComparisons(s, cs, comparability) \cup OrderedResponses(s, par, cs)
    \cup CoupledAssociations(s, cs) \cup ValidationOpportunities(s, cs)
SeedsOf(s) == Seeds(s, ParameterContext(s), CurrentCases(s), Comparability(s, CurrentCases(s), ParameterContext(s)))
Tested(s) == [c \in Now(s) |-> CaseScience(s, c)]
Subjects(g) == g.names \X g.cases
Basis(s, g) == LinkedSupport(s, g, Subjects(g), ParameterContext(s), QoIScience(s), Tested(s))
Built(s, g) == BuildOpportunity(s, g, ParameterContext(s), Comparability(s, CurrentCases(s), ParameterContext(s)),
                                QoIScience(s), Tested(s))

LEMMA CurrentIs ==
  ASSUME NEW s, RecordsOK(s)
  PROVE  CurrentCases(s) \in Seq(CaseSet) /\ Range(CurrentCases(s)) = Now(s) /\ Now(s) \subseteq CaseSet
<1>1. Cases \in Seq(CaseSet)
  BY RecordTypes DEF CaseSet
<1>2. Now(s) \subseteq CaseSet
  BY DEF Now, RecordsOK, CasesOK
<1>3. CurrentCases(s) \in Seq(CaseSet) /\ Range(CurrentCases(s)) = {x \in Range(Cases) : x \in Now(s)}
  BY <1>1, AmongIs DEF CurrentCases
<1> QED
  BY <1>2, <1>3 DEF CaseSet

LEMMA SeedIs ==
  ASSUME NEW pattern, NEW cs, NEW names, NEW polarity, NEW trend, NEW links
  PROVE  LET g == Seed(pattern, cs, names, polarity, trend, links) IN
         /\ g.pattern = pattern /\ g.cases = Range(cs) /\ g.names = names /\ g.polarity = polarity
         /\ g.trend = trend /\ g.links = links
  BY DEF Seed

LEMMA SeedsAre ==
  ASSUME NEW s, NEW par, NEW cs, NEW comparability, NEW g \in Seeds(s, par, cs, comparability)
  PROVE  /\ g.cases = Range(cs) /\ g.names \subseteq Whole(s)
         /\ g.pattern = "ordered-parameter-response" => g \in OrderedResponses(s, par, cs)
         /\ g.pattern = "coupled-association" => g \in CoupledAssociations(s, cs)
<1>1. CASE g \in MatchedComparisons(s, cs, comparability)
  <2>1. PICK n, polarity : /\ n \in Whole(s)
                           /\ g = Seed("matched-comparison", cs, {n}, polarity, NoTrend, NoLinks)
    BY <1>1, Zenon DEF MatchedComparisons
  <2> QED
    BY <2>1, SeedIs
<1>2. CASE g \in OrderedResponses(s, par, cs)
  <2>1. PICK n, trend : n \in Whole(s) /\ g = Response(n, cs, trend)
    BY <1>2, Zenon DEF OrderedResponses
  <2>2. g.pattern = "ordered-parameter-response" /\ g.cases = Range(cs) /\ g.names = {n}
    BY <2>1, SeedIs DEF Response
  <2> QED
    BY <1>2, <2>1, <2>2
<1>3. CASE g \in CoupledAssociations(s, cs)
  <2>1. PICK m, n, polarity :
           m \in Whole(s) /\ n \in Whole(s) /\ g = Seed("coupled-association", cs, {m, n}, polarity, NoTrend, NoLinks)
    <3> DEFINE moving == {i \in DOMAIN QoIs : QoIs[i] \in Whole(s) /\ ~Constant(Samples(s, QoIs[i], cs))}
    <3>1. PICK e \in moving \X moving : \E polarity :
            g = Seed("coupled-association", cs, {QoIs[e[1]], QoIs[e[2]]}, polarity, NoTrend, NoLinks)
      BY <1>3 DEF CoupledAssociations
    <3>2. QoIs[e[1]] \in Whole(s) /\ QoIs[e[2]] \in Whole(s)
      OBVIOUS
    <3> QED
      BY <3>1, <3>2
  <2>2. g.pattern = "coupled-association" /\ g.cases = Range(cs) /\ g.names = {m, n}
    BY <2>1, SeedIs
  <2> QED
    BY <1>3, <2>1, <2>2
<1>4. CASE g \in ValidationOpportunities(s, cs)
  <2>1. PICK n, links : /\ n \in Whole(s)
                        /\ g = Seed("validation-robustness", cs, {n}, "not-applicable", NoTrend, links)
    BY <1>4, Zenon DEF ValidationOpportunities
  <2> QED
    BY <2>1, SeedIs
<1> QED
  BY <1>1, <1>2, <1>3, <1>4 DEF Seeds

LEMMA DiscoverIs ==
  ASSUME NEW s, RecordsOK(s), NEW o \in Discover(s)
  PROVE  \E g \in SeedsOf(s) : o = Built(s, g)
<1>1. Range(CurrentCases(s)) = Now(s)
  BY CurrentIs
<1>2. o \in Compared(s, ParameterContext(s), CurrentCases(s))
  BY DEF Discover
<1>3. o \in Discovered(s, ParameterContext(s), CurrentCases(s),
                      Comparability(s, CurrentCases(s), ParameterContext(s)), QoIScience(s), Tested(s))
  BY <1>1, <1>2 DEF Compared, Tested
<1> QED
  BY <1>3, Zenon DEF Discovered, SeedsOf, Seeds, Built


\* The fields of an opportunity the properties speak of.
IsSound(qs, sciences, gates) ==
  {"valid", "comparable", "converged", "closed"} \subseteq gates /\ \A k \in qs : sciences[k].complete
IsLinked(ids, support) == ids # {} /\ ids \subseteq support
IsRated(o, s, g, qs, par, sciences, tested, support, gates, claims) ==
  /\ o.pattern = g.pattern /\ o.cases = g.cases /\ o.qois = qs /\ o.varied = par.varied
  /\ o.polarity = g.polarity /\ o.support = support /\ o.gates = Cardinality(gates)
  /\ o.maturity = Lowest(Maturities, {Maturity(TRUE, IsSound(qs, sciences, gates)), EvidenceLevel(s, support)})
  /\ o.ceiling = EffectiveCeiling(s, g.pattern, RawCeiling(o.maturity, IsLinked(g.links.validation, support),
                                                           IsLinked(g.links.engineering, support)), claims)
  /\ o.validated <=> IsLinked(g.links.validation, support)
  /\ o.defensible <=> /\ {"traceable", "valid", "measured", "comparable"} \subseteq gates
                      /\ UNION {tested[c].gaps : c \in g.cases} = {}
                      /\ o.maturity \in {"verified", "author-approved"}
  /\ o.defensible \in BOOLEAN

LEMMA RatedIs ==
  ASSUME NEW s, NEW g, NEW qs, NEW par, NEW comparability, NEW sciences, NEW tested, NEW support, NEW gates,
         NEW claims
  PROVE  IsRated(Rated(s, g, qs, par, comparability, sciences, tested, support, gates, claims),
                 s, g, qs, par, sciences, tested, support, gates, claims)
<1> DEFINE sound == IsSound(qs, sciences, gates)
           maturity == Lowest(Maturities, {Maturity(TRUE, sound), EvidenceLevel(s, support)})
           validated == IsLinked(g.links.validation, support)
           engineering == IsLinked(g.links.engineering, support)
           untested == UNION {tested[c].gaps : c \in g.cases}
           eligible == {"traceable", "valid", "measured"} \subseteq gates
           ceiling == EffectiveCeiling(s, g.pattern, RawCeiling(maturity, validated, engineering), claims)
           defensible == /\ eligible /\ "comparable" \in gates /\ untested = {}
                         /\ maturity \in {"verified", "author-approved"}
           o == Rated(s, g, qs, par, comparability, sciences, tested, support, gates, claims)
<1> DEFINE contrast == g.links.validation \cup g.links.sensitivity
           constrained == (UNION {sciences[k].constrained : k \in qs}
                             \cup UNION {s.claims[m].evidence \cap DOMAIN s.evidence :
                                         m \in DOMAIN s.claims \ claims}) \ support
           scope == IF defensible THEN "manuscript-topic"
                    ELSE IF eligible THEN "direction-only" ELSE "missing-evidence"
           gaps == par.gaps \cup untested \cup ClaimGaps(s, claims)
                     \cup UNION {sciences[k].gaps : k \in qs}
                     \cup (IF comparability = "verified" THEN {} ELSE {<<"case-comparability-unverified">>})
                     \cup (IF sound THEN {} ELSE {<<"maturity-blocker">>})
<1>1. o = [pattern |-> g.pattern, cases |-> g.cases, qois |-> qs, trend |-> g.trend,
           varied |-> par.varied, controlled |-> par.controlled, polarity |-> g.polarity,
           contrast |-> contrast, comparability |-> comparability, maturity |-> maturity,
           ceiling |-> ceiling, support |-> support, constrained |-> constrained,
           validated |-> validated, eligible |-> eligible, defensible |-> defensible,
           scope |-> scope, gates |-> Cardinality(gates), gaps |-> gaps]
  BY Zenon DEF Rated, IsSound, IsLinked
<1> HIDE DEF contrast, constrained, scope, gaps
<1> HIDE DEF sound, maturity, ceiling, untested, o
<1>2. /\ o.pattern = g.pattern /\ o.cases = g.cases /\ o.qois = qs /\ o.varied = par.varied
      /\ o.polarity = g.polarity /\ o.support = support /\ o.gates = Cardinality(gates)
      /\ o.maturity = maturity /\ o.ceiling = ceiling
  <2> HIDE DEF validated, engineering, eligible, defensible
  <2> QED
    BY <1>1
<1>3. o.validated = validated /\ o.defensible = defensible
  <2> HIDE DEF validated, engineering, eligible, defensible
  <2> QED
    BY <1>1
<1>4. o.ceiling = EffectiveCeiling(s, g.pattern, RawCeiling(o.maturity, validated, engineering), claims)
  BY <1>2, Zenon DEF ceiling
<1>5. o.maturity = Lowest(Maturities, {Maturity(TRUE, sound), EvidenceLevel(s, support)})
  BY <1>2, Zenon DEF maturity
<1>6. o.validated <=> validated
  BY <1>3, Zenon
<1>7. o.defensible <=> /\ {"traceable", "valid", "measured", "comparable"} \subseteq gates
                       /\ untested = {} /\ maturity \in {"verified", "author-approved"}
  <2>1. o.defensible <=> defensible
    BY <1>3, Zenon
  <2>2. {"traceable", "valid", "measured", "comparable"} \subseteq gates
          <=> {"traceable", "valid", "measured"} \subseteq gates /\ "comparable" \in gates
    OBVIOUS
  <2> QED
    BY <2>1, <2>2, Zenon
<1>8. o.defensible \in BOOLEAN
  BY <1>3, Zenon
<1> QED
  BY <1>2, <1>4, <1>5, <1>6, <1>7, <1>8, Zenon DEF IsRated, o, sound, untested, maturity


LEMMA SubjectsAre ==
  ASSUME NEW s, RecordsOK(s), NEW g \in SeedsOf(s)
  PROVE  /\ g.cases = Now(s) /\ g.names \subseteq Range(QoIs)
         /\ \A n \in g.names : Paired(s, n) /\ \A c \in Now(s) : <<n, c>> \in DOMAIN s.qois
         /\ Subjects(g) \subseteq DOMAIN s.qois
<1>1. g.cases = Now(s) /\ g.names \subseteq Whole(s)
  BY CurrentIs, SeedsAre DEF SeedsOf
<1>2. \A n \in g.names : n \in Range(QoIs) /\ Paired(s, n)
  BY <1>1 DEF Whole
<1>3. ASSUME NEW n \in g.names, NEW c \in Now(s) PROVE <<n, c>> \in DOMAIN s.qois
  <2>1. c \in SeriesCases(s, n)
    BY <1>2 DEF Paired
  <2>2. PICK k \in DOMAIN s.qois : k[1] = n /\ k[2] = c
    BY <2>1 DEF SeriesCases
  <2>3. k = <<k[1], k[2]>>
    BY DEF RecordsOK, QoIsOK, Keys
  <2> QED
    BY <2>2, <2>3
<1> QED
  BY <1>1, <1>2, <1>3 DEF Subjects

\* The evidence of one case, and when it leaves nothing open.
LEMMA CaseScienceIs ==
  ASSUME NEW s, NEW c
  PROVE  LET t == CaseScience(s, c)  a == s.assess[c] IN
         /\ \A e \in t.support : e \in DOMAIN s.evidence /\ ~s.evidence[e].stale
         /\ t.gaps = {} =>
              /\ c \in DOMAIN s.assess
              /\ \A k \in AssessmentKinds : a.evidence[k] # {} /\ \A e \in a.evidence[k] :
                   e \in DOMAIN s.evidence /\ ~s.evidence[e].stale /\ s.evidence[e].src = s.cases[c].src
         /\ t.grade = "strong" => Convergence(a.residuals, a.targets, a.span) = "strong"
         /\ t.conserves => Conserves(a.inflow, a.outflow, a.tolerance)
<1> DEFINE t == CaseScience(s, c)
           a == s.assess[c]
<1>1. CASE c \notin DOMAIN s.assess
  <2>1. t = [grade |-> "none", conserves |-> FALSE, support |-> {},
             gaps |-> {<<"assessment-evidence-missing", k, c>> : k \in AssessmentKinds}]
    BY <1>1 DEF CaseScience
  <2>2. t.support = {} /\ t.grade = "none" /\ t.conserves = FALSE /\ <<"assessment-evidence-missing", "case", c>> \in t.gaps
    BY <2>1 DEF AssessmentKinds
  <2>3. ~t.conserves
    BY <2>2, Zenon
  <2> QED
    BY <2>2, <2>3
<1>2. CASE c \in DOMAIN s.assess
  <2> DEFINE Good(k) == {e \in a.evidence[k] :
                           /\ e \in DOMAIN s.evidence
                           /\ s.evidence[e].kind = k /\ ~s.evidence[e].stale
                           /\ s.evidence[e].src = s.cases[c].src}
             missing == {<<"assessment-evidence-missing", k, c>> :
                           k \in {k \in AssessmentKinds : a.evidence[k] = {}}}
             blocked == UNION {{<<"assessment-evidence-blocked", k, c, e>> :
                                  e \in a.evidence[k] \ Good(k)} : k \in AssessmentKinds}
             support == UNION {Good(k) : k \in AssessmentKinds}
             grade == Convergence(a.residuals, a.targets, a.span)
             conserves == Conserves(a.inflow, a.outflow, a.tolerance)
             gaps == missing \cup blocked
  <2>1. t = [grade |-> grade, conserves |-> conserves, support |-> support, gaps |-> gaps]
    BY <1>2, Zenon DEF CaseScience
  <2> HIDE DEF t, grade, conserves, support, gaps
  <2>2. t.grade = grade /\ t.conserves = conserves /\ t.support = support /\ t.gaps = gaps
    BY <2>1
  <2>3. \A e \in t.support : e \in DOMAIN s.evidence /\ ~s.evidence[e].stale
    BY <2>2 DEF support
  <2>4. ASSUME t.gaps = {}, NEW k \in AssessmentKinds
        PROVE  a.evidence[k] # {} /\ \A e \in a.evidence[k] :
                 e \in DOMAIN s.evidence /\ ~s.evidence[e].stale /\ s.evidence[e].src = s.cases[c].src
    <3>1. missing = {} /\ blocked = {}
      BY <2>2, <2>4 DEF gaps
    <3>2. a.evidence[k] # {}
      <4>1. a.evidence[k] = {} => <<"assessment-evidence-missing", k, c>> \in missing
        OBVIOUS
      <4> QED
        BY <3>1, <4>1
    <3>3. ASSUME NEW e \in a.evidence[k] PROVE e \in Good(k)
      <4>1. e \notin Good(k) => <<"assessment-evidence-blocked", k, c, e>> \in blocked
        <5> HIDE DEF Good
        <5> QED
          OBVIOUS
      <4> HIDE DEF Good, blocked
      <4> QED
        BY <3>1, <4>1
    <3> QED
      BY <3>2, <3>3
  <2>5. t.conserves => conserves
    BY <2>2, Zenon
  <2> QED
    BY <1>2, <2>2, <2>3, <2>4, <2>5 DEF grade, conserves, t
<1> QED
  BY <1>1, <1>2

LEMMA StrongIs ==
  ASSUME NEW residuals, NEW targets, NEW span, Convergence(residuals, targets, span) = "strong"
  PROVE  /\ \A n \in DOMAIN targets : residuals[n] <= targets[n]
         /\ \A x \in span : x <= StrongSpan
  BY DEF Convergence

LEMMA ClosedIs ==
  ASSUME NEW in \in Nat, NEW out \in Nat, NEW tolerance \in Nat, Conserves(in, out, tolerance)
  PROVE  /\ in + out > 0 /\ 1000 * (in - out) <= tolerance * in
         /\ 1000 * (out - in) <= tolerance * out
<1>1. tolerance * in \in Nat /\ tolerance * out \in Nat
  OBVIOUS
<1>2. CASE in >= out
  <2>1. in > 0 /\ (in - out) * 1000 <= tolerance * in
    BY <1>2 DEF Conserves
  <2>2. PICK a \in Nat, b \in Nat : a = tolerance * in /\ b = tolerance * out
    BY <1>1
  <2> QED
    BY <1>2, <2>1, <2>2
<1>3. CASE ~ (in >= out)
  <2>1. out > 0 /\ (out - in) * 1000 <= tolerance * out
    BY <1>3 DEF Conserves
  <2>2. PICK a \in Nat, b \in Nat : a = tolerance * in /\ b = tolerance * out
    BY <1>1
  <2> QED
    BY <1>3, <2>1, <2>2
<1> QED
  BY <1>2, <1>3

\* What supports an opportunity was read, and is current.
LEMMA BasisIs ==
  ASSUME NEW s, RecordsOK(s), NEW g \in SeedsOf(s), NEW e \in Basis(s, g)
  PROVE  e \in DOMAIN s.evidence /\ ~s.evidence[e].stale
<1> DEFINE par == ParameterContext(s)
           primary == UNION {QoIScience(s)[k].primary : k \in Subjects(g)}
           fresh == {x \in Links(g) \cap DOMAIN s.evidence : ~s.evidence[x].stale}
<1>1. e \in primary \/ e \in fresh \/ e \in par.evidence \/ e \in UNION {Tested(s)[c].support : c \in g.cases}
  BY DEF Basis, LinkedSupport
<1>2. ASSUME e \in primary PROVE e \in DOMAIN s.evidence /\ ~s.evidence[e].stale
  <2>1. PICK k \in Subjects(g) : e \in QoIScience(s)[k].primary
    BY <1>2
  <2>2. k \in DOMAIN s.qois
    BY SubjectsAre
  <2>3. QoIScience(s)[k].primary = IF BasicallyValid(s, k) THEN Standing(s, k) ELSE {}
    BY <2>2 DEF QoIScience
  <2> QED
    BY <2>1, <2>3 DEF Standing
<1>3. ASSUME e \in par.evidence PROVE e \in DOMAIN s.evidence /\ ~s.evidence[e].stale
  <2>1. PICK p \in Params : e \in UNION {ExactEvidence(s, s.bounds[i]) : i \in Giving(s, p)}
    BY <1>3 DEF ParameterContext
  <2>2. PICK i \in Giving(s, p) : e \in ExactEvidence(s, s.bounds[i])
    BY <2>1
  <2> QED
    BY <2>2 DEF Giving, Traced, ExactEvidence
<1>4. ASSUME e \in UNION {Tested(s)[c].support : c \in g.cases} PROVE e \in DOMAIN s.evidence /\ ~s.evidence[e].stale
  <2>1. PICK c \in Now(s) : e \in CaseScience(s, c).support
    BY <1>4, SubjectsAre DEF Tested
  <2> QED
    BY <2>1, CaseScienceIs
<1> QED
  BY <1>1, <1>2, <1>3, <1>4


Verified == {"verified", "author-approved"}

\* An opportunity is verified only when the checks were met and all its evidence is.
LEMMA LevelIs ==
  ASSUME NEW s, RecordsOK(s), NEW ids \in SUBSET DOMAIN s.evidence, NEW sound,
         Lowest(Maturities, {Maturity(TRUE, sound), EvidenceLevel(s, ids)}) \in Verified
  PROVE  sound /\ ids # {} /\ \A e \in ids : s.evidence[e].maturity \in Verified
<1> DEFINE level == EvidenceLevel(s, ids)
           S == {s.evidence[e].maturity : e \in ids}
           both == {Maturity(TRUE, sound), level}
<1>0. Lowest(Maturities, both) \in Verified
  OBVIOUS
<1>7. Rank(Maturities, Lowest(Maturities, both)) \in {3, 4}
  <2> HIDE DEF both
  <2> QED
    BY <1>0, MaturitiesAre DEF Verified
<1>1. S \subseteq Range(Maturities)
  BY DEF RecordsOK, EvidenceOK, IsEvidence
<1>2. ids # {} => /\ level \in S
                  /\ \A x \in S : Rank(Maturities, level) <= Rank(Maturities, x)
  <2>1. ASSUME ids # {} PROVE S # {} /\ level = Lowest(Maturities, S)
    BY <2>1 DEF EvidenceLevel
  <2> HIDE DEF S, level
  <2> QED
    BY <1>1, <2>1, LowestIs, MaturitiesAre
<1>3. ids = {} => level = "raw"
  BY DEF EvidenceLevel
<1> HIDE DEF S, level
<1>4. level \in Range(Maturities)
  BY <1>1, <1>2, <1>3, MaturitiesAre
<1>5. Maturity(TRUE, sound) \in {"verified", "screened"} /\ (Maturity(TRUE, sound) = "verified" => sound)
  BY DEF Maturity
<1>6. \A x \in both : Rank(Maturities, Lowest(Maturities, both)) <= Rank(Maturities, x)
  <2>1. both \subseteq Range(Maturities) /\ both # {}
    BY <1>4, <1>5, MaturitiesAre
  <2> HIDE DEF both
  <2> QED
    BY <2>1, LowestIs, MaturitiesAre
<1>8. sound
  <2>1. Rank(Maturities, Maturity(TRUE, sound)) # 2
    <3>1. PICK m : m = Maturity(TRUE, sound)
      OBVIOUS
    <3>2. m \in both
      BY <3>1
    <3> HIDE DEF both
    <3>3. Rank(Maturities, Lowest(Maturities, both)) <= Rank(Maturities, m)
      BY <1>6, <3>2
    <3>4. Rank(Maturities, m) # 2
      BY <1>7, <3>3
    <3> QED
      BY <3>1, <3>4, Zenon
  <2>2. Maturity(TRUE, sound) # "screened"
    BY <2>1, MaturitiesAre, Zenon
  <2> QED
    BY <1>5, <2>2, Zenon
<1>9. Rank(Maturities, level) \in {3, 4}
  <2>1. Rank(Maturities, level) \in 1..4
    BY <1>4, RankIn, MaturitiesAre
  <2>2. \E r \in {3, 4} : r <= Rank(Maturities, level)
    BY <1>6, <1>7
  <2> QED
    BY <2>1, <2>2
<1>10. ids # {}
  BY <1>3, <1>9, MaturitiesAre
<1>11. ASSUME NEW e \in ids PROVE s.evidence[e].maturity \in Verified
  <2>1. s.evidence[e].maturity \in S /\ s.evidence[e].maturity \in Range(Maturities)
    BY <1>1 DEF S
  <2>2. Rank(Maturities, level) <= Rank(Maturities, s.evidence[e].maturity)
    BY <1>2, <1>10, <2>1
  <2> QED
    BY <1>9, <2>1, <2>2, MaturitiesAre DEF Verified
<1> QED
  BY <1>8, <1>10, <1>11

\* What it takes to be fit for a manuscript.
Fit(s, g) ==
  /\ Traceable(ParameterContext(s))
  /\ \A k \in Subjects(g) : QoIScience(s)[k].valid /\ QoIScience(s)[k].complete
  /\ Comparability(s, CurrentCases(s), ParameterContext(s)) = "verified"
  /\ \A c \in Now(s) : /\ CaseScience(s, c).gaps = {} /\ CaseScience(s, c).grade = "strong"
                       /\ CaseScience(s, c).conserves
  /\ Basis(s, g) # {} /\ \A e \in Basis(s, g) : s.evidence[e].maturity \in Verified

LEMMA BuiltIs ==
  ASSUME NEW s, NEW g
  PROVE  IsRated(Built(s, g), s, g, Subjects(g), ParameterContext(s), QoIScience(s), Tested(s), Basis(s, g),
                 Gates(g, Subjects(g), ParameterContext(s),
                       Comparability(s, CurrentCases(s), ParameterContext(s)), QoIScience(s), Tested(s)),
                 SupportedClaims(s, Basis(s, g)))
<1> DEFINE par == ParameterContext(s)
           qs == Subjects(g)
           comparability == Comparability(s, CurrentCases(s), par)
           sciences == QoIScience(s)
           tested == Tested(s)
           support == Basis(s, g)
           gates == Gates(g, qs, par, comparability, sciences, tested)
<1>1. Built(s, g) = Rated(s, g, qs, par, comparability, sciences, tested, support, gates, SupportedClaims(s, support))
  BY Zenon DEF Built, BuildOpportunity, Subjects, Basis
<1> HIDE DEF par, qs, comparability, sciences, tested, support, gates
<1>2. IsRated(Built(s, g), s, g, qs, par, sciences, tested, support, gates, SupportedClaims(s, support))
  BY <1>1, RatedIs, Zenon
<1> QED
  BY <1>2, Zenon DEF par, qs, comparability, sciences, tested, support, gates

LEMMA DefensibleIs ==
  ASSUME NEW s, RecordsOK(s), NEW g \in SeedsOf(s), Built(s, g).defensible
  PROVE  Fit(s, g)
<1> DEFINE par == ParameterContext(s)
           qs == Subjects(g)
           comparability == Comparability(s, CurrentCases(s), par)
           sciences == QoIScience(s)
           tested == Tested(s)
           support == Basis(s, g)
           gates == Gates(g, qs, par, comparability, sciences, tested)
           sound == IsSound(qs, sciences, gates)
           o == Built(s, g)
<1>0. g.cases = Now(s)
  BY SubjectsAre
<1>1. IsRated(o, s, g, qs, par, sciences, tested, support, gates, SupportedClaims(s, support))
  BY BuiltIs, Zenon
<1> HIDE DEF par, qs, comparability, sciences, support, gates, o
<1>2. /\ o.maturity = Lowest(Maturities, {Maturity(TRUE, sound), EvidenceLevel(s, support)})
      /\ o.defensible <=> /\ {"traceable", "valid", "measured", "comparable"} \subseteq gates
                          /\ UNION {tested[c].gaps : c \in g.cases} = {}
                          /\ o.maturity \in Verified
  BY <1>1, Zenon DEF IsRated, Verified
<1> HIDE DEF sound
<1>3. {"traceable", "valid", "measured", "comparable"} \subseteq gates
      /\ UNION {tested[c].gaps : c \in g.cases} = {} /\ o.maturity \in Verified
  BY <1>2 DEF o
<1>4. support \in SUBSET DOMAIN s.evidence
  BY BasisIs DEF support
<1>5. sound /\ support # {} /\ \A e \in support : s.evidence[e].maturity \in Verified
  <2>1. Lowest(Maturities, {Maturity(TRUE, sound), EvidenceLevel(s, support)}) \in Verified
    BY <1>2, <1>3, Zenon
  <2> QED
    BY <1>4, <2>1, LevelIs, Zenon
<1>6. {"traceable", "valid", "comparable", "converged", "closed"} \subseteq gates
      /\ \A k \in qs : sciences[k].complete
  BY <1>3, <1>5 DEF sound, IsSound
<1>7. /\ Traceable(par) /\ \A k \in qs : sciences[k].valid
      /\ comparability = "verified"
      /\ \A c \in g.cases : tested[c].grade = "strong" /\ tested[c].conserves
  BY <1>6 DEF gates, Gates
<1>8. \A c \in Now(s) : tested[c] = CaseScience(s, c)
  BY DEF Tested
<1>9. \A c \in Now(s) : tested[c].gaps = {}
  BY <1>0, <1>3
<1> QED
  BY <1>0, <1>5, <1>6, <1>7, <1>8, <1>9 DEF Fit, par, qs, comparability, sciences, support


-----------------------------------------------------------------------------
(* The declared parameters.                                                 *)
Given(s) == {p \in Params : Giving(s, p) # {}}
RolesOf(s, p) == {s.bounds[i].role : i \in Giving(s, p)}
LastOf(s, p, c, i) == /\ i \in Giving(s, p) /\ s.bounds[i].case = c
                      /\ \A j \in Giving(s, p) : s.bounds[j].case = c => j <= i

LEMMA ValueIs ==
  ASSUME NEW s, RecordsOK(s), NEW p, NEW c \in {s.bounds[i].case : i \in Giving(s, p)}
  PROVE  \E i : LastOf(s, p, c, i) /\ ParameterValues(s, p)[c] = s.bounds[i].values[p]
<1> DEFINE T == {i \in Giving(s, p) : s.bounds[i].case = c}
           Fits(i) == s.bounds[i].case = c /\ \A j \in Giving(s, p) : s.bounds[j].case = c => j <= i
           i == CHOOSE i \in Giving(s, p) : Fits(i)
<1>1. PICK n \in Nat : DOMAIN s.bounds = 1..n
  BY DEF RecordsOK, BoundsOK
<1>2. T \in SUBSET (1..n) /\ T # {}
  BY <1>1 DEF Giving, Traced, Declared
<1>3. \E k \in T : \A m \in T : m <= k
  <2> HIDE DEF T
  <2> QED
    BY <1>2, GreatestNat
<1>4. PICK k \in Giving(s, p) : Fits(k)
  BY <1>3
<1>5. i \in Giving(s, p) /\ Fits(i)
  <2> HIDE DEF Fits
  <2> QED
    BY <1>4
<1>6. ParameterValues(s, p)[c] = s.bounds[i].values[p]
  BY DEF ParameterValues
<1> HIDE DEF i
<1> QED
  BY <1>5, <1>6 DEF LastOf

LEMMA LastIs ==
  ASSUME NEW s, RecordsOK(s), NEW p, NEW c, NEW i, LastOf(s, p, c, i)
  PROVE  ParameterValues(s, p)[c] = s.bounds[i].values[p]
<1>1. PICK n \in Nat : DOMAIN s.bounds = 1..n
  BY DEF RecordsOK, BoundsOK
<1>2. Giving(s, p) \subseteq 1..n
  BY <1>1 DEF Giving, Traced, Declared
<1>3. PICK k : LastOf(s, p, c, k) /\ ParameterValues(s, p)[c] = s.bounds[k].values[p]
  <2>1. c \in {s.bounds[j].case : j \in Giving(s, p)}
    BY DEF LastOf
  <2> QED
    BY <2>1, ValueIs
<1>4. i \in 1..n /\ k \in 1..n /\ i <= k /\ k <= i
  BY <1>2, <1>3 DEF LastOf
<1>5. i = k
  BY <1>4
<1> QED
  BY <1>3, <1>5

LEMMA RolesAre ==
  ASSUME NEW s, RecordsOK(s), NEW p
  PROVE  /\ RolesOf(s, p) \subseteq {"varied", "controlled"}
         /\ Cardinality(RolesOf(s, p)) = 1 <=> \E r : RolesOf(s, p) = {r}
<1>1. RolesOf(s, p) \in SUBSET {"varied", "controlled"}
  BY DEF RolesOf, Giving, Traced, Declared
<1>2. IsFiniteSet({"varied", "controlled"})
  <2>1. IsFiniteSet({"varied"}) /\ IsFiniteSet({"controlled"})
    BY FS_Singleton
  <2>2. IsFiniteSet({"varied"} \cup {"controlled"})
    BY <2>1, FS_Union
  <2>3. {"varied"} \cup {"controlled"} = {"varied", "controlled"}
    OBVIOUS
  <2> QED
    BY <2>2, <2>3
<1>3. IsFiniteSet(RolesOf(s, p))
  BY <1>1, <1>2, FS_Subset
<1> QED
  BY <1>1, <1>3, FS_Singleton

LEMMA GapIs ==
  ASSUME NEW s, RecordsOK(s), NEW p
  PROVE  /\ ParameterGap(s, p) # "bound" /\ "controlled" \in RolesOf(s, p) => ParameterGap(s, p) \in Unresolved
         /\ ParameterGap(s, p) = "bound" =>
              /\ \E r : RolesOf(s, p) = {r}
              /\ DOMAIN ParameterValues(s, p) = Now(s)
              /\ \A c, d \in Now(s) : Compatible(ParameterValues(s, p)[c][2], ParameterValues(s, p)[d][2])
              /\ "varied" \in RolesOf(s, p) =>
                   \E c, d \in Now(s) :
                     InBase(ParameterValues(s, p)[c][1], ParameterValues(s, p)[c][2])
                       # InBase(ParameterValues(s, p)[d][1], ParameterValues(s, p)[d][2])
<1> DEFINE v == ParameterValues(s, p)
           roles == RolesOf(s, p)
           alike == \A c, d \in DOMAIN v : InBase(v[c][1], v[c][2]) = InBase(v[d][1], v[d][2])
<1>1. ParameterGap(s, p) =
        IF Cardinality(roles) # 1 THEN "parameter-role-conflict"
        ELSE IF DOMAIN v # Now(s) THEN "parameter-binding-incomplete"
        ELSE IF \E c, d \in DOMAIN v : ~Compatible(v[c][2], v[d][2]) THEN "parameter-unit-incompatible"
        ELSE IF roles = {"varied"} /\ alike THEN "varied-parameter-not-varying" ELSE "bound"
  BY Zenon DEF ParameterGap, RolesOf
<1> HIDE DEF v, roles
<1>2. (Cardinality(roles) = 1 <=> \E r : roles = {r})
  BY RolesAre DEF roles
<1>3. ASSUME ParameterGap(s, p) # "bound", "controlled" \in roles PROVE ParameterGap(s, p) \in Unresolved
  <2>1. roles # {"varied"}
    BY <1>3
  <2> HIDE DEF alike
  <2> QED
    BY <1>1, <1>3, <2>1 DEF Unresolved
<1>4. ASSUME ParameterGap(s, p) = "bound"
      PROVE  /\ \E r : roles = {r}
             /\ DOMAIN v = Now(s)
             /\ \A c, d \in Now(s) : Compatible(v[c][2], v[d][2])
             /\ "varied" \in roles => \E c, d \in Now(s) : InBase(v[c][1], v[c][2]) # InBase(v[d][1], v[d][2])
  <2>1. /\ Cardinality(roles) = 1 /\ DOMAIN v = Now(s)
        /\ \A c, d \in DOMAIN v : Compatible(v[c][2], v[d][2])
        /\ ~ (roles = {"varied"} /\ alike)
    <3> HIDE DEF alike
    <3> QED
      BY <1>1, <1>4
  <2> QED
    BY <1>2, <2>1
<1> QED
  BY <1>3, <1>4 DEF v, roles

LEMMA ContextIs ==
  ASSUME NEW s, NEW p \in Given(s)
  PROVE  LET par == ParameterContext(s) IN
         /\ par.values[p] = ParameterValues(s, p)
         /\ ParameterGap(s, p) # "bound" => <<ParameterGap(s, p), p>> \in par.gaps
         /\ ParameterGap(s, p) = "bound" /\ RolesOf(s, p) = {"controlled"} => p \in par.controlled
         /\ p \in par.varied => ParameterGap(s, p) = "bound" /\ "varied" \in RolesOf(s, p)
<1> DEFINE given == Given(s)
           bound == {q \in given : ParameterGap(s, q) = "bound"}
           Role(q) == s.bounds[CHOOSE i \in Giving(s, q) : TRUE].role
           values == [q \in given |-> ParameterValues(s, q)]
           varied == {q \in bound : Role(q) = "varied"}
           controlled == {q \in bound : Role(q) = "controlled"}
           evidence == UNION {UNION {ExactEvidence(s, s.bounds[i]) : i \in Giving(s, q)} : q \in bound}
           gaps == BoundaryGaps(s) \cup {<<ParameterGap(s, q), q>> : q \in given \ bound}
                     \cup (IF \E q \in bound : Role(q) = "varied" THEN {}
                           ELSE {<<"comparison-factor-missing">>})
           par == ParameterContext(s)
<1>1. par = [values |-> values, varied |-> varied, controlled |-> controlled, evidence |-> evidence, gaps |-> gaps]
  BY Zenon DEF ParameterContext, Given
<1> HIDE DEF par, values, varied, controlled, evidence, gaps
<1>2. par.values = values /\ par.varied = varied /\ par.controlled = controlled /\ par.gaps = gaps
  BY <1>1
<1>3. Role(p) \in RolesOf(s, p)
  <2>1. Giving(s, p) # {}
    BY DEF Given
  <2> QED
    BY <2>1 DEF RolesOf
<1> HIDE DEF Role
<1>4. par.values[p] = ParameterValues(s, p)
  BY <1>2 DEF values
<1>5. ParameterGap(s, p) # "bound" => <<ParameterGap(s, p), p>> \in par.gaps
  BY <1>2 DEF gaps
<1>6. ParameterGap(s, p) = "bound" /\ RolesOf(s, p) = {"controlled"} => p \in par.controlled
  BY <1>2, <1>3 DEF controlled
<1>7. p \in par.varied => ParameterGap(s, p) = "bound" /\ "varied" \in RolesOf(s, p)
  BY <1>2, <1>3 DEF varied
<1> QED
  BY <1>4, <1>5, <1>6, <1>7 DEF par

LEMMA VariedIs ==
  ASSUME NEW s
  PROVE  /\ ParameterContext(s).varied \subseteq Given(s)
         /\ BoundaryGaps(s) \subseteq ParameterContext(s).gaps
         /\ ParameterContext(s).controlled \subseteq Given(s)
  BY DEF ParameterContext, Given

\* With the gaps closed, every traced boundary of every parameter counts.
LEMMA TracedCounts ==
  ASSUME NEW s, RecordsOK(s), Traceable(ParameterContext(s)), NEW i \in Traced(s), NEW p \in DOMAIN s.bounds[i].values
  PROVE  /\ i \in Giving(s, p) /\ p \in Given(s)
         /\ s.bounds[i].role = "controlled" =>
              /\ ParameterGap(s, p) = "bound" /\ p \in ParameterContext(s).controlled
<1> DEFINE par == ParameterContext(s)
<1>1. \A x \in par.gaps : x[1] \notin Unresolved
  BY DEF Traceable
<1> HIDE DEF par
<1>2. Known(s.bounds[i].values[p][2])
  <2>1. SUFFICES ASSUME ~Known(s.bounds[i].values[p][2]) PROVE FALSE
    OBVIOUS
  <2> DEFINE x == <<"parameter-binding-invalid", p, s.bounds[i].id>>
  <2>2. x \in BoundaryGaps(s)
    BY <2>1 DEF BoundaryGaps
  <2>3. x \in par.gaps
    BY <2>2, VariedIs DEF par
  <2>4. x[1] \in Unresolved
    BY DEF Unresolved
  <2> HIDE DEF x
  <2> QED
    BY <1>1, <2>3, <2>4
<1>3. p \in Params
  BY DEF RecordsOK, BoundsOK, IsBound, Traced, Declared
<1>4. i \in Giving(s, p) /\ p \in Given(s)
  BY <1>2, <1>3 DEF Giving, Given
<1>5. ASSUME s.bounds[i].role = "controlled"
      PROVE  ParameterGap(s, p) = "bound" /\ p \in par.controlled
  <2>1. "controlled" \in RolesOf(s, p)
    BY <1>4, <1>5 DEF RolesOf
  <2>2. ParameterGap(s, p) = "bound"
    <3>1. SUFFICES ASSUME ParameterGap(s, p) # "bound" PROVE FALSE
      OBVIOUS
    <3> DEFINE x == <<ParameterGap(s, p), p>>
    <3>2. x \in par.gaps
      BY <1>4, <3>1, ContextIs DEF par
    <3>3. x[1] \in Unresolved
      BY <2>1, <3>1, GapIs
    <3> HIDE DEF x
    <3> QED
      BY <1>1, <3>2, <3>3
  <2>3. RolesOf(s, p) = {"controlled"}
    BY <2>1, <2>2, GapIs
  <2> QED
    BY <1>4, <2>2, <2>3, ContextIs DEF par
<1> QED
  BY <1>4, <1>5 DEF par


\* Comparing each case with the next compares them all.
LEMMA ControlledAgree ==
  ASSUME NEW s, RecordsOK(s), NEW par, Comparability(s, CurrentCases(s), par) = "verified",
         NEW p \in par.controlled, NEW c \in Now(s), NEW d \in Now(s)
  PROVE  InBase(par.values[p][c][1], par.values[p][c][2]) = InBase(par.values[p][d][1], par.values[p][d][2])
<1> DEFINE cs == CurrentCases(s)
           n == Len(cs)
           X(a) == InBase(par.values[p][a][1], par.values[p][a][2])
           Conditions(a) == [q \in par.controlled |-> par.values[q][a]]
<1>1. cs \in Seq(CaseSet) /\ Range(cs) = Now(s)
  BY CurrentIs
<1>2. ASSUME NEW i \in 1..(n - 1)
      PROVE  CaseComparable(<<Conditions(cs[i]), Conditions(cs[i + 1])>>,
                            <<s.cases[cs[i]].solver, s.cases[cs[i + 1]].solver>>)
  BY <1>2 DEF Comparability
<1> HIDE DEF cs
<1>3. ASSUME NEW i \in 1..(n - 1) PROVE X(cs[i]) = X(cs[i + 1])
  <2>1. PICK a, b : a = Conditions(cs[i]) /\ b = Conditions(cs[i + 1])
    OBVIOUS
  <2>2. ~ConditionDiffers(a[p], b[p])
    <3>1. p \in DOMAIN a
      BY <2>1
    <3>2. CaseComparable(<<a, b>>, <<s.cases[cs[i]].solver, s.cases[cs[i + 1]].solver>>)
      BY <1>2, <2>1
    <3> QED
      BY <3>1, <3>2 DEF CaseComparable
  <2>3. a[p] = par.values[p][cs[i]] /\ b[p] = par.values[p][cs[i + 1]]
    BY <2>1
  <2> QED
    BY <2>2, <2>3 DEF ConditionDiffers
<1> HIDE DEF X
<1>4. \A i \in 1..n : X(cs[i]) = X(cs[1])
  <2> DEFINE T == {i \in 0..n : i = 0 \/ X(cs[i]) = X(cs[1])}
  <2>0. n \in Nat
    BY <1>1
  <2>1. 0 \in T
    BY <2>0
  <2>2. ASSUME NEW i \in 1..n, i - 1 \in T PROVE i \in T
    <3>1. CASE i = 1
      BY <2>0, <3>1
    <3>2. CASE i # 1
      <4>1. i - 1 \in 1..(n - 1) /\ (i - 1) + 1 = i /\ i - 1 # 0
        BY <2>0, <3>2
      <4>2. X(cs[i - 1]) = X(cs[i])
        BY <1>3, <4>1
      <4> QED
        BY <2>0, <2>2, <4>1, <4>2
    <3> QED
      BY <3>1, <3>2
  <2> HIDE DEF T, n
  <2>3. \A i \in 0..n : i \in T
    BY <2>0, <2>1, <2>2, UpTo
  <2> QED
    BY <2>0, <2>3 DEF T
<1>5. PICK i \in 1..n, j \in 1..n : cs[i] = c /\ cs[j] = d
  BY <1>1 DEF Range
<1> QED
  BY <1>4, <1>5 DEF X

\* What the opportunity, its snapshot and the records in it must be.
FitRecords(s, o) ==
  /\ \A c \in o.cases :
       LET a == s.assess[c] IN
       /\ ~s.cases[c].stale /\ c \in DOMAIN s.assess
       /\ \A k \in AssessmentKinds : a.evidence[k] # {} /\ \A e \in a.evidence[k] :
            s.evidence[e].src = s.cases[c].src /\ ~s.evidence[e].stale
       /\ \A n \in DOMAIN a.targets : a.residuals[n] <= a.targets[n]
       /\ \A x \in a.span : x <= StrongSpan
       /\ a.inflow + a.outflow > 0 /\ 1000 * (a.inflow - a.outflow) <= a.tolerance * a.inflow
       /\ 1000 * (a.outflow - a.inflow) <= a.tolerance * a.outflow
  /\ \A k \in o.qois : ~s.qois[k].stale /\ s.defs[k].complete
                        /\ Compatible(s.qois[k].unit, s.defs[k].unit)

LEMMA FitRecordsIs ==
  ASSUME NEW s, RecordsOK(s), Closable(s), NEW g \in SeedsOf(s), Fit(s, g)
  PROVE  FitRecords(s, [cases |-> g.cases, qois |-> Subjects(g)])
<1>0. g.cases = Now(s) /\ Subjects(g) \subseteq DOMAIN s.qois
  BY SubjectsAre
<1>1. ASSUME NEW c \in Now(s)
      PROVE  LET a == s.assess[c] IN
             /\ ~s.cases[c].stale /\ c \in DOMAIN s.assess
             /\ \A k \in AssessmentKinds : a.evidence[k] # {} /\ \A e \in a.evidence[k] :
                  s.evidence[e].src = s.cases[c].src /\ ~s.evidence[e].stale
             /\ \A n \in DOMAIN a.targets : a.residuals[n] <= a.targets[n]
             /\ \A x \in a.span : x <= StrongSpan
             /\ a.inflow + a.outflow > 0 /\ 1000 * (a.inflow - a.outflow) <= a.tolerance * a.inflow
             /\ 1000 * (a.outflow - a.inflow) <= a.tolerance * a.outflow
  <2> DEFINE a == s.assess[c]
  <2>1. ~s.cases[c].stale /\ c \in DOMAIN s.cases
    BY DEF Now
  <2>2. CaseScience(s, c).gaps = {} /\ CaseScience(s, c).grade = "strong" /\ CaseScience(s, c).conserves
    BY DEF Fit
  <2>3. /\ c \in DOMAIN s.assess
        /\ \A k \in AssessmentKinds : a.evidence[k] # {} /\ \A e \in a.evidence[k] :
             e \in DOMAIN s.evidence /\ ~s.evidence[e].stale /\ s.evidence[e].src = s.cases[c].src
        /\ Convergence(a.residuals, a.targets, a.span) = "strong"
        /\ Conserves(a.inflow, a.outflow, a.tolerance)
    BY <2>2, CaseScienceIs
  <2>4. a.inflow \in Nat /\ a.outflow \in Nat /\ a.tolerance \in Nat
    <3>1. a.inflow \in Int /\ a.outflow \in Int /\ a.tolerance \in Nat
      BY <2>3 DEF RecordsOK, AssessOK, IsAssessment
    <3>2. a.inflow >= 0 /\ a.outflow >= 0
      BY <2>1, <2>3 DEF Closable
    <3> QED
      BY <3>1, <3>2
  <2>5. /\ \A n \in DOMAIN a.targets : a.residuals[n] <= a.targets[n]
        /\ \A x \in a.span : x <= StrongSpan
    BY <2>3, StrongIs
  <2>6. /\ a.inflow + a.outflow > 0 /\ 1000 * (a.inflow - a.outflow) <= a.tolerance * a.inflow
        /\ 1000 * (a.outflow - a.inflow) <= a.tolerance * a.outflow
    BY <2>3, <2>4, ClosedIs
  <2> QED
    BY <2>1, <2>3, <2>5, <2>6
<1>2. ASSUME NEW k \in Subjects(g)
      PROVE  ~s.qois[k].stale /\ s.defs[k].complete /\ Compatible(s.qois[k].unit, s.defs[k].unit)
  <2>1. k \in DOMAIN s.qois /\ QoIScience(s)[k].valid
    BY <1>0 DEF Fit
  <2>2. BasicallyValid(s, k)
    <3>1. \E complete, primary, constrained, gaps :
            QoIScience(s)[k] = [valid |-> BasicallyValid(s, k), complete |-> complete, primary |-> primary,
                                constrained |-> constrained, gaps |-> gaps]
      BY <2>1 DEF QoIScience
    <3>2. QoIScience(s)[k].valid = BasicallyValid(s, k)
      BY <3>1
    <3> QED
      BY <2>1, <3>2, Zenon
  <2>3. PICK d \in Definition(s, k) : d.complete /\ Compatible(s.qois[k].unit, d.unit)
    BY <2>2 DEF BasicallyValid
  <2>4. d = s.defs[k]
    BY <2>3 DEF Definition
  <2> QED
    BY <2>2, <2>3, <2>4 DEF BasicallyValid
<1> QED
  BY <1>0, <1>1, <1>2 DEF FitRecords


CountsIn(s, i, p) ==
  /\ p \in DOMAIN s.bounds[i].values
  /\ \A j \in Traced(s) :
       s.bounds[j].case = s.bounds[i].case /\ p \in DOMAIN s.bounds[j].values => j <= i

LEMMA ControlledIs ==
  ASSUME NEW s, RecordsOK(s), Traceable(ParameterContext(s)),
         Comparability(s, CurrentCases(s), ParameterContext(s)) = "verified",
         NEW i \in Traced(s), NEW j \in Traced(s), NEW p \in Params,
         s.bounds[i].role = "controlled", s.bounds[j].role = "controlled", CountsIn(s, i, p), CountsIn(s, j, p)
  PROVE  InBase(s.bounds[i].values[p][1], s.bounds[i].values[p][2])
           = InBase(s.bounds[j].values[p][1], s.bounds[j].values[p][2])
<1> DEFINE par == ParameterContext(s)
           c == s.bounds[i].case
           d == s.bounds[j].case
<1>1. i \in Giving(s, p) /\ j \in Giving(s, p) /\ p \in Given(s) /\ p \in par.controlled
  BY TracedCounts DEF CountsIn
<1>2. LastOf(s, p, c, i) /\ LastOf(s, p, d, j)
  BY <1>1 DEF LastOf, CountsIn, Giving
<1>3. par.values[p] = ParameterValues(s, p)
  BY <1>1, ContextIs
<1>4. c \in Now(s) /\ d \in Now(s)
  BY DEF Traced, Declared
<1>5. par.values[p][c] = s.bounds[i].values[p] /\ par.values[p][d] = s.bounds[j].values[p]
  BY <1>2, <1>3, LastIs
<1> HIDE DEF par, c, d
<1>6. InBase(par.values[p][c][1], par.values[p][c][2]) = InBase(par.values[p][d][1], par.values[p][d][2])
  BY <1>1, <1>4, ControlledAgree DEF par
<1> QED
  BY <1>5, <1>6

LEMMA VariedTwice ==
  ASSUME NEW s, RecordsOK(s), Traceable(ParameterContext(s))
  PROVE  \E i, j \in Traced(s) :
           LET b == s.bounds[i]  d == s.bounds[j] IN
           /\ b.role = "varied" /\ d.role = "varied"
           /\ \E p \in DOMAIN b.values \cap DOMAIN d.values : b.values[p] # d.values[p]
<1>1. PICK p : p \in ParameterContext(s).varied
  BY DEF Traceable
<1>2. p \in Given(s) /\ ParameterGap(s, p) = "bound" /\ "varied" \in RolesOf(s, p)
  BY <1>1, VariedIs, ContextIs
<1>3. RolesOf(s, p) = {"varied"} /\ DOMAIN ParameterValues(s, p) = Now(s)
  BY <1>2, GapIs
<1>4. PICK c \in Now(s), d \in Now(s) :
        InBase(ParameterValues(s, p)[c][1], ParameterValues(s, p)[c][2])
          # InBase(ParameterValues(s, p)[d][1], ParameterValues(s, p)[d][2])
  BY <1>2, GapIs
<1>5. DOMAIN ParameterValues(s, p) = {s.bounds[i].case : i \in Giving(s, p)}
  BY DEF ParameterValues
<1>6. PICK i : LastOf(s, p, c, i) /\ ParameterValues(s, p)[c] = s.bounds[i].values[p]
  BY <1>3, <1>5, ValueIs
<1>7. PICK j : LastOf(s, p, d, j) /\ ParameterValues(s, p)[d] = s.bounds[j].values[p]
  BY <1>3, <1>5, ValueIs
<1>8. s.bounds[i].values[p] # s.bounds[j].values[p]
  BY <1>4, <1>6, <1>7
<1>9. i \in Giving(s, p) /\ j \in Giving(s, p)
  BY <1>6, <1>7 DEF LastOf
<1>10. s.bounds[i].role = "varied" /\ s.bounds[j].role = "varied"
  BY <1>3, <1>9 DEF RolesOf
<1>11. /\ i \in Traced(s) /\ j \in Traced(s)
       /\ p \in DOMAIN s.bounds[i].values \cap DOMAIN s.bounds[j].values
  BY <1>9 DEF Giving
<1> QED
  BY <1>8, <1>10, <1>11

\* The case and its parameters agree through the evidence of both.
LEMMA OneVersion ==
  ASSUME NEW s, Snapshot(s), NEW g \in SeedsOf(s), Fit(s, g), NEW i \in Traced(s)
  PROVE  s.bounds[i].src = s.cases[s.bounds[i].case].src
<1> DEFINE b == s.bounds[i]
           c == b.case
<1>1. c \in Now(s) /\ i \in DOMAIN s.bounds
  BY DEF Traced, Declared
<1>2. PICK e \in DOMAIN s.evidence : s.evidence[e].src = b.src /\ ~s.evidence[e].stale
  <2>1. Cardinality(ExactEvidence(s, b)) = 1
    BY DEF Traced
  <2>2. ExactEvidence(s, b) # {}
    BY <2>1, FS_EmptySet
  <2>3. \A e \in ExactEvidence(s, b) : ~s.evidence[e].stale
    BY DEF Traced
  <2> QED
    BY <2>2, <2>3 DEF ExactEvidence
<1>3. CaseScience(s, c).gaps = {}
  BY <1>1 DEF Fit
<1>4. PICK x \in DOMAIN s.evidence : s.evidence[x].src = s.cases[c].src /\ ~s.evidence[x].stale
  <2>1. /\ s.assess[c].evidence["case"] # {}
        /\ \A x \in s.assess[c].evidence["case"] :
             x \in DOMAIN s.evidence /\ ~s.evidence[x].stale /\ s.evidence[x].src = s.cases[c].src
    <3>1. "case" \in AssessmentKinds
      BY DEF AssessmentKinds
    <3> QED
      BY <1>3, <3>1, CaseScienceIs
  <2> QED
    BY <2>1
<1>5. b.src[1] = c /\ s.cases[c].src[1] = c
  <2>1. b.src \in {c} \X Versions
    BY <1>1 DEF Snapshot, RecordsOK, BoundsOK, IsBound
  <2>2. s.cases[c].src \in {c} \X Versions
    BY <1>1 DEF Snapshot, RecordsOK, CasesOK, IsCase, Now
  <2> QED
    BY <2>1, <2>2
<1> QED
  BY <1>2, <1>4, <1>5 DEF Snapshot, EvidenceAgrees

\* Each defended topic is one of the snapshot it was made from.
LEMMA DefendedIs ==
  ASSUME TopicsInv, NEW o \in Defended
  PROVE  /\ Snapshot(loaded) /\ Closable(loaded)
         /\ \E g \in SeedsOf(loaded) :
              o = Built(loaded, g) /\ Fit(loaded, g) /\ o.cases = Now(loaded) /\ o.qois = Subjects(g)
<1>1. topics # Nothing
  BY DEF Defended, Nothing
<1>2. PlanMade /\ Snapshot(loaded)
  BY <1>1 DEF TopicsInv, Snapshot
<1>3. o \in Discover(loaded) /\ o.defensible /\ Closable(loaded)
  BY <1>2 DEF PlanMade, Defended
<1>4. PICK g \in SeedsOf(loaded) : o = Built(loaded, g)
  BY <1>2, <1>3, DiscoverIs DEF Snapshot
<1>5. Fit(loaded, g)
  BY <1>2, <1>3, <1>4, DefensibleIs DEF Snapshot
<1>6. o.cases = Now(loaded) /\ o.qois = Subjects(g)
  <2>1. Built(loaded, g).cases = g.cases /\ Built(loaded, g).qois = Subjects(g)
    BY BuiltIs, Zenon DEF IsRated
  <2> QED
    BY <1>2, <1>4, <2>1, SubjectsAre DEF Snapshot
<1> QED
  BY <1>2, <1>3, <1>4, <1>5, <1>6

LEMMA Defensible == TopicsInv => DefensibleIsEarned /\ OneVersionPerCase
<1> SUFFICES ASSUME TopicsInv, NEW o \in Defended
             PROVE  /\ FitRecords(loaded, o)
                    /\ \A i, j \in Traced(loaded), p \in Params :
                         LET b == loaded.bounds[i]  d == loaded.bounds[j] IN
                         b.role = "controlled" /\ d.role = "controlled" /\ Counts(i, p) /\ Counts(j, p) =>
                           InBase(b.values[p][1], b.values[p][2]) = InBase(d.values[p][1], d.values[p][2])
                    /\ \E i, j \in Traced(loaded) :
                         LET b == loaded.bounds[i]  d == loaded.bounds[j] IN
                         /\ b.role = "varied" /\ d.role = "varied"
                         /\ \E p \in DOMAIN b.values \cap DOMAIN d.values : b.values[p] # d.values[p]
                    /\ \A c \in o.cases : \A i \in Traced(loaded) :
                         loaded.bounds[i].case = c => loaded.bounds[i].src = loaded.cases[c].src
  BY DEF DefensibleIsEarned, OneVersionPerCase, FitRecords
<1>1. Snapshot(loaded) /\ RecordsOK(loaded) /\ Closable(loaded)
  BY DefendedIs DEF Snapshot
<1>2. PICK g \in SeedsOf(loaded) :
        o = Built(loaded, g) /\ Fit(loaded, g) /\ o.cases = Now(loaded) /\ o.qois = Subjects(g)
  BY DefendedIs
<1>3. FitRecords(loaded, o)
  <2>1. FitRecords(loaded, [cases |-> g.cases, qois |-> Subjects(g)]) /\ g.cases = Now(loaded)
    BY <1>1, <1>2, FitRecordsIs, SubjectsAre
  <2> QED
    BY <1>2, <2>1 DEF FitRecords
<1>4. Traceable(ParameterContext(loaded)) /\ Comparability(loaded, CurrentCases(loaded), ParameterContext(loaded)) = "verified"
  BY <1>2 DEF Fit
<1>5. ASSUME NEW i \in Traced(loaded), NEW j \in Traced(loaded), NEW p \in Params,
             loaded.bounds[i].role = "controlled", loaded.bounds[j].role = "controlled", Counts(i, p), Counts(j, p)
      PROVE  InBase(loaded.bounds[i].values[p][1], loaded.bounds[i].values[p][2])
               = InBase(loaded.bounds[j].values[p][1], loaded.bounds[j].values[p][2])
  <2>1. CountsIn(loaded, i, p) /\ CountsIn(loaded, j, p)
    BY <1>5 DEF Counts, CountsIn
  <2> QED
    BY <1>1, <1>4, <1>5, <2>1, ControlledIs
<1>6. \A i \in Traced(loaded) : loaded.bounds[i].src = loaded.cases[loaded.bounds[i].case].src
  BY <1>1, <1>2, OneVersion
<1> QED
  BY <1>1, <1>3, <1>4, <1>5, <1>6, VariedTwice


RawFits(raw, maturity, validated) ==
  /\ raw \in Range(Ceilings)
  /\ raw \notin {"observation", "association"} => maturity \in Verified
  /\ raw \in {"validation", "engineering"} => validated

LEMMA RawCeilingIs ==
  ASSUME NEW maturity \in Range(Maturities), NEW validated, NEW engineering
  PROVE  RawFits(RawCeiling(maturity, validated, engineering), maturity, validated)
<1>1. maturity \in {"raw", "screened", "verified", "author-approved"}
  BY MaturitiesAre
<1>2. RawFits("engineering", "author-approved", TRUE) /\ RawFits("mechanism", "verified", validated)
      /\ RawFits("mechanism", "author-approved", validated) /\ RawFits("observation", "raw", validated)
      /\ RawFits("association", "screened", validated)
      /\ RawFits("validation", "verified", TRUE) /\ RawFits("validation", "author-approved", TRUE)
  BY CeilingsAre DEF RawFits, Verified
<1>3. ASSUME NEW raw, validated, RawFits(raw, maturity, TRUE) PROVE RawFits(raw, maturity, validated)
  BY <1>3 DEF RawFits
<1>4. CASE engineering /\ validated /\ maturity = "author-approved"
  <2>1. RawCeiling(maturity, validated, engineering) = "engineering"
    BY <1>4, Zenon DEF RawCeiling
  <2> QED
    BY <1>2, <1>3, <1>4, <2>1, Zenon
<1>5. CASE ~ (engineering /\ validated /\ maturity = "author-approved")
                /\ validated /\ maturity \in {"verified", "author-approved"}
  <2>1. RawCeiling(maturity, validated, engineering) = "validation"
    BY <1>5, Zenon DEF RawCeiling
  <2>2. RawFits("validation", maturity, TRUE)
    BY <1>2, <1>5, Zenon
  <2> QED
    BY <1>3, <1>5, <2>1, <2>2, Zenon
<1>6. CASE ~ (engineering /\ validated /\ maturity = "author-approved")
                /\ ~ (validated /\ maturity \in {"verified", "author-approved"})
  <2>1. RawCeiling(maturity, validated, engineering)
          = IF maturity = "raw" THEN "observation"
            ELSE IF maturity = "screened" THEN "association" ELSE "mechanism"
    BY <1>6, Zenon DEF RawCeiling
  <2> QED
    BY <1>1, <1>2, <2>1
<1> QED
  BY <1>4, <1>5, <1>6, Zenon

\* A ceiling is under what the evidence and the claims allow, both.
LEMMA CeilingIs ==
  ASSUME NEW s, RecordsOK(s), NEW pattern, NEW raw \in Range(Ceilings), NEW claims \in SUBSET DOMAIN s.claims
  PROVE  LET ceiling == EffectiveCeiling(s, pattern, raw, claims) IN
         /\ ceiling \in Range(Ceilings)
         /\ Rank(Ceilings, ceiling) <= Rank(Ceilings, raw)
         /\ Rank(Ceilings, ceiling) > Rank(Ceilings, "association") =>
              \E m \in claims : Rank(Ceilings, s.claims[m].ceiling) >= Rank(Ceilings, ceiling)
<1> DEFINE C == {s.claims[m].ceiling : m \in claims}
           claimed == IF claims = {} THEN "association" ELSE Highest(Ceilings, C)
           capped == IF pattern = "coupled-association" THEN "association"
                     ELSE IF pattern = "validation-robustness" THEN claimed
                     ELSE IF Rank(Ceilings, claimed) >= Rank(Ceilings, "mechanism")
                     THEN "mechanism" ELSE "association"
           three == {raw, claimed, capped}
           ceiling == EffectiveCeiling(s, pattern, raw, claims)
<1>1. ceiling = Lowest(Ceilings, three)
  BY Zenon DEF EffectiveCeiling
<1>2. C \subseteq Range(Ceilings)
  BY DEF RecordsOK, ClaimsOK
<1>3. claims # {} => claimed \in C
  <2>1. claims # {} => C # {} /\ claimed = Highest(Ceilings, C)
    OBVIOUS
  <2> HIDE DEF C, claimed
  <2> QED
    BY <1>2, <2>1, HighestIs, CeilingsAre
<1>4. claims = {} => claimed = "association"
  OBVIOUS
<1> HIDE DEF claimed
<1>5. claimed \in Range(Ceilings)
  BY <1>2, <1>3, <1>4, CeilingsAre
<1>6. capped \in Range(Ceilings)
  BY <1>5, CeilingsAre
<1> HIDE DEF capped, ceiling
<1>7. ceiling \in three /\ \A x \in three : Rank(Ceilings, ceiling) <= Rank(Ceilings, x)
  <2>1. three \subseteq Range(Ceilings) /\ three # {}
    BY <1>5, <1>6
  <2> HIDE DEF three
  <2> QED
    BY <1>1, <2>1, LowestIs, CeilingsAre
<1>8. ceiling \in Range(Ceilings)
  BY <1>5, <1>6, <1>7
<1>9. ASSUME Rank(Ceilings, ceiling) > Rank(Ceilings, "association")
      PROVE  \E m \in claims : Rank(Ceilings, s.claims[m].ceiling) >= Rank(Ceilings, ceiling)
  <2>1. Rank(Ceilings, ceiling) <= Rank(Ceilings, claimed)
    BY <1>7
  <2>2. Rank(Ceilings, ceiling) \in 1..5 /\ Rank(Ceilings, claimed) \in 1..5
    BY <1>5, <1>8, RankIn, CeilingsAre
  <2>3. claims # {}
    BY <1>4, <1>9, <2>1, <2>2, CeilingsAre
  <2>4. PICK m \in claims : s.claims[m].ceiling = claimed
    BY <1>3, <2>3
  <2> QED
    BY <2>1, <2>2, <2>4
<1>10. Rank(Ceilings, ceiling) <= Rank(Ceilings, raw)
  BY <1>7
<1> QED
  BY <1>8, <1>9, <1>10 DEF ceiling

LEMMA MaturityIn ==
  ASSUME NEW s, RecordsOK(s), NEW ids \in SUBSET DOMAIN s.evidence, NEW sound
  PROVE  Lowest(Maturities, {Maturity(TRUE, sound), EvidenceLevel(s, ids)}) \in Range(Maturities)
<1> DEFINE S == {s.evidence[e].maturity : e \in ids}
           level == EvidenceLevel(s, ids)
<1>1. S \subseteq Range(Maturities)
  BY DEF RecordsOK, EvidenceOK, IsEvidence
<1>2. level = IF ids = {} THEN "raw" ELSE Lowest(Maturities, S)
  BY DEF EvidenceLevel
<1>3. ids # {} => S # {}
  OBVIOUS
<1> HIDE DEF S, level
<1>4. level \in Range(Maturities)
  BY <1>1, <1>2, <1>3, LowestIs, MaturitiesAre
<1>5. Maturity(TRUE, sound) \in {"verified", "screened"}
  BY DEF Maturity
<1>6. PICK m : m = Maturity(TRUE, sound)
  OBVIOUS
<1>7. {m, level} \subseteq Range(Maturities) /\ {m, level} # {}
  BY <1>4, <1>5, <1>6, MaturitiesAre
<1>8. Lowest(Maturities, {m, level}) \in {m, level}
  BY <1>7, LowestIs, MaturitiesAre
<1>9. Lowest(Maturities, {m, level}) \in Range(Maturities)
  BY <1>7, <1>8
<1> QED
  BY <1>6, <1>9, Zenon DEF level

LEMMA SupportedCeiling ==
  ASSUME NEW s, RecordsOK(s), NEW g \in SeedsOf(s),
         Rank(Ceilings, Built(s, g).ceiling) > Rank(Ceilings, "association")
  PROVE  LET o == Built(s, g) IN
         /\ \A e \in o.support : ~s.evidence[e].stale /\ s.evidence[e].maturity \in Verified
         /\ \E m \in DOMAIN s.claims :
              /\ s.claims[m].status = "supported" /\ s.claims[m].evidence \subseteq o.support
              /\ Rank(Ceilings, s.claims[m].ceiling) >= Rank(Ceilings, o.ceiling)
         /\ o.ceiling \in {"validation", "engineering"} => o.validated
<1> DEFINE o == Built(s, g)
           gates == Gates(g, Subjects(g), ParameterContext(s),
                          Comparability(s, CurrentCases(s), ParameterContext(s)), QoIScience(s), Tested(s))
           sound == IsSound(Subjects(g), QoIScience(s), gates)
           support == Basis(s, g)
           claims == SupportedClaims(s, support)
           validated == IsLinked(g.links.validation, support)
           engineering == IsLinked(g.links.engineering, support)
           raw == RawCeiling(o.maturity, validated, engineering)
<1>1. /\ o.support = support
      /\ o.maturity = Lowest(Maturities, {Maturity(TRUE, sound), EvidenceLevel(s, support)})
      /\ o.ceiling = EffectiveCeiling(s, g.pattern, raw, claims)
      /\ o.validated <=> validated
  BY BuiltIs, Zenon DEF IsRated
<1>2. support \in SUBSET DOMAIN s.evidence /\ \A e \in support : ~s.evidence[e].stale
  BY BasisIs
<1> HIDE DEF o, gates, sound, support
<1>3. o.maturity \in Range(Maturities)
  <2>1. Lowest(Maturities, {Maturity(TRUE, sound), EvidenceLevel(s, support)}) \in Range(Maturities)
    BY <1>2, MaturityIn, Zenon
  <2> QED
    BY <1>1, <2>1, Zenon
<1> HIDE DEF validated, engineering
<1>0. RawFits(raw, o.maturity, validated)
  BY <1>3, RawCeilingIs, Zenon
<1> HIDE DEF raw
<1>4. /\ raw \in Range(Ceilings)
      /\ raw \notin {"observation", "association"} => o.maturity \in Verified
      /\ raw \in {"validation", "engineering"} => validated
  BY <1>0, Zenon DEF RawFits
<1>5. claims \in SUBSET DOMAIN s.claims
  BY DEF SupportedClaims
<1>6. \A m \in claims : s.claims[m].status = "supported" /\ s.claims[m].evidence \subseteq support
  BY DEF SupportedClaims
<1> HIDE DEF claims
<1>7. Rank(Ceilings, o.ceiling) > Rank(Ceilings, "association")
  BY DEF o
<1>8. /\ o.ceiling \in Range(Ceilings)
      /\ Rank(Ceilings, o.ceiling) <= Rank(Ceilings, raw)
      /\ \E m \in claims : Rank(Ceilings, s.claims[m].ceiling) >= Rank(Ceilings, o.ceiling)
  BY <1>1, <1>4, <1>5, <1>7, CeilingIs
<1>9. Rank(Ceilings, raw) \in 1..5 /\ Rank(Ceilings, o.ceiling) \in 1..5
  BY <1>4, <1>8, RankIn, CeilingsAre
<1>10. raw \notin {"observation", "association"}
  BY <1>7, <1>8, <1>9, CeilingsAre
<1>11. \A e \in support : s.evidence[e].maturity \in Verified
  <2>1. Lowest(Maturities, {Maturity(TRUE, sound), EvidenceLevel(s, support)}) \in Verified
    BY <1>1, <1>4, <1>10, Zenon
  <2> QED
    BY <1>2, <2>1, LevelIs, Zenon
<1>12. o.ceiling \in {"validation", "engineering"} => raw \in {"validation", "engineering"}
  BY <1>4, <1>8, <1>9, CeilingsAre
<1>13. o.ceiling \in {"validation", "engineering"} => o.validated
  BY <1>1, <1>4, <1>12, Zenon
<1>14. \E m \in DOMAIN s.claims :
         /\ s.claims[m].status = "supported" /\ s.claims[m].evidence \subseteq o.support
         /\ Rank(Ceilings, s.claims[m].ceiling) >= Rank(Ceilings, o.ceiling)
  BY <1>1, <1>5, <1>6, <1>8
<1> QED
  BY <1>1, <1>2, <1>11, <1>13, <1>14, Zenon DEF o

\* A topic is of a seed of the snapshot.
LEMMA TopicIs ==
  ASSUME TopicsInv, NEW o \in topics.os
  PROVE  Snapshot(loaded) /\ PlanMade /\ \E g \in SeedsOf(loaded) : o = Built(loaded, g)
<1>1. topics # Nothing
  BY DEF Nothing
<1>2. PlanMade /\ Snapshot(loaded)
  BY <1>1 DEF TopicsInv, Snapshot
<1>3. o \in Discover(loaded)
  BY <1>2 DEF PlanMade
<1> QED
  BY <1>2, <1>3, DiscoverIs DEF Snapshot

LEMMA CeilingsSupported == TopicsInv => CeilingIsSupported
<1> SUFFICES ASSUME TopicsInv, NEW o \in topics.os, Rank(Ceilings, o.ceiling) > Rank(Ceilings, "association")
             PROVE  /\ \A e \in o.support : ~loaded.evidence[e].stale
                                           /\ loaded.evidence[e].maturity \in {"verified", "author-approved"}
                    /\ \E m \in DOMAIN loaded.claims :
                         /\ loaded.claims[m].status = "supported"
                         /\ loaded.claims[m].evidence \subseteq o.support
                         /\ Rank(Ceilings, loaded.claims[m].ceiling) >= Rank(Ceilings, o.ceiling)
                    /\ o.ceiling \in {"validation", "engineering"} => o.validated
  BY DEF CeilingIsSupported
<1>1. PICK g \in SeedsOf(loaded) : o = Built(loaded, g)
  BY TopicIs
<1>2. RecordsOK(loaded)
  BY TopicIs DEF Snapshot
<1> QED
  BY <1>1, <1>2, SupportedCeiling DEF Verified


-----------------------------------------------------------------------------
(* There are finitely many topics.                                          *)
LEMMA SeedsFinite ==
  ASSUME NEW s, NEW par, NEW cs, NEW comparability
  PROVE  IsFiniteSet(Seeds(s, par, cs, comparability))
<1> DEFINE W == Whole(s)
           D == DOMAIN QoIs
<1>0. IsFiniteSet(D) /\ IsFiniteSet(Range(QoIs))
  BY RecordTypes, RangeFinite
<1>1. IsFiniteSet(W)
  <2>1. W \in SUBSET Range(QoIs)
    BY DEF Whole
  <2> HIDE DEF W
  <2> QED
    BY <1>0, <2>1, FS_Subset
<1>2. IsFiniteSet({})
  BY FS_EmptySet
<1>3. IsFiniteSet(MatchedComparisons(s, cs, comparability))
  <2> DEFINE Polarity(n) ==
               LET y == Samples(s, n, cs)
               IN IF comparability # "verified" \/ y[1] = y[2] THEN "difference-only"
                  ELSE IF y[2] > y[1] THEN "increase" ELSE "decrease"
             f == [n \in W |-> Seed("matched-comparison", cs, {n}, Polarity(n), NoTrend, NoLinks)]
  <2>1. {Seed("matched-comparison", cs, {n}, Polarity(n), NoTrend, NoLinks) : n \in W} = {f[n] : n \in W}
    <3> HIDE DEF Polarity, W
    <3> QED
      OBVIOUS
  <2>2. MatchedComparisons(s, cs, comparability)
          = IF Len(cs) # 2 THEN {}
            ELSE {Seed("matched-comparison", cs, {n}, Polarity(n), NoTrend, NoLinks) : n \in W}
    BY Zenon DEF MatchedComparisons
  <2>3. IsFiniteSet({f[n] : n \in W})
    <3> HIDE DEF f, W
    <3> QED
      BY <1>1, FiniteImage
  <2> HIDE DEF f, W, Polarity
  <2> QED
    BY <1>2, <2>1, <2>2, <2>3
<1>4. IsFiniteSet(OrderedResponses(s, par, cs))
  <2> DEFINE p == CHOOSE p \in par.varied : TRUE
             X(c) == InBase(par.values[p][c][1], par.values[p][c][2])
             ordered == Sorted(cs, {e \in Pairs(cs) : X(cs[e[1]]) < X(cs[e[2]])})
             f == [n \in W |-> Response(n, cs, Trend(Samples(s, n, ordered)))]
  <2>1. OrderedResponses(s, par, cs) \in SUBSET {Response(n, cs, Trend(Samples(s, n, ordered))) : n \in W}
    <3>1. \/ OrderedResponses(s, par, cs) = {}
          \/ OrderedResponses(s, par, cs) = {Response(n, cs, Trend(Samples(s, n, ordered))) : n \in W}
      BY Zenon DEF OrderedResponses
    <3> HIDE DEF ordered, W
    <3> QED
      BY <3>1
  <2> HIDE DEF ordered, W
  <2>2. {Response(n, cs, Trend(Samples(s, n, ordered))) : n \in W} = {f[n] : n \in W}
    OBVIOUS
  <2>3. IsFiniteSet({f[n] : n \in W})
    <3> HIDE DEF f
    <3> QED
      BY <1>1, FiniteImage
  <2> HIDE DEF f
  <2> QED
    BY <2>1, <2>2, <2>3, FS_Subset
<1>5. IsFiniteSet(CoupledAssociations(s, cs))
  <2> DEFINE moving == {i \in D : QoIs[i] \in W /\ ~Constant(Samples(s, QoIs[i], cs))}
             P == {e \in moving \X moving : e[1] < e[2]}
             F(e) == Seed("coupled-association", cs, {QoIs[e[1]], QoIs[e[2]]},
                          Together(Trend(Samples(s, QoIs[e[1]], cs)), Trend(Samples(s, QoIs[e[2]], cs))),
                          NoTrend, NoLinks)
             f == [e \in P |-> F(e)]
  <2>1. CoupledAssociations(s, cs) = IF Len(cs) < 3 THEN {} ELSE {F(e) : e \in P}
    BY Zenon DEF CoupledAssociations
  <2>2. IsFiniteSet(P)
    <3>1. P \in SUBSET (D \X D)
      OBVIOUS
    <3> HIDE DEF D, P
    <3>2. IsFiniteSet(D \X D)
      BY <1>0, FS_Product
    <3> QED
      BY <3>1, <3>2, FS_Subset
  <2> HIDE DEF F, P
  <2>3. {F(e) : e \in P} = {f[e] : e \in P}
    OBVIOUS
  <2>4. IsFiniteSet({f[e] : e \in P})
    <3> HIDE DEF f
    <3> QED
      BY <2>2, FiniteImage
  <2> HIDE DEF f
  <2> QED
    BY <1>2, <2>1, <2>3, <2>4
<1>6. IsFiniteSet(ValidationOpportunities(s, cs))
  <2> DEFINE rated == {s.assess[c] : c \in Range(cs) \cap DOMAIN s.assess}
             links == [validation |-> UNION {a.validation : a \in rated},
                       sensitivity |-> UNION {a.sensitivity : a \in rated},
                       engineering |-> UNION {a.engineering : a \in rated}]
             V == {n \in W : \A c \in SeriesCases(s, n) : BasicallyValid(s, <<n, c>>)}
             F(n) == Seed("validation-robustness", cs, {n}, "not-applicable", NoTrend, links)
             f == [n \in V |-> F(n)]
  <2>1. \/ ValidationOpportunities(s, cs) = {}
        \/ ValidationOpportunities(s, cs) = {F(n) : n \in V}
    BY Zenon DEF ValidationOpportunities
  <2>2. IsFiniteSet(V)
    <3>1. V \in SUBSET W
      OBVIOUS
    <3> HIDE DEF V, W
    <3> QED
      BY <1>1, <3>1, FS_Subset
  <2> HIDE DEF F, V
  <2>3. {F(n) : n \in V} = {f[n] : n \in V}
    OBVIOUS
  <2>4. IsFiniteSet({f[n] : n \in V})
    <3> HIDE DEF f
    <3> QED
      BY <2>2, FiniteImage
  <2> HIDE DEF f
  <2> QED
    BY <1>2, <2>1, <2>3, <2>4
<1> QED
  BY <1>3, <1>4, <1>5, <1>6, FS_Union DEF Seeds

LEMMA DiscoverFinite ==
  ASSUME NEW s, RecordsOK(s)
  PROVE  IsFiniteSet(Discover(s))
<1> DEFINE f == [g \in SeedsOf(s) |-> Built(s, g)]
<1>1. Discover(s) \in SUBSET {f[g] : g \in SeedsOf(s)}
  BY DiscoverIs
<1>2. IsFiniteSet({f[g] : g \in SeedsOf(s)})
  <2> HIDE DEF f
  <2> QED
    BY SeedsFinite, FiniteImage DEF SeedsOf
<1> HIDE DEF f
<1> QED
  BY <1>1, <1>2, FS_Subset


-----------------------------------------------------------------------------
(* The orders of the ranking.                                               *)
Keyed(o) == o.defensible \in BOOLEAN /\ o.ceiling \in Range(Ceilings) /\ Significance(o) \in Int
Scored(r) == r.defensible \in BOOLEAN /\ r.score \in Int

LEMMA BeforeIs ==
  ASSUME NEW o, NEW x, NEW y, Keyed(o), Keyed(x), Keyed(y)
  PROVE  /\ Before(o, x) => ~Before(x, o)
         /\ Before(o, y) => Before(o, x) \/ Before(x, y)
<1> DEFINE R(z) == Rank(Ceilings, z.ceiling)
<1>1. R(o) \in Int /\ R(x) \in Int /\ R(y) \in Int
  <2>1. \A z \in Range(Ceilings) : Rank(Ceilings, z) \in 1..5
    BY RankIn, CeilingsAre
  <2> QED
    BY <2>1 DEF Keyed
<1>2. ASSUME NEW a, NEW b, Keyed(a), Keyed(b) PROVE a.ceiling = b.ceiling <=> R(a) = R(b)
  BY <1>2, RankIn, CeilingsAre DEF Keyed
<1> HIDE DEF R
<1>3. ASSUME NEW a, NEW b, Keyed(a), Keyed(b)
      PROVE  Before(a, b) <=> \/ a.defensible /\ ~b.defensible
                              \/ /\ a.defensible <=> b.defensible
                                 /\ R(a) > R(b) \/ (R(a) = R(b) /\ Significance(a) > Significance(b))
  <2>1. (a.defensible = b.defensible) <=> (a.defensible <=> b.defensible)
    BY <1>3, Zenon DEF Keyed
  <2>2. a.ceiling = b.ceiling <=> R(a) = R(b)
    BY <1>2, <1>3
  <2>3. Before(a, b) <=> \/ a.defensible /\ ~b.defensible
                         \/ /\ a.defensible = b.defensible
                            /\ R(a) > R(b) \/ (a.ceiling = b.ceiling /\ Significance(a) > Significance(b))
    BY Zenon DEF Before, R
  <2> QED
    BY <2>1, <2>2, <2>3, Zenon
<1>4. Significance(o) \in Int /\ Significance(x) \in Int /\ Significance(y) \in Int
  BY DEF Keyed
<1> QED
  BY <1>1, <1>3, <1>4

LEMMA AheadIs ==
  ASSUME NEW o, NEW x, NEW y, Scored(o), Scored(x), Scored(y)
  PROVE  /\ Ahead(o, x) => ~Ahead(x, o)
         /\ Ahead(o, y) => Ahead(o, x) \/ Ahead(x, y)
<1>1. ASSUME NEW a, NEW b, Scored(a), Scored(b)
      PROVE  Ahead(a, b) <=> \/ a.defensible /\ ~b.defensible
                             \/ (a.defensible <=> b.defensible) /\ a.score > b.score
  <2>1. (a.defensible = b.defensible) <=> (a.defensible <=> b.defensible)
    BY <1>1, Zenon DEF Scored
  <2> QED
    BY <2>1, Zenon DEF Ahead
<1>2. o.score \in Int /\ x.score \in Int /\ y.score \in Int
  BY DEF Scored
<1> QED
  BY <1>1, <1>2

\* Sorting a sequence of them gives what was in it.
LEMMA BeforeSorts ==
  ASSUME NEW n \in Nat, NEW seq, DOMAIN seq = 1..n, \A i \in 1..n : Keyed(seq[i])
  PROVE  LET sorted == Sorted(seq, {e \in Pairs(seq) : Before(seq[e[1]], seq[e[2]])}) IN
         sorted = [k \in 1..n |-> sorted[k]] /\ \A k \in 1..n : \E i \in 1..n : sorted[k] = seq[i]
<1> DEFINE before == {e \in Pairs(seq) : Before(seq[e[1]], seq[e[2]])}
<1>1. \A i, j \in 1..n : <<i, j>> \in before <=> Before(seq[i], seq[j])
  BY DEF Pairs
<1> HIDE DEF before
<1>2. Orders(before, 1..n)
  <2>1. \A i, j \in 1..n : <<i, j>> \in before => <<j, i>> \notin before
    BY <1>1, BeforeIs
  <2>2. \A i, j, k \in 1..n : <<i, k>> \in before => <<i, j>> \in before \/ <<j, k>> \in before
    BY <1>1, BeforeIs
  <2> QED
    BY <2>1, <2>2 DEF Orders
<1>3. PICK p : SortedBy(seq, before, p)
  BY <1>2, SortedIs
<1>4. p \in [1..n -> 1..n] /\ Sorted(seq, before) = [k \in 1..n |-> seq[p[k]]]
  BY <1>3 DEF SortedBy, Surjection
<1>5. /\ Sorted(seq, before) = [k \in 1..n |-> Sorted(seq, before)[k]]
      /\ \A k \in 1..n : \E i \in 1..n : Sorted(seq, before)[k] = seq[i]
  BY <1>4
<1> QED
  BY <1>5 DEF before

LEMMA AheadSorts ==
  ASSUME NEW n \in Nat, NEW seq, DOMAIN seq = 1..n, \A i \in 1..n : Scored(seq[i])
  PROVE  /\ InOrder(seq) = [k \in 1..n |-> InOrder(seq)[k]]
         /\ \A k \in 1..n : \E i \in 1..n : InOrder(seq)[k] = seq[i]
<1> DEFINE before == {e \in Pairs(seq) : Ahead(seq[e[1]], seq[e[2]])}
<1>0. InOrder(seq) = Sorted(seq, before)
  BY DEF InOrder
<1>1. \A i, j \in 1..n : <<i, j>> \in before <=> Ahead(seq[i], seq[j])
  BY DEF Pairs
<1> HIDE DEF before
<1>2. Orders(before, 1..n)
  <2>1. \A i, j \in 1..n : <<i, j>> \in before => <<j, i>> \notin before
    BY <1>1, AheadIs
  <2>2. \A i, j, k \in 1..n : <<i, k>> \in before => <<i, j>> \in before \/ <<j, k>> \in before
    BY <1>1, AheadIs
  <2> QED
    BY <2>1, <2>2 DEF Orders
<1>3. PICK p : SortedBy(seq, before, p)
  BY <1>2, SortedIs
<1>4. p \in [1..n -> 1..n] /\ Sorted(seq, before) = [k \in 1..n |-> seq[p[k]]]
  BY <1>3 DEF SortedBy, Surjection
<1> QED
  BY <1>0, <1>4


LEMMA KeyedIs ==
  ASSUME NEW s, RecordsOK(s), NEW o \in Discover(s)
  PROVE  Keyed(o)
<1>1. PICK g \in SeedsOf(s) : o = Built(s, g)
  BY DiscoverIs
<1> DEFINE gates == Gates(g, Subjects(g), ParameterContext(s),
                          Comparability(s, CurrentCases(s), ParameterContext(s)), QoIScience(s), Tested(s))
           sound == IsSound(Subjects(g), QoIScience(s), gates)
           support == Basis(s, g)
           claims == SupportedClaims(s, support)
           raw == RawCeiling(o.maturity, IsLinked(g.links.validation, support), IsLinked(g.links.engineering, support))
           b == Built(s, g)
<1>2. /\ b.cases = g.cases /\ b.gates = Cardinality(gates)
      /\ b.maturity = Lowest(Maturities, {Maturity(TRUE, sound), EvidenceLevel(s, support)})
      /\ b.ceiling = EffectiveCeiling(s, g.pattern, RawCeiling(b.maturity, IsLinked(g.links.validation, support),
                                                               IsLinked(g.links.engineering, support)), claims)
      /\ b.defensible \in BOOLEAN
  BY BuiltIs, Zenon DEF IsRated
<1>3. IsFiniteSet(gates) /\ IsFiniteSet(o.cases)
  <2> DEFINE six == <<"traceable", "valid", "measured", "comparable", "converged", "closed">>
  <2>1. six \in Seq(Range(six)) /\ gates \in SUBSET Range(six)
    BY DEF Gates, Range
  <2>2. IsFiniteSet(gates)
    <3> HIDE DEF six, gates
    <3> QED
      BY <2>1, RangeFinite, FS_Subset
  <2>3. o.cases \in SUBSET CaseSet
    <3>1. o.cases = Now(s)
      BY <1>1, <1>2, SubjectsAre
    <3> QED
      BY <3>1, CurrentIs
  <2> QED
    BY <2>2, <2>3, CasesFinite, FS_Subset
<1>4. support \in SUBSET DOMAIN s.evidence
  BY BasisIs
<1> HIDE DEF b, gates, sound, support
<1>5. b.maturity \in Range(Maturities)
  <2>1. Lowest(Maturities, {Maturity(TRUE, sound), EvidenceLevel(s, support)}) \in Range(Maturities)
    BY <1>4, MaturityIn, Zenon
  <2> QED
    BY <1>2, <2>1, Zenon
<1>6. raw \in Range(Ceilings)
  <2>1. RawFits(raw, o.maturity, IsLinked(g.links.validation, support))
    BY <1>1, <1>5, RawCeilingIs, Zenon DEF b
  <2> QED
    BY <2>1, Zenon DEF RawFits
<1>7. o.ceiling \in Range(Ceilings)
  <2>1. claims \in SUBSET DOMAIN s.claims
    BY DEF SupportedClaims
  <2>2. o.ceiling = EffectiveCeiling(s, g.pattern, raw, claims)
    BY <1>1, <1>2, Zenon DEF b
  <2> HIDE DEF raw, claims
  <2>3. EffectiveCeiling(s, g.pattern, raw, claims) \in Range(Ceilings)
    BY <1>6, <2>1, CeilingIs
  <2> QED
    BY <2>2, <2>3
<1>8. Significance(o) \in Int
  <2>1. PICK n \in Nat : n = Cardinality(o.cases)
    BY <1>3, FS_CardinalityType
  <2>2. o.gates \in Nat
    BY <1>1, <1>2, <1>3, FS_CardinalityType DEF b
  <2> QED
    BY <2>1, <2>2 DEF Significance
<1>9. o.defensible \in BOOLEAN
  BY <1>1, <1>2, Zenon DEF b
<1> QED
  BY <1>7, <1>8, <1>9 DEF Keyed

\* The opportunities chosen are of those found.
LEMMA ChosenAre ==
  ASSUME NEW os, IsFiniteSet(os), \A o \in os : Keyed(o)
  PROVE  Choose4(os) \in Seq(os)
<1> DEFINE eligible == {o \in os : o.eligible}
           found == SetToSeq(eligible)
           ranked == Sorted(found, {e \in Pairs(found) : Before(found[e[1]], found[e[2]])})
           N == Len(ranked)
           Step(k, so) == IF Len(so) = 4 \/ \E i \in DOMAIN so : NearDuplicate(ranked[k], so[i])
                          THEN so ELSE Append(so, ranked[k])
           Is(h) == h = [k \in 0..N |-> IF k = 0 THEN << >> ELSE Step(k, h[k - 1])]
           F == [e \in (1..N) \X Seq(os) |-> Step(e[1], e[2])]
           g == CHOOSE h : Is(h)
<1>1. Choose4(os) = g[N]
  BY Zenon DEF Choose4
<1>2. \E n \in Nat : DOMAIN found = 1..n /\ \A i \in 1..n : found[i] \in os
  <2>1. eligible \in SUBSET os
    OBVIOUS
  <2> HIDE DEF eligible
  <2>2. IsFiniteSet(eligible)
    BY <2>1, FS_Subset
  <2> DEFINE n == Cardinality(eligible)
  <2>3. n \in Nat
    BY <2>2, FS_CardinalityType
  <2>4. \E f \in [1..n -> eligible] : IsInjective(f)
    <3>1. ExistsBijection(1..n, eligible)
      BY <2>2, FS_NatBijection, FS_CountingElements
    <3>2. PICK f \in Bijection(1..n, eligible) : TRUE
      BY <3>1 DEF ExistsBijection
    <3>3. f \in [1..n -> eligible] /\ IsInjective(f)
      BY <3>2 DEF Bijection, Injection
    <3> QED
      BY <3>3
  <2>5. found = CHOOSE f \in [1..n -> eligible] : IsInjective(f)
    BY DEF SetToSeq
  <2> HIDE DEF n, found
  <2>6. found \in [1..n -> eligible]
    BY <2>4, <2>5
  <2>7. DOMAIN found = 1..n /\ \A i \in 1..n : found[i] \in os
    BY <2>1, <2>6
  <2> QED
    BY <2>3, <2>7
<1> HIDE DEF found
<1>3. PICK n \in Nat : DOMAIN found = 1..n /\ \A i \in 1..n : found[i] \in os
  BY <1>2
<1>4. ranked = [k \in 1..n |-> ranked[k]] /\ \A k \in 1..n : ranked[k] \in os
  <2>1. \A i \in 1..n : Keyed(found[i])
    BY <1>3
  <2>2. ranked = [k \in 1..n |-> ranked[k]] /\ \A k \in 1..n : \E i \in 1..n : ranked[k] = found[i]
    BY <1>3, <2>1, BeforeSorts, Zenon
  <2> HIDE DEF ranked
  <2> QED
    BY <1>3, <2>2
<1> HIDE DEF ranked
<1>5. N \in Nat /\ \A k \in 1..N : ranked[k] \in os
  <2>1. PICK t : t = ranked
    OBVIOUS
  <2>2. t \in [1..n -> os]
    BY <1>4, <2>1
  <2>3. t \in Seq(os) /\ Len(t) = n
    BY <1>3, <2>2
  <2>4. N = n
    BY <2>1, <2>3
  <2> QED
    BY <1>3, <1>4, <2>4
<1> HIDE DEF N
<1>6. ASSUME NEW k \in 1..N, NEW so \in Seq(os) PROVE Step(k, so) \in Seq(os)
  BY <1>5
<1> HIDE DEF Step
<1>7. F \in [(1..N) \X Seq(os) -> Seq(os)] /\ \A k \in 1..N, so \in Seq(os) : F[<<k, so>>] = Step(k, so)
  BY <1>6
<1>8. HasRows(Seq(os), << >>, N, F)
  <2> HIDE DEF F
  <2>1. << >> \in Seq(os)
    OBVIOUS
  <2> QED
    BY <1>5, <1>7, <2>1, Rows
<1>9. PICK h \in [0..N -> Seq(os)] : h[0] = << >> /\ \A i \in 1..N : h[i] = F[<<i, h[i - 1]>>]
  BY <1>8 DEF HasRows
<1> HIDE DEF F
<1>10. Is(h)
  <2>1. ASSUME NEW i \in 1..N PROVE h[i] = Step(i, h[i - 1])
    <3>1. i - 1 \in 0..N
      BY <1>5
    <3>2. h[i - 1] \in Seq(os)
      BY <1>9, <3>1
    <3> QED
      BY <1>7, <1>9, <3>2
  <2>2. \A i \in 0..N : h[i] = IF i = 0 THEN << >> ELSE Step(i, h[i - 1])
    BY <1>5, <1>9, <2>1
  <2> QED
    BY <1>9, <2>2
<1>11. Is(g)
  <2> HIDE DEF Is
  <2> QED
    BY <1>10
<1> HIDE DEF g
<1>12. \A i \in 0..N : g[i] = IF i = 0 THEN << >> ELSE Step(i, g[i - 1])
  BY <1>11
<1>13. g[N] \in Seq(os)
  <2> DEFINE Good == {i \in 0..N : g[i] \in Seq(os)}
  <2>1. 0 \in Good
    <3>1. 0 \in 0..N /\ << >> \in Seq(os)
      BY <1>5
    <3>2. g[0] = << >>
      BY <1>12, <3>1
    <3> QED
      BY <3>1, <3>2
  <2>2. ASSUME NEW i \in 1..N, i - 1 \in Good PROVE i \in Good
    <3>1. i \in 0..N /\ g[i] = Step(i, g[i - 1]) /\ g[i - 1] \in Seq(os)
      BY <1>5, <1>12, <2>2
    <3> QED
      BY <1>6, <3>1
  <2>3. \A i \in 0..N : i \in Good
    <3> HIDE DEF Good
    <3> QED
      BY <1>5, <2>1, <2>2, UpTo
  <2> QED
    BY <1>5, <2>3
<1> QED
  BY <1>1, <1>13


LEMMA KindsAre == IsFiniteSet(RequiredKinds) /\ Cardinality(RequiredKinds) \in Nat /\ Cardinality(RequiredKinds) # 0
<1> DEFINE five == <<"boundary", "case", "conservation", "convergence", "qoi">>
<1>1. five \in Seq(Range(five)) /\ RequiredKinds \in SUBSET Range(five)
  BY DEF RequiredKinds, Range
<1> HIDE DEF five
<1>2. IsFiniteSet(RequiredKinds)
  BY <1>1, RangeFinite, FS_Subset
<1>3. RequiredKinds # {}
  BY DEF RequiredKinds
<1> QED
  BY <1>2, <1>3, FS_CardinalityType, FS_EmptySet

\* Evidence of every required kind, current and verified.
Evidenced(evidence, o) ==
  \A k \in RequiredKinds : \E e \in DOMAIN evidence :
    /\ e \in o.support /\ evidence[e].kind = k /\ ~evidence[e].stale /\ evidence[e].maturity \in Verified

LEMMA CandidateIs ==
  ASSUME NEW evidence, EvidenceOK(evidence), NEW o, Keyed(o)
  PROVE  LET r == RankCandidate(Skeleton(o), evidence) IN
         /\ r = [topic |-> Signature(o), score |-> r.score, defensible |-> r.defensible, missing |-> r.missing]
         /\ Scored(r) /\ (r.defensible => Evidenced(evidence, o))
<1> DEFINE t == Skeleton(o)
           matched == t.support \cap DOMAIN evidence
           fresh == {e \in matched : ~evidence[e].stale}
           kinds == {evidence[e].kind : e \in matched}
           Found(k) == {evidence[e].maturity : e \in {e \in fresh : evidence[e].kind = k}}
           Best(k) == Highest(Maturities, Found(k))
           immature == {k \in t.kinds \cap kinds :
                          \/ ~\E e \in fresh : evidence[e].kind = k
                          \/ Rank(Maturities, Best(k)) < Rank(Maturities, t.required)}
           mature == (t.kinds \cap kinds) \ immature
           good == {e \in fresh : evidence[e].maturity \in {"verified", "author-approved"}}
           verified == Cardinality(good)
           enough == IF verified > t.minimum THEN t.minimum ELSE verified
           score == IF matched = {} THEN 0
                    ELSE (1320 * Cardinality(mature)) \div Cardinality(t.kinds)
                           + (600 * enough) \div t.minimum + t.significance + t.novelty
           defensible == matched # {} /\ mature = t.kinds /\ verified >= t.minimum
           missing == {<<"evidence-id", e>> : e \in t.support \ DOMAIN evidence}
                        \cup {<<"stale-evidence", e>> : e \in matched \ fresh}
                        \cup {<<"kind", k>> : k \in t.kinds \ kinds}
                        \cup {<<"maturity", k>> : k \in immature}
           r == RankCandidate(Skeleton(o), evidence)
<1>1. r = [topic |-> t.topic, score |-> score, defensible |-> defensible, missing |-> missing]
  BY Zenon DEF RankCandidate
<1>2. /\ t.topic = Signature(o) /\ t.support = o.support /\ t.kinds = RequiredKinds
      /\ t.required \in Verified /\ t.minimum = Cardinality(RequiredKinds)
      /\ t.significance = Significance(o) /\ t.novelty = Novelty
  BY DEF Skeleton, Verified
<1> HIDE DEF r, t, score, missing
<1>3. matched \subseteq DOMAIN evidence /\ IsFiniteSet(good) /\ IsFiniteSet(mature)
  <2>1. good \in SUBSET DOMAIN evidence /\ mature \in SUBSET RequiredKinds
    BY <1>2
  <2> HIDE DEF good, mature
  <2> QED
    BY <2>1, KindsAre, FS_Subset DEF EvidenceOK
<1> HIDE DEF defensible
<1>4. score \in Int
  <2>1. PICK c \in Nat : c = Cardinality(RequiredKinds) /\ c # 0
    BY KindsAre
  <2>2. PICK m \in Nat : m = Cardinality(mature)
    BY <1>3, FS_CardinalityType
  <2>3. verified \in Nat
    BY <1>3, FS_CardinalityType
  <2>4. enough \in Nat
    BY <1>2, <2>1, <2>3
  <2>5. t.significance \in Int /\ t.novelty \in Int
    BY <1>2 DEF Keyed, Novelty
  <2> HIDE DEF matched, mature, verified, enough
  <2>6. (1320 * m) \div c \in Int /\ (600 * enough) \div c \in Int
    BY <2>1, <2>2, <2>4
  <2>7. (1320 * m) \div c + (600 * enough) \div c + t.significance + t.novelty \in Int
    BY <2>5, <2>6
  <2> QED
    BY <1>2, <2>1, <2>2, <2>7 DEF score
<1>5. r.topic = t.topic /\ r.score = score /\ r.defensible = defensible /\ r.missing = missing
  BY <1>1
<1>6. r.defensible \in BOOLEAN /\ (r.defensible <=> defensible)
  BY <1>5, Zenon DEF defensible
<1>7. ASSUME defensible, NEW k \in RequiredKinds
      PROVE  \E e \in DOMAIN evidence :
               /\ e \in o.support /\ evidence[e].kind = k /\ ~evidence[e].stale /\ evidence[e].maturity \in Verified
  <2>1. k \in mature
    BY <1>2, <1>7 DEF defensible
  <2>2. /\ \E e \in fresh : evidence[e].kind = k
        /\ ~ (Rank(Maturities, Best(k)) < Rank(Maturities, t.required))
    BY <2>1
  <2>3. Found(k) \subseteq Range(Maturities) /\ Found(k) # {}
    BY <2>2 DEF EvidenceOK, IsEvidence
  <2>4. Best(k) \in Found(k)
    <3> HIDE DEF Found
    <3> QED
      BY <2>3, HighestIs, MaturitiesAre
  <2>5. PICK e \in fresh : evidence[e].kind = k /\ evidence[e].maturity = Best(k)
    <3> HIDE DEF Best, fresh
    <3> QED
      BY <2>4
  <2>6. Best(k) \in Range(Maturities)
    BY <2>3, <2>4
  <2> HIDE DEF Best
  <2>7. Rank(Maturities, t.required) \in {3, 4}
    BY <1>2, MaturitiesAre DEF Verified
  <2>8. Rank(Maturities, Best(k)) \in 1..4
    BY <2>6, RankIn, MaturitiesAre
  <2>9. Best(k) \in Verified
    BY <2>2, <2>6, <2>7, <2>8, MaturitiesAre DEF Verified
  <2> QED
    BY <1>2, <2>5, <2>9
<1>8. r = [topic |-> Signature(o), score |-> r.score, defensible |-> r.defensible, missing |-> r.missing]
  BY <1>1, <1>2, <1>5
<1> QED
  BY <1>4, <1>5, <1>6, <1>7, <1>8, Zenon DEF Scored, Evidenced, r


\* A rank is of a topic, and fit only when the topic and its evidence are.
IsRanked(s, os, r) ==
  /\ Scored(r)
  /\ \E o \in os : /\ r.topic = Signature(o)
                   /\ r.defensible => o.defensible /\ Evidenced(s.evidence, o)

LEMMA RanksAre ==
  ASSUME NEW s, RecordsOK(s), NEW os, IsFiniteSet(os), \A o \in os : Keyed(o),
         \A o, p \in os : Signature(o) = Signature(p) => o = p
  PROVE  \E n \in Nat : /\ RankTopics(s, os) = [k \in 1..n |-> RankTopics(s, os)[k]]
                        /\ \A k \in 1..n : IsRanked(s, os, RankTopics(s, os)[k])
<1> DEFINE chosen == Choose4(os)
           made == [i \in DOMAIN chosen |-> Skeleton(chosen[i])]
           rated == [i \in DOMAIN made |-> RankCandidate(made[i], s.evidence)]
           ranked == InOrder(rated)
           Cut(r) == LET o == CHOOSE o \in os : Signature(o) = r.topic
                     IN [topic |-> r.topic, score |-> r.score, defensible |-> r.defensible /\ o.defensible,
                         missing |-> r.missing \cup {<<"offline", g>> : g \in o.gaps}]
           cut == [i \in DOMAIN ranked |-> Cut(ranked[i])]
           Rating(r, o) == /\ Scored(r) /\ r.topic = Signature(o)
                           /\ r.defensible => Evidenced(s.evidence, o)
<1>1. RankTopics(s, os) = InOrder(cut)
  BY Zenon DEF RankTopics, Candidates, Constrained
<1>2. chosen \in Seq(os)
  BY ChosenAre
<1> HIDE DEF chosen
<1>3. PICK n \in Nat : DOMAIN chosen = 1..n /\ \A i \in 1..n : chosen[i] \in os
  BY <1>2
<1>4. DOMAIN rated = 1..n /\ \A i \in 1..n : \E o \in os : Rating(rated[i], o)
  <2>1. DOMAIN rated = 1..n /\ \A i \in 1..n : rated[i] = RankCandidate(Skeleton(chosen[i]), s.evidence)
    BY <1>3
  <2>2. ASSUME NEW o \in os PROVE Rating(RankCandidate(Skeleton(o), s.evidence), o)
    <3> DEFINE r == RankCandidate(Skeleton(o), s.evidence)
    <3>1. EvidenceOK(s.evidence) /\ Keyed(o)
      BY DEF RecordsOK
    <3>2. /\ r = [topic |-> Signature(o), score |-> r.score, defensible |-> r.defensible, missing |-> r.missing]
          /\ Scored(r) /\ (r.defensible => Evidenced(s.evidence, o))
      BY <3>1, CandidateIs, Zenon
    <3> HIDE DEF r
    <3>3. r.topic = Signature(o)
      BY <3>2
    <3> QED
      BY <3>2, <3>3, Zenon DEF r
  <2> HIDE DEF rated, Rating
  <2> QED
    BY <1>3, <2>1, <2>2
<1> HIDE DEF rated
<1>5. ranked = [k \in 1..n |-> ranked[k]] /\ \A k \in 1..n : \E i \in 1..n : ranked[k] = rated[i]
  <2>1. \A i \in 1..n : Scored(rated[i])
    BY <1>4
  <2> QED
    BY <1>4, <2>1, AheadSorts
<1>6. DOMAIN ranked = 1..n /\ \A k \in 1..n : \E o \in os : Rating(ranked[k], o)
  <2> HIDE DEF ranked, Rating
  <2> QED
    BY <1>4, <1>5
<1> HIDE DEF ranked
<1>7. ASSUME NEW k \in 1..n PROVE IsRanked(s, os, cut[k])
  <2> DEFINE r == ranked[k]
             o == CHOOSE o \in os : Signature(o) = r.topic
  <2>1. PICK p \in os : Rating(r, p)
    BY <1>6
  <2>2. o = p
    <3>1. Signature(p) = r.topic
      BY <2>1
    <3>2. o \in os /\ Signature(o) = r.topic
      BY <3>1
    <3> HIDE DEF o
    <3> QED
      BY <3>1, <3>2
  <2> DEFINE fit == r.defensible /\ o.defensible
             missing == r.missing \cup {<<"offline", g>> : g \in o.gaps}
  <2>3. cut[k] = [topic |-> r.topic, score |-> r.score, defensible |-> fit, missing |-> missing]
    BY <1>6
  <2> HIDE DEF r, o, fit, missing
  <2>4. cut[k].topic = r.topic /\ cut[k].score = r.score /\ cut[k].defensible = fit
    <3>1. PICK x : x = cut[k]
      OBVIOUS
    <3> HIDE DEF cut
    <3>2. x = [topic |-> r.topic, score |-> r.score, defensible |-> fit, missing |-> missing]
      BY <2>3, <3>1
    <3>3. x.topic = r.topic /\ x.score = r.score /\ x.defensible = fit
      BY <3>2
    <3> QED
      BY <3>1, <3>3
  <2> HIDE DEF cut
  <2>5. cut[k].defensible \in BOOLEAN
    BY <2>4, Zenon DEF fit
  <2>6. cut[k].score \in Int
    BY <2>1, <2>4 DEF Scored
  <2>7. cut[k].defensible => p.defensible /\ Evidenced(s.evidence, p)
    <3>1. cut[k].defensible => fit
      BY <2>4, Zenon
    <3>2. fit => r.defensible /\ p.defensible
      BY <2>2, Zenon DEF fit
    <3>3. r.defensible => Evidenced(s.evidence, p)
      BY <2>1, Zenon
    <3> QED
      BY <3>1, <3>2, <3>3, Zenon
  <2>8. cut[k].topic = Signature(p)
    BY <2>1, <2>4
  <2> QED
    BY <2>5, <2>6, <2>7, <2>8, Zenon DEF IsRanked, Scored
<1>8. DOMAIN cut = 1..n
  BY <1>6
<1> HIDE DEF cut
<1>9. InOrder(cut) = [k \in 1..n |-> InOrder(cut)[k]] /\ \A k \in 1..n : \E i \in 1..n : InOrder(cut)[k] = cut[i]
  <2>1. \A i \in 1..n : Scored(cut[i])
    BY <1>7 DEF IsRanked
  <2> QED
    BY <1>8, <2>1, AheadSorts
<1>10. \A k \in 1..n : IsRanked(s, os, InOrder(cut)[k])
  BY <1>7, <1>9
<1> QED
  BY <1>1, <1>9, <1>10, Zenon

LEMMA ManuscriptEarned == TopicsInv => ManuscriptIsEarned
<1> SUFFICES ASSUME TopicsInv, Outcome(topics.ranked) = "manuscript"
             PROVE  /\ \E o \in Defended : Signature(o) = topics.ranked[1].topic
                    /\ \A k \in RequiredKinds : \E o \in Defended, e \in DOMAIN loaded.evidence :
                         /\ Signature(o) = topics.ranked[1].topic /\ e \in o.support
                         /\ loaded.evidence[e].kind = k /\ ~loaded.evidence[e].stale
                         /\ loaded.evidence[e].maturity \in {"verified", "author-approved"}
  BY DEF ManuscriptIsEarned
<1> DEFINE os == Discover(loaded)
           ranked == topics.ranked
<1>1. ranked # << >> /\ ranked[1].defensible
  BY DEF Outcome
<1>2. topics # Nothing
  BY <1>1 DEF Nothing
<1>3. PlanMade /\ RecordsOK(loaded)
  BY <1>2 DEF TopicsInv
<1>4. topics = [os |-> os, ranked |-> RankTopics(loaded, os)] /\ AcceptedDiscovery(os)
  BY <1>3 DEF PlanMade
<1>5. IsFiniteSet(os) /\ \A o \in os : Keyed(o)
  BY <1>3, DiscoverFinite, KeyedIs
<1> HIDE DEF os
<1>6. topics.os = os /\ ranked = RankTopics(loaded, os)
  BY <1>4
<1> HIDE DEF ranked
<1>7. PICK n \in Nat : /\ ranked = [k \in 1..n |-> ranked[k]]
                       /\ \A k \in 1..n : IsRanked(loaded, os, ranked[k])
  <2>1. \A o, p \in os : Signature(o) = Signature(p) => o = p
    BY <1>4 DEF AcceptedDiscovery
  <2> QED
    BY <1>3, <1>5, <1>6, <2>1, RanksAre
<1>8. n # 0
  <2>1. n = 0 => ranked = << >>
    <3>1. PICK t : t = ranked
      OBVIOUS
    <3>2. t = [k \in 1..n |-> t[k]]
      BY <1>7, <3>1
    <3>3. n = 0 => t = << >>
      BY <3>2
    <3> QED
      BY <3>1, <3>3
  <2> QED
    BY <1>1, <2>1
<1>9. IsRanked(loaded, os, ranked[1])
  BY <1>7, <1>8
<1>10. PICK o \in os : ranked[1].topic = Signature(o) /\ o.defensible /\ Evidenced(loaded.evidence, o)
  BY <1>1, <1>9 DEF IsRanked
<1>11. o \in Defended
  BY <1>6, <1>10 DEF Defended
<1> QED
  BY <1>10, <1>11 DEF ranked, Evidenced, Verified


-----------------------------------------------------------------------------
(* What a topic says of its samples.                                        *)
LEMMA TrendIs ==
  ASSUME NEW y
  PROVE  /\ Trend(y) = "monotonic-increasing" => Rises(y)
         /\ Trend(y) = "monotonic-decreasing" => Falls(y)
<1> DEFINE n == Len(y)
           peak == Peak(y)
           trough == Trough(y)
           Flat(i) == \A j \in i..n : y[j] = y[i]
           flatEnd == \E i \in 2..(n - TailPoints + 1) : Flat(i) /\ y[i] # y[1]
           up == Rises(y) /\ y[n] > y[1]
           down == Falls(y) /\ y[n] < y[1]
           level == n >= TailPoints /\ Flat(1)
           peaked == peak \in 2..(n - 1) /\ y[peak] > y[n]
           troughed == trough \in 2..(n - 1) /\ y[trough] < y[n]
<1>1. Trend(y) = IF peaked THEN "interior-peak" ELSE IF troughed THEN "interior-trough"
                 ELSE IF flatEnd THEN "plateau" ELSE IF up THEN "monotonic-increasing"
                 ELSE IF down THEN "monotonic-decreasing" ELSE IF level THEN "plateau" ELSE "mixed"
  BY Zenon DEF Trend
<1> HIDE DEF flatEnd, up, down, level, peaked, troughed
<1>2. (Trend(y) = "monotonic-increasing" => up) /\ (Trend(y) = "monotonic-decreasing" => down)
  BY <1>1
<1> QED
  BY <1>2 DEF up, down

LEMMA Monotone ==
  ASSUME NEW y \in Seq(Int), NEW k \in 1..Len(y), NEW l \in 1..Len(y), k <= l
  PROVE  /\ Rises(y) => y[k] <= y[l]
         /\ Falls(y) => y[k] >= y[l]
<1> DEFINE n == Len(y)
           T == {i \in 0..n : i >= k => /\ Rises(y) => y[k] <= y[i]
                                        /\ Falls(y) => y[k] >= y[i]}
<1>0. n \in Nat /\ \A i \in 1..n : y[i] \in Int
  OBVIOUS
<1>1. 0 \in T
  BY <1>0
<1>2. ASSUME NEW i \in 1..n, i - 1 \in T PROVE i \in T
  <2>1. CASE i < k
    BY <1>0, <2>1
  <2>2. CASE i = k
    BY <1>0, <2>2
  <2>3. CASE i > k
    <3>1. i - 1 \in 1..(n - 1) /\ i - 1 >= k /\ (i - 1) + 1 = i /\ i \in 0..n
      BY <1>0, <2>3
    <3>2. (Rises(y) => y[k] <= y[i - 1]) /\ (Falls(y) => y[k] >= y[i - 1])
      BY <1>2, <3>1
    <3>3. (Rises(y) => y[i - 1] <= y[i]) /\ (Falls(y) => y[i - 1] >= y[i])
      BY <3>1 DEF Rises, Falls
    <3>4. y[k] \in Int /\ y[i] \in Int /\ y[i - 1] \in Int
      BY <1>0, <3>1
    <3>5. (Rises(y) => y[k] <= y[i]) /\ (Falls(y) => y[k] >= y[i])
      BY <3>2, <3>3, <3>4
    <3> QED
      BY <3>1, <3>5
  <2> QED
    BY <2>1, <2>2, <2>3
<1>3. \A i \in 0..n : i \in T
  <2> HIDE DEF T, n
  <2> QED
    BY <1>0, <1>1, <1>2, UpTo
<1> QED
  BY <1>0, <1>3

LEMMA SampleIs ==
  ASSUME NEW s, RecordsOK(s), NEW n \in Whole(s), NEW c \in Now(s)
  PROVE  Sample(s, n, c) \in Int
<1> DEFINE q == s.qois[<<n, c>>]
<1>1. Paired(s, n)
  BY DEF Whole
<1>2. c \in SeriesCases(s, n)
  BY <1>1 DEF Paired
<1>3. <<n, c>> \in DOMAIN s.qois
  <2>1. PICK k \in DOMAIN s.qois : k[1] = n /\ k[2] = c
    BY <1>2 DEF SeriesCases
  <2>2. k = <<k[1], k[2]>>
    BY DEF RecordsOK, QoIsOK, Keys
  <2> QED
    BY <2>1, <2>2
<1>4. q.value # {} /\ Known(q.unit)
  BY <1>1, <1>2 DEF Paired, Measured, OneUnit, Compatible
<1>5. q.value \subseteq Int
  BY <1>3 DEF RecordsOK, QoIsOK, IsQoI
<1> DEFINE x == CHOOSE x \in q.value : TRUE
<1>6. x \in Int
  BY <1>4, <1>5
<1>7. UnitOf[q.unit].scale \in Int /\ UnitOf[q.unit].offset \in Int
  BY <1>4, RecordTypes DEF Known
<1>8. Sample(s, n, c) = x * UnitOf[q.unit].scale + UnitOf[q.unit].offset
  BY DEF Sample, InBase
<1> HIDE DEF x, q
<1> QED
  BY <1>6, <1>7, <1>8

LEMMA FactorIs ==
  ASSUME NEW s, RecordsOK(s), NEW p \in ParameterContext(s).varied, NEW c \in Now(s)
  PROVE  InBase(ParameterContext(s).values[p][c][1], ParameterContext(s).values[p][c][2]) \in Int
<1>1. /\ p \in Given(s) /\ ParameterContext(s).values[p] = ParameterValues(s, p)
      /\ ParameterGap(s, p) = "bound"
  BY VariedIs, ContextIs
<1>2. c \in {s.bounds[i].case : i \in Giving(s, p)}
  <2>1. DOMAIN ParameterValues(s, p) = Now(s)
    BY <1>1, GapIs
  <2>2. DOMAIN ParameterValues(s, p) = {s.bounds[i].case : i \in Giving(s, p)}
    BY DEF ParameterValues
  <2> QED
    BY <2>1, <2>2
<1>3. PICK i : LastOf(s, p, c, i) /\ ParameterValues(s, p)[c] = s.bounds[i].values[p]
  BY <1>2, ValueIs
<1> DEFINE v == s.bounds[i].values[p]
<1>4. Known(v[2]) /\ p \in DOMAIN s.bounds[i].values /\ i \in DOMAIN s.bounds
  BY <1>3 DEF LastOf, Giving, Traced, Declared
<1>5. v[1] \in Int
  BY <1>4 DEF RecordsOK, BoundsOK, IsBound
<1>6. UnitOf[v[2]].scale \in Int /\ UnitOf[v[2]].offset \in Int
  BY <1>4, RecordTypes DEF Known
<1>7. ParameterContext(s).values[p][c] = v
  BY <1>1, <1>3
<1> HIDE DEF v
<1>8. InBase(v[1], v[2]) \in Int
  BY <1>5, <1>6 DEF InBase
<1> QED
  BY <1>7, <1>8

\* The samples of a series, in some order of its cases.
LEMMA SamplesAre ==
  ASSUME NEW s, RecordsOK(s), NEW n \in Whole(s), NEW m \in Nat, NEW cs, DOMAIN cs = 1..m,
         \A i \in 1..m : cs[i] \in Now(s)
  PROVE  /\ Samples(s, n, cs) \in Seq(Int) /\ Len(Samples(s, n, cs)) = m
         /\ \A i \in 1..m : Samples(s, n, cs)[i] = Sample(s, n, cs[i])
<1>1. Samples(s, n, cs) = [i \in 1..m |-> Sample(s, n, cs[i])]
  BY DEF Samples
<1>2. \A i \in 1..m : Sample(s, n, cs[i]) \in Int
  BY SampleIs
<1>3. PICK y : y = Samples(s, n, cs)
  OBVIOUS
<1>4. y \in [1..m -> Int] /\ \A i \in 1..m : y[i] = Sample(s, n, cs[i])
  BY <1>1, <1>2, <1>3
<1>5. y \in Seq(Int) /\ Len(y) = m
  BY <1>4
<1> QED
  BY <1>3, <1>4, <1>5


\* Cases sorted by the factor: each, and none before one of a smaller value.
Smaller(cs, x) == {e \in Pairs(cs) : x[e[1]] < x[e[2]]}

SortedUp(m, cs, x, sorted) ==
  /\ DOMAIN sorted = 1..m
  /\ \A k \in 1..m : \E i \in 1..m : sorted[k] = cs[i]
  /\ \A i, j \in 1..m : x[i] < x[j] =>
       \E k, l \in 1..m : k < l /\ sorted[k] = cs[i] /\ sorted[l] = cs[j]

LEMMA SortedCases ==
  ASSUME NEW m \in Nat, NEW cs, DOMAIN cs = 1..m, NEW x, \A i \in 1..m : x[i] \in Int,
         NEW sorted, sorted = Sorted(cs, Smaller(cs, x))
  PROVE  SortedUp(m, cs, x, sorted)
<1> DEFINE before == Smaller(cs, x)
<1>0. sorted = Sorted(cs, before)
  OBVIOUS
<1>1. \A i, j \in 1..m : <<i, j>> \in before <=> x[i] < x[j]
  BY DEF Pairs, Smaller
<1> HIDE DEF before
<1>2. Orders(before, 1..m)
  <2>1. \A i, j \in 1..m : <<i, j>> \in before => <<j, i>> \notin before
    BY <1>1
  <2>2. \A i, j, k \in 1..m : <<i, k>> \in before => <<i, j>> \in before \/ <<j, k>> \in before
    BY <1>1
  <2> QED
    BY <2>1, <2>2 DEF Orders
<1>3. PICK p : SortedBy(cs, before, p)
  BY <1>2, SortedIs
<1>4. /\ p \in [1..m -> 1..m] /\ \A i \in 1..m : \E k \in 1..m : p[k] = i
      /\ sorted = [k \in 1..m |-> cs[p[k]]]
      /\ \A k, l \in 1..m : k < l => <<p[l], p[k]>> \notin before
  BY <1>0, <1>3 DEF SortedBy, Surjection
<1>5. ASSUME NEW i \in 1..m, NEW j \in 1..m, x[i] < x[j]
      PROVE  \E k, l \in 1..m : k < l /\ sorted[k] = cs[i] /\ sorted[l] = cs[j]
  <2>1. PICK k \in 1..m, l \in 1..m : p[k] = i /\ p[l] = j
    BY <1>4
  <2>2. k # l
    BY <1>5, <2>1
  <2>3. ~ (l < k)
    <3>1. <<i, j>> \in before
      BY <1>1, <1>5
    <3>2. l < k => <<p[k], p[l]>> \notin before
      BY <1>4
    <3> QED
      BY <2>1, <3>1, <3>2
  <2>4. k < l
    BY <2>2, <2>3
  <2>5. sorted[k] = cs[i] /\ sorted[l] = cs[j]
    BY <1>4, <2>1
  <2> QED
    BY <2>4, <2>5
<1>6. DOMAIN sorted = 1..m /\ \A k \in 1..m : \E i \in 1..m : sorted[k] = cs[i]
  BY <1>4
<1> QED
  BY <1>5, <1>6 DEF SortedUp

LEMMA PolarityIs ==
  ASSUME NEW trend
  PROVE  /\ PolarityOf(trend) = "increase" => trend = "monotonic-increasing"
         /\ PolarityOf(trend) = "decrease" => trend = "monotonic-decreasing"
  BY DEF PolarityOf

LEMMA ResponseIs ==
  ASSUME NEW s, RecordsOK(s), NEW g \in OrderedResponses(s, ParameterContext(s), CurrentCases(s)),
         NEW n \in g.names, NEW p \in ParameterContext(s).varied, NEW c \in Now(s), NEW d \in Now(s),
         InBase(ParameterContext(s).values[p][c][1], ParameterContext(s).values[p][c][2])
           < InBase(ParameterContext(s).values[p][d][1], ParameterContext(s).values[p][d][2])
  PROVE  /\ g.polarity = "increase" => Sample(s, n, c) <= Sample(s, n, d)
         /\ g.polarity = "decrease" => Sample(s, n, c) >= Sample(s, n, d)
<1> DEFINE par == ParameterContext(s)
           cs == CurrentCases(s)
           q == CHOOSE q \in par.varied : TRUE
           X(a) == InBase(par.values[q][a][1], par.values[q][a][2])
           ordered == Sorted(cs, {e \in Pairs(cs) : X(cs[e[1]]) < X(cs[e[2]])})
<1>1. Cardinality(par.varied) = 1 /\ \E k \in Whole(s) : g = Response(k, cs, Trend(Samples(s, k, ordered)))
  BY Zenon DEF OrderedResponses
<1>2. p = q
  <2>1. par.varied \in SUBSET Params
    BY VariedIs DEF Given
  <2> HIDE DEF par
  <2>2. IsFiniteSet(par.varied)
    BY <2>1, RecordTypes, FS_Subset
  <2>3. \E x : par.varied = {x}
    BY <1>1, <2>2, FS_Singleton
  <2> QED
    BY <2>3 DEF par
<1>3. cs \in Seq(CaseSet) /\ Range(cs) = Now(s)
  BY CurrentIs
<1> HIDE DEF cs
<1>4. PICK m \in Nat : DOMAIN cs = 1..m
  BY <1>3
<1>5. \A i \in 1..m : cs[i] \in Now(s)
  BY <1>3, <1>4 DEF Range
<1>6. \A a \in Now(s) : X(a) \in Int
  BY <1>2, FactorIs
<1> HIDE DEF q
<1> DEFINE x == [i \in 1..m |-> X(cs[i])]
<1>7. ordered = Sorted(cs, Smaller(cs, x))
  <2>1. \A e \in Pairs(cs) : x[e[1]] = X(cs[e[1]]) /\ x[e[2]] = X(cs[e[2]])
    BY <1>4 DEF Pairs
  <2>2. {e \in Pairs(cs) : X(cs[e[1]]) < X(cs[e[2]])} = Smaller(cs, x)
    <3> HIDE DEF x, X
    <3> QED
      BY <2>1 DEF Smaller
  <2> QED
    BY <2>2, Zenon
<1>8. \A i \in 1..m : x[i] \in Int /\ x[i] = X(cs[i])
  BY <1>5, <1>6
<1> HIDE DEF ordered, x, X
<1>9. /\ DOMAIN ordered = 1..m
      /\ \A k \in 1..m : \E i \in 1..m : ordered[k] = cs[i]
      /\ \A i, j \in 1..m : x[i] < x[j] =>
           \E k, l \in 1..m : k < l /\ ordered[k] = cs[i] /\ ordered[l] = cs[j]
  <2>1. \A i \in 1..m : x[i] \in Int
    BY <1>8
  <2>2. SortedUp(m, cs, x, ordered)
    BY <1>4, <1>7, <2>1, SortedCases
  <2> QED
    BY <2>2 DEF SortedUp
<1>10. PICK k \in 1..m, l \in 1..m : k < l /\ ordered[k] = c /\ ordered[l] = d
  <2>1. PICK i \in 1..m, j \in 1..m : cs[i] = c /\ cs[j] = d
    BY <1>3, <1>4 DEF Range
  <2>2. X(c) < X(d)
    BY <1>2 DEF X
  <2>3. x[i] < x[j]
    BY <1>8, <2>1, <2>2
  <2>4. \E k, l \in 1..m : k < l /\ ordered[k] = cs[i] /\ ordered[l] = cs[j]
    BY <1>9, <2>3
  <2> QED
    BY <2>1, <2>4
<1>11. PICK h \in Whole(s) : g = Response(h, cs, Trend(Samples(s, h, ordered)))
  BY <1>1
<1> DEFINE y == Samples(s, h, ordered)
<1>12. g.names = {h} /\ g.polarity = PolarityOf(Trend(y))
  <2>1. PICK t : t = Trend(y)
    OBVIOUS
  <2>2. g = Seed("ordered-parameter-response", cs, {h}, PolarityOf(t), t, NoLinks)
    BY <1>11, <2>1, Zenon DEF Response
  <2>3. g.names = {h} /\ g.polarity = PolarityOf(t)
    BY <2>2, SeedIs
  <2> QED
    BY <2>1, <2>3
<1>13. n = h
  BY <1>12
<1>14. \A i \in 1..m : ordered[i] \in Now(s)
  BY <1>5, <1>9
<1>15. y \in Seq(Int) /\ Len(y) = m /\ \A i \in 1..m : y[i] = Sample(s, h, ordered[i])
  <2>1. DOMAIN ordered = 1..m
    BY <1>9
  <2> QED
    BY <1>14, <2>1, SamplesAre, Zenon
<1> HIDE DEF y
<1>16. (g.polarity = "increase" => Rises(y)) /\ (g.polarity = "decrease" => Falls(y))
  BY <1>12, PolarityIs, TrendIs
<1>17. (Rises(y) => y[k] <= y[l]) /\ (Falls(y) => y[k] >= y[l])
  BY <1>10, <1>15, Monotone
<1>18. y[k] = Sample(s, n, c) /\ y[l] = Sample(s, n, d)
  BY <1>10, <1>13, <1>15
<1> QED
  BY <1>16, <1>17, <1>18


LEMMA ProductSign ==
  ASSUME NEW a \in Int, NEW b \in Int
  PROVE  /\ (a >= 0 /\ b >= 0) \/ (a <= 0 /\ b <= 0) => a * b >= 0
         /\ (a >= 0 /\ b <= 0) \/ (a <= 0 /\ b >= 0) => a * b <= 0
  OBVIOUS

LEMMA TogetherIs ==
  ASSUME NEW left, NEW right
  PROVE  /\ Together(left, right) = "positive" =>
              \/ left = "monotonic-increasing" /\ right = "monotonic-increasing"
              \/ left = "monotonic-decreasing" /\ right = "monotonic-decreasing"
         /\ Together(left, right) = "negative" =>
              \/ left = "monotonic-increasing" /\ right = "monotonic-decreasing"
              \/ left = "monotonic-decreasing" /\ right = "monotonic-increasing"
<1>1. DOMAIN Sign = {"monotonic-increasing", "monotonic-decreasing"}
  BY DEF Sign
<1>2. Sign["monotonic-increasing"] = 1 /\ Sign["monotonic-decreasing"] = -1
  BY DEF Sign
<1> QED
  BY <1>1, <1>2 DEF Together

\* Two series that move together, or against each other, do so over every pair of cases.
LEMMA PairsMove ==
  ASSUME NEW y \in Seq(Int), NEW z \in Seq(Int), Len(y) = Len(z), NEW k \in 1..Len(y), NEW l \in 1..Len(y)
  PROVE  /\ Together(Trend(y), Trend(z)) = "positive" => (y[k] - y[l]) * (z[k] - z[l]) >= 0
         /\ Together(Trend(y), Trend(z)) = "negative" => (y[k] - y[l]) * (z[k] - z[l]) <= 0
<1> DEFINE a == y[k] - y[l]
           b == z[k] - z[l]
<1>1. a \in Int /\ b \in Int /\ y[k] \in Int /\ y[l] \in Int /\ z[k] \in Int /\ z[l] \in Int
  OBVIOUS
<1>2. /\ k <= l => (Rises(y) => a <= 0) /\ (Falls(y) => a >= 0) /\ (Rises(z) => b <= 0) /\ (Falls(z) => b >= 0)
      /\ l <= k => (Rises(y) => a >= 0) /\ (Falls(y) => a <= 0) /\ (Rises(z) => b >= 0) /\ (Falls(z) => b <= 0)
  <2>1. k <= l => (Rises(y) => y[k] <= y[l]) /\ (Falls(y) => y[k] >= y[l])
    BY Monotone
  <2>2. l <= k => (Rises(y) => y[l] <= y[k]) /\ (Falls(y) => y[l] >= y[k])
    BY Monotone
  <2>3. k <= l => (Rises(z) => z[k] <= z[l]) /\ (Falls(z) => z[k] >= z[l])
    BY Monotone
  <2>4. l <= k => (Rises(z) => z[l] <= z[k]) /\ (Falls(z) => z[l] >= z[k])
    BY Monotone
  <2>5. (y[k] <= y[l] <=> a <= 0) /\ (y[k] >= y[l] <=> a >= 0)
    BY <1>1
  <2>6. (z[k] <= z[l] <=> b <= 0) /\ (z[k] >= z[l] <=> b >= 0)
    BY <1>1
  <2>7. (y[l] <= y[k] <=> a >= 0) /\ (y[l] >= y[k] <=> a <= 0)
    BY <1>1
  <2>8. (z[l] <= z[k] <=> b >= 0) /\ (z[l] >= z[k] <=> b <= 0)
    BY <1>1
  <2> HIDE DEF a, b
  <2>9. k <= l => (Rises(y) => a <= 0) /\ (Falls(y) => a >= 0) /\ (Rises(z) => b <= 0) /\ (Falls(z) => b >= 0)
    BY <2>1, <2>3, <2>5, <2>6
  <2>10. l <= k => (Rises(y) => a >= 0) /\ (Falls(y) => a <= 0) /\ (Rises(z) => b >= 0) /\ (Falls(z) => b <= 0)
    BY <2>2, <2>4, <2>7, <2>8
  <2> QED
    BY <2>9, <2>10
<1>3. k <= l \/ l <= k
  OBVIOUS
<1> HIDE DEF a, b
<1>4. ASSUME Together(Trend(y), Trend(z)) = "positive" PROVE a * b >= 0
  <2>1. (Rises(y) /\ Rises(z)) \/ (Falls(y) /\ Falls(z))
    BY <1>4, TogetherIs, TrendIs
  <2>2. (a >= 0 /\ b >= 0) \/ (a <= 0 /\ b <= 0)
    BY <1>2, <1>3, <2>1
  <2> QED
    BY <1>1, <2>2, ProductSign
<1>5. ASSUME Together(Trend(y), Trend(z)) = "negative" PROVE a * b <= 0
  <2>1. (Rises(y) /\ Falls(z)) \/ (Falls(y) /\ Rises(z))
    BY <1>5, TogetherIs, TrendIs
  <2>2. (a >= 0 /\ b <= 0) \/ (a <= 0 /\ b >= 0)
    BY <1>2, <1>3, <2>1
  <2> QED
    BY <1>1, <2>2, ProductSign
<1> QED
  BY <1>4, <1>5 DEF a, b

LEMMA AssociationIs ==
  ASSUME NEW s, RecordsOK(s), NEW g \in CoupledAssociations(s, CurrentCases(s)),
         NEW m \in g.names, NEW n \in g.names, m # n, NEW c \in Now(s), NEW d \in Now(s)
  PROVE  LET product == (Sample(s, m, c) - Sample(s, m, d)) * (Sample(s, n, c) - Sample(s, n, d)) IN
         (g.polarity = "positive" => product >= 0) /\ (g.polarity = "negative" => product <= 0)
<1> DEFINE cs == CurrentCases(s)
           moving == {i \in DOMAIN QoIs : QoIs[i] \in Whole(s) /\ ~Constant(Samples(s, QoIs[i], cs))}
<1>1. PICK e \in moving \X moving :
        g = Seed("coupled-association", cs, {QoIs[e[1]], QoIs[e[2]]},
                 Together(Trend(Samples(s, QoIs[e[1]], cs)), Trend(Samples(s, QoIs[e[2]], cs))), NoTrend, NoLinks)
  BY DEF CoupledAssociations
<1>2. PICK h \in Whole(s), j \in Whole(s) : h = QoIs[e[1]] /\ j = QoIs[e[2]]
  <2>1. QoIs[e[1]] \in Whole(s) /\ QoIs[e[2]] \in Whole(s)
    OBVIOUS
  <2> QED
    BY <2>1
<1> DEFINE y == Samples(s, h, cs)
           z == Samples(s, j, cs)
<1>3. g.names = {h, j} /\ g.polarity = Together(Trend(y), Trend(z))
  <2>1. PICK t : t = Together(Trend(y), Trend(z))
    OBVIOUS
  <2>2. g = Seed("coupled-association", cs, {h, j}, t, NoTrend, NoLinks)
    <3> HIDE DEF cs
    <3> QED
      BY <1>1, <1>2, <2>1
  <2> QED
    BY <2>1, <2>2, SeedIs
<1>4. cs \in Seq(CaseSet) /\ Range(cs) = Now(s)
  BY CurrentIs
<1> HIDE DEF cs
<1>5. PICK N \in Nat : DOMAIN cs = 1..N
  BY <1>4
<1>6. \A i \in 1..N : cs[i] \in Now(s)
  BY <1>4, <1>5 DEF Range
<1>7. /\ y \in Seq(Int) /\ Len(y) = N /\ \A i \in 1..N : y[i] = Sample(s, h, cs[i])
      /\ z \in Seq(Int) /\ Len(z) = N /\ \A i \in 1..N : z[i] = Sample(s, j, cs[i])
  <2>1. PICK q : q = cs
    OBVIOUS
  <2>2. DOMAIN q = 1..N /\ \A i \in 1..N : q[i] \in Now(s)
    BY <1>5, <1>6, <2>1
  <2>3. \A f \in Whole(s) : /\ Samples(s, f, q) \in Seq(Int) /\ Len(Samples(s, f, q)) = N
                           /\ \A i \in 1..N : Samples(s, f, q)[i] = Sample(s, f, q[i])
    BY <2>2, SamplesAre
  <2> QED
    BY <1>2, <2>1, <2>3
<1>9. PICK k \in 1..N, l \in 1..N : cs[k] = c /\ cs[l] = d
  BY <1>4, <1>5 DEF Range
<1> HIDE DEF y, z
<1>10. /\ g.polarity = "positive" => (y[k] - y[l]) * (z[k] - z[l]) >= 0
       /\ g.polarity = "negative" => (y[k] - y[l]) * (z[k] - z[l]) <= 0
  BY <1>3, <1>7, PairsMove
<1>11. y[k] = Sample(s, h, c) /\ y[l] = Sample(s, h, d) /\ z[k] = Sample(s, j, c) /\ z[l] = Sample(s, j, d)
  BY <1>7, <1>9
<1> DEFINE a == Sample(s, h, c) - Sample(s, h, d)
           b == Sample(s, j, c) - Sample(s, j, d)
<1>12. (g.polarity = "positive" => a * b >= 0) /\ (g.polarity = "negative" => a * b <= 0)
  BY <1>10, <1>11
<1>13. a * b = b * a
  <2>1. a \in Int /\ b \in Int
    BY SampleIs
  <2> HIDE DEF a, b
  <2> QED
    BY <2>1
<1>14. (m = h /\ n = j) \/ (m = j /\ n = h)
  BY <1>3
<1>15. CASE m = h /\ n = j
  BY <1>12, <1>15
<1>16. CASE m = j /\ n = h
  <2>1. (g.polarity = "positive" => b * a >= 0) /\ (g.polarity = "negative" => b * a <= 0)
    BY <1>12, <1>13
  <2> QED
    BY <1>16, <2>1
<1> QED
  BY <1>14, <1>15, <1>16

LEMMA RelationsMatch == TopicsInv => RelationMatchesSamples
<1> SUFFICES ASSUME TopicsInv, NEW o \in topics.os
             PROVE  LET Y(n, c) == Sample(loaded, n, c)
                        names == {k[1] : k \in o.qois}
                        par == ParameterContext(loaded)
                        X(p, c) == InBase(par.values[p][c][1], par.values[p][c][2])
                    IN IF o.pattern = "ordered-parameter-response" /\ o.polarity \in {"increase", "decrease"}
                       THEN \A n \in names, p \in o.varied, c, d \in o.cases :
                              X(p, c) < X(p, d) =>
                                IF o.polarity = "increase" THEN Y(n, c) <= Y(n, d) ELSE Y(n, c) >= Y(n, d)
                       ELSE IF o.pattern = "coupled-association" /\ o.polarity \in {"positive", "negative"}
                       THEN \A m, n \in names, c, d \in o.cases :
                              m # n => LET product == (Y(m, c) - Y(m, d)) * (Y(n, c) - Y(n, d))
                                       IN IF o.polarity = "positive" THEN product >= 0 ELSE product <= 0
                       ELSE TRUE
  BY DEF RelationMatchesSamples
<1>1. PICK g \in SeedsOf(loaded) : o = Built(loaded, g)
  BY TopicIs
<1>2. RecordsOK(loaded)
  BY TopicIs DEF Snapshot
<1> DEFINE par == ParameterContext(loaded)
           names == {k[1] : k \in o.qois}
<1>3. /\ o.pattern = g.pattern /\ o.cases = Now(loaded) /\ o.varied = par.varied
      /\ o.polarity = g.polarity /\ o.qois = Subjects(g)
  <2> DEFINE b == Built(loaded, g)
  <2>1. /\ b.pattern = g.pattern /\ b.cases = g.cases /\ b.varied = par.varied
        /\ b.polarity = g.polarity /\ b.qois = Subjects(g)
    BY BuiltIs, Zenon DEF IsRated
  <2> HIDE DEF b
  <2> QED
    BY <1>1, <1>2, <2>1, SubjectsAre DEF b
<1>4. names \subseteq g.names
  BY <1>3 DEF Subjects
<1>5. /\ g.pattern = "ordered-parameter-response" => g \in OrderedResponses(loaded, par, CurrentCases(loaded))
      /\ g.pattern = "coupled-association" => g \in CoupledAssociations(loaded, CurrentCases(loaded))
  BY SeedsAre DEF SeedsOf
<1> HIDE DEF par, names
<1>6. CASE o.pattern = "ordered-parameter-response" /\ o.polarity \in {"increase", "decrease"}
  <2>1. ASSUME NEW n \in names, NEW p \in o.varied, NEW c \in o.cases, NEW d \in o.cases,
               InBase(par.values[p][c][1], par.values[p][c][2]) < InBase(par.values[p][d][1], par.values[p][d][2])
        PROVE  /\ o.polarity = "increase" => Sample(loaded, n, c) <= Sample(loaded, n, d)
               /\ o.polarity # "increase" => Sample(loaded, n, c) >= Sample(loaded, n, d)
    <3>1. g \in OrderedResponses(loaded, par, CurrentCases(loaded)) /\ n \in g.names /\ p \in par.varied
          /\ c \in Now(loaded) /\ d \in Now(loaded)
      BY <1>3, <1>4, <1>5, <1>6
    <3>2. /\ g.polarity = "increase" => Sample(loaded, n, c) <= Sample(loaded, n, d)
          /\ g.polarity = "decrease" => Sample(loaded, n, c) >= Sample(loaded, n, d)
      BY <1>2, <2>1, <3>1, ResponseIs DEF par
    <3> QED
      BY <1>3, <1>6, <3>2
  <2> QED
    BY <1>6, <2>1 DEF par, names
<1>7. CASE o.pattern = "coupled-association" /\ o.polarity \in {"positive", "negative"}
  <2>1. ASSUME NEW m \in names, NEW n \in names, NEW c \in o.cases, NEW d \in o.cases, m # n
        PROVE  LET product == (Sample(loaded, m, c) - Sample(loaded, m, d))
                                * (Sample(loaded, n, c) - Sample(loaded, n, d))
               IN /\ o.polarity = "positive" => product >= 0
                  /\ o.polarity # "positive" => product <= 0
    <3>1. g \in CoupledAssociations(loaded, CurrentCases(loaded)) /\ m \in g.names /\ n \in g.names
          /\ c \in Now(loaded) /\ d \in Now(loaded)
      BY <1>3, <1>4, <1>5, <1>7
    <3>2. LET product == (Sample(loaded, m, c) - Sample(loaded, m, d))
                           * (Sample(loaded, n, c) - Sample(loaded, n, d))
          IN (g.polarity = "positive" => product >= 0) /\ (g.polarity = "negative" => product <= 0)
      BY <1>2, <2>1, <3>1, AssociationIs
    <3> QED
      BY <1>3, <1>7, <3>2
  <2> QED
    BY <1>7, <2>1 DEF par, names
<1> QED
  BY <1>6, <1>7

\* Whatever falls between the reads of a plan, a topic is called fit for a manuscript,
\* and a plan ends in one, only on the records that were read for it.
THEOREM TopicsRestOnTheirRecords == RecordsSpec => []TopicsAreEarned
<1>1. TopicsInv => TopicsAreEarned
  BY Defensible, ManuscriptEarned DEF TopicsAreEarned
<1> QED
  BY <1>1, TopicsOfRecords, PTL

\* What a topic says of its samples is so for every pair of them, and how far it may
\* claim is what its evidence and the claims of the author allow.
THEOREM TopicsSayWhatTheySaw == RecordsSpec => []TopicsStateTheirEvidence
<1>1. TopicsInv => TopicsStateTheirEvidence
  BY RelationsMatch, CeilingsSupported DEF TopicsStateTheirEvidence
<1> QED
  BY <1>1, TopicsOfRecords, PTL
=============================================================================
