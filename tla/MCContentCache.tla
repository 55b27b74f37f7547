--------------------------- MODULE MCContentCache ---------------------------
(* Two threads of one process and one of another; contents of two blocks.  *)
EXTENDS ContentCache, TLC

CONSTANTS t1, t2, t3, h1, h2

MCThreads == {t1, t2, t3}
MCHostOf == [t \in MCThreads |-> IF t = t3 THEN h2 ELSE h1]
MCGiven == {<<0, 0>>, <<1, 1>>}

\* A bound of the run: any two of the threads, or all three as long as there
\* is one content and the author saves nothing.  It restrains only the start
\* of a call and the author, who owe no progress.
Started == {t \in Threads : call'[t].at # "idle"}
Plain == /\ edits' = 0 /\ damage' = 0 /\ source' = <<0, 0>>
         /\ \A t \in Started : /\ call'[t].digest = <<0, 0>>
                               /\ call'[t].expected \in {None, <<0, 0>>}
PairOrPlain == IF Started = Threads THEN Plain ELSE TRUE
=============================================================================
