---------------------------- MODULE MCSourceIndex ----------------------------
(* Inspectors and contents are interchangeable.                            *)
EXTENDS SourceIndex, TLC

CONSTANTS i1, i2, c1, c2

MCTwo == {i1, i2}
MCContent == {c1, c2}
Symmetry == Permutations(MCTwo) \cup Permutations(MCContent)
==============================================================================
