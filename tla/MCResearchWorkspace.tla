------------------------- MODULE MCResearchWorkspace -------------------------
(* Two diagnostic calculations; the policies of the host are given by cfg. *)
EXTENDS ResearchWorkspace
=============================================================================
