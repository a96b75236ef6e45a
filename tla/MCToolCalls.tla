---------------------------- MODULE MCToolCalls ----------------------------
(* Small instances of ToolCalls for TLC. *)
EXTENDS LogQuery

\* Slots behave alike, and so do connections whose ids are minted.
Symmetry == Permutations(Slots) \cup Permutations(Connections \ Named)
=============================================================================
