-------------------------- MODULE MCPositionCache --------------------------
(* Small instances of PositionCache for TLC. *)
EXTENDS PositionCache

\* Threads behave alike, and so do agents and gaps.
Symmetry == Permutations(Threads) \cup Permutations(Sessions) \cup Permutations(Gaps)
=============================================================================
