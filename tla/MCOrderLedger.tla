--------------------------- MODULE MCOrderLedger ---------------------------
(* Small instances of OrderLedger for TLC. *)
EXTENDS OrderLedger, TLC

CONSTANTS a1, a2, t1, t2

\* The two tabs behave alike, and so do the two tool calls: a safety run may
\* identify states that differ by swapping them.
Symmetry == Permutations(Tabs) \cup Permutations(Tools)
=============================================================================
