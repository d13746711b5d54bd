--------------------------- MODULE MCToolExecutor ---------------------------
(* Small instances of ToolExecutor for TLC. *)
EXTENDS ToolExecutor, TLC

CONSTANTS c1, c2, c3, r1, r2, d1, d2

\* d1 has the small arguments, d2 the large ones.
MCArgBytes == (d1 :> 1) @@ (d2 :> 2)

\* Digests are told apart by their size; calls and ids are interchangeable.
MCSymmetry == Permutations(Calls) \cup Permutations(Requests)
=============================================================================
