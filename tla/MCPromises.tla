----------------------------- MODULE MCPromises -----------------------------
(***************************************************************************)
(* KPromises on small instances.                                           *)
(***************************************************************************)
EXTENDS KPromises, TLC

CONSTANTS main, t1, p, q, r, v, w

Symmetry == Permutations(Promises) \cup Permutations(Values) \cup Permutations(Threads)
=============================================================================
