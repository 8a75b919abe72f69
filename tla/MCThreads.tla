----------------------------- MODULE MCThreads -----------------------------
(***************************************************************************)
(* KThreads on small instances.                                            *)
(***************************************************************************)
EXTENDS KThreads, TLC

CONSTANTS main, t1, t2

Symmetry == Permutations({t1, t2})
=============================================================================
