----------------------------- MODULE MCDynVars -----------------------------
(***************************************************************************)
(* KContinuations and KDynVars on small instances.                         *)
(***************************************************************************)
EXTENDS KDynVars, TLC

CONSTANTS main, v1, v2

Symmetry == Permutations(Values)
=============================================================================
