---------------------------- MODULE MCEnvironments ----------------------------
(***************************************************************************)
(* KEnvironments on small instances.                                       *)
(***************************************************************************)
EXTENDS KEnvironments

CONSTANTS x, y, k
=============================================================================
