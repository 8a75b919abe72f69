-------------------------------- MODULE MCGC --------------------------------
(***************************************************************************)
(* KGC on small instances.                                                 *)
(***************************************************************************)
EXTENDS KGC

CONSTANTS b1, b2, b3, b4, b5, b6, b7

\* Contents are numbers; in a table of two buckets or more a string and its
\* symbol fall in different ones.
MCHash(kind, content) == IF kind = "string" THEN content ELSE content + 1

Symmetry == Permutations(Addr)
=============================================================================
