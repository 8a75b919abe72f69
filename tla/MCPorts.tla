------------------------------- MODULE MCPorts -------------------------------
(***************************************************************************)
(* KPorts for TLC.                                                         *)
(***************************************************************************)
EXTENDS KPorts, TLC

Symmetry == Permutations(Ports \ Standard)

TwoData == <<Letter, Newline>>
=============================================================================
