---------------------------- MODULE MCReadWrite ----------------------------
(***************************************************************************)
(* KReadWrite for TLC: every graph that p1 reaches.                        *)
(***************************************************************************)
EXTENDS KReadWrite, TLC
CONSTANT p1

Symmetry == Permutations(Pairs \ {p1})

\* Of the heaps that differ only in pairs that are not written, one.
MCInit ==
    /\ Init
    /\ \A p \in Pairs \ Entered(p1, Pairs) : car[p] = Nil /\ cdr[p] = Nil

MCSpec == MCInit /\ [][Next]_vars
=============================================================================
