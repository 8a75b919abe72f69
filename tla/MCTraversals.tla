----------------------------- MODULE MCTraversals -----------------------------
(* The jobs of the run: each operation with the shapes of lists that matter. *)
EXTENDS KTraversals

L(a, c) == [apairs |-> a, cpairs |-> c]
Shapes == {L(0, 0), L(1, 0), L(2, 0), L(0, 1), L(1, 1), L(0, 2), L(1, 2)}
Job(op, lists, outer) ==
    [op |-> op, lists |-> lists, outer |-> outer, appCpairs |-> 0, extended |-> TRUE]

Single(ops, outers) == {Job(op, <<l>>, o) : op \in ops, l \in Shapes, o \in outers}
MCJobs ==
    {Job("eval", <<l>>, "none") : l \in {L(0, 0), L(1, 0), L(2, 0), L(0, 1), L(1, 1)}}
    \union Single({"map", "for-each", "filter", "assoc", "member?", "reduce"}, {"none"})
    \union Single({"$and?", "$or?"}, {"none", "if"})
    \union Single({"$sequence", "$when", "$unless"}, {"none", "if", "when"})
    \union {Job(op, <<L(n, 0)>>, "none") :
              op \in {"vector-map", "string-map", "vector-for-each"}, n \in 0..2}
    \union {Job("$cond", <<L(a, c), b1, b2>>, o) :
              a \in {2}, c \in {0}, b1, b2 \in {L(0, 0), L(1, 0), L(2, 0)},
              o \in {"none", "if"}}
    \union {Job("$cond", <<L(1, 1), L(1, 0), L(0, 1)>>, "none"), Job("$cond", <<L(0, 0)>>, "if")}
    \union {[Job(op, <<l, m>>, "none") EXCEPT !.appCpairs = c] :
              op \in {"map", "for-each"}, c \in {0, 1},
              l, m \in {L(1, 0), L(2, 0), L(1, 1), L(0, 2), L(0, 1)}}
    \union {Job("for-each", <<L(0, 2), L(0, 3)>>, "none"), Job("map", <<L(2, 3), L(1, 2)>>, "none"),
            Job("vector-map", <<L(1, 0), L(2, 0)>>, "none"),
            Job("vector-map", <<L(2, 0), L(2, 0)>>, "none")}
    \union {[Job("reduce", <<l>>, "none") EXCEPT !.extended = FALSE] : l \in {L(1, 1), L(2, 0)}}

MapJobs == {Job("map", <<L(2, 0)>>, "none")}
==============================================================================
