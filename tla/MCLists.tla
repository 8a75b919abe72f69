------------------------------- MODULE MCLists -------------------------------
(* The heaps of the run: those that matter to each operation.               *)
EXTENDS KArrays

P(car, cdr, mutable) == Object("pair", mutable, <<car, cdr>>)

\* What immutable pairs lead to is immutable.
IsClosed(h) == \A p \in Refs(h) : IsPair(h, p) /\ IsImmutable(h, p) =>
                  \A x \in Parts(h, p) : IsPair(h, x) => IsImmutable(h, x)

\* Three pairs with given cars, in all the lists they can be in.
Lists(cars, mutable) ==
    {h \in {[i \in 1..3 |-> P(cars[i], cdrs[i], m[i])] :
              cdrs \in [1..3 -> {Ref(1), Ref(2), Ref(3), Nil, Fix(0)}],
              m \in [1..3 -> mutable]} : IsClosed(h)}
Plain == Lists(<<Fix(1), Fix(2), Fix(3)>>, {TRUE})
Mixed == {h \in Lists(<<Fix(1), Fix(2), Fix(3)>>, BOOLEAN) :
            Cdr(h, Ref(1)) # Ref(3) /\ \E p \in Refs(h) : IsImmutable(h, p)}
Table == Lists(<<Ref(2), Ref(3), Nil>>, {TRUE})

\* Argument lists whose elements are in two pairs.
Inside == {h \in {<<P(Fix(1), d1, m1), P(Fix(2), d2, TRUE)>> :
                     d1 \in {Nil, Fix(0), Ref(1), Ref(2)}, d2 \in {Nil, Ref(1), Ref(2)},
                     m1 \in BOOLEAN} : IsClosed(h)}
Arguments(heaps, elems, lengths) ==
    UNION {{NewList(h, e, c, Nil).heap : h \in heaps, e \in [1..n -> elems], c \in 0..n} : n \in lengths}
Operands(heaps, n) == {NewList(h, [i \in 1..n |-> Ref(i)], 0, Nil).heap : h \in heaps}

\* Three pairs in all structures with these leaves, after some other objects.
Trees(h, n, leaves, mutable) ==
    LET to == {Ref(Len(h) + i) : i \in 1..n} \union leaves
    IN  {g \in {h \o [i \in 1..n |-> P(f[i][1], f[i][2], m[i])] :
                  f \in [1..n -> to \X to], m \in [1..n -> mutable]} : IsClosed(g)}
AllPairs == Trees(<<>>, 3, {Nil}, {TRUE})

\* What is not reached from the first n objects is not looked at.
Whole(h, n) == Refs(h) \subseteq Reach(h, {Ref(i) : i \in 1..n})

Symbols == <<Object("symbol", FALSE, <<1>>), Object("symbol", FALSE, <<2>>)>>
Ptrees == {h \in Trees(Symbols, 2, {Ref(1), Ref(2), Nil, Ignore, Fix(0)}, BOOLEAN)
                 \union Trees(Symbols, 3, {Ref(1), Nil}, {TRUE}) : Whole(h, 3) /\ Car(h, Ref(3)) # Ref(5)}

\* Vectors and strings, compared with each other.
Arrays == {<<Object("vector", TRUE, <<x, y>>), Object("vector", FALSE, <<z, y>>),
             Object(k, TRUE, <<Fix(1), Fix(2)>>), Object(k, TRUE, <<Fix(1), c>>), P(y, x, TRUE)>> :
               x, y, z \in {Ref(1), Ref(2), Ref(3), Ref(4), Ref(5), Nil}, c \in {Fix(1), Fix(2)},
               k \in {"string", "bytevector"}}

\* Two arrays of one kind, the empty one, and a list.
Filled(kind, n, x) ==
    [i \in 1..n |-> CASE kind = "string" -> Ch(64 + i + x) [] OTHER -> Fix(i + x)]
TwoArrays(kind, sizes, shifts) ==
    {<<Object(kind, TRUE, Filled(kind, n[1], 0)), Object(kind, m, Filled(kind, n[2], x)),
       Object(kind, FALSE, <<>>), P(Fix(0), Nil, TRUE)>> : n \in sizes, m \in BOOLEAN, x \in shifts}
OneArray(kind, elems) ==
    {<<Object("vector", FALSE, <<>>), Object("string", FALSE, <<>>), Object("bytevector", FALSE, <<>>),
       Object(kind, TRUE, e)>> : e \in UNION {[1..n -> elems] : n \in 1..3}}
Elements == {Ch(32), Ch(65), Fix(65), Fix(200), Fix(256)}
Letters == {Ch(32), Ch(49), Ch(65), Ch(97), Ch(98)}
Word(a, b, c) == <<Object("string", FALSE, <<>>), Object("string", TRUE, <<a>>),
                   Object("string", TRUE, <<b, c>>)>>
Words == {Word(a, b, c) : a, b, c \in {Ch(65), Ch(97), Ch(98)}}
Odd == Word(Ch(97), Ch(65), Ch(98))
ListsOf(elems) == {NewList(<<>>, e, c, end).heap : e \in UNION {[1..n -> elems] : n \in 1..3},
                                                   c \in 0..1, end \in {Nil, Fix(0)}}

Starting(ops, heaps, on) == [ops |-> ops, heaps |-> heaps, on |-> on]
Three == {Ref(1), Ref(2), Ref(3), Nil, Fix(0)}
MCIndexes == -1..5

MCStarts == {
    Starting({"get-list-metrics", "length", "list-tail", "list-ref", "list-copy", "reverse",
              "list*", "list-neighbors", "set-car!", "set-cdr!"}, Plain, Three),
    Starting({"list-set!", "encycle!", "set-car!", "set-cdr!"}, Plain \union Mixed,
                    {Ref(1), Nil}),
    Starting({"c[ad]r", "assq", "memq?", "finite-list?", "countable-list?"}, Table, Three),
    Starting({"append", "append!"}, Arguments(Inside, {Ref(1), Ref(2), Nil}, 1..3), {Ref(3)}),
    Starting({"make-list"}, {<<>>}, {}),
    Starting({"make-environment"}, Arguments({<<>>}, {Env, Nil}, 1..3), {Ref(1), Nil, Env}),
    Starting({"$vau"}, Ptrees, {Ref(3), Ref(1), Ignore}),
    Starting({"copy-es"}, Trees(<<>>, 2, {Nil, Fix(0)}, BOOLEAN) \union {h \in AllPairs : Whole(h, 1)},
                    {Ref(1)}),
    Starting({"equal?", "eq?"},
                    Operands(AllPairs, 2)
                    \union Arguments({[i \in 1..3 |-> P(Nil, d[i], TRUE)] :
                                        d \in [1..3 -> {Ref(1), Ref(2), Ref(3), Nil}]},
                                     {Ref(1), Ref(2), Ref(3)}, {3}),
                    {Ref(4)}),
    Starting({"equal?"}, Operands(Arrays, 4), {Ref(6)}),
    Starting({"make-vector", "make-string", "make-bytevector"}, OneArray("vector", {Nil}),
             {Ch(65), Fix(200), Fix(256)}),
    Starting({"vector-length", "vector-ref", "vector-set!", "vector-fill!", "vector-copy!",
              "vector-copy-partial", "vector-copy", "vector->immutable-vector", "vector->list"},
             TwoArrays("vector", {<<1, 2>>, <<2, 1>>, <<3, 3>>}, {0, 3}), {Ref(1), Ref(2), Ref(3), Ref(4), Fix(7)}),
    Starting({"string-length", "string-ref", "string-set!", "string-fill!", "substring",
              "string-copy", "string->immutable-string", "string->list"},
             TwoArrays("string", {<<1, 2>>, <<2, 1>>, <<3, 3>>}, {0, 3}), {Ref(1), Ref(2), Ref(3), Ref(4), Ch(97), Fix(7)}),
    Starting({"bytevector-length", "bytevector-u8-ref", "bytevector-u8-set!", "bytevector-u8-fill!",
              "bytevector-copy!", "bytevector-copy-partial", "bytevector-copy",
              "bytevector->immutable-bytevector", "bytevector->list"},
             TwoArrays("bytevector", {<<1, 2>>, <<2, 1>>, <<3, 3>>}, {0, 3}),
             {Ref(1), Ref(2), Ref(3), Ref(4), Fix(7), Fix(256)}),
    Starting({"vector-copy-partial!"}, TwoArrays("vector", {<<3, 3>>, <<3, 2>>, <<2, 3>>}, {3}),
             {Ref(1), Ref(2)}),
    Starting({"bytevector-copy-partial!"}, TwoArrays("bytevector", {<<1, 2>>}, {3}),
             {Ref(1), Ref(2), Ref(3)}),
    Starting({"vector", "list->vector", "string", "list->string", "bytevector", "list->bytevector"},
             ListsOf({Ch(65), Fix(200), Fix(256), Nil}), {Ref(1), Nil}),
    Starting({"vector->string", "vector->bytevector"}, OneArray("vector", Elements), {Ref(1), Ref(4)}),
    Starting({"string->vector", "string->bytevector", "string-upcase", "string-downcase",
              "string-foldcase", "string-titlecase"}, OneArray("string", Letters), {Ref(2), Ref(4)}),
    Starting({"bytevector->vector", "bytevector->string"},
             OneArray("bytevector", {Fix(65), Fix(200)}), {Ref(3), Ref(4)}),
    Starting({"string-append", "string=?", "string<?", "string<=?", "string-ci=?", "string-ci<?",
              "string-ci<=?"},
             Arguments(Words, {Ref(1), Ref(2), Ref(3)}, 1..2)
             \union Arguments({Odd}, {Ref(1), Ref(2), Ref(3), Nil}, {3}), {Ref(4), Nil})}
==============================================================================
