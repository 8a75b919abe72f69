-------------------------------- MODULE KLists -------------------------------
(***************************************************************************)
(* The operations on pairs and lists, that may be cyclic, improper, share  *)
(* pairs and have immutable ones, and the predicates eq? and equal?.       *)
(*                                                                         *)
(* An action is one C function.  It runs with the interpreter lock and     *)
(* calls nothing of the program, so that no other step is between its      *)
(* first and its last; what can go wrong is in its walks, whose marks are  *)
(* in the objects themselves.                                              *)
(***************************************************************************)
EXTENDS KHeap

CONSTANTS Starts,    \* operations, with the heaps and the values to call them with
          Indexes,   \* the numbers that are passed
          MaxFixint  \* INT32_MAX: larger numbers are bigints

ASSUME IndexBounds == MaxFixint \in Nat /\ Indexes \subseteq Int

VARIABLES heap,   \* the objects
          todo,   \* the operation the program calls, on which values
          call,   \* what it has called, and the operands
          out,    \* what was returned
          before  \* the heap at the call
vars == <<heap, todo, call, out, before>>

\* The values the program calls it with.
Values == todo.on
Idle == [op |-> "none", on |-> {}]

\* One call of operation op with operands as, that leaves r.
Call(op, as, r) ==
    /\ todo.op = op
    /\ todo' = Idle /\ call' = <<op, as>>
    /\ heap' = r.heap /\ out' = r.out /\ before' = heap

IsBigint(k) == k > MaxFixint

------------------------------------------------------------------------------
(* Walks                                                                    *)

get_list_metrics_aux(h, v) ==
    LET w == Walk(h, v, <<>>)
        c == CycleOf(w)
    IN  [heap |-> unmark_list(w.heap, v), pairs |-> Len(w.seen),
         nils |-> IF w.tail = Nil THEN 1 ELSE 0,
         apairs |-> Len(w.seen) - c, cpairs |-> c]

get_list_metrics == \E v \in Values :
    LET m == get_list_metrics_aux(heap, v)
        l == NewList(m.heap, <<Fix(m.pairs), Fix(m.nils), Fix(m.apairs), Fix(m.cpairs)>>,
                     0, Nil)
    IN  Call("get-list-metrics", <<v>>, Value(l.heap, l.value))

length == \E v \in Values :
    LET w == Walk(heap, v, <<>>)
        h == unmark_list(w.heap, v)
    IN  Call("length", <<v>>,
             Value(h, IF IsPair(h, w.tail) THEN Infinity ELSE Fix(Len(w.seen))))

NoPair == <<"no pair">>

\* The object after k pairs.
RECURSIVE Follow(_, _, _)
Follow(h, v, k) == IF k = 0 THEN v
                   ELSE IF IsPair(h, v) THEN Follow(h, Cdr(h, v), k - 1) ELSE NoPair

\* An index that only a cyclic list has, without the turns; -1 without cycle.
ksmallest_index(h, v, k) ==
    LET m == get_list_metrics_aux(h, v)
    IN  IF m.cpairs = 0 THEN -1 ELSE ((k - m.apairs) % m.cpairs) + m.apairs

\* list-tail, list-ref and list-set!
Index(h, v, k) == IF IsBigint(k) THEN ksmallest_index(h, v, k) ELSE k
Reached(h, v, k) == LET i == Index(h, v, k)
                    IN  IF i < 0 THEN NoPair ELSE Follow(h, v, i)

list_tail == \E v \in Values, k \in Indexes :
    LET t == Reached(heap, v, k)
    IN  Call("list-tail", <<v, k>>,
             IF k < 0 \/ t = NoPair THEN Throw(heap, "list-tail") ELSE Value(heap, t))

list_ref == \E v \in Values, k \in Indexes :
    LET t == Reached(heap, v, k)
    IN  Call("list-ref", <<v, k>>,
             IF k < 0 \/ ~IsPair(heap, t) THEN Throw(heap, "list-ref")
             ELSE Value(heap, Car(heap, t)))

c_ad_r == \E v \in Values, path \in UNION {[1..n -> {"a", "d"}] : n \in 1..2} :
    LET step(x, b) == IF ~IsPair(heap, x) THEN NoPair
                      ELSE IF b = "a" THEN Car(heap, x) ELSE Cdr(heap, x)
        t == FoldLeft(step, v, path)
    IN  Call("c[ad]r", <<v, path>>,
             IF t = NoPair THEN Throw(heap, "non pair") ELSE Value(heap, t))

\* finite-list? and countable-list? of a list of operands.
ListPredicate(op, Good(_, _)) == \E v \in Values :
    LET c == check_list(heap, TRUE, v)
        ends == [i \in DOMAIN c.elems |-> Walk(c.heap, c.elems[i], <<>>).tail]
        clear(h, x) == unmark_list(Walk(h, x, <<>>).heap, x)
        bad == {i \in DOMAIN ends : ~Good(c.heap, ends[i])}
        upto == IF bad = {} THEN c.pairs ELSE CHOOSE i \in bad : \A j \in bad : i <= j
    IN  Call(op, <<v>>,
             IF c.why # "" THEN Throw(c.heap, c.why)
             ELSE Value(FoldLeft(clear, c.heap, SubSeq(c.elems, 1, upto)), Bool(bad = {})))

finite_listp == ListPredicate("finite-list?", LAMBDA h, t : t = Nil)
countable_listp == ListPredicate("countable-list?", LAMBDA h, t : t = Nil \/ IsPair(h, t))

\* assq and memq?: the structure first, then the elements in order.
assq == \E v, x \in Values :
    LET c == check_typed_list(heap, LAMBDA e : IsPair(heap, e), TRUE, v)
        found == {i \in DOMAIN c.elems : Car(heap, c.elems[i]) = x}
    IN  Call("assq", <<x, v>>,
             IF c.why # "" THEN Throw(c.heap, c.why)
             ELSE Value(c.heap, IF found = {} THEN Nil
                                ELSE c.elems[CHOOSE i \in found : \A j \in found : i <= j]))

memqp == \E v, x \in Values :
    LET c == check_list(heap, TRUE, v)
    IN  Call("memq?", <<x, v>>,
             IF c.why # "" THEN Throw(c.heap, c.why)
             ELSE Value(c.heap, Bool(x \in ToSet(c.elems))))

------------------------------------------------------------------------------
(* Copies                                                                   *)

make_list == \E k \in Indexes :
    Call("make-list", <<k>>,
         IF k < 0 \/ IsBigint(k) THEN Throw(heap, "length")
         ELSE LET l == NewList(heap, [i \in 1..k |-> Inert], 0, Nil)
              IN  Value(l.heap, l.value))

\* The copies are marked with their numbers, and unmarked with the list.
check_copy_list(h, v) ==
    LET c == check_list(h, TRUE, v)
        l == NewList(c.heap, c.elems, c.cpairs, Nil)
    IN  IF c.why = "" THEN Value(l.heap, l.value) ELSE Throw(c.heap, c.why)

list_copy == \E v \in Values :
    Call("list-copy", <<v>>, check_copy_list(heap, v))

reverse == \E v \in Values :
    LET w == Walk(heap, v, <<>>)
        h == unmark_list(w.heap, v)
        l == NewList(h, Reverse(Cars(h, w.seen)), 0, Nil)
    IN  Call("reverse", <<v>>,
             IF w.tail # Nil THEN Throw(h, "not an acyclic list") ELSE Value(l.heap, l.value))

listS == \E v \in Values :
    LET w == Walk(heap, v, <<>>)
        h == unmark_list(w.heap, v)
        n == Len(w.seen)
        cars == Cars(h, w.seen)
        l == NewList(h, SubSeq(cars, 1, n - 1), 0, cars[n])
    IN  Call("list*", <<v>>,
             IF w.tail # Nil \/ n = 0 THEN Throw(h, "bad argument list")
             ELSE Value(l.heap, l.value))

list_neighbors == \E v \in Values :
    LET c == check_list(heap, TRUE, v)
        next(i) == IF i < c.pairs THEN i + 1 ELSE c.pairs - c.cpairs + 1
        count == IF c.cpairs > 0 THEN c.pairs ELSE IF c.pairs = 0 THEN 0 ELSE c.pairs - 1
        two(acc, i) == LET l == NewList(acc.heap, <<c.elems[i], c.elems[next(i)]>>, 0, Nil)
                       IN  [heap |-> l.heap, twos |-> Append(acc.twos, l.value)]
        all == FoldLeft(two, [heap |-> c.heap, twos |-> <<>>], [i \in 1..count |-> i])
        l == NewList(all.heap, all.twos, c.cpairs, Nil)
    IN  Call("list-neighbors", <<v>>,
             IF c.why # "" THEN Throw(c.heap, c.why) ELSE Value(l.heap, l.value))

\* The copies of the lists are joined; the last one of a finite argument list
\* is neither checked nor copied.
append_check_copy_list(h, v) == check_list(h, FALSE, v)

append == \E v \in Values :
    LET c == check_list(heap, TRUE, v)
        copied == IF c.cpairs = 0 /\ c.pairs > 0 THEN c.pairs - 1 ELSE c.pairs
        parts == [i \in 1..copied |-> append_check_copy_list(c.heap, c.elems[i])]
        join(from, to) == FlattenSeq([i \in 1..(to - from + 1) |-> parts[from + i - 1].elems])
        cycle == join(c.pairs - c.cpairs + 1, c.pairs)
        l == NewList(c.heap,
                     join(1, copied), IF c.cpairs = 0 THEN 0 ELSE Len(cycle),
                     IF c.cpairs = 0 /\ c.pairs > 0 THEN c.elems[c.pairs] ELSE Nil)
    IN  Call("append", <<v>>,
             IF c.why # "" THEN Throw(c.heap, c.why)
             ELSE IF \E i \in DOMAIN parts : parts[i].why # ""
             THEN Throw(c.heap, "not a finite list") ELSE Value(l.heap, l.value))

\* The parents of a new environment.  It throws from the middle of the walk.
check_copy_env_list == \E v \in Values :
    LET w == Walk(heap, v, <<>>)
        bad == {i \in DOMAIN w.seen : Car(heap, w.seen[i]) # Env}
        first == CHOOSE i \in bad : \A j \in bad : i <= j
        marks(h, i) == SetMark(h, w.seen[i], True)
        h == unmark_list(w.heap, v)
        l == NewList(h, Cars(h, w.seen), 0, Nil)
    IN  Call("make-environment", <<v>>,
             IF bad # {}
             THEN Throw(FoldLeft(marks, heap, [i \in 1..(first - 1) |-> i]), "not an environment")
             ELSE IF w.tail # Nil /\ ~IsPair(h, w.tail) THEN Throw(h, "not a list")
             ELSE Value(l.heap, l.value))

\* Wrong variant: a pair is unmarked when its copy is ready, as in a parameter tree.
RECURSIVE CopyDiamonds(_, _, _)
CopyDiamonds(h, v, mutable) ==
    IF ~IsPair(h, v) \/ ~(mutable \/ ~IsImmutable(h, v)) THEN [heap |-> h, value |-> v]
    ELSE IF Marked(h, v) THEN [heap |-> h, value |-> Mark(h, v)]
    ELSE LET n == New(h, "pair", mutable, <<Inert, Inert>>)
             a == CopyDiamonds(SetMark(n.heap, v, n.value), Car(h, v), mutable)
             d == CopyDiamonds(SetCar(a.heap, n.value, a.value), Cdr(h, v), mutable)
         IN  [heap |-> SetMark(SetCdr(d.heap, n.value, d.value), v, False), value |-> n.value]

\* The copy of the mutable pairs (of all the pairs, to mutable ones): each is
\* marked with its copy before its car and its cdr are copied.
RECURSIVE CopyPairs(_, _, _)
CopyPairs(h, v, mutable) ==
    IF ~IsPair(h, v) \/ ~(mutable \/ ~IsImmutable(h, v)) THEN [heap |-> h, value |-> v]
    ELSE IF Marked(h, v) THEN [heap |-> h, value |-> Mark(h, v)]
    ELSE LET n == New(h, "pair", mutable, <<Inert, Inert>>)
             a == CopyPairs(SetMark(n.heap, v, n.value), Car(h, v), mutable)
             d == CopyPairs(SetCar(a.heap, n.value, a.value), Cdr(h, v), mutable)
         IN  [heap |-> SetCdr(d.heap, n.value, d.value), value |-> n.value]

copy_es_immutable_h(h, v, mutable) ==
    LET c == CopyPairs(h, v, mutable) IN Value(unmark_tree(c.heap, v), c.value)

copy_es == \E v \in Values, mutable \in BOOLEAN :
    Call("copy-es", <<v, mutable>>, copy_es_immutable_h(heap, v, mutable))

------------------------------------------------------------------------------
(* Mutation                                                                 *)

set_carB == \E v, x \in Values :
    Call("set-car!", <<v, x>>,
         IF ~IsPair(heap, v) \/ IsImmutable(heap, v) THEN Throw(heap, "pair")
         ELSE Value(SetCar(heap, v, x), Inert))

set_cdrB == \E v, x \in Values :
    Call("set-cdr!", <<v, x>>,
         IF ~IsPair(heap, v) \/ IsImmutable(heap, v) THEN Throw(heap, "pair")
         ELSE Value(SetCdr(heap, v, x), Inert))

\* Wrong variant: the mutability of the pair that is reached is not looked at.
list_setB_any == \E v, x \in Values, k \in Indexes :
    LET t == Reached(heap, v, k)
    IN  Call("list-set!", <<v, k, x>>,
             IF k < 0 \/ ~IsPair(heap, t) THEN Throw(heap, "list-set!")
             ELSE Value(SetCar(heap, t, x), Inert))

list_setB == \E v, x \in Values, k \in Indexes :
    LET t == Reached(heap, v, k)
    IN  Call("list-set!", <<v, k, x>>,
             IF k < 0 \/ ~IsPair(heap, t) THEN Throw(heap, "list-set!")
             ELSE IF IsImmutable(heap, t) THEN Throw(heap, "immutable pair")
             ELSE Value(SetCar(heap, t, x), Inert))

\* Goes k pairs further, and marks them.
RECURSIVE Advance(_, _, _)
Advance(h, v, k) ==
    IF k = 0 THEN [heap |-> h, tail |-> v, why |-> ""]
    ELSE IF ~IsPair(h, v) THEN [heap |-> h, tail |-> v, why |-> "non pair"]
    ELSE IF Marked(h, v) THEN [heap |-> h, tail |-> v, why |-> "too few pairs"]
    ELSE Advance(SetMark(h, v, True), Cdr(h, v), k - 1)

\* The pair k1 + k2 of v gets pair k1 + 1 as its cdr.
Encycled(h, v, k1, k2) ==
    LET a == Advance(h, v, k1)
        b == Advance(a.heap, a.tail, k2 - 1)
        throw(g, why) == Throw(unmark_list(g, v), why)
    IN  IF a.why # "" THEN throw(a.heap, a.why)
        ELSE IF k2 = 0 THEN Value(unmark_list(a.heap, v), Inert)
        ELSE IF b.why # "" THEN throw(b.heap, b.why)
        ELSE IF ~IsPair(h, b.tail) THEN throw(b.heap, "non pair")
        ELSE IF Marked(b.heap, b.tail) THEN throw(b.heap, "too few pairs")
        ELSE IF IsImmutable(h, b.tail) THEN throw(b.heap, "immutable pair")
        ELSE Value(unmark_list(SetCdr(b.heap, b.tail, a.tail), v), Inert)

encycleB == \E v \in Values, k1, k2 \in Indexes :
    Call("encycle!", <<v, k1, k2>>,
         IF k1 < 0 \/ k2 < 0 \/ IsBigint(k1) \/ IsBigint(k2) THEN Throw(heap, "index")
         ELSE Encycled(heap, v, k1, k2))

\* append! links the last pairs of its lists by their marks.
RECURSIVE appendB_clear_last_pairs(_, _)
appendB_clear_last_pairs(h, v) ==
    IF IsPair(h, v) /\ Marked(h, v)
    THEN appendB_clear_last_pairs(SetMark(h, v, False), Mark(h, v)) ELSE h

\* One more list of the arguments: s has the heap, the end points that were
\* found, the last of the marked last pairs, and an error.
Endpoint(s, v, isLast) ==
    LET w == Walk(s.heap, v, <<>>)
        lastp == Last(w.seen)
        h == unmark_list(w.heap, v)
        throw(why) == [s EXCEPT !.heap = unmark_list(appendB_clear_last_pairs(w.heap, s.lastPairs), v),
                                !.why = why]
        repeated == IsPair(h, w.tail) /\ Cdr(h, w.tail) = Nil
    IN  IF s.why # "" THEN s
        ELSE IF v = Nil THEN IF isLast THEN [s EXCEPT !.ends = Append(@, Nil)] ELSE s
        ELSE IF repeated THEN throw("repeated last pairs")
        ELSE IF isLast THEN [s EXCEPT !.heap = h, !.ends = Append(@, v)]
        ELSE IF IsPair(h, w.tail) THEN throw("cyclic list")
        ELSE IF w.tail # Nil THEN throw("improper list")
        ELSE IF IsImmutable(h, lastp)
        THEN [s EXCEPT !.heap = appendB_clear_last_pairs(h, s.lastPairs), !.why = "immutable pair"]
        ELSE [s EXCEPT !.heap = SetMark(h, lastp, s.lastPairs), !.lastPairs = lastp,
                       !.ends = @ \o <<v, lastp>>]

\* The first object, then the last pairs, each before the object that follows.
appendB_get_lss_endpoints(h, lss, pairs, cpairs) ==
    LET step(s, i) ==
            IF cpairs > 0 /\ i = pairs - cpairs + 1
            THEN Endpoint([s EXCEPT !.apairs = Len(s.ends)], lss[i], FALSE)
            ELSE Endpoint(s, lss[i], cpairs = 0 /\ i = pairs)
        s == FoldLeft(step, [heap |-> h, ends |-> <<>>, lastPairs |-> Nil, apairs |-> 0, why |-> ""],
                      [i \in 1..pairs |-> i])
        closed == IF cpairs = 0 THEN s.ends
                  ELSE IF Len(s.ends) = s.apairs THEN Append(s.ends, Nil)
                  ELSE Append(s.ends, s.ends[s.apairs + 1])
    IN  [heap |-> IF s.why = "" THEN appendB_clear_last_pairs(s.heap, s.lastPairs) ELSE s.heap,
         ends |-> IF s.why = "" THEN Tail(closed) ELSE <<>>, why |-> s.why]

appendB == \E v \in Values :
    LET c == check_list(heap, TRUE, v)
        first == check_list(heap, FALSE, c.elems[1])
        e == appendB_get_lss_endpoints(heap, c.elems, c.pairs, c.cpairs)
        link(h, i) == SetCdr(h, e.ends[2 * i - 1], e.ends[2 * i])
    IN  Call("append!", <<v>>,
             IF ~IsPair(heap, v) \/ Car(heap, v) = Nil THEN Throw(heap, "append!")
             ELSE IF first.why # "" THEN Throw(first.heap, first.why)
             ELSE IF c.why # "" THEN Throw(c.heap, c.why)
             ELSE IF e.why # "" THEN Throw(e.heap, e.why)
             ELSE Value(FoldLeft(link, e.heap, [i \in 1..(Len(e.ends) \div 2) |-> i]), Inert))

------------------------------------------------------------------------------
(* Parameter trees                                                          *)

\* The symbols of the tree are linked by their marks.
RECURSIVE ClearSymbols(_, _)
ClearSymbols(h, s) == IF s = Nil THEN h ELSE ClearSymbols(SetMark(h, s, False), Mark(h, s))

ptree_clear_all(h, symbols, stack) ==
    LET clear(g, v) == SetMark(g, v, False)
    IN  FoldLeft(clear, ClearSymbols(h, symbols), stack)

\* A tree with the pairs it is in on the stack: the copy and the symbols so far.
RECURSIVE Ptree(_, _, _, _)
Ptree(h, v, symbols, stack) ==
    LET throw(why) == [heap |-> ptree_clear_all(h, symbols, stack), value |-> v,
                       symbols |-> symbols, why |-> why]
        leaf == [heap |-> h, value |-> v, symbols |-> symbols, why |-> ""]
        n == New(h, "pair", FALSE, <<Nil, Nil>>)
        here == IF IsImmutable(h, v) THEN SetMark(h, v, v) ELSE SetMark(n.heap, v, n.value)
        a == Ptree(here, Car(h, v), symbols, Append(stack, v))
        d == Ptree(IF IsImmutable(h, v) THEN a.heap ELSE SetCar(a.heap, n.value, a.value),
                   Cdr(h, v), a.symbols, Append(stack, v))
        copy == Mark(d.heap, v)
        done == SetMark(d.heap, v, False)
    IN  IF v \in {Nil, Ignore} THEN leaf
        ELSE IF Has(h, v, "symbol")
        THEN IF Marked(h, v) THEN throw("repeated symbol")
             ELSE [leaf EXCEPT !.heap = SetMark(h, v, symbols), !.symbols = v]
        ELSE IF ~IsPair(h, v) THEN throw("bad object type")
        ELSE IF Marked(h, v) THEN throw("cycle")
        ELSE IF a.why # "" THEN a
        ELSE IF d.why # "" THEN d
        ELSE [heap |-> IF IsImmutable(h, v) THEN done ELSE SetCdr(done, n.value, d.value),
              value |-> copy, symbols |-> d.symbols, why |-> ""]

check_copy_ptree == \E v, penv \in Values :
    LET p == Ptree(heap, v, Nil, <<>>)
        h == ptree_clear_all(p.heap, p.symbols, <<>>)
    IN  Call("$vau", <<v, penv>>,
             IF p.why # "" THEN Throw(p.heap, p.why)
             ELSE IF Has(heap, penv, "symbol") /\ Marked(p.heap, penv)
             THEN Throw(h, "same symbol")
             ELSE IF ~Has(heap, penv, "symbol") /\ penv # Ignore
             THEN Throw(h, "bad environment parameter") ELSE Value(h, p.value))

------------------------------------------------------------------------------
(* Equality                                                                 *)

\* Immutable strings and bytevectors of one content are one object.
eq2p(v, w) == v = w

\* The names of the sets of objects that were compared are nodes, the marks of
\* the objects.  A node is a root, with the size of its set, or has a parent.
Root(n) == [root |-> TRUE, n |-> n]
Child(p) == [root |-> FALSE, n |-> p]

RECURSIVE RootOf(_, _)
RootOf(nodes, n) == IF nodes[n].root THEN n ELSE RootOf(nodes, nodes[n].n)

RECURSIVE Flatten(_, _, _)
Flatten(nodes, n, r) == IF n = r THEN nodes
                        ELSE Flatten([nodes EXCEPT ![n] = Child(r)], nodes[n].n, r)

equal_find(s, v) ==
    IF ~Marked(s.heap, v)
    THEN [heap |-> SetMark(s.heap, v, <<"node", Len(s.nodes) + 1>>),
          nodes |-> Append(s.nodes, Root(1)), found |-> Len(s.nodes) + 1]
    ELSE LET n == Mark(s.heap, v)[2]
             r == RootOf(s.nodes, n)
         IN  [heap |-> s.heap, nodes |-> Flatten(s.nodes, n, r), found |-> r]

equal_merge(nodes, r1, r2) ==
    LET size == nodes[r1].n + nodes[r2].n
    IN  IF nodes[r1].n < nodes[r2].n
        THEN [nodes EXCEPT ![r2] = Root(size), ![r1] = Child(r2)]
        ELSE [nodes EXCEPT ![r1] = Root(size), ![r2] = Child(r1)]

\* Wrong variant: an object that was compared is not compared with another one.
MergedSeen(s, v, w) ==
    LET f == equal_find(s, v)
        g == equal_find(f, w)
    IN  [heap |-> g.heap, merged |-> Marked(s.heap, v),
         nodes |-> IF f.found = g.found THEN g.nodes
                   ELSE equal_merge(g.nodes, f.found, g.found)]

equal_find2_mergep(s, v, w) ==
    LET f == equal_find(s, v)
        g == equal_find(f, w)
        same == f.found = g.found
    IN  [heap |-> g.heap, merged |-> same,
         nodes |-> IF same THEN g.nodes ELSE equal_merge(g.nodes, f.found, g.found)]

\* The objects that are still to be compared are in pairs on the stack.
RECURSIVE Compare(_, _)
Compare(s, stack) ==
    LET v == Head(stack)[1]
        w == Head(stack)[2]
        m == equal_find2_mergep(s, v, w)
        parts == [i \in 1..Size(s.heap, v) |->
                    <<At(s.heap, v).elems[i], At(s.heap, w).elems[i]>>]
    IN  IF stack = <<>> THEN [heap |-> s.heap, equal |-> TRUE]
        ELSE IF eq2p(v, w) THEN Compare(s, Tail(stack))
        ELSE IF ~(IsRef(v) /\ IsRef(w)) THEN [heap |-> s.heap, equal |-> FALSE]
        ELSE IF \/ At(s.heap, v).kind # At(s.heap, w).kind
                \/ Size(s.heap, v) # Size(s.heap, w)
        THEN [heap |-> s.heap, equal |-> FALSE]
        ELSE CASE At(s.heap, v).kind \in {"pair", "vector"} ->
                    Compare([heap |-> m.heap, nodes |-> m.nodes],
                            IF m.merged THEN Tail(stack) ELSE parts \o Tail(stack))
               [] At(s.heap, v).kind \in {"string", "bytevector"} ->
                    IF At(s.heap, v).elems = At(s.heap, w).elems THEN Compare(s, Tail(stack))
                    ELSE [heap |-> s.heap, equal |-> FALSE]
               [] OTHER -> [heap |-> s.heap, equal |-> FALSE]

equal2p(h, v, w) ==
    LET c == Compare([heap |-> h, nodes |-> <<>>], <<<<v, w>>>>)
    IN  [heap |-> unmark_tree(unmark_tree(c.heap, v), w), equal |-> c.equal]

\* A list of operands: each is compared with the next one.
equalp == \E v \in Values :
    LET c == check_list(heap, TRUE, v)
        step(s, i) == IF ~s.equal THEN s ELSE equal2p(s.heap, c.elems[i], c.elems[i + 1])
        r == FoldLeft(step, [heap |-> c.heap, equal |-> TRUE], [i \in 1..(c.pairs - 1) |-> i])
    IN  Call("equal?", <<v>>,
             IF c.why # "" THEN Throw(c.heap, c.why) ELSE Value(r.heap, Bool(r.equal)))

eqp == \E v \in Values :
    LET c == check_list(heap, TRUE, v)
    IN  Call("eq?", <<v>>,
             IF c.why # "" THEN Throw(c.heap, c.why)
             ELSE Value(c.heap, Bool(\A i \in 1..(c.pairs - 1) : eq2p(c.elems[i], c.elems[i + 1]))))

------------------------------------------------------------------------------
\* A list of operands is always there when the operations that take one begin.
Init ==
    /\ \E s \in Starts : heap \in s.heaps /\ todo \in [op : s.ops, on : {s.on}]
    /\ call = <<"none", <<>>>> /\ out = <<"none">> /\ before = <<>>

ListOperation ==
    \/ get_list_metrics \/ length \/ list_tail \/ list_ref \/ c_ad_r
    \/ finite_listp \/ countable_listp \/ assq \/ memqp
    \/ make_list \/ list_copy \/ reverse \/ listS \/ list_neighbors \/ append
    \/ check_copy_env_list \/ copy_es
    \/ set_carB \/ set_cdrB \/ list_setB \/ encycleB \/ appendB
    \/ check_copy_ptree \/ eqp \/ equalp

Next == ListOperation
Spec == Init /\ [][Next]_vars

------------------------------------------------------------------------------
(* What the report says of lists, by their pairs.                           *)

Least(S) == CHOOSE i \in S : \A j \in S : i <= j

\* The pairs of v in order, and what is after them: one of them in a cycle.
RECURSIVE Orbit(_, _, _)
Orbit(h, v, pairs) == IF IsPair(h, v) /\ v \notin ToSet(pairs)
                      THEN Orbit(h, Cdr(h, v), Append(pairs, v))
                      ELSE [pairs |-> pairs, end |-> v]

Pairs(h, v) == Orbit(h, v, <<>>).pairs
Items(h, v) == Cars(h, Pairs(h, v))
End(h, v) == Orbit(h, v, <<>>).end
Endless(h, v) == IsPair(h, End(h, v))
IsList(h, v) == Endless(h, v) \/ End(h, v) = Nil
IsFinite(h, v) == End(h, v) = Nil

\* The pairs in the cycle and before it.
CPairs(h, v) == LET o == Orbit(h, v, <<>>)
                IN  IF IsPair(h, o.end)
                    THEN Len(o.pairs) - Least({i \in DOMAIN o.pairs : o.pairs[i] = o.end}) + 1
                    ELSE 0
APairs(h, v) == Len(Pairs(h, v)) - CPairs(h, v)

Returned == out[2]
Failed == out[1] = "error"
Operand(i) == call[2][i]
IsNew(v) == IsRef(v) /\ v[2] > Len(before)
Called(ops) == call[1] \in ops

\* v is a fresh list of these elements.
FreshList(v, elems, cpairs) ==
    /\ Items(heap, v) = elems /\ CPairs(heap, v) = cpairs
    /\ IsList(heap, v)
    /\ \A p \in ToSet(Pairs(heap, v)) : IsNew(p) /\ At(heap, p).mutable

MetricsVerdict ==
    LET v == Operand(1)
        a == APairs(before, v)
        c == CPairs(before, v)
    IN  CASE call[1] = "length" -> Returned = IF c > 0 THEN Infinity ELSE Fix(a)
          [] call[1] = "get-list-metrics" ->
                Items(heap, Returned) =
                    <<Fix(a + c), Fix(IF End(before, v) = Nil THEN 1 ELSE 0), Fix(a), Fix(c)>>

TailVerdict ==
    LET k == Operand(2)
        t == IF k < 0 THEN NoPair ELSE Follow(before, Operand(1), k)
        noPair == t = NoPair \/ (call[1] # "list-tail" /\ ~IsPair(before, t))
    IN  IF noPair THEN Failed
        ELSE CASE call[1] = "list-tail" -> out = <<"value", t>>
               [] call[1] = "list-ref" -> out = <<"value", Car(before, t)>>
               [] call[1] = "list-set!" ->
                     IF IsImmutable(before, t) THEN Failed
                     ELSE ~Failed /\ heap = SetCar(before, t, Operand(3))

CopyVerdict ==
    LET v == Operand(1)
        items == Items(before, v)
        c == CPairs(before, v)
        n == Len(items)
    IN  CASE call[1] = "list-copy" ->
                IF IsList(before, v) THEN FreshList(Returned, items, c) ELSE Failed
          [] call[1] = "reverse" ->
                IF IsFinite(before, v) THEN FreshList(Returned, Reverse(items), 0) ELSE Failed
          [] call[1] = "list*" ->
                IF ~IsFinite(before, v) \/ n = 0 THEN Failed
                ELSE /\ Pairs(heap, Returned) # <<>> => IsNew(Returned) \/ n = 1
                     /\ \A i \in 1..(n - 1) : Car(heap, Follow(heap, Returned, i - 1)) = items[i]
                     /\ Follow(heap, Returned, n - 1) = items[n]
          [] call[1] = "list-neighbors" ->
                IF ~IsList(before, v) THEN Failed
                ELSE /\ FreshList(Returned, Items(heap, Returned), c)
                     /\ Len(Items(heap, Returned)) = (IF c = 0 /\ n > 0 THEN n - 1 ELSE n)
                     /\ \A i \in DOMAIN Items(heap, Returned) :
                           FreshList(Items(heap, Returned)[i],
                                     <<items[i], Car(before, Follow(before, v, i))>>, 0)

\* The elements of some lists in one sequence.
Joined(lists) == FlattenSeq([i \in DOMAIN lists |-> Items(before, lists[i])])

\* The arguments that are copied or changed: all but the last of a finite list.
Inner(items, endless) == 1..(IF endless THEN Len(items) ELSE Len(items) - 1)

AppendVerdict ==
    LET v == Operand(1)
        items == Items(before, v)
        n == Len(items)
        endless == Endless(before, v)
        prefix == Joined(SubSeq(items, 1, n - 1))
        k == Len(prefix)
    IN  IF ~IsList(before, v) \/ \E i \in Inner(items, endless) : ~IsFinite(before, items[i])
        THEN Failed
        ELSE IF endless
        THEN FreshList(Returned, Joined(items),
                       Len(Joined(SubSeq(items, APairs(before, v) + 1, n))))
        ELSE IF n = 0 THEN Returned = Nil
        ELSE /\ Follow(heap, Returned, k) = items[n]
             /\ \A i \in 1..k : /\ IsNew(Follow(heap, Returned, i - 1))
                                /\ Car(heap, Follow(heap, Returned, i - 1)) = prefix[i]

LastPair(v) == Last(Pairs(before, v))

AppendBVerdict ==
    LET v == Operand(1)
        items == Items(before, v)
        n == Len(items)
        endless == Endless(before, v)
        inner == {i \in Inner(items, endless) : items[i] # Nil}
        finite == {i \in DOMAIN items : items[i] # Nil /\ IsFinite(before, items[i])}
        wrong == \/ n = 0 \/ ~IsList(before, v) \/ items[1] = Nil
                 \/ ~(({1} \union inner) \subseteq finite)
                 \/ \E i \in inner : IsImmutable(before, LastPair(items[i]))
                 \/ \E i, j \in finite : i # j /\ LastPair(items[i]) = LastPair(items[j])
        first == items[1]
        prefix == Joined(SubSeq(items, 1, n - 1))
        k == Len(prefix)
    IN  IF wrong THEN Failed /\ heap = before
        ELSE /\ ~Failed
             /\ IF endless
                THEN /\ Items(heap, first) = Joined(items) /\ IsList(heap, first)
                     /\ CPairs(heap, first)
                        = Len(Joined(SubSeq(items, APairs(before, v) + 1, n)))
                ELSE /\ \A i \in 1..k : Car(heap, Follow(heap, first, i - 1)) = prefix[i]
                     /\ Follow(heap, first, k) = items[n]
             /\ \A p \in Refs(before) : p \in {LastPair(items[i]) : i \in inner}
                                        \/ At(heap, p) = At(before, p)

EncycleVerdict ==
    LET v == Operand(1)
        k1 == Operand(2)
        k2 == Operand(3)
        last == Pairs(before, v)[k1 + k2]
    IN  IF k1 < 0 \/ k2 < 0 \/ Len(Pairs(before, v)) < k1 + k2 \/ IsBigint(k1) \/ IsBigint(k2)
        THEN Failed /\ heap = before
        ELSE IF k2 = 0 THEN ~Failed /\ heap = before
        ELSE IF IsImmutable(before, last) THEN Failed /\ heap = before
        ELSE /\ ~Failed /\ APairs(heap, v) = k1 /\ CPairs(heap, v) = k2
             /\ heap = SetCdr(before, last, Cdr(heap, last))

SearchVerdict ==
    LET x == Operand(1)
        v == Operand(2)
        items == Items(before, v)
        at == {i \in DOMAIN items : IF call[1] = "memq?" THEN items[i] = x
                                    ELSE Car(before, items[i]) = x}
    IN  IF \/ ~IsList(before, v)
           \/ call[1] = "assq" /\ \E i \in DOMAIN items : ~IsPair(before, items[i])
        THEN Failed
        ELSE Returned = IF call[1] = "memq?" THEN Bool(at # {})
                        ELSE IF at = {} THEN Nil ELSE items[Least(at)]

PredicateVerdict ==
    LET v == Operand(1)
    IN  IF ~IsList(before, v) THEN Failed
        ELSE Returned = Bool(\A x \in ToSet(Items(before, v)) :
                IF call[1] = "finite-list?" THEN IsFinite(before, x) ELSE IsList(before, x))

------------------------------------------------------------------------------
(* Structures, by what their cars and cdrs lead to.                         *)

Parts(h, v) == IF IsRef(v) /\ At(h, v).kind \in {"pair", "vector"}
               THEN ToSet(At(h, v).elems) ELSE {}
RECURSIVE Reach(_, _)
Reach(h, S) == LET T == S \union UNION {Parts(h, v) : v \in S}
               IN  IF T = S THEN S ELSE Reach(h, T)
PairsIn(h, v) == {p \in Reach(h, {v}) : IsPair(h, p)}

\* The pairs of objects that no path of cars and cdrs tells apart.
Alike(h, R, v, w) ==
    \/ v = w
    \/ /\ IsRef(v) /\ IsRef(w)
       /\ At(h, v).kind = At(h, w).kind /\ Size(h, v) = Size(h, w)
       /\ IF At(h, v).kind \in {"pair", "vector"}
          THEN \A i \in 1..Size(h, v) : LET x == At(h, v).elems[i]
                                            y == At(h, w).elems[i]
                                        IN  x = y \/ <<x, y>> \in R
          ELSE At(h, v).kind # "symbol" /\ At(h, v).elems = At(h, w).elems
RECURSIVE Bisimilar(_, _)
Bisimilar(h, R) == LET T == {p \in R : Alike(h, R, p[1], p[2])}
                   IN  IF T = R THEN R ELSE Bisimilar(h, T)
SameStructure(h, v, w) ==
    v = w \/ <<v, w>> \in Bisimilar(h, (Refs(h) \X Refs(h)))

\* What corresponds to what in a structure and its copy.
RECURSIVE Matching(_)
Matching(R) ==
    LET inside == {p \in R : p[1] # p[2] /\ IsPair(heap, p[1]) /\ IsPair(heap, p[2])}
        T == R \union {<<Car(heap, p[1]), Car(heap, p[2])>> : p \in inside}
               \union {<<Cdr(heap, p[1]), Cdr(heap, p[2])>> : p \in inside}
    IN  IF T = R THEN R ELSE Matching(T)

CopyEsVerdict ==
    LET mutable == Operand(2)
        M == Matching({<<Operand(1), Returned>>})
        copied(v) == IsPair(before, v) /\ (mutable \/ ~IsImmutable(before, v))
    IN  /\ \A p \in M : IF copied(p[1])
                        THEN IsNew(p[2]) /\ IsPair(heap, p[2]) /\ At(heap, p[2]).mutable = mutable
                        ELSE p[2] = p[1]
        /\ \A p, q \in M : p[1] = q[1] <=> p[2] = q[2]

RECURSIVE Leaves(_)
Leaves(v) == IF IsPair(before, v) THEN Leaves(Car(before, v)) \o Leaves(Cdr(before, v)) ELSE <<v>>

IsParameterTree(v) ==
    /\ \A p \in PairsIn(before, v) : p \notin Reach(before, Parts(before, p))
    /\ \A x \in Reach(before, {v}) \ PairsIn(before, v) : x \in {Nil, Ignore} \/ Has(before, x, "symbol")
    /\ \A i, j \in DOMAIN Leaves(v) :
          i # j /\ Leaves(v)[i] = Leaves(v)[j] => Leaves(v)[i] \in {Nil, Ignore}

PtreeVerdict ==
    LET v == Operand(1)
        penv == Operand(2)
    IN  IF /\ IsParameterTree(v)
           /\ penv = Ignore \/ (Has(before, penv, "symbol") /\ penv \notin ToSet(Leaves(v)))
        THEN /\ ~Failed /\ SameStructure(heap, v, Returned)
             /\ \A p \in PairsIn(heap, Returned) : IsImmutable(heap, p)
        ELSE Failed

EnvironmentVerdict ==
    LET v == Operand(1)
    IN  IF IsList(before, v) /\ \A x \in ToSet(Items(before, v)) : x = Env
        THEN FreshList(Returned, Items(before, v), 0) ELSE Failed

------------------------------------------------------------------------------
(* Properties                                                               *)

Done == todo = Idle

(* The operations that walk through a list find what the report says of it,  *)
(* for all lists, cyclic and improper ones too.  Copies are of fresh pairs    *)
(* and have the structure of what they were made of: the same cycle, the same *)
(* shared pairs, the pairs that need no copy themselves; and what is not a    *)
(* list, or a parameter tree, is refused.  append! and encycle! leave the list *)
(* that the report describes and change only the last pairs, or nothing.      *)
ListsAsReported ==
    /\ Done /\ Called({"length", "get-list-metrics"}) => MetricsVerdict
    /\ Done /\ Called({"list-tail", "list-ref", "list-set!"}) => TailVerdict
    /\ Done /\ Called({"assq", "memq?"}) => SearchVerdict
    /\ Done /\ Called({"finite-list?", "countable-list?"}) => PredicateVerdict
    /\ Done /\ Called({"list-copy", "reverse", "list*", "list-neighbors"}) => CopyVerdict
    /\ Done /\ Called({"append"}) => AppendVerdict
    /\ Done /\ Called({"copy-es"}) => CopyEsVerdict
    /\ Done /\ Called({"$vau"}) => PtreeVerdict
    /\ Done /\ Called({"make-environment"}) => EnvironmentVerdict
    /\ Done /\ Called({"append!"}) => AppendBVerdict
    /\ Done /\ Called({"encycle!"}) => EncycleVerdict

(* equal? is true of two structures when no path tells them apart, and ends  *)
(* for all of them.                                                          *)
EqualIsStructural ==
    Done /\ Called({"equal?"}) =>
        LET v == Operand(1)
            items == Items(before, v)
        IN  IF ~IsList(before, v) THEN Failed
            ELSE Returned = Bool(\A i \in 1..(Len(items) - 1) :
                                    SameStructure(before, items[i], items[i + 1]))

(* Immutable objects never change, and immutable pairs lead to no mutable    *)
(* pair: the code of a combiner is as it was when the combiner was made.     *)
ImmutableForever ==
    /\ \A p \in Refs(before) : IsImmutable(before, p) =>
          [At(heap, p) EXCEPT !.mark = False] = [At(before, p) EXCEPT !.mark = False]
    /\ \A p \in Refs(heap) : IsPair(heap, p) /\ IsImmutable(heap, p) =>
          \A x \in Parts(heap, p) : IsPair(heap, x) => IsImmutable(heap, x)

\* The list of an environment's parents is left with marks when it is refused.
LeavesMarks == Called({"make-environment"}) /\ Failed

(* Whatever an operation returns or throws, it leaves no object marked: the  *)
(* next walk would take a marked pair for the beginning of a cycle.          *)
NoMarksLeft == Done /\ ~LeavesMarks => \A v \in Refs(heap) : ~Marked(heap, v)

(* The balance of the marks that an assertion of the code states, for all    *)
(* operations.                                                               *)
kcheck_mark_balance == Done => \A v \in Refs(heap) : ~Marked(heap, v)

==============================================================================
