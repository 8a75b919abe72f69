-------------------------------- MODULE KHeap --------------------------------
(***************************************************************************)
(* The objects that have a content (pairs, vectors, strings, bytevectors)  *)
(* and symbols, with the mark each has for the walks of the C code.        *)
(*                                                                         *)
(* A heap is a sequence of objects; a value is a tuple that begins with    *)
(* its type, so that any two compare.  Operators that change the heap      *)
(* return the new one.                                                     *)
(***************************************************************************)
EXTENDS Integers, Sequences, FiniteSets, SequencesExt

Nil == <<"()">>
Inert == <<"#inert">>
Ignore == <<"#ignore">>
True == <<"#t">>
False == <<"#f">>
Bool(b) == IF b THEN True ELSE False
Fix(n) == <<"fixint", n>>
Infinity == <<"#e+infinity">>
Ch(c) == <<"char", c>>
Env == <<"environment">>
Ref(i) == <<"object", i>>

IsRef(v) == v[1] = "object"
At(h, v) == h[v[2]]
Has(h, v, kind) == IsRef(v) /\ At(h, v).kind = kind
Size(h, v) == Len(At(h, v).elems)
Refs(h) == {Ref(i) : i \in DOMAIN h}

Object(kind, mutable, elems) ==
    [kind |-> kind, mutable |-> mutable, elems |-> elems, mark |-> False]

SetElems(h, v, s) == [h EXCEPT ![v[2]].elems = s]
SetElem(h, v, i, x) == [h EXCEPT ![v[2]].elems[i] = x]

\* A new object, at the end.
New(h, kind, mutable, elems) ==
    [heap |-> Append(h, Object(kind, mutable, elems)), value |-> Ref(Len(h) + 1)]

------------------------------------------------------------------------------
(* Pairs                                                                    *)

IsPair(h, v) == Has(h, v, "pair")
Car(h, v) == At(h, v).elems[1]
Cdr(h, v) == At(h, v).elems[2]
SetCar(h, v, x) == SetElem(h, v, 1, x)
SetCdr(h, v, x) == SetElem(h, v, 2, x)
IsImmutable(h, v) == ~At(h, v).mutable

\* A fresh list of elems: the last cpairs pairs are a cycle, and without one
\* it ends with the value end.
NewList(h, elems, cpairs, end) ==
    LET n == Len(elems)
        pair(i) == Object("pair", TRUE,
                     <<elems[i], IF i < n THEN Ref(Len(h) + i + 1)
                                 ELSE IF cpairs = 0 THEN end
                                 ELSE Ref(Len(h) + n - cpairs + 1)>>)
    IN  [heap |-> h \o [i \in 1..n |-> pair(i)],
         value |-> IF n = 0 THEN end ELSE Ref(Len(h) + 1)]

------------------------------------------------------------------------------
(* Marks                                                                    *)

Mark(h, v) == At(h, v).mark
Marked(h, v) == Mark(h, v) # False
SetMark(h, v, m) == [h EXCEPT ![v[2]].mark = m]

\* The loop of the walks: goes from pair to pair and marks each with its
\* number, until a pair is marked or there is none.
RECURSIVE Walk(_, _, _)
Walk(h, v, seen) ==
    IF IsPair(h, v) /\ ~Marked(h, v)
    THEN Walk(SetMark(h, v, Fix(Len(seen))), Cdr(h, v), Append(seen, v))
    ELSE [heap |-> h, tail |-> v, seen |-> seen]

\* Wrong variant: stops when the next pair is not marked, with this one still marked.
RECURSIVE UnmarkButLast(_, _)
UnmarkButLast(h, v) ==
    IF IsPair(h, v) /\ Marked(h, v) /\ IsPair(h, Cdr(h, v)) /\ Marked(h, Cdr(h, v))
    THEN UnmarkButLast(SetMark(h, v, False), Cdr(h, v)) ELSE h

RECURSIVE Unmark(_, _)
Unmark(h, v) ==
    IF IsPair(h, v) /\ Marked(h, v)
    THEN Unmark(SetMark(h, v, False), Cdr(h, v)) ELSE h

unmark_list(h, v) == Unmark(h, v)

RECURSIVE UnmarkAll(_, _)
UnmarkAll(h, stack) ==
    IF stack = <<>> THEN h
    ELSE LET v == Head(stack) IN
         IF IsRef(v) /\ At(h, v).kind \in {"pair", "vector"} /\ Marked(h, v)
         THEN UnmarkAll(SetMark(h, v, False), At(h, v).elems \o Tail(stack))
         ELSE UnmarkAll(h, Tail(stack))

unmark_tree(h, v) == UnmarkAll(h, <<v>>)

Cars(h, seen) == [i \in DOMAIN seen |-> Car(h, seen[i])]

\* Where the cycle begins, when a walk has ended at a pair.
CycleOf(w) == IF IsPair(w.heap, w.tail) THEN Len(w.seen) - Mark(w.heap, w.tail)[2] ELSE 0

\* The walk of a list, and the error in its structure or in its elements.
check_typed_list(h, Typed(_), infinite, v) ==
    LET w == Walk(h, v, <<>>)
    IN  [heap |-> unmark_list(w.heap, v),
         pairs |-> Len(w.seen), cpairs |-> CycleOf(w), elems |-> Cars(h, w.seen),
         why |-> IF ~IsPair(h, w.tail) /\ w.tail # Nil THEN "not a list"
                 ELSE IF IsPair(h, w.tail) /\ ~infinite THEN "not finite"
                 ELSE IF \E i \in DOMAIN w.seen : ~Typed(Car(h, w.seen[i]))
                 THEN "bad operand type" ELSE ""]

check_list(h, infinite, v) == check_typed_list(h, LAMBDA x : TRUE, infinite, v)

------------------------------------------------------------------------------
(* What an operation of the program leaves: the heap, and a value or an     *)
(* error.                                                                   *)

Value(h, v) == [heap |-> h, out |-> <<"value", v>>]
Throw(h, why) == [heap |-> h, out |-> <<"error", why>>]

==============================================================================
