------------------------------- MODULE KArrays -------------------------------
(***************************************************************************)
(* Vectors, strings and bytevectors: what makes them, copies them, changes *)
(* them and converts between them and lists, and the order of strings.     *)
(* Of each there is one that is empty, and it is immutable; the other      *)
(* immutable strings and bytevectors are interned by their contents.       *)
(*                                                                         *)
(* The code has most of these three times, once for each kind.             *)
(***************************************************************************)
EXTENDS KLists

IsArray(v, kind) == Has(heap, v, kind)
Elems(v) == At(heap, v).elems

\* The immutable object with these elements.
Interned(h, kind, elems) ==
    LET found == {v \in Refs(h) : Has(h, v, kind) /\ IsImmutable(h, v) /\ At(h, v).elems = elems}
    IN  IF found = {} THEN New(h, kind, FALSE, elems)
        ELSE [heap |-> h, value |-> CHOOSE v \in found : TRUE]

\* A mutable object, unless it is empty.
Fresh(h, kind, elems) ==
    IF elems = <<>> THEN Interned(h, kind, <<>>) ELSE New(h, kind, TRUE, elems)

Made(r) == Value(r.heap, r.value)

ttisu8(x) == x[1] = "fixint" /\ x[2] \in 0..255
ttischar(x) == x[1] = "char"
Typed(kind, x) == CASE kind = "vector" -> TRUE
                    [] kind = "string" -> ttischar(x)
                    [] kind = "bytevector" -> ttisu8(x)

------------------------------------------------------------------------------
(* Making and reading                                                       *)

Make(kind, op, default) == \E k \in Indexes, fill \in Values \union {default} :
    Call(op, <<k, fill>>,
         IF ~Typed(kind, fill) THEN Throw(heap, "bad type")
         ELSE IF k < 0 THEN Throw(heap, "negative size")
         ELSE IF IsBigint(k) THEN Throw(heap, "size is too big")
         ELSE Made(Fresh(heap, kind, [i \in 1..k |-> fill])))
make_vector == Make("vector", "make-vector", Inert)
make_string == Make("string", "make-string", Ch(32))
make_bytevector == Make("bytevector", "make-bytevector", Fix(0))

\* An operation on one array.
OnOne(kind, op, Result(_)) == \E v \in Values :
    Call(op, <<v>>, IF IsArray(v, kind) THEN Result(v) ELSE Throw(heap, "bad type"))

SizeOf(v) == Value(heap, Fix(Len(Elems(v))))
vector_length == OnOne("vector", "vector-length", SizeOf)
string_length == OnOne("string", "string-length", SizeOf)
bytevector_length == OnOne("bytevector", "bytevector-length", SizeOf)

OutOfBounds(v, k) == IsBigint(k) \/ k < 0 \/ k >= Len(Elems(v))

Reference(kind, op) == \E v \in Values, k \in Indexes :
    Call(op, <<v, k>>,
         IF ~IsArray(v, kind) THEN Throw(heap, "bad type")
         ELSE IF OutOfBounds(v, k) THEN Throw(heap, "index out of bounds")
         ELSE Value(heap, Elems(v)[k + 1]))
vector_ref == Reference("vector", "vector-ref")
string_ref == Reference("string", "string-ref")
bytevector_u8_ref == Reference("bytevector", "bytevector-u8-ref")

------------------------------------------------------------------------------
(* Changing                                                                 *)

Assign(kind, op) == todo.op = op /\ \E v, x \in Values, k \in Indexes :
    Call(op, <<v, k, x>>,
         IF ~IsArray(v, kind) \/ ~Typed(kind, x) THEN Throw(heap, "bad type")
         ELSE IF OutOfBounds(v, k) THEN Throw(heap, "index out of bounds")
         ELSE IF IsImmutable(heap, v) THEN Throw(heap, "immutable")
         ELSE Value(SetElem(heap, v, k + 1, x), Inert))
vector_setB == Assign("vector", "vector-set!")
string_setB == Assign("string", "string-set!")
bytevector_u8_setB == Assign("bytevector", "bytevector-u8-set!")

Fill(kind, op) == \E v, x \in Values :
    Call(op, <<v, x>>,
         IF ~IsArray(v, kind) \/ ~Typed(kind, x) THEN Throw(heap, "bad type")
         ELSE IF IsImmutable(heap, v) THEN Throw(heap, "immutable")
         ELSE Value(SetElems(heap, v, [i \in DOMAIN Elems(v) |-> x]), Inert))
vector_fillB == Fill("vector", "vector-fill!")
string_fillB == Fill("string", "string-fill!")
bytevector_u8_fillB == Fill("bytevector", "bytevector-u8-fill!")

\* Elements of v from position from on are written to w, in an order that the
\* library is free to choose, each read before all of them are written or not.
memcpy(h, w, at, v, from, how) ==
    LET move(g, i) == SetElem(g, w, at + i, At(IF how.early THEN h ELSE g, v).elems[from + i])
    IN  FoldLeft(move, h, how.order)
Ways(n) == [order : {[i \in 1..n |-> i], [i \in 1..n |-> n + 1 - i]}, early : BOOLEAN]

CopyTo(kind, op) == todo.op = op /\ \E v, w \in Values :
    \E how \in Ways(IF IsArray(v, kind) THEN Len(Elems(v)) ELSE 0) :
        Call(op, <<v, w>>,
             IF ~IsArray(v, kind) \/ ~IsArray(w, kind) THEN Throw(heap, "bad type")
             ELSE IF IsImmutable(heap, w) THEN Throw(heap, "immutable")
             ELSE IF Len(Elems(v)) > Len(Elems(w)) THEN Throw(heap, "too small")
             ELSE Value(IF v = w THEN heap ELSE memcpy(heap, w, 0, v, 0, how), Inert))
vector_copyB == CopyTo("vector", "vector-copy!")
bytevector_copyB == CopyTo("bytevector", "bytevector-copy!")

\* A part from one index to another.
BadPart(v, k1, k2) == \/ IsBigint(k1) \/ k1 < 0 \/ k1 > Len(Elems(v))
                      \/ IsBigint(k2) \/ k2 < 0 \/ k2 > Len(Elems(v)) \/ k1 > k2

\* Wrong variant: the end of what is written is not looked at.
NoRoomAtTheStart(w, k3, size) == IsBigint(k3) \/ k3 < 0 \/ k3 > Len(Elems(w)) \/ size > Len(Elems(w))

NoRoom(w, k3, size) == IsBigint(k3) \/ k3 < 0 \/ k3 > Len(Elems(w)) \/ k3 + size > Len(Elems(w))

CopyPartTo(kind, op) == todo.op = op /\ \E v, w \in Values, k1, k2, k3 \in Indexes :
    \E how \in Ways(IF IsArray(v, kind) /\ ~BadPart(v, k1, k2) THEN k2 - k1 ELSE 0) :
        Call(op, <<v, k1, k2, w, k3>>,
             IF ~IsArray(v, kind) \/ ~IsArray(w, kind) THEN Throw(heap, "bad type")
             ELSE IF BadPart(v, k1, k2) THEN Throw(heap, "index out of bounds")
             ELSE IF IsImmutable(heap, w) THEN Throw(heap, "immutable")
             ELSE IF NoRoom(w, k3, k2 - k1) THEN Throw(heap, "not enough space")
             ELSE Value(memcpy(heap, w, k3, v, k1, how), Inert))
vector_copy_partialB == CopyPartTo("vector", "vector-copy-partial!")
bytevector_copy_partialB == CopyPartTo("bytevector", "bytevector-copy-partial!")

------------------------------------------------------------------------------
(* Copying and converting                                                   *)

CopyPart(kind, op) == todo.op = op /\ \E v \in Values, k1, k2 \in Indexes :
    Call(op, <<v, k1, k2>>,
         IF ~IsArray(v, kind) THEN Throw(heap, "bad type")
         ELSE IF BadPart(v, k1, k2) THEN Throw(heap, "index out of bounds")
         ELSE Made(Fresh(heap, kind, SubSeq(Elems(v), k1 + 1, k2))))
vector_copy_partial == CopyPart("vector", "vector-copy-partial")
substring == CopyPart("string", "substring")
bytevector_copy_partial == CopyPart("bytevector", "bytevector-copy-partial")

vector_copy == OnOne("vector", "vector-copy", LAMBDA v : Made(Fresh(heap, "vector", Elems(v))))
string_copy == OnOne("string", "string-copy", LAMBDA v : Made(Fresh(heap, "string", Elems(v))))
bytevector_copy == OnOne("bytevector", "bytevector-copy",
                         LAMBDA v : Made(Fresh(heap, "bytevector", Elems(v))))

vector_to_immutable_vector == OnOne("vector", "vector->immutable-vector", LAMBDA v :
    IF IsImmutable(heap, v) THEN Value(heap, v) ELSE Made(New(heap, "vector", FALSE, Elems(v))))
string_to_immutable_string == OnOne("string", "string->immutable-string", LAMBDA v :
    IF IsImmutable(heap, v) THEN Value(heap, v) ELSE Made(Interned(heap, "string", Elems(v))))
bytevector_to_immutable_bytevector ==
    OnOne("bytevector", "bytevector->immutable-bytevector", LAMBDA v :
        IF IsImmutable(heap, v) THEN Value(heap, v) ELSE Made(Interned(heap, "bytevector", Elems(v))))

\* Of a list of operands, or of a list that is the operand.
FromList(kind, ops) == \E v \in Values, op \in ops :
    LET c == check_typed_list(heap, LAMBDA x : Typed(kind, x), FALSE, v)
    IN  Call(op, <<v>>,
             IF c.why # "" THEN Throw(c.heap, c.why) ELSE Made(Fresh(c.heap, kind, c.elems)))
list_to_vector_h == FromList("vector", {"vector", "list->vector"})
list_to_string_h == FromList("string", {"string", "list->string"})
list_to_bytevector_h == FromList("bytevector", {"bytevector", "list->bytevector"})

ToList(v) == Made(NewList(heap, Elems(v), 0, Nil))
vector_to_list == OnOne("vector", "vector->list", ToList)
string_to_list == OnOne("string", "string->list", ToList)
bytevector_to_list == OnOne("bytevector", "bytevector->list", ToList)

\* Each element is converted; one that cannot be is an error.
Converted(v, kind, Good(_), To(_)) ==
    IF \E i \in DOMAIN Elems(v) : ~Good(Elems(v)[i]) THEN Throw(heap, "bad element")
    ELSE Made(Fresh(heap, kind, [i \in DOMAIN Elems(v) |-> To(Elems(v)[i])]))
bytevector_to_vector == OnOne("bytevector", "bytevector->vector", LAMBDA v :
    Converted(v, "vector", LAMBDA x : TRUE, LAMBDA x : x))
vector_to_bytevector == OnOne("vector", "vector->bytevector", LAMBDA v :
    Converted(v, "bytevector", ttisu8, LAMBDA x : x))
string_to_vector == OnOne("string", "string->vector", LAMBDA v :
    Converted(v, "vector", LAMBDA x : TRUE, LAMBDA x : x))
vector_to_string == OnOne("vector", "vector->string", LAMBDA v :
    Converted(v, "string", ttischar, LAMBDA x : x))
string_to_bytevector == OnOne("string", "string->bytevector", LAMBDA v :
    Converted(v, "bytevector", LAMBDA x : TRUE, LAMBDA x : Fix(x[2])))
bytevector_to_string == OnOne("bytevector", "bytevector->string", LAMBDA v :
    Converted(v, "string", LAMBDA x : x[2] < 128, LAMBDA x : Ch(x[2])))

string_append == \E v \in Values :
    LET c == check_typed_list(heap, LAMBDA x : IsArray(x, "string"), FALSE, v)
        all == FlattenSeq([i \in DOMAIN c.elems |-> Elems(c.elems[i])])
    IN  Call("string-append", <<v>>,
             IF c.why # "" THEN Throw(c.heap, c.why)
             ELSE IF IsBigint(Len(all)) THEN Throw(c.heap, "too big")
             ELSE Made(Fresh(c.heap, "string", all)))

------------------------------------------------------------------------------
(* Letters                                                                  *)

isupper(c) == c \in 65..90
islower(c) == c \in 97..122
tolower(c) == IF isupper(c) THEN c + 32 ELSE c
toupper(c) == IF islower(c) THEN c - 32 ELSE c

ChangeCase(op, To(_)) == OnOne("string", op, LAMBDA v :
    Made(Fresh(heap, "string", [i \in DOMAIN Elems(v) |-> Ch(To(Elems(v)[i][2]))])))
kstring_change_case == \/ ChangeCase("string-upcase", toupper)
                       \/ ChangeCase("string-downcase", tolower)
                       \/ ChangeCase("string-foldcase", tolower)

\* The first letter after a space, or of the string, is raised.
kstring_title_case == OnOne("string", "string-titlecase", LAMBDA v :
    LET turn(s, x) ==
            LET c == x[2]
            IN  IF c = 32 THEN [s EXCEPT !.out = Append(@, x), !.first = TRUE]
                ELSE IF ~s.first THEN [s EXCEPT !.out = Append(@, Ch(tolower(c)))]
                ELSE IF isupper(c) \/ islower(c)
                THEN [out |-> Append(s.out, Ch(toupper(c))), first |-> FALSE]
                ELSE [s EXCEPT !.out = Append(@, x)]
    IN  Made(Fresh(heap, "string", FoldLeft(turn, [out |-> <<>>, first |-> TRUE], Elems(v)).out)))

\* The first difference decides, or the length.
LessBy(s, t, Key(_)) ==
    LET n == IF Len(s) < Len(t) THEN Len(s) ELSE Len(t)
        different == {i \in 1..n : Key(s[i][2]) # Key(t[i][2])}
        at == Least(different)
    IN  IF different = {} THEN Len(s) < Len(t) ELSE Key(s[at][2]) < Key(t[at][2])
Same(c) == c
kstring_eqp(s, t) == s = t
kstring_ltp(s, t) == LessBy(s, t, Same)
kstring_lep(s, t) == ~kstring_ltp(t, s)
kstring_ci_ltp(s, t) == LessBy(s, t, tolower)
kstring_ci_lep(s, t) == ~kstring_ci_ltp(t, s)
kstring_ci_eqp(s, t) == Len(s) = Len(t) /\ \A i \in DOMAIN s : tolower(s[i][2]) = tolower(t[i][2])

\* Each operand is compared with the next one, in a cycle the last with the first
\* of the cycle; all types are checked, whatever the comparisons say.
ftyped_bpredp(op, Less(_, _)) == \E v \in Values :
    LET c == check_list(heap, TRUE, v)
        next(i) == IF i < c.pairs THEN i + 1 ELSE c.pairs - c.cpairs + 1
        comps == IF c.cpairs > 0 THEN c.pairs ELSE c.pairs - 1
    IN  Call(op, <<v>>,
             IF c.why # "" THEN Throw(c.heap, c.why)
             ELSE IF \E i \in DOMAIN c.elems : ~IsArray(c.elems[i], "string")
             THEN Throw(c.heap, "bad argument type")
             ELSE Value(c.heap, Bool(\A i \in 1..comps :
                                        Less(Elems(c.elems[i]), Elems(c.elems[next(i)])))))
string_comparisons ==
    \/ ftyped_bpredp("string=?", kstring_eqp)
    \/ ftyped_bpredp("string<?", kstring_ltp)
    \/ ftyped_bpredp("string<=?", kstring_lep)
    \/ ftyped_bpredp("string-ci=?", kstring_ci_eqp)
    \/ ftyped_bpredp("string-ci<?", kstring_ci_ltp)
    \/ ftyped_bpredp("string-ci<=?", kstring_ci_lep)

------------------------------------------------------------------------------
ArrayOperation ==
    \/ make_vector \/ make_string \/ make_bytevector
    \/ vector_length \/ string_length \/ bytevector_length
    \/ vector_ref \/ string_ref \/ bytevector_u8_ref
    \/ vector_setB \/ string_setB \/ bytevector_u8_setB
    \/ vector_fillB \/ string_fillB \/ bytevector_u8_fillB
    \/ vector_copyB \/ bytevector_copyB \/ vector_copy_partialB \/ bytevector_copy_partialB
    \/ vector_copy_partial \/ substring \/ bytevector_copy_partial
    \/ vector_copy \/ string_copy \/ bytevector_copy
    \/ vector_to_immutable_vector \/ string_to_immutable_string
    \/ bytevector_to_immutable_bytevector
    \/ list_to_vector_h \/ list_to_string_h \/ list_to_bytevector_h
    \/ vector_to_list \/ string_to_list \/ bytevector_to_list
    \/ bytevector_to_vector \/ vector_to_bytevector \/ string_to_vector
    \/ vector_to_string \/ string_to_bytevector \/ bytevector_to_string
    \/ string_append \/ kstring_change_case \/ kstring_title_case \/ string_comparisons

------------------------------------------------------------------------------
(* What the manual says of them.                                            *)

Vectors == {"make-vector", "vector", "list->vector", "vector-copy", "vector-copy-partial",
            "vector->immutable-vector", "string->vector", "bytevector->vector"}
Strings == {"make-string", "string", "list->string", "string-copy", "substring", "string-append",
            "string->immutable-string", "vector->string", "bytevector->string",
            "string-upcase", "string-downcase", "string-foldcase", "string-titlecase"}
Bytevectors == {"make-bytevector", "bytevector", "list->bytevector", "bytevector-copy",
                "bytevector-copy-partial", "bytevector->immutable-bytevector",
                "vector->bytevector", "string->bytevector"}
Immutables == {"vector->immutable-vector", "string->immutable-string",
               "bytevector->immutable-bytevector"}
Ranged == {"vector-copy-partial", "substring", "bytevector-copy-partial"}
Assignments == {"vector-set!", "string-set!", "bytevector-u8-set!"}
Fills == {"vector-fill!", "string-fill!", "bytevector-u8-fill!"}
Copies == {"vector-copy!", "bytevector-copy!"}
RangedCopies == {"vector-copy-partial!", "bytevector-copy-partial!"}
Comparisons == {"string=?", "string<?", "string<=?", "string-ci=?", "string-ci<?", "string-ci<=?"}

ResultKind == CASE Called(Vectors) -> "vector" [] Called(Strings) -> "string" [] OTHER -> "bytevector"
Was(v) == At(before, v).elems
WasArray(v) == IsRef(v) /\ At(before, v).kind \in {"vector", "string", "bytevector"}
Within(k, n) == k \in 0..n /\ ~IsBigint(k)

\* An element as one of another kind of array.
Letter(f(_), x) == IF x[1] = "char" THEN Ch(f(x[2])) ELSE x
As(x) == CASE Called({"string->bytevector"}) -> Fix(x[2])
           [] Called({"bytevector->string"}) /\ x[2] < 128 -> Ch(x[2])
           [] Called({"string-upcase"}) -> Letter(toupper, x)
           [] Called({"string-downcase", "string-foldcase"}) -> Letter(tolower, x)
           [] OTHER -> x

\* A letter is raised when no letter is between it and the space before it.
InTitle(s, i) ==
    LET start == Max({0} \union {j \in 1..(i - 1) : s[j][2] = 32})
        letter(j) == isupper(s[j][2]) \/ islower(s[j][2])
    IN  IF \E j \in (start + 1)..(i - 1) : letter(j) THEN Letter(tolower, s[i])
        ELSE Letter(toupper, s[i])

\* What the new array is made of.
Contents ==
    LET v == Operand(1) IN
    CASE Called({"make-vector", "make-string", "make-bytevector"}) -> [i \in 1..v |-> Operand(2)]
      [] Called({"vector", "list->vector", "string", "list->string", "bytevector", "list->bytevector"}) ->
            Items(before, v)
      [] Called({"string-append"}) -> FlattenSeq([i \in DOMAIN Items(before, v) |-> Was(Items(before, v)[i])])
      [] Called(Ranged) -> [i \in 1..(Operand(3) - Operand(2)) |-> Was(v)[Operand(2) + i]]
      [] Called({"string-titlecase"}) -> [i \in DOMAIN Was(v) |-> InTitle(Was(v), i)]
      [] OTHER -> [i \in DOMAIN Was(v) |-> As(Was(v)[i])]

MakesSense ==
    LET v == Operand(1) IN
    CASE Called({"make-vector", "make-string", "make-bytevector"}) ->
            v >= 0 /\ ~IsBigint(v) /\ Typed(ResultKind, Operand(2))
      [] Called({"vector", "list->vector", "string", "list->string", "bytevector", "list->bytevector"}) ->
            IsFinite(before, v)
      [] Called({"string-append"}) ->
            IsFinite(before, v) /\ \A x \in ToSet(Items(before, v)) : Has(before, x, "string")
      [] Called(Ranged) -> WasArray(v) /\ Within(Operand(3), Len(Was(v))) /\ Within(Operand(2), Operand(3))
      [] OTHER -> WasArray(v)

\* The result is new, or it is the immutable object with that content.
NewArrayVerdict ==
    IF \/ ~MakesSense \/ IsBigint(Len(Contents))
       \/ ~\A i \in DOMAIN Contents : Typed(ResultKind, Contents[i])
    THEN Failed /\ heap = before
    ELSE LET made == At(heap, Returned)
         IN  /\ ~Failed /\ made.kind = ResultKind /\ made.elems = Contents
             /\ made.mutable = (Contents # <<>> /\ ~Called(Immutables))
             /\ made.mutable => IsNew(Returned)
             /\ \A v \in Refs(before) : At(heap, v) = At(before, v)

Destination == IF Called(Copies) THEN Operand(2) ELSE IF Called(RangedCopies) THEN Operand(4) ELSE Operand(1)

\* Which elements of the destination are written, and what is written.
Written ==
    CASE Called(Assignments) -> (Operand(2) + 1) :> Operand(3)
      [] Called(Fills) -> [i \in DOMAIN Was(Operand(1)) |-> Operand(2)]
      [] Called(Copies) -> Was(Operand(1))
      [] Called(RangedCopies) ->
            [i \in (Operand(5) + 1)..(Operand(5) + Operand(3) - Operand(2)) |->
                Was(Operand(1))[Operand(2) + i - Operand(5)]]

MaySource ==
    CASE Called(Assignments) -> Operand(2) >= 0 /\ ~IsBigint(Operand(2))
      [] Called(RangedCopies) ->
            /\ Within(Operand(3), Len(Was(Operand(1)))) /\ Within(Operand(2), Operand(3))
            /\ Within(Operand(5), Len(Was(Destination)))
      [] OTHER -> TRUE

\* The parts of one array that copy-partial! writes and reads overlap: memcpy may
\* then read what it has written.
Overlapping == /\ Called(RangedCopies) /\ Operand(1) = Operand(4) /\ WasArray(Operand(4))
               /\ MaySource /\ Operand(5) # Operand(2)
               /\ Operand(5) < Operand(3) /\ Operand(2) < Operand(5) + Operand(3) - Operand(2)

ChangeVerdict ==
    LET w == Destination
        written == Written
    IN  IF \/ ~WasArray(w) \/ ~WasArray(Operand(1)) \/ IsImmutable(before, w)
           \/ At(before, w).kind # At(before, Operand(1)).kind \/ ~MaySource
           \/ ~(DOMAIN written \subseteq DOMAIN Was(w))
           \/ \E i \in DOMAIN written : ~Typed(At(before, w).kind, written[i])
        THEN Failed /\ heap = before
        ELSE ~Failed /\ heap = SetElems(before, w, [i \in DOMAIN Was(w) |->
                                   IF i \in DOMAIN written THEN written[i] ELSE Was(w)[i]])

\* s is a part of t at its beginning, or smaller where they first differ.
Precedes(s, t) ==
    \/ Len(s) < Len(t) /\ s = SubSeq(t, 1, Len(s))
    \/ \E i \in DOMAIN s \intersect DOMAIN t :
          s[i][2] < t[i][2] /\ SubSeq(s, 1, i - 1) = SubSeq(t, 1, i - 1)

CompareVerdict ==
    LET items == Items(before, Operand(1))
        ignore == Called({"string-ci=?", "string-ci<?", "string-ci<=?"})
        key(x) == [i \in DOMAIN Was(x) |-> IF ignore THEN Letter(tolower, Was(x)[i]) ELSE Was(x)[i]]
        holds(s, t) == \/ Called({"string=?", "string<=?", "string-ci=?", "string-ci<=?"}) /\ s = t
                       \/ Called({"string<?", "string<=?", "string-ci<?", "string-ci<=?"}) /\ Precedes(s, t)
        next(i) == Car(before, Follow(before, Operand(1), i))
        last == IF Endless(before, Operand(1)) THEN Len(items) ELSE Len(items) - 1
    IN  IF ~IsList(before, Operand(1)) \/ \E x \in ToSet(items) : ~Has(before, x, "string")
        THEN Failed
        ELSE Returned = Bool(\A i \in 1..last : holds(key(items[i]), key(next(i))))

ReadVerdict ==
    LET v == Operand(1)
    IN  CASE Called({"vector-length", "string-length", "bytevector-length"}) ->
                IF WasArray(v) THEN Returned = Fix(Len(Was(v))) ELSE Failed
          [] Called({"vector-ref", "string-ref", "bytevector-u8-ref"}) ->
                IF WasArray(v) /\ Within(Operand(2), Len(Was(v)) - 1)
                THEN Returned = Was(v)[Operand(2) + 1] ELSE Failed
          [] Called({"vector->list", "string->list", "bytevector->list"}) ->
                IF WasArray(v) THEN FreshList(Returned, Was(v), 0) ELSE Failed

(* New arrays have the elements that the manual says and share nothing with  *)
(* what they were made of; an operation that changes an array writes where   *)
(* the manual says and nowhere else, or fails and writes nothing; there is   *)
(* one empty array of each kind and one immutable string or bytevector of    *)
(* each content.                                                             *)
ArraysAsReported ==
    /\ Done /\ Called(Vectors \union Strings \union Bytevectors) => NewArrayVerdict
    /\ Done /\ Called(Assignments \union Fills \union Copies \union RangedCopies) /\ ~Overlapping =>
          ChangeVerdict
    /\ Done /\ Called(Comparisons) => CompareVerdict
    /\ Done /\ Called({"vector-length", "string-length", "bytevector-length", "vector-ref",
                       "string-ref", "bytevector-u8-ref",
                       "vector->list", "string->list", "bytevector->list"}) => ReadVerdict
    /\ \A v, w \in Refs(heap) :
          At(heap, v).kind \in {"string", "bytevector"} /\ IsImmutable(heap, v)
          /\ At(heap, w) = At(heap, v) => v = w

(* What the manual says of copy-partial!, of parts that overlap too.         *)
CopiesThePart == Done /\ Called(RangedCopies) => ChangeVerdict

ArrayNext == ListOperation \/ ArrayOperation
ArraySpec == Init /\ [][ArrayNext]_vars

==============================================================================
