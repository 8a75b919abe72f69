----------------------------- MODULE KTraversals -----------------------------
(***************************************************************************)
(* The operations that go through a list and call the program for each     *)
(* element: evaluation of operands, map, for-each, filter, assoc, member?,  *)
(* reduce, $and?, $or?, $cond, $when, $unless, $sequence and the bodies of  *)
(* operatives.  Each is a chain of continuations, that the program may      *)
(* capture during a call and enter again, any number of times and in any    *)
(* order; it may also change the lists while they are traversed.            *)
(*                                                                          *)
(* A step is one C function run by the loop of klispT_run.  A frame is a    *)
(* continuation without its parent: the function and its xparams.  The      *)
(* copy a frame goes through is a value of the frame, for nothing changes   *)
(* it; the lists that the operations change (the results of map, the copy   *)
(* of reduce) are in the heap.                                              *)
(***************************************************************************)
EXTENDS Integers, Sequences, FiniteSets, SequencesExt

CONSTANTS Jobs,         \* the operations, with the shapes of their arguments
          MaxPairs,     \* INT32_MAX: longer lists are refused
          MaxPath,      \* bound: calls that return, where they may go on forever
          MaxCaptured,  \* bound: continuations captured
          MaxEntries,   \* bound: entries of captured continuations
          MaxSets       \* bound: changes of the lists by the program

ASSUME TraversalBounds ==
    /\ {MaxPairs, MaxPath, MaxCaptured, MaxEntries, MaxSets} \subseteq Nat

VARIABLES job,       \* the operation and its arguments
          next,      \* the registers: a function to call or a value to pass
          cc,        \* the current continuation
          orig,      \* the lists of the program: how often each car was set
          heap,      \* the pairs the operation changes
          captured,  \* the continuations the program has captured
          entered,   \* how many it has entered
          sets,      \* how many cars it has set
          aside      \* whether it has entered one it had left aside
vars == <<job, next, cc, orig, heap, captured, entered, sets, aside>>

------------------------------------------------------------------------------
(* Objects are tuples that begin with a tag, so that any two compare.       *)
(* A list is [elems, cpairs]: its cars, and how many pairs are in the cycle. *)

True == <<"#t">>
False == <<"#f">>
Inert == <<"#inert">>
Nil == [elems |-> <<>>, cpairs |-> 0]
AList(s) == [elems |-> s, cpairs |-> 0]
IsBoolean(v) == v \in {True, False}
Negated(b) == IF b = True THEN False ELSE True

Pairs(L) == Len(L.elems)
APairs(L) == Pairs(L) - L.cpairs

\* A list as a value that is passed.
AsValue(L) == <<"list", L.elems, L.cpairs>>
AsList(v) == [elems |-> v[2], cpairs |-> v[3]]

\* Wrong variant: a cycle is closed with the first pair of the list.
KcdrToTheHead(L, p) == IF p < Pairs(L) THEN p + 1
                       ELSE IF L.cpairs = 0 THEN 0 ELSE 1

\* The pair after pair p; 0 is the end of the list.
Kcdr(L, p) == IF p < Pairs(L) THEN p + 1
              ELSE IF L.cpairs = 0 THEN 0 ELSE APairs(L) + 1
Kcar(L, p) == L.elems[p]

\* The cars of list j of the job, as they are now.
Item(o, j, p) == <<"item", j, p, o[j][p]>>
ListNow(o, j) == [elems |-> [p \in 1..Len(o[j]) |-> Item(o, j, p)],
                  cpairs |-> job.lists[j].cpairs]

\* Copies are taken of the lists as they are.
Copied(j) == ListNow(orig, j)

\* Wrong variant: the list that was accumulated is not reversed.
CopyAndEncycle(acc, pairs, cpairs) ==
    [elems |-> SubSeq(acc, 1, pairs), cpairs |-> cpairs]

ReverseCopyAndEncycle(acc, pairs, cpairs) ==
    [elems |-> Reverse(SubSeq(acc, 1, pairs)), cpairs |-> cpairs]

------------------------------------------------------------------------------
(* The arguments of map and for-each: lists of the same structure.          *)

RECURSIVE Gcd(_, _)
Gcd(a, b) == IF b = 0 THEN a ELSE Gcd(b, a % b)
Lcm(a, b) == (a \div Gcd(a, b)) * b
Bigger(a, b) == IF a > b THEN a ELSE b

Fail(why) == [failed |-> TRUE, why |-> why]
Metrics(a, c) == [failed |-> FALSE, apairs |-> a, cpairs |-> c]

\* One more list: all acyclic and of one length, or all cyclic.
WithList(m, l) ==
    LET c == Lcm(m.cpairs, l.cpairs)
        a == Bigger(m.apairs, l.apairs)
    IN  IF m.failed THEN m
        ELSE IF (m.cpairs = 0) # (l.cpairs = 0)
        THEN Fail("mixed finite and infinite lists")
        ELSE IF m.cpairs = 0
        THEN IF l.apairs = m.apairs THEN m ELSE Fail("lists of different length")
        ELSE IF c > MaxPairs \/ a + c > MaxPairs
        THEN Fail("result list is too big") ELSE Metrics(a, c)

map_for_each_get_metrics ==
    FoldLeft(WithList, Metrics(job.lists[1].apairs, job.lists[1].cpairs),
             Tail(job.lists))

\* One step of the transposition: the list of the cars, and the cdrs.
CarsCdrs(tails) ==
    [cars |-> [elems |-> [j \in DOMAIN tails |-> Item(orig, j, tails[j])],
               cpairs |-> job.appCpairs],
     cdrs |-> [j \in DOMAIN tails |-> Kcdr(ListNow(orig, j), tails[j])]]

\* The ptrees of the calls, each with the structure of the argument list.
map_for_each_transpose(m) ==
    LET step(t, i) == LET s == CarsCdrs(t.tails)
                      IN  [tails |-> s.cdrs, out |-> Append(t.out, s.cars)]
        all == FoldLeft(step, [tails |-> [j \in DOMAIN job.lists |-> 1],
                               out |-> <<>>],
                        [i \in 1..(m.apairs + m.cpairs) |-> i])
    IN  [elems |-> all.out, cpairs |-> m.cpairs]

------------------------------------------------------------------------------
(* The registers, and the continuation with what has been returned to it.   *)

Call(comb, args, env) ==
    [do |-> "call", comb |-> comb, args |-> args, env |-> env]
Evaluate(expr) == Call("eval", AList(<<expr>>), "denv")
Return(v) == [do |-> "return", value |-> v]
Ended(what, v) == [do |-> "ended", what |-> what, value |-> v]

\* The operation is the body of a form whose continuation is marked.
Outer == IF job.outer = "if" THEN <<[fn |-> "do_select_clause"]>>
         ELSE IF job.outer = "when" THEN <<[fn |-> "do_return_value"]>>
         ELSE <<>>

\* Wrong variant: $if does not mark its continuation.
BoolCheckButIf(k) == k # <<>> /\ k[1].fn \in {"do_Sandp_Sorp", "do_cond"} /\ k[1].marked

BoolCheck(k) ==
    /\ k # <<>>
    /\ \/ k[1].fn \in {"do_select_clause", "do_assoc", "do_memberp",
                       "do_Swhen_Sunless"}
       \/ k[1].fn \in {"do_Sandp_Sorp", "do_cond"} /\ k[1].marked
InertRet(k) == k # <<>> /\ k[1].fn = "do_return_value"

\* What a C function leaves: the continuation and the registers.
Leave(frames, register) ==
    /\ cc' = [cc EXCEPT !.frames = frames]
    /\ next' = register

Throw(why) == Leave(<<>>, Ended("error", <<why>>))

\* The operation takes the lists as they are now.
Begin(frames, register) ==
    /\ cc' = [cc EXCEPT !.frames = frames, !.taken = orig]
    /\ next' = register

Starting(ops) == next.do = "start" /\ job.op \in ops
Quiet == UNCHANGED <<job, orig, captured, entered, sets, aside>>

\* The value arrives at the topmost frame.
Arrives(fn) == next.do = "return" /\ cc.frames # <<>> /\ Head(cc.frames).fn = fn
Top == Head(cc.frames)
Below == Tail(cc.frames)

------------------------------------------------------------------------------
(* Evaluation of a combination: the operator, then the operands from left   *)
(* to right, once for each time the combiner is wrapped.                    *)

Operative == <<"operative">>
Wrapped(times) == <<"applicative", times>>
IsApplicative(v) == v[1] = "applicative"
Unwrap(v) == IF v[2] = 1 THEN Operative ELSE Wrapped(v[2] - 1)

\* Any other value is an error of the program.
keval_ofn ==
    /\ Starting({"eval"})
    /\ Begin(<<[fn |-> "do_combine_operands", taken |-> FALSE,
                operands |-> Nil]>> \o Outer,
             Evaluate(<<"operator">>))
    /\ UNCHANGED heap /\ Quiet

\* The operands are copied when the operator is known, arguments are already.
do_combine_operands ==
    /\ Arrives("do_combine_operands")
    /\ LET comb == next.value
           ls   == IF Top.taken THEN Top.operands ELSE Copied(1)
           after == IF Top.taken THEN cc.taken ELSE orig
           go(frames, register) ==
               /\ cc' = [cc EXCEPT !.frames = frames, !.taken = after]
               /\ next' = register
       IN  \/ comb = Operative /\ go(Below, Call("operative", ls, "denv"))
           \/ /\ IsApplicative(comb) /\ Pairs(ls) = 0
              /\ go(Below, Call("operative", ls, "denv"))
           \/ /\ IsApplicative(comb) /\ Pairs(ls) > 0
              /\ go(<<[fn |-> "do_eval_ls", ls |-> ls, at |-> Kcdr(ls, 1),
                       n |-> Pairs(ls) - 1, acc |-> <<>>],
                      [fn |-> "do_combine_operator",
                       comb |-> Unwrap(comb)]>> \o Below,
                    Evaluate(Kcar(ls, 1)))
           \/ comb # Operative /\ ~IsApplicative(comb) /\ Throw("not a combiner")
    /\ UNCHANGED heap /\ Quiet

do_eval_ls ==
    /\ Arrives("do_eval_ls")
    /\ LET acc == <<next.value>> \o Top.acc
       IN  IF Top.n = 0
           THEN Leave(Below, Return(AsValue(ReverseCopyAndEncycle(
                                     acc, Pairs(Top.ls), Top.ls.cpairs))))
           ELSE Leave(<<[Top EXCEPT !.at = Kcdr(Top.ls, @), !.n = @ - 1,
                                    !.acc = acc]>> \o Below,
                      Evaluate(Kcar(Top.ls, Top.at)))
    /\ UNCHANGED heap /\ Quiet

do_combine_operator ==
    /\ Arrives("do_combine_operator")
    /\ IF Top.comb = Operative
       THEN Leave(Below, Call("operative", AsList(next.value), "denv"))
       ELSE Leave(<<[fn |-> "do_combine_operands", taken |-> TRUE,
                     operands |-> AsList(next.value)]>> \o Below,
                  Return(Top.comb))
    /\ UNCHANGED heap /\ Quiet

------------------------------------------------------------------------------
(* map.  The results are put at the end of a list that begins with a dummy  *)
(* pair, pair 1 of the heap; every continuation holds the last pair of its  *)
(* time.                                                                    *)

Pair(car, cdr) == [car |-> car, cdr |-> cdr]
SetCdr(h, p, cdr) == [h EXCEPT ![p].cdr = cdr]

\* The pairs from p on until the end, or one that was seen.
Walk(h, p) ==
    FoldLeft(LAMBDA w, i : IF w.at = 0 \/ w.at \in ToSet(w.seen) THEN w
                           ELSE [at |-> h[w.at].cdr, seen |-> Append(w.seen, w.at)],
             [at |-> p, seen |-> <<>>], h)
CopyOf(h, p) ==
    LET w == Walk(h, p)
        first == {i \in DOMAIN w.seen : w.seen[i] = w.at}
    IN  <<"list", [i \in DOMAIN w.seen |-> h[w.seen[i]].car],
          IF first = {} THEN 0
          ELSE Len(w.seen) + 1 - (CHOOSE i \in first : TRUE)>>

Mapping(ls, n) == [fn |-> "do_map", ls |-> ls, at |-> 1, n |-> n,
                   last |-> 1, first |-> TRUE]

map ==
    /\ Starting({"map"})
    /\ LET m  == map_for_each_get_metrics
           ls == map_for_each_transpose(m)
           ret == IF m.cpairs = 0 THEN [fn |-> "do_map_ret"]
                  ELSE [fn |-> "do_map_cycle", ls |-> ls, n |-> m.cpairs]
       IN  \/ m.failed /\ Throw(m.why) /\ UNCHANGED heap
           \/ /\ ~m.failed
              /\ heap' = <<Pair(Inert, 0)>>
              /\ Begin(<<Mapping(ls, m.apairs), ret>> \o Outer, Return(Inert))
    /\ Quiet

do_map ==
    /\ Arrives("do_map")
    /\ LET np   == Len(heap) + 1
           last == IF Top.first THEN Top.last ELSE np
       IN  /\ heap' = IF Top.first THEN heap
                      ELSE Append(SetCdr(heap, Top.last, np), Pair(next.value, 0))
           /\ IF Top.n = 0
              THEN Leave(Below, Return(<<"rest", Top.at, last>>))
              ELSE Leave(<<[Top EXCEPT !.at = Kcdr(Top.ls, @), !.n = @ - 1,
                                       !.last = last, !.first = FALSE]>> \o Below,
                         Call("app", Kcar(Top.ls, Top.at), "denv"))
    /\ Quiet

do_map_ret ==
    /\ Arrives("do_map_ret")
    /\ Leave(Below, Return(CopyOf(heap, heap[1].cdr)))
    /\ UNCHANGED heap /\ Quiet

do_map_cycle ==
    /\ Arrives("do_map_cycle")
    /\ LET at == next.value[2]
           last == next.value[3]
       IN  Leave(<<[Mapping(Top.ls, Top.n) EXCEPT !.at = at, !.last = last],
                   [fn |-> "do_map_encycle", lap |-> last]>> \o Below,
                 Return(Inert))
    /\ UNCHANGED heap /\ Quiet

do_map_encycle ==
    /\ Arrives("do_map_encycle")
    /\ heap' = SetCdr(heap, next.value[3], heap[Top.lap].cdr)
    /\ Leave(Below, Return(CopyOf(heap', heap[1].cdr)))
    /\ Quiet

\* Arrays are made lists, all of one length, and the result an array again.
\* For an array of characters, "u" is one and "v" is not.
Arrays == [failed |-> \E j \in DOMAIN job.lists :
                          job.lists[j].apairs # job.lists[1].apairs,
           apairs |-> job.lists[1].apairs, cpairs |-> 0]

array_map ==
    /\ Starting({"vector-map", "string-map"})
    /\ \/ Arrays.failed /\ Throw("different length") /\ UNCHANGED heap
       \/ /\ ~Arrays.failed
          /\ heap' = <<Pair(Inert, 0)>>
          /\ Begin(<<Mapping(map_for_each_transpose(Arrays), Arrays.apairs),
                     [fn |-> "do_array_map_ret", n |-> Arrays.apairs]>> \o Outer,
                   Return(Inert))
    /\ Quiet

\* It reads n pairs; what is past the end of a list that is shorter is undefined.
do_array_map_ret ==
    /\ Arrives("do_array_map_ret")
    /\ LET read == FoldLeft(LAMBDA w, i : IF w.at = 0
                                THEN [w EXCEPT !.cars = Append(@, <<"undefined">>)]
                                ELSE [at |-> heap[w.at].cdr,
                                      cars |-> Append(w.cars, heap[w.at].car)],
                            [at |-> heap[1].cdr, cars |-> <<>>],
                            [i \in 1..Top.n |-> i])
       IN  IF job.op = "string-map" /\ \E i \in DOMAIN read.cars : read.cars[i] # <<"u">>
           THEN Throw("expected char")
           ELSE Leave(Below, Return(AsValue(AList(read.cars))))
    /\ UNCHANGED heap /\ Quiet

------------------------------------------------------------------------------
(* for-each *)

ForEach(m) ==
    \/ m.failed /\ Throw("lists")
    \/ /\ ~m.failed
       /\ Begin(<<[fn |-> "do_for_each", ls |-> map_for_each_transpose(m),
                   at |-> 1, n |-> m.apairs + m.cpairs]>> \o Outer,
                Return(Inert))

for_each ==
    /\ Starting({"for-each"})
    /\ ForEach(map_for_each_get_metrics)
    /\ UNCHANGED heap /\ Quiet

array_for_each ==
    /\ Starting({"vector-for-each"})
    /\ ForEach(Arrays)
    /\ UNCHANGED heap /\ Quiet

do_for_each ==
    /\ Arrives("do_for_each")
    /\ IF Top.n = 0
       THEN Leave(Below, Return(Inert))
       ELSE Leave(<<[Top EXCEPT !.at = Kcdr(Top.ls, @), !.n = @ - 1]>> \o Below,
                  Call("app", Kcar(Top.ls, Top.at), "denv"))
    /\ UNCHANGED heap /\ Quiet

------------------------------------------------------------------------------
(* Booleans and control.  A marked continuation checks that its value is a   *)
(* boolean: the last operand of $and? and $or? is then a tail call.          *)

AndOr(at, marked) ==
    [fn |-> "do_Sandp_Sorp", term |-> IF job.op = "$and?" THEN False ELSE True,
     ls |-> Copied(1), at |-> at, marked |-> marked]

Sandp_Sorp ==
    /\ Starting({"$and?", "$or?"})
    /\ LET f == AndOr(IF Pairs(Copied(1)) = 0 THEN 0 ELSE 1, FALSE)
       IN  Begin(<<f>> \o Outer, Return(Negated(f.term)))
    /\ UNCHANGED heap /\ Quiet

do_Sandp_Sorp ==
    /\ Arrives("do_Sandp_Sorp")
    /\ LET v == next.value
           tail == Kcdr(Top.ls, Top.at)
           k == IF tail # 0 \/ ~BoolCheck(Below)
                THEN <<[Top EXCEPT !.at = tail, !.marked = TRUE]>> \o Below
                ELSE Below
       IN  IF ~IsBoolean(v) THEN Throw("expected boolean")
           ELSE IF Top.at = 0 \/ v = Top.term THEN Leave(Below, Return(v))
           ELSE Leave(k, Evaluate(Kcar(Top.ls, Top.at)))
    /\ UNCHANGED heap /\ Quiet

\* $if around the operation: the clauses are expressions of its own.
do_select_clause ==
    /\ Arrives("do_select_clause")
    /\ IF IsBoolean(next.value)
       THEN Leave(Below, Evaluate(IF next.value = True THEN <<"consequent">>
                                  ELSE <<"alternative">>))
       ELSE Throw("test is not a boolean")
    /\ UNCHANGED heap /\ Quiet

\* Evaluation of a body that is not empty, in the continuation k.
InSequence(body, at, k) ==
    Leave(IF Kcdr(body, at) = 0 THEN k
          ELSE <<[fn |-> "do_seq", ls |-> body, at |-> Kcdr(body, at)]>> \o k,
          Evaluate(Kcar(body, at)))

Ssequence ==
    /\ Starting({"$sequence"})
    /\ LET ls == Copied(1)
           seq == [fn |-> "do_seq", ls |-> ls, at |-> Kcdr(ls, 1)]
       IN  IF Pairs(ls) = 0 THEN Begin(Outer, Return(Inert))
           ELSE Begin(IF seq.at = 0 THEN Outer ELSE <<seq>> \o Outer,
                      Evaluate(Kcar(ls, 1)))
    /\ UNCHANGED heap /\ Quiet

do_seq ==
    /\ Arrives("do_seq")
    /\ InSequence(Top.ls, Top.at, Below)
    /\ UNCHANGED heap /\ Quiet

\* List 1 has the tests, the others are the bodies; all are copied first.
Scond ==
    /\ Starting({"$cond"})
    /\ LET tests == Copied(1)
           f == [fn |-> "do_cond", body |-> Nil, tests |-> tests, at |-> 1,
                 bodies |-> [i \in 1..Pairs(tests) |-> Copied(i + 1)],
                 marked |-> FALSE]
       IN  IF Pairs(tests) = 0 THEN Begin(Outer, Return(Inert))
           ELSE Begin(<<f>> \o Outer, Return(False))
    /\ UNCHANGED heap /\ Quiet

do_cond ==
    /\ Arrives("do_cond")
    /\ \/ ~IsBoolean(next.value) /\ Throw("non boolean")
       \/ /\ next.value = True
          /\ IF Pairs(Top.body) = 0 THEN Leave(Below, Return(Inert))
             ELSE InSequence(Top.body, 1, Below)
       \/ /\ next.value = False
          /\ IF Top.at = 0 THEN Leave(Below, Return(Inert))
             ELSE Leave(<<[Top EXCEPT !.body = Top.bodies[Top.at], !.marked = TRUE,
                                      !.at = Kcdr(Top.tests, @)]>> \o Below,
                        Evaluate(Kcar(Top.tests, Top.at)))
    /\ UNCHANGED heap /\ Quiet

Swhen_Sunless ==
    /\ Starting({"$when", "$unless"})
    /\ Begin(<<[fn |-> "do_Swhen_Sunless", body |-> Copied(1),
                cond |-> IF job.op = "$when" THEN True ELSE False]>> \o Outer,
             Evaluate(<<"test">>))
    /\ UNCHANGED heap /\ Quiet

\* A continuation that returns #inert already needs no other before it.
do_Swhen_Sunless ==
    /\ Arrives("do_Swhen_Sunless")
    /\ LET k == IF InertRet(Below) THEN Below
                ELSE <<[fn |-> "do_return_value"]>> \o Below
       IN  IF ~IsBoolean(next.value) THEN Throw("test is not a boolean")
           ELSE IF next.value = Top.cond /\ Pairs(Top.body) > 0
           THEN InSequence(Top.body, 1, k)
           ELSE Leave(Below, Return(Inert))
    /\ UNCHANGED heap /\ Quiet

do_return_value ==
    /\ Arrives("do_return_value")
    /\ Leave(Below, Return(Inert))
    /\ UNCHANGED heap /\ Quiet

------------------------------------------------------------------------------
(* filter, assoc and member?.  Each copies the list, with one dummy pair     *)
(* before it, pair 0; the applicative is called in an empty environment.     *)

filter ==
    /\ Starting({"filter"})
    /\ LET ls == Copied(1)
       IN  IF Pairs(ls) = 0 THEN Begin(Outer, Return(AsValue(Nil)))
           ELSE Begin(<<[fn |-> "do_filter", ls |-> ls, at |-> 0, acc |-> <<>>,
                         apairs |-> APairs(ls) + 1, cpairs |-> ls.cpairs,
                         accCpairs |-> 0]>> \o Outer,
                      Return(False))
    /\ UNCHANGED heap /\ Quiet

\* The last of the list that was tried is at "at"; the counts say in which part.
do_filter ==
    /\ Arrives("do_filter")
    /\ LET acyclic == Top.apairs > 0
           keep == next.value = True
           acc  == IF keep THEN <<Kcar(Top.ls, Top.at)>> \o Top.acc ELSE Top.acc
           accC == IF keep /\ ~acyclic THEN Top.accCpairs + 1 ELSE Top.accCpairs
           a == IF acyclic THEN Top.apairs - 1 ELSE Top.apairs
           c == IF acyclic THEN Top.cpairs ELSE Top.cpairs - 1
           at == Kcdr(Top.ls, Top.at)
           L == ReverseCopyAndEncycle(acc, Len(acc), accC)
       IN  IF ~IsBoolean(next.value) THEN Throw("expected boolean result")
           ELSE IF a > 0 \/ c > 0
           THEN Leave(<<[Top EXCEPT !.at = at, !.acc = acc, !.apairs = a,
                                    !.cpairs = c, !.accCpairs = accC]>> \o Below,
                      Call("app", AList(<<Kcar(Top.ls, at)>>), "empty"))
           ELSE Leave(Below, Return(AsValue(L)))
    /\ UNCHANGED heap /\ Quiet

Searching(fn, at) ==
    LET ls == Copied(1)
    IN  Begin(<<[fn |-> fn, ls |-> ls, at |-> at, n |-> Pairs(ls)]>> \o Outer,
              Return(False))

\* The list is one of pairs, and the pair found is the result.
assoc ==
    /\ Starting({"assoc"})
    /\ Searching("do_assoc", 0)
    /\ UNCHANGED heap /\ Quiet

Key(pair) == <<"car", pair>>

do_assoc ==
    /\ Arrives("do_assoc")
    /\ LET at == Kcdr(Top.ls, Top.at)
       IN  IF ~IsBoolean(next.value) THEN Throw("expected boolean")
           ELSE IF next.value = True THEN Leave(Below, Return(Kcar(Top.ls, Top.at)))
           ELSE IF Top.n = 0 THEN Leave(Below, Return(AsValue(Nil)))
           ELSE Leave(<<[Top EXCEPT !.at = at, !.n = @ - 1]>> \o Below,
                      Call("pred", AList(<<<<"obj">>, Key(Kcar(Top.ls, at))>>),
                           "empty"))
    /\ UNCHANGED heap /\ Quiet

memberp ==
    /\ Starting({"member?"})
    /\ Searching("do_memberp", 1)
    /\ UNCHANGED heap /\ Quiet

do_memberp ==
    /\ Arrives("do_memberp")
    /\ IF ~IsBoolean(next.value) THEN Throw("expected boolean")
       ELSE IF next.value = True \/ Top.n = 0 THEN Leave(Below, Return(next.value))
       ELSE Leave(<<[Top EXCEPT !.at = Kcdr(Top.ls, @), !.n = @ - 1]>> \o Below,
                  Call("pred", AList(<<<<"obj">>, Kcar(Top.ls, Top.at)>>), "empty"))
    /\ UNCHANGED heap /\ Quiet

------------------------------------------------------------------------------
(* reduce.  The copy of the list is in the heap, pair p at p: do_reduce_prec *)
(* puts the results of the precycle in the place of the elements.            *)

reduce ==
    /\ Starting({"reduce"})
    /\ LET L == Copied(1)
           a == APairs(L)
           cycle == [fn |-> "do_reduce_cycle", at |-> a + 1, n |-> L.cpairs,
                     hasAcyclic |-> a # 0]
           k == IF L.cpairs = 0 THEN Outer ELSE <<cycle>> \o Outer
       IN  \/ Pairs(L) = 0 /\ Begin(Outer, Return(<<"id">>)) /\ UNCHANGED heap
           \/ /\ L.cpairs # 0 /\ ~job.extended
              /\ Throw("no cyclic handling applicatives")
              /\ UNCHANGED heap
           \/ /\ Pairs(L) # 0 /\ (L.cpairs = 0 \/ job.extended)
              /\ heap' = [p \in 1..Pairs(L) |-> Pair(Kcar(L, p), Kcdr(L, p))]
              /\ IF a = 0 THEN Begin(k, Return(Inert))
                 ELSE Begin(<<[fn |-> "do_reduce", at |-> Kcdr(L, 1), n |-> a - 1,
                               bin |-> "bin"]>> \o k,
                            Return(Kcar(L, 1)))
    /\ Quiet

do_reduce ==
    /\ Arrives("do_reduce")
    /\ IF Top.n = 0 THEN Leave(Below, Return(next.value))
       ELSE Leave(<<[Top EXCEPT !.at = heap[@].cdr, !.n = @ - 1]>> \o Below,
                  Call(Top.bin, AList(<<next.value, heap[Top.at].car>>), "denv"))
    /\ UNCHANGED heap /\ Quiet

do_reduce_cycle ==
    /\ Arrives("do_reduce_cycle")
    /\ Leave(<<[fn |-> "do_reduce_prec", first |-> Top.at, last |-> 0,
                rest |-> Top.at, n |-> Top.n],
               [fn |-> "do_reduce", at |-> heap[Top.at].cdr, n |-> Top.n - 1,
                bin |-> "inc"],
               [fn |-> "do_reduce_postc"]>>
             \o (IF Top.hasAcyclic
                 THEN <<[fn |-> "do_reduce_combine", acyclic |-> next.value]>>
                 ELSE <<>>)
             \o Below,
             Return(Inert))
    /\ UNCHANGED heap /\ Quiet

\* "last" is the pair the result is for, 0 the dummy pair, "rest" its cdr.
do_reduce_prec ==
    /\ Arrives("do_reduce_prec")
    /\ heap' = IF Top.last = 0 THEN heap
               ELSE [heap EXCEPT ![Top.last].car = next.value]
    /\ IF Top.n = 0 THEN Leave(Below, Return(heap'[Top.first].car))
       ELSE Leave(<<[Top EXCEPT !.last = Top.rest, !.rest = heap[Top.rest].cdr,
                                !.n = @ - 1]>> \o Below,
                  Call("prec", AList(<<heap'[Top.rest].car>>), "denv"))
    /\ Quiet

do_reduce_postc ==
    /\ Arrives("do_reduce_postc")
    /\ Leave(Below, Call("postc", AList(<<next.value>>), "denv"))
    /\ UNCHANGED heap /\ Quiet

do_reduce_combine ==
    /\ Arrives("do_reduce_combine")
    /\ Leave(Below, Call("bin", AList(<<Top.acyclic, next.value>>), "denv"))
    /\ UNCHANGED heap /\ Quiet

------------------------------------------------------------------------------
(* The program: its combiners, expressions and what it does around them.     *)

Path == cc.path

\* Expressions of a list are evaluated again and again if it has a cycle.
Terminates ==
    \A j \in DOMAIN job.lists :
        job.op \in {"$and?", "$or?", "$cond", "$sequence", "$when", "$unless"} => job.lists[j].cpairs = 0
Continues(k) == Terminates \/ Len(k.path) < MaxPath

\* The result of the operation leaves it.
Halt ==
    /\ next.do = "return" /\ cc.frames = <<>>
    /\ next' = Ended("value", next.value)
    /\ UNCHANGED <<cc, heap>> /\ Quiet

\* Tests give any value, bodies and the rest those the operation can tell apart.
Tests == {"$and?", "$or?", "$cond", "$when", "$unless", "filter", "assoc", "member?"}
IsTest(expr) == expr = <<"test">> \/ (expr[1] = "item" /\ expr[2] = 1)
Results ==
    LET first == IF next.args.elems = <<>> THEN <<>> ELSE next.args.elems[1]
    IN  IF first = <<"operator">>
        THEN {Operative, Wrapped(1), Wrapped(2), <<"u">>}
        ELSE IF first \in {<<"consequent">>, <<"alternative">>} THEN {<<"u">>}
        ELSE IF job.op \in Tests
        THEN CASE job.op \in {"$when", "$unless"} /\ Path # <<>> -> {<<"u">>}
               [] job.op = "$cond" /\ ~IsTest(first) -> {True, <<"u">>}
               [] OTHER -> {True, False, <<"u">>}
        ELSE IF job.op = "$sequence" THEN {True, <<"u">>}
        ELSE IF job.op \in {"for-each", "vector-for-each"} \/ Len(job.lists) > 1
        THEN {<<"u">>}
        ELSE {<<"u">>, <<"v">>}

\* A value is returned to a continuation; "born" tells apart paths with the
\* same values, by the entries that had been made when each was returned.
Returned(k, v, entries) ==
    [k EXCEPT !.path = Append(@, v), !.born = Append(@, entries)]

\* The combiner called, or the expression evaluated, returns v.
ProgramReturns ==
    /\ next.do = "call" /\ Continues(cc)
    /\ \E v \in Results :
          /\ next' = Return(v)
          /\ cc' = Returned(cc, v, entered)
    /\ UNCHANGED heap /\ Quiet

ProgramCaptures ==
    /\ next.do = "call" /\ Cardinality(captured) < MaxCaptured
    /\ captured' = captured \union {[k |-> cc, results |-> Results]}
    /\ UNCHANGED <<job, next, cc, orig, heap, entered, sets, aside>>

\* A captured continuation is entered, from a call or when all has ended.
ProgramEnters ==
    /\ next.do \in {"call", "ended"} /\ entered < MaxEntries
    /\ \E c \in captured : \E v \in c.results :
          /\ Continues(c.k)
          /\ cc' = Returned(c.k, v, entered + 1)
          /\ next' = Return(v)
          /\ aside' = (aside \/ ~IsPrefix(c.k.born, cc.born))
    /\ entered' = entered + 1
    /\ UNCHANGED <<job, orig, heap, captured, sets>>

\* set-car! of a pair of the lists, during a call.
ProgramSets ==
    /\ next.do = "call" /\ sets < MaxSets
    /\ \E j \in DOMAIN orig : \E p \in DOMAIN orig[j] :
          orig' = [orig EXCEPT ![j][p] = @ + 1]
    /\ sets' = sets + 1
    /\ UNCHANGED <<job, next, cc, heap, captured, entered, aside>>

Fresh(j) == [i \in DOMAIN j.lists |->
                [p \in 1..(j.lists[i].apairs + j.lists[i].cpairs) |-> 0]]

Init ==
    /\ job \in Jobs
    /\ orig = Fresh(job)
    /\ cc = [frames |-> Outer, path |-> <<>>, born |-> <<>>, taken |-> orig]
    /\ next = [do |-> "start"]
    /\ heap = <<>> /\ captured = {} /\ entered = 0 /\ sets = 0 /\ aside = FALSE

Operation ==
    \/ keval_ofn \/ map \/ array_map \/ for_each \/ array_for_each \/ Sandp_Sorp
    \/ Ssequence \/ Scond \/ Swhen_Sunless \/ filter \/ assoc \/ memberp \/ reduce
Continue ==
    \/ do_combine_operands \/ do_eval_ls \/ do_combine_operator
    \/ do_map \/ do_map_ret \/ do_map_cycle \/ do_map_encycle \/ do_array_map_ret
    \/ do_for_each \/ do_Sandp_Sorp \/ do_select_clause \/ do_seq \/ do_cond
    \/ do_Swhen_Sunless \/ do_return_value \/ do_filter \/ do_assoc \/ do_memberp
    \/ do_reduce \/ do_reduce_cycle \/ do_reduce_prec \/ do_reduce_postc
    \/ do_reduce_combine \/ Halt
Next ==
    \/ Operation \/ Continue
    \/ ProgramReturns \/ ProgramCaptures \/ ProgramEnters \/ ProgramSets

Spec == Init /\ [][Next]_vars

------------------------------------------------------------------------------
(* What the report of the language says, as a function of the values that   *)
(* have been returned on this continuation, and of nothing else: the next   *)
(* call, or the end.                                                        *)

After(p, n) == SubSeq(p, n + 1, Len(p))

\* The i-th car of list j, through the cycle, as it was when it was taken.
Rho(j, i) == LET l == job.lists[j]
                 n == l.apairs + l.cpairs
             IN  IF i <= n THEN i ELSE l.apairs + 1 + ((i - l.apairs - 1) % l.cpairs)
Element(j, i) == <<"item", j, Rho(j, i), cc.taken[j][Rho(j, i)]>>
Length(j) == job.lists[j].apairs + job.lists[j].cpairs
Finite(j) == job.lists[j].cpairs = 0

Error == Ended("error", <<>>)
Value(v) == Ended("value", v)

\* What encloses the operation gets v; q is what has been returned since.
OuterVerdict(v, q) ==
    CASE job.outer = "none" -> Value(v)
      [] job.outer = "when" -> Value(Inert)
      [] job.outer = "if" ->
           IF ~IsBoolean(v) THEN Error
           ELSE IF q # <<>> THEN Value(q[1])
           ELSE Evaluate(IF v = True THEN <<"consequent">> ELSE <<"alternative">>)

EvalVerdict(p) ==
    LET n == Length(1)
        times == IF p[1] = Operative \/ n = 0 THEN 0 ELSE p[1][2]
        k == Len(p) - 1
        ready == IF times = 0 THEN [i \in 1..n |-> Element(1, i)]
                 ELSE [i \in 1..n |-> p[1 + (times - 1) * n + i]]
    IN  IF p = <<>> THEN Evaluate(<<"operator">>)
        ELSE IF p[1] # Operative /\ ~IsApplicative(p[1]) THEN Error
        ELSE IF k < times * n
        THEN Evaluate(IF k < n THEN Element(1, k + 1) ELSE p[2 + k - n])
        ELSE IF k = times * n
        THEN Call("operative", [elems |-> ready, cpairs |-> job.lists[1].cpairs], "denv")
        ELSE OuterVerdict(p[k + 1], <<>>)

\* The lists are equally long, or all infinite: then the structure of the
\* result is the smallest that all repeat with.
Unequal == \E i, j \in DOMAIN job.lists :
              \/ Finite(i) # Finite(j)
              \/ Finite(i) /\ Length(i) # Length(j)
Repeats(a, c) == \A j \in DOMAIN job.lists :
                    job.lists[j].apairs <= a /\ c % job.lists[j].cpairs = 0
ResultCycle == IF Finite(1) THEN 0
               ELSE CHOOSE c \in 1..36 : Repeats(36, c) /\ \A d \in 1..(c - 1) : ~Repeats(36, d)
ResultLength == IF Finite(1) THEN Length(1)
                ELSE ResultCycle
                     + (CHOOSE a \in 0..36 : /\ Repeats(a, ResultCycle)
                                             /\ \A b \in 0..(a - 1) : ~Repeats(b, ResultCycle))

MapVerdict(p) ==
    IF Unequal \/ (~Finite(1) /\ ResultLength > MaxPairs) THEN Error
    ELSE IF Len(p) < ResultLength
    THEN Call("app", [elems |-> [j \in DOMAIN job.lists |-> Element(j, Len(p) + 1)],
                      cpairs |-> job.appCpairs], "denv")
    ELSE IF job.op \in {"for-each", "vector-for-each"} THEN OuterVerdict(Inert, <<>>)
    ELSE IF job.op = "string-map" /\ <<"v">> \in ToSet(p) THEN Error
    ELSE OuterVerdict(<<"list", p, ResultCycle>>, <<>>)

\* The first value that decides a sequence of tests of list 1, if any.
DecidedBy(p, Decides(_)) ==
    {i \in DOMAIN p : Decides(p[i]) /\ \A h \in 1..(i - 1) : ~Decides(p[h])}

AndOrVerdict(p) ==
    LET term == IF job.op = "$and?" THEN False ELSE True
        first == DecidedBy(p, LAMBDA v : v = term \/ ~IsBoolean(v))
        n == IF Finite(1) /\ Len(p) >= Length(1) THEN Length(1) ELSE Len(p) + 1
        d == IF first = {} THEN n ELSE CHOOSE i \in first : TRUE
        i == IF d > n THEN n ELSE d
    IN  IF Length(1) = 0 THEN OuterVerdict(Negated(term), p)
        ELSE IF i > Len(p) THEN Evaluate(Element(1, Len(p) + 1))
        ELSE IF ~IsBoolean(p[i]) THEN Error ELSE OuterVerdict(p[i], After(p, i))

\* List j is a body, the values since its beginning are q.
BodyVerdict(j, q, inert) ==
    IF Length(j) = 0 THEN OuterVerdict(Inert, q)
    ELSE IF Finite(j) /\ Len(q) >= Length(j)
    THEN OuterVerdict(IF inert THEN Inert ELSE q[Length(j)], After(q, Length(j)))
    ELSE Evaluate(Element(j, Len(q) + 1))

CondVerdict(p) ==
    LET n == IF Finite(1) THEN Length(1) ELSE Len(p)
        first == {i \in DecidedBy(p, LAMBDA v : v # False) : i <= n}
        i == CHOOSE i \in first : TRUE
    IN  IF first # {}
        THEN IF ~IsBoolean(p[i]) THEN Error
             ELSE BodyVerdict(1 + Rho(1, i), After(p, i), FALSE)
        ELSE IF Finite(1) /\ Len(p) >= n THEN OuterVerdict(Inert, After(p, n))
        ELSE Evaluate(Element(1, Len(p) + 1))

WhenVerdict(p) ==
    IF p = <<>> THEN Evaluate(<<"test">>)
    ELSE IF ~IsBoolean(p[1]) THEN Error
    ELSE IF (p[1] = True) = (job.op = "$when") THEN BodyVerdict(1, Tail(p), TRUE)
    ELSE OuterVerdict(Inert, Tail(p))

FilterVerdict(p) ==
    LET kept == SelectSeq([i \in DOMAIN p |-> i], LAMBDA i : p[i] = True)
    IN  IF \E i \in DOMAIN p : ~IsBoolean(p[i]) THEN Error
        ELSE IF Len(p) < Length(1)
        THEN Call("app", AList(<<Element(1, Len(p) + 1)>>), "empty")
        ELSE OuterVerdict(<<"list", [i \in DOMAIN kept |-> Element(1, kept[i])],
                Len(SelectSeq(kept, LAMBDA i : i > job.lists[1].apairs))>>, <<>>)

SearchVerdict(p) ==
    LET found == \E i \in DOMAIN p : p[i] = True
        n == Len(p)
    IN  IF \E i \in DOMAIN p : ~IsBoolean(p[i]) THEN Error
        ELSE IF ~found /\ n < Length(1)
        THEN Call("pred", AList(<<<<"obj">>,
                                  IF job.op = "assoc" THEN Key(Element(1, n + 1))
                                  ELSE Element(1, n + 1)>>), "empty")
        ELSE OuterVerdict(IF job.op = "member?" THEN IF found THEN True ELSE False
                          ELSE IF found THEN Element(1, n) ELSE AsValue(Nil), <<>>)

\* The acyclic part is folded by bin, the elements of the cycle converted by
\* prec, folded by inc, converted by postc, and both results combined by bin.
ReduceVerdict(p) ==
    LET a == job.lists[1].apairs
        c == job.lists[1].cpairs
        k == Len(p)
        folds == IF a = 0 THEN 0 ELSE a - 1
        acyclic == IF folds = 0 THEN Element(1, 1) ELSE p[folds]
        call(f, x, y) == Call(f, AList(<<x, y>>), "denv")
    IN  IF a + c = 0 THEN OuterVerdict(<<"id">>, <<>>)
        ELSE IF c > 0 /\ ~job.extended THEN Error
        ELSE IF k < folds
        THEN call("bin", IF k = 0 THEN Element(1, 1) ELSE p[k], Element(1, k + 2))
        ELSE IF c = 0 THEN OuterVerdict(acyclic, <<>>)
        ELSE IF k < folds + c
        THEN Call("prec", AList(<<Element(1, a + 1 + k - folds)>>), "denv")
        ELSE IF k < folds + 2 * c - 1
        THEN call("inc", IF k = folds + c THEN p[folds + 1] ELSE p[k], p[k + 2 - c])
        ELSE IF k = folds + 2 * c - 1
        THEN Call("postc", AList(<<IF c = 1 THEN p[folds + 1] ELSE p[k]>>), "denv")
        ELSE IF k = folds + 2 * c /\ a > 0 THEN call("bin", acyclic, p[k])
        ELSE OuterVerdict(p[k], <<>>)

Verdict(p) ==
    CASE job.op = "eval" -> EvalVerdict(p)
      [] job.op \in {"map", "for-each", "vector-map", "string-map",
                     "vector-for-each"} -> MapVerdict(p)
      [] job.op \in {"$and?", "$or?"} -> AndOrVerdict(p)
      [] job.op = "$sequence" -> BodyVerdict(1, p, FALSE)
      [] job.op = "$cond" -> CondVerdict(p)
      [] job.op \in {"$when", "$unless"} -> WhenVerdict(p)
      [] job.op = "filter" -> FilterVerdict(p)
      [] job.op \in {"assoc", "member?"} -> SearchVerdict(p)
      [] job.op = "reduce" -> ReduceVerdict(p)

------------------------------------------------------------------------------
(* Properties                                                               *)

TypeOK ==
    /\ next.do \in {"start", "return", "call", "ended"}
    /\ cc.path \in Seq(UNION {c.results : c \in captured} \union
                       {True, False, <<"u">>, <<"v">>, Operative, Wrapped(1), Wrapped(2)})
    /\ entered \in 0..MaxEntries /\ sets \in 0..MaxSets
    /\ \A f \in ToSet(cc.frames) : "n" \in DOMAIN f => f.n \in Nat

\* map has its results, and reduce its copy, in pairs that all continuations
\* share.
SharesResults == job.op \in {"map", "vector-map", "string-map"} /\ aside
SharesCopy == job.op = "reduce" /\ entered > 0 /\ ~Finite(1)

(* Whatever continuations the program captures and enters again, and         *)
(* whatever it does to its lists meanwhile, each call is the one that        *)
(* follows from the values returned on its own continuation: the same        *)
(* combiner, arguments and environment.                                      *)
CallsFollowPath ==
    /\ TypeOK
    /\ next.do = "call" /\ ~SharesCopy => next = Verdict(Path)

(* And so is the result, or that there is an error, when the operation ends; *)
(* map only until the program goes back to a continuation it had left aside.  *)
ResultFollowsPath ==
    next.do = "ended" /\ ~SharesCopy /\ ~SharesResults =>
        LET v == Verdict(Path)
        IN  IF v.do = "ended" /\ v.what = "error" THEN next.what = "error"
            ELSE next = v

(* When all that is left of an operation is to pass on the value of a call,   *)
(* the call is made in the continuation of the operation itself (the tail     *)
(* contexts of the report), boolean checks included.                          *)
TailContexts ==
    next.do = "call" /\ job.op \in {"eval", "$and?", "$or?", "$cond", "$sequence"} =>
        ((\A v \in {True, False, <<"u">>} : Verdict(Append(Path, v)) = OuterVerdict(v, <<>>))
         => cc.frames = Outer)

(* What the report says of map, and a comment in do_map_ret takes care of:    *)
(* the result is the list of the values of the calls.                         *)
MapListsItsCalls ==
    next.do = "ended" /\ job.op = "map" /\ next.what = "value" => next = Verdict(Path)

==============================================================================
