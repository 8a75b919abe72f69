--------------------------- MODULE KContinuations ---------------------------
(***************************************************************************)
(* Continuations, guards and abnormal passes.                              *)
(*                                                                         *)
(* Sources: kcontinuation.c (create_interception_list, do_interception),   *)
(* kstate.c (kcall_cont), kstate.h (kapply_cc), kgcontinuations.c and      *)
(* kghelpers.c (the applicatives).                                         *)
(*                                                                         *)
(* A continuation is the sequence of the frames from root-continuation to  *)
(* its own; its improper ancestors are the non-empty prefixes, so "cont is *)
(* in the dynamic extent of c" is IsPrefix(c, cont).  That is what the     *)
(* marks of mark_iancestors stand for.  A frame has the C function it      *)
(* calls and the part of its xparams that matters here.                    *)
(*                                                                         *)
(* What a program computes is left open: where its own code runs (in a     *)
(* body, or as an interceptor), it may call anything below with the        *)
(* continuations in its reach.  Each handler is one step: the GIL is not   *)
(* released inside one.                                                    *)
(***************************************************************************)
EXTENDS Naturals, Sequences, FiniteSets, SequencesExt

CONSTANTS
    Threads,
    MaxDepth,     \* bound: frames of a continuation
    MaxExtents,   \* bound: pairs of guard continuations a run makes
    MaxHeld,      \* bound: continuations the program captures
    Selective     \* bound: do the program's guards select some passes only?

ASSUME ContinuationsAssumption ==
    /\ Threads \cap Nat = {}   \* the program's guards have numbers
    /\ MaxDepth \in Nat /\ MaxExtents \in Nat /\ MaxHeld \in Nat
    /\ Selective \in BOOLEAN

VARIABLES
    curr_cont,   \* K->curr_cont of each thread
    next,        \* next_func with its next_xparams: a frame or an operative
    held,        \* continuations the program captured (shared by all threads)
    made         \* guarded extents made so far; numbers them

contVars == <<curr_cont, next, held, made>>

-----------------------------------------------------------------------------
(***************************************************************************)
(* Frames, operatives and guards.                                          *)
(***************************************************************************)
User      == [fn |-> "user"]        \* code of the program
Null      == [fn |-> "NULL"]        \* ends the dispatch loop
Passes    == [fn |-> "passes"]      \* an interceptor that returns what it gets
MarkError == [fn |-> "do_int_mark_error"]

Frame(fn) == [fn |-> fn]

\* A guard clause: the interceptor is an operative.
Clause(selector, op) == [selector |-> selector, op |-> op]

Guarding(side, id, guards) ==
    [fn |-> "do_pass_value", side |-> side, id |-> id, guards |-> guards]

Interception(ls, dst) == [fn |-> "do_interception", ls |-> ls, dst |-> dst]

root_cont  == <<Frame("do_root_exit")>>
error_cont == Append(root_cont, Frame("do_error_exit"))

\* A child of cont that is guarded; its last frame is the inner continuation.
Guarded(cont, id, entry, exit) ==
    cont \o <<Guarding("outer", id, entry), Guarding("inner", id, exit)>>

\* Is frame f an inner (outer) continuation?
Is(side, f) == f.fn = "do_pass_value" /\ f.side = side

\* Where thread t starts: thread_run, dostring and dofile guard the program
\* against errors and discard its value.
Base(t) ==
    Append(Guarded(root_cont, t, <<>>, <<Clause(error_cont, MarkError)>>),
           Frame("do_int_mark_root"))

Init ==
    /\ curr_cont = [t \in Threads |-> Base(t)]
    /\ next = [t \in Threads |-> User]
    /\ held = {}
    /\ made = 0

-----------------------------------------------------------------------------
(***************************************************************************)
(* Selection of interceptors.                                              *)
(***************************************************************************)
\* Wrong variant: the last clause wins.
select_interceptorBug(guards, cont) ==
    LET hits == {i \in DOMAIN guards : IsPrefix(guards[i].selector, cont)}
    IN  IF hits = {} THEN Null ELSE guards[Max(hits)].op

\* The interceptor of the first clause whose selector has cont in its extent.
select_interceptor(guards, cont) ==
    LET hits == {i \in DOMAIN guards : IsPrefix(guards[i].selector, cont)}
    IN  IF hits = {} THEN Null ELSE guards[Min(hits)].op

\* The positions of the guard frames of the given side, from the outside, at
\* which cont's own ancestors select other: the loop goes up from cont and ends
\* at the common ancestor, which mark_iancestors(other) has marked.
Selecting(side, cont, other) ==
    LET upto[n \in 0 .. Len(cont)] ==
          IF n = 0 \/ IsPrefix(SubSeq(cont, 1, n), other) THEN <<>>
          ELSE IF Is(side, cont[n]) /\ select_interceptor(cont[n].guards, other) # Null
               THEN Append(upto[n-1], n)
               ELSE upto[n-1]
    IN  upto[Len(cont)]

\* Exit guards from the inside to the outside, selected by the destination,
\* then entry guards from the outside to the inside, selected by the source.
\* The interceptor of either runs in the extent of the outer continuation.
create_interception_list(src, dst) ==
    LET exits   == Reverse(Selecting("inner", src, dst))
        entries == Selecting("outer", dst, src)
    IN  [j \in DOMAIN exits |->
           [op    |-> select_interceptor(src[exits[j]].guards, dst),
            outer |-> SubSeq(src, 1, exits[j] - 1)]]
        \o
        [j \in DOMAIN entries |->
           [op    |-> select_interceptor(dst[entries[j]].guards, src),
            outer |-> SubSeq(dst, 1, entries[j])]]

-----------------------------------------------------------------------------
(***************************************************************************)
(* The dispatch of thread t.                                               *)
(***************************************************************************)
\* kset_cc followed by kapply_cc: the value goes to cont.
apply_cc(t, cont) ==
    /\ next' = [next EXCEPT ![t] = Last(cont)]
    /\ curr_cont' = [curr_cont EXCEPT ![t] = Front(cont)]

\* kcall_cont: an abnormal pass.
kcall_cont(t, dst) ==
    LET ls == create_interception_list(curr_cont[t], dst)
    IN  IF ls = <<>> THEN apply_cc(t, dst)
        ELSE /\ next' = [next EXCEPT ![t] = Interception(ls, dst)]
             /\ UNCHANGED curr_cont

\* The program's code runs in the extent of curr_cont.
Runs(t) == next[t] = User

\* A frame that passes its value on, or the program's code returning.
Return(t) ==
    /\ next[t].fn \in {"user", "passes", "do_pass_value", "do_int_mark_root",
                       "do_int_mark_error", "do_error_exit"}
    /\ apply_cc(t, curr_cont[t])
    /\ UNCHANGED <<held, made>>

RootExit(t) ==
    /\ next[t].fn = "do_root_exit"
    /\ next' = [next EXCEPT ![t] = Null]
    /\ UNCHANGED <<curr_cont, held, made>>

\* Wrong variant: the destination is forgotten after the first interceptor.
DoInterceptionBug(t) ==
    /\ next[t].fn = "do_interception"
    /\ IF next[t].ls = <<>> THEN apply_cc(t, next[t].dst)
       ELSE LET first == Head(next[t].ls) IN
              /\ next' = [next EXCEPT ![t] = first.op]
              /\ curr_cont' = [curr_cont EXCEPT ![t] = first.outer]
    /\ UNCHANGED <<held, made>>

DoInterception(t) ==
    /\ next[t].fn = "do_interception"
    /\ IF next[t].ls = <<>> THEN apply_cc(t, next[t].dst)
       ELSE LET first == Head(next[t].ls) IN
              /\ next' = [next EXCEPT ![t] = first.op]
              /\ curr_cont' = [curr_cont EXCEPT ![t] =
                    Append(first.outer, Interception(Tail(next[t].ls), next[t].dst))]
    /\ UNCHANGED <<held, made>>

-----------------------------------------------------------------------------
(***************************************************************************)
(* What the program may do.  After a call that makes or captures something *)
(* it goes on in the same continuation.                                    *)
(***************************************************************************)
Known == held \cup {root_cont, error_cont}

\* The operands of an interceptor have an applicative for its outer continuation;
\* the code called by the interceptor may use it too.
Divert(t) ==
    {SubSeq(curr_cont[t], 1, i - 1) :
        i \in {j \in DOMAIN curr_cont[t] : curr_cont[t][j].fn = "do_interception"}}

\* Evaluation of a subexpression.
CallCombiner(t) ==
    /\ Runs(t)
    /\ Len(curr_cont[t]) < MaxDepth
    /\ curr_cont' = [curr_cont EXCEPT ![t] = Append(@, User)]
    /\ UNCHANGED <<next, held, made>>

Hold(cont) ==
    /\ Cardinality(held) < MaxHeld
    /\ held' = held \cup {cont}

CallCC(t) ==
    /\ Runs(t)
    /\ Hold(curr_cont[t])
    /\ UNCHANGED <<curr_cont, next, made>>

ExtendContinuation(t) ==
    /\ Runs(t)
    /\ \E cont \in Known : Len(cont) < MaxDepth /\ Hold(Append(cont, User))
    /\ UNCHANGED <<curr_cont, next, made>>

\* Guard lists: none, one clause, or one for errors before one for the rest.
GuardLists ==
    {<<>>, <<Clause(root_cont, User)>>}
    \cup IF ~Selective THEN {}
         ELSE {<<Clause(error_cont, Passes), Clause(root_cont, User)>>}
              \cup {<<Clause(selector, User)>> : selector \in Known}

GuardContinuation(t) ==
    /\ Runs(t)
    /\ made < MaxExtents /\ made' = made + 1
    /\ \E cont \in Known, entry, exit \in GuardLists :
         /\ Len(cont) + 2 <= MaxDepth
         /\ Hold(Guarded(cont, made', entry, exit))
    /\ UNCHANGED <<curr_cont, next>>

GuardDynamicExtent(t) ==
    /\ Runs(t)
    /\ made < MaxExtents /\ made' = made + 1
    /\ Len(curr_cont[t]) + 2 <= MaxDepth
    /\ \E entry, exit \in GuardLists :
         curr_cont' = [curr_cont EXCEPT ![t] = Guarded(@, made', entry, exit)]
    /\ UNCHANGED <<next, held>>

\* apply-continuation, an applicative of a continuation, exit, raise, error.
ApplyContinuation(t) ==
    /\ Runs(t)
    /\ \E cont \in Known \cup Divert(t) : kcall_cont(t, cont)
    /\ UNCHANGED <<held, made>>

Step(t) ==
    \/ Return(t) \/ RootExit(t) \/ DoInterception(t)
    \/ CallCombiner(t) \/ CallCC(t) \/ ExtendContinuation(t)
    \/ GuardContinuation(t) \/ GuardDynamicExtent(t) \/ ApplyContinuation(t)

Next == \E t \in Threads : Step(t)

Spec == Init /\ [][Next]_contVars

-----------------------------------------------------------------------------
(***************************************************************************)
(* Properties.                                                             *)
(***************************************************************************)
\* A continuation starts at the root and its inner frames follow their outer
\* ones, also inside the lists of pending interceptions.
WellFormed(cont) ==
    /\ IsPrefix(root_cont, cont)
    /\ \A i \in DOMAIN cont :
         Is("inner", cont[i]) => Is("outer", cont[i-1]) /\ cont[i].id = cont[i-1].id

\* What is called next belongs below the current continuation, every captured
\* continuation is well formed, and a pending interception runs in the outer
\* continuation of the guard that asked for it.
TypeOK ==
    /\ made \in 0 .. MaxExtents
    /\ \A cont \in held : WellFormed(cont)
    /\ \A t \in Threads :
         \/ next[t] = Null
         \/ next[t].fn = "do_root_exit" /\ curr_cont[t] = <<>>
         \/ /\ WellFormed(curr_cont[t])
            /\ \A i \in DOMAIN curr_cont[t] :
                 LET f == curr_cont[t][i] IN
                   f.fn = "do_interception" =>
                     /\ WellFormed(f.dst) /\ \A e \in Range(f.ls) : WellFormed(e.outer)
                     /\ Is("outer", curr_cont[t][i-1])

\* The continuation that thread t, in a step out of the current one, passes its
\* value to in the end.
Destination(t) ==
    IF next[t].fn = "do_interception" THEN next[t].dst ELSE Append(curr_cont'[t], next'[t])

\* A step takes thread t out of the extent of guarded continuation p ...
Leaves(t, p) ==
    /\ IsPrefix(p, curr_cont[t])
    /\ ~IsPrefix(p, curr_cont'[t])
    /\ ~IsPrefix(p, Destination(t))

\* ... or into that of an outer continuation p, made before.
Enters(t, p) ==
    /\ IsPrefix(p, curr_cont'[t])
    /\ ~IsPrefix(p, curr_cont[t])
    /\ p[Len(p)].id \in Threads \cup 0 .. made

\* The first clause of guards whose selector has cont in its extent is the i-th.
Selected(guards, cont, i) ==
    /\ IsPrefix(guards[i].selector, cont)
    /\ \A j \in 1 .. i - 1 : ~IsPrefix(guards[j].selector, cont)

Intercepted(t, outer, op) ==
    /\ next'[t] = op
    /\ Len(curr_cont'[t]) = Len(outer) + 1 /\ IsPrefix(outer, curr_cont'[t])

\* A thread leaves a guarded extent, other than by returning from it, by a call
\* of the interceptor that its exit guards select for the destination ...
ExitGuarded(t) ==
    \A i \in DOMAIN curr_cont[t] :
      LET p == SubSeq(curr_cont[t], 1, i)
      IN  Is("inner", p[i]) /\ Leaves(t, p) =>
            \A g \in DOMAIN p[i].guards :
              Selected(p[i].guards, Destination(t), g)
                => Intercepted(t, Front(p), p[i].guards[g].op)

\* No pass gets around a guard: a thread leaves the extent of a guarded
\* continuation, other than by returning from it, only through the interceptor
\* of its exit guards, however many interceptors before or after it return,
\* divert, capture or guard again.
ExitsIntercepted == [][\A t \in Threads : ExitGuarded(t)]_contVars

\* ... and gets into one by a call of the interceptor of its entry guards, here
\* of those whose first clause selects every source.
EntryGuarded(t) ==
    \A i \in DOMAIN curr_cont'[t] :
      LET p == SubSeq(curr_cont'[t], 1, i)
      IN  Is("outer", p[i]) /\ Enters(t, p) /\ p[i].guards # <<>>
            => (p[i].guards[1].selector = root_cont
                  => Intercepted(t, p, p[i].guards[1].op))

\* And no pass gets around an entry guard, whatever the pass went through before.
EntriesIntercepted == [][\A t \in Threads : EntryGuarded(t)]_contVars

=============================================================================
