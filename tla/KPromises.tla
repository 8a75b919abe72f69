------------------------------ MODULE KPromises ------------------------------
(***************************************************************************)
(* Promises: $lazy, memoize, $delay and force.                             *)
(*                                                                         *)
(* Sources: kgpromises.c (force, do_handle_result, Slazy, Sdelay),         *)
(* kghelpers.c (memoize), kpromise.c (kmake_promise).                      *)
(*                                                                         *)
(* A promise points to a node, a pair (exp . maybe_env); a determined      *)
(* promise has a nil maybe_env.  When the expression of a promise returns  *)
(* another promise, the first is made to point to the node of the second.  *)
(*                                                                         *)
(* The evaluation of an expression is left open.  It may call anything     *)
(* below, return any object, never return, return more than once (its      *)
(* continuation was captured), and run in several threads and, nested,     *)
(* several times in one.  Each handler is one step.                        *)
(***************************************************************************)
EXTENDS Naturals, Sequences, FiniteSets, SequencesExt

CONSTANTS
    Threads,
    Promises,      \* bound: the promises a run makes
    Values,        \* objects that are not promises
    MaxForces,     \* bound: evaluations nested in one continuation
    MaxHeld,       \* bound: continuations the program captures
    Unmade, Undetermined, NoObject

Objects == Values \cup Promises

ASSUME PromisesAssumption ==
    /\ MaxForces \in Nat /\ MaxHeld \in Nat
    /\ Unmade \notin Objects /\ Undetermined \notin Objects
    /\ Unmade # Undetermined
    /\ NoObject \notin Objects
    /\ Values \cap Promises = {}

VARIABLES
    node,      \* kpromise_node: the promise whose own node each points to
    cell,      \* per node: its expression, in its environment, or an object
    stack,     \* curr_cont of each thread: its frames that matter here
    obj,       \* next_value if do_handle_result is called next
    held,      \* continuations the program captured
    results    \* history: what calls to force have returned

vars == <<node, cell, stack, obj, held, results>>

-----------------------------------------------------------------------------
\* The continuation of the evaluation of a promise's expression, and that of the
\* evaluation of an operand.
HandleResult(p) == [fn |-> "do_handle_result", prom |-> p]
EvalOperand == [fn |-> "do_eval_ls", prom |-> NoObject]

\* kpromise_exp of a determined promise.
value == [p \in Promises |-> cell[node[p]]]

Exists(p) == cell[p] # Unmade

Determined(p) == value[p] \in Objects

\* The objects code can have got hold of.
Reachable == Values \cup {p \in Promises : Exists(p)}

Init ==
    /\ node = [p \in Promises |-> p]
    /\ cell = [p \in Promises |-> Unmade]
    /\ stack = [t \in Threads |-> <<>>]
    /\ obj = [t \in Threads |-> NoObject]
    /\ held = {}
    /\ results = {}

\* Code of the program runs.
Runs(t) == obj[t] = NoObject

kmake_promise(p, content) ==
    /\ ~Exists(p)
    /\ cell' = [cell EXCEPT ![p] = content]
    /\ UNCHANGED node

-----------------------------------------------------------------------------
Lazy(t) ==
    /\ Runs(t)
    /\ \E p \in Promises : kmake_promise(p, Undetermined)
    /\ UNCHANGED <<stack, obj, held, results>>

Memoize(t) ==
    /\ Runs(t)
    /\ \E p \in Promises : \E o \in Reachable : kmake_promise(p, o)
    /\ UNCHANGED <<stack, obj, held, results>>

\* $delay is bound to an applicative: its operand is evaluated first.
Delay(t) ==
    /\ Runs(t)
    /\ Len(stack[t]) < MaxForces
    /\ stack' = [stack EXCEPT ![t] = Append(@, EvalOperand)]
    /\ UNCHANGED <<node, cell, obj, held, results>>

\* The combiner under $delay: the promise of (memoize operand).
Sdelay(t) ==
    /\ Runs(t)
    /\ stack[t] # <<>> /\ Last(stack[t]) = EvalOperand
    /\ \E p \in Promises : kmake_promise(p, Undetermined)
    /\ stack' = [stack EXCEPT ![t] = Front(@)]
    /\ UNCHANGED <<obj, held, results>>

\* An undetermined promise's expression is evaluated, with the handler as its
\* continuation.
force(t) ==
    /\ Runs(t)
    /\ \E p \in Promises :
         /\ Exists(p)
         /\ IF Determined(p)
            THEN results' = results \cup {<<p, value[p]>>} /\ UNCHANGED stack
            ELSE /\ Len(stack[t]) < MaxForces
                 /\ stack' = [stack EXCEPT ![t] = Append(@, HandleResult(p))]
                 /\ UNCHANGED results
    /\ UNCHANGED <<node, cell, obj, held>>

\* The expression returns.
Return(t) ==
    /\ Runs(t)
    /\ stack[t] # <<>> /\ Last(stack[t]).fn = "do_handle_result"
    /\ \E o \in Reachable : obj' = [obj EXCEPT ![t] = o]
    /\ UNCHANGED <<node, cell, stack, held, results>>

\* Captured continuations can be passed to by any thread; an error, or exit,
\* leaves all the evaluations.
CallCC(t) ==
    /\ Runs(t)
    /\ Cardinality(held) < MaxHeld
    /\ held' = held \cup {stack[t]}
    /\ UNCHANGED <<node, cell, stack, obj, results>>

ApplyContinuation(t) ==
    /\ Runs(t)
    /\ \E cont \in held \cup {<<>>} : stack' = [stack EXCEPT ![t] = cont]
    /\ UNCHANGED <<node, cell, obj, held, results>>

-----------------------------------------------------------------------------
(***************************************************************************)
(* do_handle_result, with the promise of the frame it is called for.       *)
(***************************************************************************)
prom(t) == Last(stack[t]).prom

\* Wrong variant: the caller's continuation is set, but not called.
ReturnsBug(t, o) ==
    /\ results' = results \cup {<<prom(t), o>>}
    /\ stack' = [stack EXCEPT ![t] = Front(@)]
    /\ UNCHANGED obj

\* kapply_cc: the call to force returns.
Returns(t, o) ==
    /\ results' = results \cup {<<prom(t), o>>}
    /\ stack' = [stack EXCEPT ![t] = Front(@)]
    /\ obj' = [obj EXCEPT ![t] = NoObject]

\* The promise was determined before the evaluation completed.
Discard(t) ==
    /\ ~Runs(t) /\ Determined(prom(t))
    /\ Returns(t, value[prom(t)])
    /\ UNCHANGED <<node, cell, held>>

\* Wrong variant: the promise is linked though it has been determined.
LinkBug(t) ==
    /\ ~Runs(t)
    /\ obj[t] \in Promises
    /\ node' = [node EXCEPT ![prom(t)] = node[obj[t]]]
    /\ IF Determined(obj[t]) THEN Returns(t, value[obj[t]])
       ELSE obj' = [obj EXCEPT ![t] = NoObject] /\ UNCHANGED <<stack, results>>
    /\ UNCHANGED <<cell, held>>

\* The promise shares the node of the promise its expression returned, and the
\* expression in it is evaluated next.
Link(t) ==
    /\ ~Runs(t) /\ ~Determined(prom(t))
    /\ obj[t] \in Promises
    /\ node' = [node EXCEPT ![prom(t)] = node[obj[t]]]
    /\ IF Determined(obj[t]) THEN Returns(t, value[obj[t]])
       ELSE obj' = [obj EXCEPT ![t] = NoObject] /\ UNCHANGED <<stack, results>>
    /\ UNCHANGED <<cell, held>>

\* Wrong variant: the result is stored though another one has been.
DetermineBug(t) ==
    /\ ~Runs(t) /\ value[prom(t)] # obj[t]
    /\ obj[t] \notin Promises
    /\ cell' = [cell EXCEPT ![node[prom(t)]] = obj[t]]
    /\ UNCHANGED <<node, stack, obj, held, results>>

\* Memoize the result.  Nothing is called next: the dispatch loop calls the
\* handler again, which then finds the promise determined.
Determine(t) ==
    /\ ~Runs(t) /\ ~Determined(prom(t))
    /\ obj[t] \notin Promises
    /\ cell' = [cell EXCEPT ![node[prom(t)]] = obj[t]]
    /\ UNCHANGED <<node, stack, obj, held, results>>

Step(t) ==
    \/ Lazy(t) \/ Memoize(t) \/ Delay(t) \/ Sdelay(t)
    \/ force(t) \/ Return(t) \/ CallCC(t) \/ ApplyContinuation(t)
    \/ Discard(t) \/ Link(t) \/ Determine(t)

Next == \E t \in Threads : Step(t)

Spec == Init /\ [][Next]_vars

-----------------------------------------------------------------------------
(***************************************************************************)
(* Properties.                                                             *)
(***************************************************************************)
Frames == {HandleResult(p) : p \in Promises} \cup {EvalOperand}

Types ==
    /\ node \in [Promises -> Promises]
    /\ cell \in [Promises -> {Unmade, Undetermined} \cup Objects]
    /\ stack \in [Threads -> Seq(Frames)]
    /\ held \subseteq Seq(Frames)
    /\ obj \in [Threads -> Objects \cup {NoObject}]
    /\ results \subseteq Promises \X Objects

\* Only promises that exist point to another node than their own, and only to
\* one that exists; an object a promise has determined exists.
NodesOK ==
    \A p \in Promises :
        /\ Exists(p) => Exists(node[p])
        /\ ~Exists(p) => node[p] = p
        /\ cell[p] \in Promises => Exists(cell[p])

ForcedExist(frames) ==
    \A i \in DOMAIN frames : frames[i] # EvalOperand => Exists(frames[i].prom)

FramesOK ==
    /\ \A t \in Threads : ForcedExist(stack[t])
    /\ \A cont \in held : ForcedExist(cont)

\* do_handle_result is called for a promise, with an object that exists.
HandlersOK ==
    \A t \in Threads : ~Runs(t) =>
        /\ obj[t] \in Reachable
        /\ stack[t] # <<>> /\ Last(stack[t]) # EvalOperand

\* Types; every promise, node and object in use exists.
TypeOK == Types /\ NodesOK /\ FramesOK /\ HandlersOK

\* However forces of a promise nest, race or are entered again, all that return
\* return one object (promises.texi: "A given promise cannot determine different
\* values on different occasions that it is forced").
SameValueForever ==
    \A r \in results : value[r[1]] = r[2]

\* The promises implement those of the documentation.
Cells == INSTANCE KDetermined
Implements == Cells!Spec

=============================================================================
