------------------------------ MODULE KDynVars ------------------------------
(***************************************************************************)
(* Keyed dynamic variables, on top of continuations and guards.            *)
(*                                                                         *)
(* Sources: kgkd_vars.c (make-keyed-dynamic-variable) and kghelpers.c      *)
(* (do_bind, do_access, do_unbind, do_set_pass, make_bind_continuation).   *)
(* with-input-from-file and the like bind the current ports the same way.  *)
(*                                                                         *)
(* The key of a variable is one pair (flag . value) for the whole          *)
(* interpreter: binding it overwrites the pair, and a do_unbind frame and  *)
(* a pair of guards put it back on every way out and in.                   *)
(***************************************************************************)
EXTENDS KContinuations

CONSTANT Values   \* values the program binds

VARIABLE key      \* the pair of the variable: bound?, value

vars == <<contVars, key>>

NoBinding == [flag |-> FALSE, value |-> "inert"]
Binding(v) == [flag |-> TRUE, value |-> v]

SetPass(binding) == [fn |-> "do_set_pass", binding |-> binding]

\* The properties use what was bound, the code what to put back.
Unbind(binding, bound) == [fn |-> "do_unbind", binding |-> binding, bound |-> bound]

DInit == Init /\ key = NoBinding

\* Wrong variant: the way back in does not bind again.
make_bind_continuationBug(cont, id, old, new) ==
    Guarded(Append(cont, Unbind(old, new)), id,
            <<>>,
            <<Clause(root_cont, SetPass(old))>>)

\* Normal return unbinds; a pass out sets the old binding, a pass in the new one.
make_bind_continuation(cont, id, old, new) ==
    Guarded(Append(cont, Unbind(old, new)), id,
            <<Clause(root_cont, SetPass(new))>>,
            <<Clause(root_cont, SetPass(old))>>)

\* The applicative b: the combiner is called in the extent of the binding.
Bind(t) ==
    /\ Runs(t)
    /\ made < MaxExtents /\ made' = made + 1
    /\ Len(curr_cont[t]) + 3 <= MaxDepth
    /\ \E v \in Values :
         /\ key' = Binding(v)
         /\ curr_cont' = [curr_cont EXCEPT ![t] =
                            make_bind_continuation(@, made', key, Binding(v))]
    /\ UNCHANGED <<next, held>>

\* The applicative a: nothing changes if the variable is bound.
Access(t) ==
    /\ Runs(t)
    /\ ~key.flag /\ kcall_cont(t, error_cont)
    /\ UNCHANGED <<held, made, key>>

\* The frame of a binding that ends, or the interceptor of its guards.
PutBinding(t) ==
    /\ next[t].fn \in {"do_unbind", "do_set_pass"}
    /\ key' = next[t].binding
    /\ apply_cc(t, curr_cont[t])
    /\ UNCHANGED <<held, made>>

DStep(t) ==
    \/ Step(t) /\ UNCHANGED key
    \/ Bind(t) \/ Access(t) \/ PutBinding(t)

DNext == \E t \in Threads : DStep(t)

DSpec == DInit /\ [][DNext]_vars

-----------------------------------------------------------------------------
\* What the smallest enclosing extent of a call to b was given.
InnermostBinding(cont) ==
    LET calls == {i \in DOMAIN cont : cont[i].fn = "do_unbind"}
    IN  IF calls = {} THEN NoBinding ELSE cont[Max(calls)].bound

\* The pair holds a flag and a value, and an unbound variable is #inert.
KeyTypeOK ==
    /\ TypeOK
    /\ key \in {NoBinding} \cup {Binding(v) : v \in Values}

\* Whenever code of the program runs, be it the body, a subexpression, a
\* continuation entered again or an interceptor of a pass under way, the
\* variable has the value of the smallest enclosing extent of a call to b, and
\* is unbound outside all of them (keyed_vars.texi).
InnermostExtentRules ==
    KeyTypeOK /\ \A t \in Threads : Runs(t) => key = InnermostBinding(curr_cont[t])

=============================================================================
