------------------------------ MODULE KMonitor ------------------------------
(***************************************************************************)
(* What klisp's mutexes and condition variables promise a program: a mutex *)
(* is held by one thread, which may lock it several times; waiting gives   *)
(* up all of them at once and takes back exactly as many; one signal wakes *)
(* one sleeper at most.  (That it does wake one if there is one is         *)
(* NoLostWakeup of KThreads: a step that wakes nobody is a stutter here.)  *)
(* No lock of the interpreter and no pthread object appears here: KThreads *)
(* implements this module with them.                                       *)
(***************************************************************************)
EXTENDS Naturals

CONSTANTS Threads, Mutexes, Condvars, MaxCount, Nil

VARIABLES
    owner,    \* the thread that holds a mutex
    count,    \* how many times it locked it
    guards,   \* the mutex of a condition variable, Nil before it is made
    place,    \* "awake", "asleep" or "waking" for each thread
    waitsOn,  \* the condition variable a thread that is not awake waits on
    depth     \* how many times it had locked its mutex

mvars == <<owner, count, guards, place, waitsOn, depth>>

MInit ==
    /\ owner = [m \in Mutexes |-> Nil] /\ count = [m \in Mutexes |-> 0]
    /\ guards = [c \in Condvars |-> Nil]
    /\ place = [t \in Threads |-> "awake"]
    /\ waitsOn = [t \in Threads |-> Nil]
    /\ depth = [t \in Threads |-> 0]

Acquire(t, m) ==
    /\ place[t] = "awake"
    /\ \/ owner[m] = Nil
       \/ owner[m] = t /\ count[m] < MaxCount
    /\ owner' = [owner EXCEPT ![m] = t]
    /\ count' = [count EXCEPT ![m] = @ + 1]
    /\ UNCHANGED <<guards, place, waitsOn, depth>>

Release(t, m) ==
    /\ place[t] = "awake" /\ owner[m] = t
    /\ owner' = [owner EXCEPT ![m] = IF count[m] = 1 THEN Nil ELSE t]
    /\ count' = [count EXCEPT ![m] = @ - 1]
    /\ UNCHANGED <<guards, place, waitsOn, depth>>

MakeCond(c, m) ==
    /\ guards[c] = Nil
    /\ guards' = [guards EXCEPT ![c] = m]
    /\ UNCHANGED <<owner, count, place, waitsOn, depth>>

Wait(t, c) ==
    /\ guards[c] # Nil
    /\ place[t] = "awake" /\ owner[guards[c]] = t
    /\ depth' = [depth EXCEPT ![t] = count[guards[c]]]
    /\ owner' = [owner EXCEPT ![guards[c]] = Nil]
    /\ count' = [count EXCEPT ![guards[c]] = 0]
    /\ place' = [place EXCEPT ![t] = "asleep"]
    /\ waitsOn' = [waitsOn EXCEPT ![t] = c]
    /\ UNCHANGED guards

Asleep(c) == {w \in Threads : place[w] = "asleep" /\ waitsOn[w] = c}

Wake(ws) ==
    /\ place' = [w \in Threads |-> IF w \in ws THEN "waking" ELSE place[w]]
    /\ UNCHANGED <<owner, count, guards, waitsOn, depth>>

\* One sleeper; with no sleeper a signal is a stuttering step.
Signal(t, c) ==
    /\ guards[c] # Nil /\ owner[guards[c]] = t
    /\ \E w \in Asleep(c) : Wake({w})

Broadcast(t, c) ==
    /\ guards[c] # Nil /\ owner[guards[c]] = t
    /\ Wake(Asleep(c))

WakeUnasked(t) == place[t] = "asleep" /\ Wake({t})

Resume(t) ==
    /\ place[t] = "waking"
    /\ LET m == guards[waitsOn[t]] IN
         /\ owner[m] = Nil
         /\ owner' = [owner EXCEPT ![m] = t]
         /\ count' = [count EXCEPT ![m] = depth[t]]
    /\ place' = [place EXCEPT ![t] = "awake"]
    /\ waitsOn' = [waitsOn EXCEPT ![t] = Nil]
    /\ depth' = [depth EXCEPT ![t] = 0]
    /\ UNCHANGED guards

MNext ==
    \/ \E t \in Threads : \/ \E m \in Mutexes : Acquire(t, m) \/ Release(t, m)
                          \/ \E c \in Condvars : Wait(t, c) \/ Signal(t, c) \/ Broadcast(t, c)
                          \/ WakeUnasked(t) \/ Resume(t)
    \/ \E c \in Condvars, m \in Mutexes : MakeCond(c, m)

MSpec == MInit /\ [][MNext]_mvars
=============================================================================
