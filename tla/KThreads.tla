------------------------------ MODULE KThreads ------------------------------
(***************************************************************************)
(* Threads, recursive mutexes and condition variables of klisp, on top of  *)
(* the global interpreter lock (GIL).                                      *)
(*                                                                         *)
(* Sources: kgthreads.c (the applicatives), kmutex.c, kcondvar.c (the      *)
(* objects), klimits.h (the GIL macros), kstate.c (klispT_run, the         *)
(* dispatch loop of every thread) and the part of klisp.c that runs the    *)
(* main thread.                                                            *)
(*                                                                         *)
(* What a Kernel program does is left open: a running thread may call any  *)
(* applicative with any object in reach, take a step that concerns none    *)
(* of this module, throw, return, or call the root continuation.  Between  *)
(* two points where a thread takes or releases a pthread lock a handler    *)
(* is one step; those points are the values of pc.                         *)
(***************************************************************************)
EXTENDS Naturals, FiniteSets

CONSTANTS
    Threads,              \* the klisp_States a run may allocate
    Main,                 \* G(K)->mainthread
    Mutexes, Condvars,    \* the objects a run may allocate
    Values,               \* Kernel objects a thread may end with
    Inert,                \* KINERT
    ErrorObj,             \* an error object made by the interpreter
    MaxCount,             \* KMUTEX_MAX_COUNT
    SharesContinuations,  \* does the program hand continuations to other threads?
    Nil                   \* no thread (KMUTEX_NO_OWNER), no object

ASSUME ThreadsAssumption ==
    /\ Main \in Threads
    /\ Inert \in Values /\ ErrorObj \in Values
    /\ MaxCount \in Nat \ {0}
    /\ SharesContinuations \in BOOLEAN
    /\ Nil \notin Threads \cup Mutexes \cup Condvars

VARIABLES
    gil,             \* holder of G(K)->gil
    gil_count,       \* K->gil_count
    pc,              \* where each thread stands between two lock operations
    next_func,       \* K->next_func: what the dispatch loop calls next
    next_value,      \* K->next_value, as far as it is a thread's outcome
    guard,           \* the thread whose guards enclose K->curr_cont
    errorp, rootp,   \* the flags those guards set, locals of thread_run
    status,          \* K->status
    thread_table,    \* G(K)->thread_table, the threads that are GC roots
    joincond,        \* threads blocked on K->joincond
    K2,              \* local of thread_join
    mutexes,         \* the mutexes made so far
    owner, count,    \* kmutex_owner, kmutex_count
    pmutex,          \* holder of the pthread mutex kmutex_mutex(m)
    mutex, res,      \* locals of kmutex_lock, kmutex_trylock, kcondvar_wait
    kcondvar_mutex,  \* the mutex of a condition variable, Nil before it is made
    cond,            \* threads blocked on kcondvar_cond(c)
    condvar, saved   \* locals of kcondvar_wait (saved is its `count')

gilVars    == <<gil, gil_count>>
runVars    == <<next_func, next_value, guard, errorp, rootp>>
threadVars == <<status, thread_table, joincond, K2>>
mutexVars  == <<mutexes, owner, count, pmutex, mutex, res>>
condVars   == <<kcondvar_mutex, cond, condvar, saved>>
vars       == <<gilVars, pc, runVars, threadVars, mutexVars, condVars>>

(***************************************************************************)
(* Locations.  Wanting maps each location at a klisp_lock to the one the   *)
(* thread reaches with the GIL.                                            *)
(***************************************************************************)
Wanting == [born    |-> "setup",    \* thread_run, first lock
            enter   |-> "dispatch", \* klispT_run, also the lock of a yield
            mlocked |-> "mset",     \* kmutex_lock, after pthread_mutex_lock
            tried   |-> "tset",     \* kmutex_trylock, after pthread_mutex_trylock
            woken   |-> "wset",     \* kcondvar_wait, after pthread_cond_wait
            ended   |-> "finish",   \* thread_run, after klispT_run
            closing |-> "closed"]   \* klisp_close, the main thread's last lock

\* Locations where a thread holds the GIL.
Holding == {"setup", "dispatch", "mset", "tset", "wset", "finish", "closed",
            "join", "yield", "longjmp"}

\* Locations of kmutex_lock, kmutex_trylock and kcondvar_wait outside the GIL.
Locking == {"mlock", "mlocked", "mset"}
Trying  == {"try", "tried", "tset"}
Waiting == {"wait", "waiting", "wake", "woken", "wset"}

Locations == DOMAIN Wanting \cup Holding \cup Locking \cup Trying \cup Waiting
             \cup {"unborn", "failed", "joinwait", "joinwoken", "returned", "dead"}

Statuses == {"CREATED", "STARTING", "RUNNING", "DONE", "ERROR"}

Ended(t) == status[t] \in {"DONE", "ERROR"}

Goto(t, l) == pc' = [pc EXCEPT ![t] = l]

Init ==
    /\ gil = Nil /\ gil_count = [t \in Threads |-> 0]
    /\ pc = [t \in Threads |-> IF t = Main THEN "born" ELSE "unborn"]
    /\ next_func = [t \in Threads |-> "null"]
    /\ next_value = [t \in Threads |-> Inert]
    /\ guard = [t \in Threads |-> t]
    /\ errorp = [t \in Threads |-> FALSE] /\ rootp = [t \in Threads |-> TRUE]
    /\ status = [t \in Threads |-> "CREATED"]
    /\ thread_table = {Main}
    /\ joincond = [t \in Threads |-> {}]
    /\ K2 = [t \in Threads |-> Nil]
    /\ mutexes = {}
    /\ owner = [m \in Mutexes |-> Nil] /\ count = [m \in Mutexes |-> 0]
    /\ pmutex = [m \in Mutexes |-> Nil]
    /\ mutex = [t \in Threads |-> Nil] /\ res = [t \in Threads |-> FALSE]
    /\ kcondvar_mutex = [c \in Condvars |-> Nil]
    /\ cond = [c \in Condvars |-> {}]
    /\ condvar = [t \in Threads |-> Nil] /\ saved = [t \in Threads |-> 0]

-----------------------------------------------------------------------------
(***************************************************************************)
(* The GIL macros.  gil_count is set before pthread_mutex_lock returns;    *)
(* only its own thread reads it, so the two are one step.                  *)
(***************************************************************************)
klisp_lock(t) ==
    IF gil_count[t] = 0
    THEN /\ gil = Nil
         /\ gil' = t
         /\ gil_count' = [gil_count EXCEPT ![t] = 1]
    ELSE /\ gil_count' = [gil_count EXCEPT ![t] = @ + 1]
         /\ gil' = gil

klisp_unlock(t) ==
    IF gil_count[t] <= 1
    THEN /\ gil' = Nil
         /\ gil_count' = [gil_count EXCEPT ![t] = 0]
    ELSE /\ gil_count' = [gil_count EXCEPT ![t] = @ - 1]
         /\ gil' = gil

\* Wrong variant: an error leaves the GIL as it was.
klisp_unlock_allBug(t) == UNCHANGED gilVars

klisp_unlock_all(t) ==
    IF gil_count[t] > 0
    THEN /\ gil' = Nil
         /\ gil_count' = [gil_count EXCEPT ![t] = 0]
    ELSE UNCHANGED gilVars

Lock(t) ==
    /\ pc[t] \in DOMAIN Wanting
    /\ klisp_lock(t)
    /\ Goto(t, Wanting[pc[t]])
    /\ UNCHANGED <<runVars, threadVars, mutexVars, condVars>>

(***************************************************************************)
(* The ends of a handler.  Return: kapply_cc, the loop then yields.        *)
(* Throw: klispE_throw / kcall_cont to the error continuation, a longjmp.  *)
(***************************************************************************)
Return(t, v) ==
    /\ next_value' = [next_value EXCEPT ![t] = v]
    /\ UNCHANGED <<next_func, guard, errorp, rootp>>
    /\ Goto(t, "yield")

Throw(t, v) ==
    /\ next_value' = [next_value EXCEPT ![t] = v]
    /\ next_func' = [next_func EXCEPT ![t] = "error"]
    /\ UNCHANGED <<guard, errorp, rootp>>
    /\ Goto(t, "longjmp")

\* klispi_threadyield after every handler.
Yield(t) ==
    /\ pc[t] = "yield"
    /\ klisp_unlock(t)
    /\ Goto(t, "enter")
    /\ UNCHANGED <<runVars, threadVars, mutexVars, condVars>>

\* The setjmp of klispT_run returns a second time.
Longjmp(t) ==
    /\ pc[t] = "longjmp"
    /\ klisp_unlock_all(t)
    /\ Goto(t, "enter")
    /\ UNCHANGED <<runVars, threadVars, mutexVars, condVars>>

\* A thread about to call a combiner of the program, with the GIL.
Calls(t) == pc[t] = "dispatch" /\ next_func[t] = "program"

\* A combiner that concerns nothing of this module.
OtherStep(t) ==
    /\ Calls(t)
    /\ Return(t, Inert)
    /\ UNCHANGED <<gilVars, threadVars, mutexVars, condVars>>

\* raise, error, or an error signalled by any other combiner.
RaiseError(t) ==
    /\ Calls(t)
    /\ \E v \in Values : Throw(t, v)
    /\ UNCHANGED <<gilVars, threadVars, mutexVars, condVars>>

\* The program's expression returns: do_int_mark_root, then the root continuation.
MarkRoot(t) ==
    /\ Calls(t)
    /\ rootp' = [rootp EXCEPT ![guard[t]] = FALSE]
    /\ next_value' = [next_value EXCEPT ![t] = Inert]
    /\ next_func' = [next_func EXCEPT ![t] = "root"]
    /\ Goto(t, "yield")
    /\ UNCHANGED <<gilVars, guard, errorp, threadVars, mutexVars, condVars>>

\* The program applies the root continuation itself.
CallRoot(t) ==
    /\ Calls(t)
    /\ \E v \in Values : next_value' = [next_value EXCEPT ![t] = v]
    /\ next_func' = [next_func EXCEPT ![t] = "root"]
    /\ Goto(t, "longjmp")
    /\ UNCHANGED <<gilVars, guard, errorp, rootp, threadVars, mutexVars, condVars>>

\* The program applies a continuation captured under the guards of thread u.
CallContinuationOf(t, u) ==
    /\ SharesContinuations
    /\ Calls(t)
    /\ u # t /\ pc[u] \notin {"unborn", "failed", "born", "setup"}
    /\ guard' = [guard EXCEPT ![t] = u]
    /\ next_value' = [next_value EXCEPT ![t] = Inert]
    /\ Goto(t, "longjmp")
    /\ UNCHANGED <<gilVars, next_func, errorp, rootp, threadVars, mutexVars, condVars>>

\* An error is caught by a guard of the program ...
CatchError(t) ==
    /\ pc[t] = "dispatch" /\ next_func[t] = "error"
    /\ next_func' = [next_func EXCEPT ![t] = "program"]
    /\ Goto(t, "yield")
    /\ UNCHANGED <<gilVars, next_value, guard, errorp, rootp, threadVars, mutexVars, condVars>>

\* ... or reaches the thread's own: do_int_mark_error, then do_error_exit.
MarkError(t) ==
    /\ pc[t] = "dispatch" /\ next_func[t] = "error"
    /\ errorp' = [errorp EXCEPT ![guard[t]] = TRUE]
    /\ next_func' = [next_func EXCEPT ![t] = "root"]
    /\ Goto(t, "yield")
    /\ UNCHANGED <<gilVars, next_value, guard, rootp, threadVars, mutexVars, condVars>>

\* do_root_exit: save the value (already there) and end the loop.
RootExit(t) ==
    /\ pc[t] = "dispatch" /\ next_func[t] = "root"
    /\ next_func' = [next_func EXCEPT ![t] = "null"]
    /\ Goto(t, "yield")
    /\ UNCHANGED <<gilVars, next_value, guard, errorp, rootp, threadVars, mutexVars, condVars>>

\* Wrong variant: the thread counts as done before its error flag is looked at.
LeaveRunBug(t) ==
    /\ pc[t] = "dispatch" /\ next_func[t] = "null"
    /\ klisp_unlock(t)
    /\ status' = [status EXCEPT ![t] = "DONE"]
    /\ Goto(t, IF t = Main THEN "returned" ELSE "ended")
    /\ UNCHANGED <<runVars, thread_table, joincond, K2, mutexVars, condVars>>

\* klispT_run leaves its loop when next_func is NULL.
LeaveRun(t) ==
    /\ pc[t] = "dispatch" /\ next_func[t] = "null"
    /\ klisp_unlock(t)
    /\ Goto(t, IF t = Main THEN "returned" ELSE "ended")
    /\ UNCHANGED <<runVars, threadVars, mutexVars, condVars>>

-----------------------------------------------------------------------------
(***************************************************************************)
(* Life of a thread.                                                       *)
(***************************************************************************)
\* thread_run builds its guards (for the main thread: dostring and the like).
\* The main thread's status is set nowhere.
SetUp(t) ==
    /\ pc[t] = "setup"
    /\ status' = IF t = Main THEN status ELSE [status EXCEPT ![t] = "RUNNING"]
    /\ errorp' = [errorp EXCEPT ![t] = FALSE]
    /\ rootp' = [rootp EXCEPT ![t] = TRUE]
    /\ guard' = [guard EXCEPT ![t] = t]
    /\ next_func' = [next_func EXCEPT ![t] = "program"]
    /\ next_value' = [next_value EXCEPT ![t] = Inert]
    /\ klisp_unlock(t)
    /\ Goto(t, "enter")
    /\ UNCHANGED <<thread_table, joincond, K2, mutexVars, condVars>>

\* Wrong variants: no broadcast; the thread stays in the table.
FinishThreadNoBroadcast(t) ==
    /\ pc[t] = "finish"
    /\ thread_table' = thread_table \ {t}
    /\ status' = [status EXCEPT ![t] = IF errorp[t] THEN "ERROR" ELSE "DONE"]
    /\ Goto(t, "dead")
    /\ klisp_unlock(t)
    /\ UNCHANGED <<runVars, joincond, K2, mutexVars, condVars>>

FinishThreadStaysRooted(t) ==
    /\ pc[t] = "finish"
    /\ status' = [status EXCEPT ![t] = IF errorp[t] THEN "ERROR" ELSE "DONE"]
    /\ joincond' = [joincond EXCEPT ![t] = {}]
    /\ pc' = [u \in Threads |->
                IF u = t THEN "dead"
                ELSE IF u \in joincond[t] THEN "joinwoken" ELSE pc[u]]
    /\ klisp_unlock(t)
    /\ UNCHANGED <<runVars, thread_table, K2, mutexVars, condVars>>

\* thread_run after klispT_run: publish the outcome and wake the joiners.
FinishThread(t) ==
    /\ pc[t] = "finish"
    /\ thread_table' = thread_table \ {t}
    /\ status' = [status EXCEPT ![t] = IF errorp[t] THEN "ERROR" ELSE "DONE"]
    /\ joincond' = [joincond EXCEPT ![t] = {}]
    /\ pc' = [u \in Threads |->
                IF u = t THEN "dead"
                ELSE IF u \in joincond[t] THEN "joinwoken" ELSE pc[u]]
    /\ klisp_unlock(t)
    /\ UNCHANGED <<runVars, K2, mutexVars, condVars>>

\* The main thread after klispT_run: runargs goes on with the next argument
\* only if the run neither failed nor called the root continuation; at the end
\* main calls klisp_close, which takes the GIL for good.
FinishMain ==
    /\ pc[Main] = "returned"
    /\ \/ ~errorp[Main] /\ ~rootp[Main] /\ Goto(Main, "born")
       \/ Goto(Main, "closing")
    /\ UNCHANGED <<gilVars, runVars, threadVars, mutexVars, condVars>>

\* make-thread.  The status assigned is that of the calling thread.
MakeThread(t, u) ==
    /\ Calls(t)
    /\ pc[u] = "unborn"
    /\ thread_table' = thread_table \cup {u}
    /\ status' = [status EXCEPT ![t] = "STARTING"]
    /\ \/ /\ next_value' = [next_value EXCEPT ![t] = Inert]
          /\ UNCHANGED next_func
          /\ pc' = [pc EXCEPT ![t] = "yield", ![u] = "born"]
       \/ /\ next_value' = [next_value EXCEPT ![t] = ErrorObj]   \* pthread_create failed
          /\ next_func' = [next_func EXCEPT ![t] = "error"]
          /\ pc' = [pc EXCEPT ![t] = "longjmp", ![u] = "failed"]
    /\ UNCHANGED <<gilVars, guard, errorp, rootp, joincond, K2, mutexVars, condVars>>

\* thread-join, up to its loop.
ThreadJoin(t, u) ==
    /\ Calls(t)
    /\ pc[u] \notin {"unborn", "failed"}
    /\ IF u \in {t, Main}
       THEN Throw(t, ErrorObj) /\ UNCHANGED K2
       ELSE /\ K2' = [K2 EXCEPT ![t] = u]
            /\ Goto(t, "join")
            /\ UNCHANGED runVars
    /\ UNCHANGED <<gilVars, status, thread_table, joincond, mutexVars, condVars>>

\* One turn of thread-join's loop.  pthread_cond_wait releases the GIL behind
\* gil_count's back.
JoinLoop(t) ==
    /\ pc[t] = "join"
    /\ \/ /\ status[K2[t]] = "DONE"
          /\ Return(t, next_value[K2[t]])
          /\ K2' = [K2 EXCEPT ![t] = Nil]
          /\ UNCHANGED <<gil, joincond>>
       \/ /\ status[K2[t]] = "ERROR"
          /\ Throw(t, next_value[K2[t]])
          /\ K2' = [K2 EXCEPT ![t] = Nil]
          /\ UNCHANGED <<gil, joincond>>
       \/ /\ ~Ended(K2[t])
          /\ joincond' = [joincond EXCEPT ![K2[t]] = @ \cup {t}]
          /\ gil' = Nil
          /\ Goto(t, "joinwait")
          /\ UNCHANGED <<runVars, K2>>
    /\ UNCHANGED <<gil_count, status, thread_table, mutexVars, condVars>>

\* pthread_cond_wait may also return without a broadcast.
SpuriousJoinWake(t) ==
    /\ pc[t] = "joinwait"
    /\ joincond' = [joincond EXCEPT ![K2[t]] = @ \ {t}]
    /\ Goto(t, "joinwoken")
    /\ UNCHANGED <<gilVars, runVars, status, thread_table, K2, mutexVars, condVars>>

\* pthread_cond_wait takes the GIL again before it returns.
JoinWake(t) ==
    /\ pc[t] = "joinwoken"
    /\ gil = Nil
    /\ gil' = t
    /\ Goto(t, "join")
    /\ UNCHANGED <<gil_count, runVars, threadVars, mutexVars, condVars>>

-----------------------------------------------------------------------------
(***************************************************************************)
(* Mutexes.                                                                *)
(***************************************************************************)
MakeMutex(t, m) ==
    /\ Calls(t)
    /\ m \notin mutexes
    /\ mutexes' = mutexes \cup {m}
    /\ owner' = [owner EXCEPT ![m] = Nil]
    /\ count' = [count EXCEPT ![m] = 0]
    /\ Return(t, Inert)
    /\ UNCHANGED <<gilVars, threadVars, pmutex, mutex, res, condVars>>

\* Wrong variant: no check of the limit.
RelockBug(t, m) ==
    /\ owner[m] = t
    /\ Return(t, Inert)
    /\ count' = [count EXCEPT ![m] = @ + 1]
    /\ UNCHANGED <<gilVars, threadVars, mutexes, owner, pmutex, mutex, res, condVars>>

\* kmutex_lock by the owner: count up, or fail at the limit.
Relock(t, m) ==
    /\ owner[m] = t
    /\ IF count[m] = MaxCount
       THEN Throw(t, ErrorObj) /\ UNCHANGED count
       ELSE Return(t, Inert) /\ count' = [count EXCEPT ![m] = @ + 1]
    /\ UNCHANGED <<gilVars, threadVars, mutexes, owner, pmutex, mutex, res, condVars>>

\* Wrong variant: the thread blocks with the GIL.
StartLockBug(t, m) ==
    /\ owner[m] # t
    /\ mutex' = [mutex EXCEPT ![t] = m]
    /\ Goto(t, "mlock")
    /\ UNCHANGED <<gilVars, runVars, threadVars, mutexes, owner, count, pmutex, res, condVars>>

\* kmutex_lock by any other thread releases the GIL before it blocks.
StartLock(t, m) ==
    /\ owner[m] # t
    /\ mutex' = [mutex EXCEPT ![t] = m]
    /\ klisp_unlock(t)
    /\ Goto(t, "mlock")
    /\ UNCHANGED <<runVars, threadVars, mutexes, owner, count, pmutex, res, condVars>>

MutexLock(t, m) ==
    /\ Calls(t)
    /\ m \in mutexes
    /\ Relock(t, m) \/ StartLock(t, m)

\* pthread_mutex_lock(&kmutex_mutex(mutex)) returns.
PthreadLock(t) ==
    /\ pc[t] = "mlock"
    /\ pmutex[mutex[t]] = Nil
    /\ pmutex' = [pmutex EXCEPT ![mutex[t]] = t]
    /\ Goto(t, "mlocked")
    /\ UNCHANGED <<gilVars, runVars, threadVars, mutexes, owner, count, mutex, res, condVars>>

\* The rest of kmutex_lock, with the GIL.
OwnMutex(t) ==
    /\ pc[t] = "mset"
    /\ owner' = [owner EXCEPT ![mutex[t]] = t]
    /\ count' = [count EXCEPT ![mutex[t]] = 1]
    /\ mutex' = [mutex EXCEPT ![t] = Nil]
    /\ Return(t, Inert)
    /\ UNCHANGED <<gilVars, threadVars, mutexes, pmutex, res, condVars>>

\* kmutex_trylock: counts for the owner, fails at once if another thread owns
\* the mutex, tries the pthread mutex without the GIL otherwise.
MutexTrylock(t, m) ==
    /\ Calls(t)
    /\ m \in mutexes
    /\ \/ Relock(t, m)
       \/ /\ owner[m] \notin {t, Nil}
          /\ Return(t, Inert)
          /\ UNCHANGED <<gilVars, threadVars, mutexVars, condVars>>
       \/ /\ owner[m] = Nil
          /\ mutex' = [mutex EXCEPT ![t] = m]
          /\ klisp_unlock(t)
          /\ Goto(t, "try")
          /\ UNCHANGED <<runVars, threadVars, mutexes, owner, count, pmutex, res, condVars>>

\* pthread_mutex_trylock: takes the mutex or reports EBUSY.
PthreadTrylock(t) ==
    /\ pc[t] = "try"
    /\ LET free == pmutex[mutex[t]] = Nil IN
         /\ res' = [res EXCEPT ![t] = free]
         /\ pmutex' = IF free THEN [pmutex EXCEPT ![mutex[t]] = t] ELSE pmutex
    /\ Goto(t, "tried")
    /\ UNCHANGED <<gilVars, runVars, threadVars, mutexes, owner, count, mutex, condVars>>

\* Wrong variant: the result of pthread_mutex_trylock is ignored.
OwnTriedBug(t) ==
    /\ pc[t] = "tset"
    /\ owner' = [owner EXCEPT ![mutex[t]] = t]
    /\ count' = [count EXCEPT ![mutex[t]] = 1]
    /\ mutex' = [mutex EXCEPT ![t] = Nil]
    /\ res' = [res EXCEPT ![t] = FALSE]
    /\ Return(t, Inert)
    /\ UNCHANGED <<gilVars, threadVars, mutexes, pmutex, condVars>>

\* The rest of kmutex_trylock, with the GIL.
OwnTried(t) ==
    /\ pc[t] = "tset"
    /\ IF res[t]
       THEN /\ owner' = [owner EXCEPT ![mutex[t]] = t]
            /\ count' = [count EXCEPT ![mutex[t]] = 1]
       ELSE UNCHANGED <<owner, count>>
    /\ mutex' = [mutex EXCEPT ![t] = Nil]
    /\ res' = [res EXCEPT ![t] = FALSE]
    /\ Return(t, Inert)
    /\ UNCHANGED <<gilVars, threadVars, mutexes, pmutex, condVars>>

MutexUnlock(t, m) ==
    /\ Calls(t)
    /\ m \in mutexes
    /\ IF owner[m] # t
       THEN Throw(t, ErrorObj) /\ UNCHANGED <<owner, count, pmutex>>
       ELSE /\ IF count[m] = 1
               THEN /\ pmutex' = [pmutex EXCEPT ![m] = Nil]
                    /\ owner' = [owner EXCEPT ![m] = Nil]
                    /\ count' = [count EXCEPT ![m] = 0]
               ELSE /\ count' = [count EXCEPT ![m] = @ - 1]
                    /\ UNCHANGED <<owner, pmutex>>
            /\ Return(t, Inert)
    /\ UNCHANGED <<gilVars, threadVars, mutexes, mutex, res, condVars>>

-----------------------------------------------------------------------------
(***************************************************************************)
(* Condition variables.                                                    *)
(***************************************************************************)
MakeCondvar(t, c, m) ==
    /\ Calls(t)
    /\ kcondvar_mutex[c] = Nil /\ m \in mutexes
    /\ kcondvar_mutex' = [kcondvar_mutex EXCEPT ![c] = m]
    /\ Return(t, Inert)
    /\ UNCHANGED <<gilVars, threadVars, mutexVars, cond, condvar, saved>>

Owns(t, c) == kcondvar_mutex[c] # Nil /\ owner[kcondvar_mutex[c]] = t

\* wait, signal or broadcast by a thread that does not own the mutex.
NotOwner(t, c) ==
    /\ Calls(t)
    /\ kcondvar_mutex[c] # Nil /\ ~Owns(t, c)
    /\ Throw(t, ErrorObj)
    /\ UNCHANGED <<gilVars, threadVars, mutexVars, condVars>>

\* Wrong variant: the pthread mutex is released before pthread_cond_wait.
CondvarWaitBug(t, c) ==
    /\ Calls(t)
    /\ Owns(t, c)
    /\ LET m == kcondvar_mutex[c] IN
         /\ saved' = [saved EXCEPT ![t] = count[m]]
         /\ owner' = [owner EXCEPT ![m] = Nil]
         /\ count' = [count EXCEPT ![m] = 0]
         /\ pmutex' = [pmutex EXCEPT ![m] = Nil]
         /\ mutex' = [mutex EXCEPT ![t] = m]
    /\ condvar' = [condvar EXCEPT ![t] = c]
    /\ klisp_unlock(t)
    /\ Goto(t, "wait")
    /\ UNCHANGED <<runVars, threadVars, mutexes, res, kcondvar_mutex, cond>>

\* kcondvar_wait gives up the ownership, then the GIL ...
CondvarWait(t, c) ==
    /\ Calls(t)
    /\ Owns(t, c)
    /\ LET m == kcondvar_mutex[c] IN
         /\ saved' = [saved EXCEPT ![t] = count[m]]
         /\ owner' = [owner EXCEPT ![m] = Nil]
         /\ count' = [count EXCEPT ![m] = 0]
         /\ mutex' = [mutex EXCEPT ![t] = m]
    /\ condvar' = [condvar EXCEPT ![t] = c]
    /\ klisp_unlock(t)
    /\ Goto(t, "wait")
    /\ UNCHANGED <<runVars, threadVars, mutexes, pmutex, res, kcondvar_mutex, cond>>

\* ... pthread_cond_wait blocks and releases the pthread mutex in one step ...
PthreadWait(t) ==
    /\ pc[t] = "wait"
    /\ cond' = [cond EXCEPT ![condvar[t]] = @ \cup {t}]
    /\ pmutex' = [pmutex EXCEPT ![mutex[t]] = Nil]
    /\ Goto(t, "waiting")
    /\ UNCHANGED <<gilVars, runVars, threadVars, mutexes, owner, count, mutex, res,
                   kcondvar_mutex, condvar, saved>>

\* ... may wake without a signal ...
SpuriousWake(t) ==
    /\ pc[t] = "waiting"
    /\ cond' = [cond EXCEPT ![condvar[t]] = @ \ {t}]
    /\ Goto(t, "wake")
    /\ UNCHANGED <<gilVars, runVars, threadVars, mutexVars, kcondvar_mutex, condvar, saved>>

\* ... takes the pthread mutex before it returns ...
PthreadWake(t) ==
    /\ pc[t] = "wake"
    /\ pmutex[mutex[t]] = Nil
    /\ pmutex' = [pmutex EXCEPT ![mutex[t]] = t]
    /\ Goto(t, "woken")
    /\ UNCHANGED <<gilVars, runVars, threadVars, mutexes, owner, count, mutex, res, condVars>>

\* Wrong variant: the mutex comes back locked once.
RestoreOwnerBug(t) ==
    /\ pc[t] = "wset"
    /\ owner' = [owner EXCEPT ![mutex[t]] = t]
    /\ count' = [count EXCEPT ![mutex[t]] = 1]
    /\ mutex' = [mutex EXCEPT ![t] = Nil]
    /\ condvar' = [condvar EXCEPT ![t] = Nil]
    /\ saved' = [saved EXCEPT ![t] = 0]
    /\ Return(t, Inert)
    /\ UNCHANGED <<gilVars, threadVars, mutexes, pmutex, res, kcondvar_mutex, cond>>

\* ... and with the GIL the ownership is put back as it was.
RestoreOwner(t) ==
    /\ pc[t] = "wset"
    /\ owner' = [owner EXCEPT ![mutex[t]] = t]
    /\ count' = [count EXCEPT ![mutex[t]] = saved[t]]
    /\ mutex' = [mutex EXCEPT ![t] = Nil]
    /\ condvar' = [condvar EXCEPT ![t] = Nil]
    /\ saved' = [saved EXCEPT ![t] = 0]
    /\ Return(t, Inert)
    /\ UNCHANGED <<gilVars, threadVars, mutexes, pmutex, res, kcondvar_mutex, cond>>

\* Wake the threads in ws, which are blocked on c, and end the handler.
WakeAll(t, c, ws) ==
    /\ cond' = [cond EXCEPT ![c] = @ \ ws]
    /\ pc' = [u \in Threads |->
                IF u = t THEN "yield" ELSE IF u \in ws THEN "wake" ELSE pc[u]]
    /\ next_value' = [next_value EXCEPT ![t] = Inert]
    /\ UNCHANGED <<gilVars, next_func, guard, errorp, rootp, threadVars, mutexVars,
                   kcondvar_mutex, condvar, saved>>

CondvarSignal(t, c) ==
    /\ Calls(t)
    /\ Owns(t, c)
    /\ IF cond[c] = {} THEN WakeAll(t, c, {})
       ELSE \E w \in cond[c] : WakeAll(t, c, {w})

CondvarBroadcast(t, c) ==
    /\ Calls(t)
    /\ Owns(t, c)
    /\ WakeAll(t, c, cond[c])

-----------------------------------------------------------------------------
RunStep(t) ==
    \/ Lock(t) \/ Yield(t) \/ Longjmp(t)
    \/ OtherStep(t) \/ RaiseError(t) \/ MarkRoot(t) \/ CallRoot(t)
    \/ \E u \in Threads : CallContinuationOf(t, u)
    \/ CatchError(t) \/ MarkError(t) \/ RootExit(t) \/ LeaveRun(t)

ThreadStep(t) ==
    \/ SetUp(t) \/ FinishThread(t)
    \/ t = Main /\ FinishMain
    \/ \E u \in Threads : MakeThread(t, u) \/ ThreadJoin(t, u)
    \/ JoinLoop(t) \/ JoinWake(t)

MutexStep(t) ==
    \/ \E m \in Mutexes :
         MakeMutex(t, m) \/ MutexLock(t, m) \/ MutexTrylock(t, m) \/ MutexUnlock(t, m)
    \/ PthreadLock(t) \/ OwnMutex(t) \/ PthreadTrylock(t) \/ OwnTried(t)

CondvarStep(t) ==
    \/ \E c \in Condvars : \/ \E m \in Mutexes : MakeCondvar(t, c, m)
                           \/ NotOwner(t, c) \/ CondvarWait(t, c)
                           \/ CondvarSignal(t, c) \/ CondvarBroadcast(t, c)
    \/ PthreadWait(t) \/ PthreadWake(t) \/ RestoreOwner(t)

\* What a thread does by itself, and what may happen to it.
Step(t) == RunStep(t) \/ ThreadStep(t) \/ MutexStep(t) \/ CondvarStep(t)
Spurious(t) == SpuriousJoinWake(t) \/ SpuriousWake(t)

Next == \E t \in Threads : Step(t) \/ Spurious(t)

Spec == Init /\ [][Next]_vars

\* A thread that can run does run sooner or later; nothing is assumed of
\* spurious wakeups, nor of who wins a lock.
FairSpec == Spec /\ \A t \in Threads : WF_vars(Step(t))

-----------------------------------------------------------------------------
(***************************************************************************)
(* Properties.                                                             *)
(***************************************************************************)
GilTypes ==
    /\ gil \in Threads \cup {Nil}
    /\ gil_count \in [Threads -> Nat]

PcTypes == pc \in [Threads -> Locations]

RunTypes ==
    /\ next_func \in [Threads -> {"null", "program", "error", "root"}]
    /\ next_value \in [Threads -> Values]
    /\ guard \in [Threads -> Threads]
    /\ errorp \in [Threads -> BOOLEAN]
    /\ rootp \in [Threads -> BOOLEAN]

ThreadTypes ==
    /\ status \in [Threads -> Statuses]
    /\ thread_table \subseteq Threads
    /\ joincond \in [Threads -> SUBSET Threads]
    /\ K2 \in [Threads -> Threads \cup {Nil}]

MutexTypes ==
    /\ mutexes \subseteq Mutexes
    /\ owner \in [Mutexes -> Threads \cup {Nil}]
    /\ count \in [Mutexes -> 0 .. MaxCount]
    /\ pmutex \in [Mutexes -> Threads \cup {Nil}]
    /\ mutex \in [Threads -> Mutexes \cup {Nil}]
    /\ res \in [Threads -> BOOLEAN]

CondTypes ==
    /\ kcondvar_mutex \in [Condvars -> Mutexes \cup {Nil}]
    /\ cond \in [Condvars -> SUBSET Threads]
    /\ condvar \in [Threads -> Condvars \cup {Nil}]
    /\ saved \in [Threads -> 0 .. MaxCount]

\* Every variable has its type; in particular the count of a recursive mutex
\* stays within KMUTEX_MAX_COUNT, also when a wait puts it back.
TypeOK == GilTypes /\ PcTypes /\ RunTypes /\ ThreadTypes /\ MutexTypes /\ CondTypes

\* Handlers, guards and thread ends run under the GIL, one thread at a time,
\* and every handler starts with the GIL taken exactly once (the "LOCK:"
\* comments of kmutex.c and kcondvar.c), whatever was thrown before.
GilOnce ==
    \A t \in Threads :
       /\ (pc[t] \in Holding) <=> (gil = t)
       /\ gil_count[t] = IF pc[t] \in Holding \cup {"joinwait", "joinwoken"} THEN 1 ELSE 0

\* The threads between owning m for klisp and holding its pthread mutex.
HoldsUnowned(t, m) ==
    /\ mutex[t] = m
    /\ \/ pc[t] \in {"mlocked", "mset", "wait", "woken", "wset"}
       \/ pc[t] \in {"tried", "tset"} /\ res[t]

\* kmutex_owner and the pthread mutex never disagree, except in the windows
\* of kmutex_lock, kmutex_trylock and kcondvar_wait, where the thread holds
\* the pthread mutex and klisp records no owner.
OwnerAgrees ==
    \A m \in Mutexes :
       /\ \A t \in Threads :
            (pmutex[m] = t) <=> (owner[m] = t \/ HoldsUnowned(t, m))
       /\ \A t \in Threads : HoldsUnowned(t, m) => owner[m] = Nil
       /\ (owner[m] = Nil) <=> (count[m] = 0)

\* The threads queued on a condition variable are those blocked in its
\* pthread_cond_wait.
CondQueues ==
    \A c \in Condvars, t \in Threads :
       (t \in cond[c]) <=> (pc[t] = "waiting" /\ condvar[t] = c)

\* A thread that gave up a mutex to wait on a condition variable cannot miss
\* a signal: until it is queued nobody owns the mutex, and signalling needs
\* the ownership.
NoLostWakeup ==
    /\ \A t \in Threads : pc[t] = "wait" => \A u \in Threads : ~Owns(u, condvar[t])
    /\ CondQueues

\* A joiner sleeps only while the thread it joins has not ended, so the
\* broadcast of thread_run cannot come before the wait.
JoinersAwaitTheLiving ==
    \A t, u \in Threads :
       (t \in joincond[u]) <=> (pc[t] = "joinwait" /\ K2[t] = u /\ ~Ended(u))

\* A thread that may still run is a root of the collector, and a thread that
\* ended is not.
LiveRooted ==
    \A t \in Threads : pc[t] # "failed" =>
       ((t \in thread_table) <=> (pc[t] \notin {"unborn", "dead"}))

\* Status and outcome of a thread are published once: every thread that joins
\* it later reads the same ones.
OutcomeFrozen ==
    [][\A t \in Threads : Ended(t) => /\ status'[t] = status[t]
                                      /\ next_value'[t] = next_value[t]]_vars

\* Thread t takes a step that starts more work of the program.
StartsWork(t) ==
    /\ pc'[t] # pc[t]
    /\ \/ Calls(t) /\ next_func'[t] # "root"
       \/ pc[t] = "returned" /\ pc'[t] = "born"

\* Every thread of the program performs finitely many operations, and the
\* system wakes blocked threads without cause only finitely often.
FiniteProgram == \A t \in Threads : <>[][~StartsWork(t) /\ ~Spurious(t)]_vars

\* Why a thread may stand still for good: it is over, or the program has it
\* wait for another thread's mutex, signal or end.
Settled(t) ==
    \/ pc[t] \in {"unborn", "failed", "dead", "waiting"}
    \/ pc[t] \in {"mlock", "wake"} /\ owner[mutex[t]] \notin {t, Nil}
    \/ pc[t] = "joinwait" /\ ~Ended(K2[t])

\* The locks of the interpreter never block a program that the program itself
\* does not block: threads that do finitely many operations all end up over
\* or waiting for one another, unless the main thread closes the interpreter.
OnlyProgramDeadlocks ==
    FiniteProgram => <>[](pc[Main] = "closed" \/ \A t \in Threads : Settled(t))

-----------------------------------------------------------------------------
(***************************************************************************)
(* The promise: KThreads implements KMonitor.  A thread sleeps from the    *)
(* moment it gives the mutex up, though it is queued only later; it wakes  *)
(* when it leaves the queue, though it owns the mutex again only later.    *)
(***************************************************************************)
Place == [t \in Threads |->
            IF pc[t] \in {"wait", "waiting"} THEN "asleep"
            ELSE IF pc[t] \in {"wake", "woken", "wset"} THEN "waking"
            ELSE "awake"]

Promise == INSTANCE KMonitor WITH
    guards  <- kcondvar_mutex,
    place   <- Place,
    waitsOn <- condvar,
    depth   <- saved

\* Every behaviour of the threads is one the monitors promise: ownership passes
\* only through a free mutex, a waiter resumes only after it left the queue and
\* gets its mutex back exactly as deep as it had locked it.
KeepsPromise == Promise!MSpec

-----------------------------------------------------------------------------
(***************************************************************************)
(* What comments of the source say and the code does not do.               *)
(***************************************************************************)
\* kgthreads.c: the exit guard of a thread sets its error flag after errors.
ErrorsAreMarked ==
    [][\A t \in Threads : next_func[t] = "error" /\ next_func'[t] = "root" => errorp'[t]]_vars

=============================================================================
