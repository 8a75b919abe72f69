--------------------------- MODULE KThreadsProofs ---------------------------
(***************************************************************************)
(* Proofs about KThreads, for any number of threads, mutexes and condition *)
(* variables and any limit of the recursion count.  Every safety property  *)
(* of KThreads follows from one inductive invariant, IInv.                 *)
(***************************************************************************)
EXTENDS KThreads, TLAPS

\* The locals of kmutex_lock, kmutex_trylock, kcondvar_wait and thread_join
\* hold what those functions put there for as long as they run.
LocalsInv ==
    /\ \A t \in Threads :
         /\ pc[t] \in Locking \cup Trying \cup Waiting => mutex[t] \in mutexes
         /\ pc[t] \in Waiting => /\ condvar[t] \in Condvars
                                 /\ kcondvar_mutex[condvar[t]] = mutex[t]
                                 /\ saved[t] # 0
         /\ pc[t] \in {"join", "joinwait", "joinwoken"} => K2[t] \in Threads
    /\ \A c \in Condvars : kcondvar_mutex[c] \in mutexes \cup {Nil}

\* A mutex that is not made yet is free.
UnmadeInv == \A m \in Mutexes \ mutexes : owner[m] = Nil

\* A thread has ended exactly when it is dead.
EndedInv == \A t \in Threads : Ended(t) <=> pc[t] = "dead"

IInv ==
    /\ TypeOK
    /\ GilOnce
    /\ OwnerAgrees
    /\ CondQueues
    /\ JoinersAwaitTheLiving
    /\ LiveRooted
    /\ LocalsInv
    /\ UnmadeInv
    /\ EndedInv

\* klisp_unlock by the thread that holds the GIL frees it.
LEMMA UnlockHeld ==
  ASSUME NEW t \in Threads, GilTypes, GilOnce, pc[t] \in Holding, klisp_unlock(t)
  PROVE  gil' = Nil /\ gil_count' = [gil_count EXCEPT ![t] = 0]
BY DEF GilTypes, GilOnce, klisp_unlock

\* klisp_unlock_all by the thread that holds the GIL frees it.
LEMMA UnlockAllHeld ==
  ASSUME NEW t \in Threads, GilTypes, GilOnce, pc[t] \in Holding, klisp_unlock_all(t)
  PROVE  gil' = Nil /\ gil_count' = [gil_count EXCEPT ![t] = 0]
BY DEF GilTypes, GilOnce, klisp_unlock_all

\* klisp_lock by a thread that waits for the GIL really takes it.
LEMMA LockWanted ==
  ASSUME NEW t \in Threads, GilTypes, GilOnce, pc[t] \in DOMAIN Wanting, klisp_lock(t)
  PROVE  gil = Nil /\ gil' = t /\ gil_count' = [gil_count EXCEPT ![t] = 1]
BY DEF GilTypes, GilOnce, klisp_lock, Wanting, Holding

\* pc stays among the locations.
LEMMA PcTypesStep == PcTypes /\ [Next]_vars => PcTypes'
<1> SUFFICES ASSUME PcTypes, [Next]_vars PROVE PcTypes'
  OBVIOUS
<1> USE ThreadsAssumption
<1>1. ASSUME NEW t \in Threads, RunStep(t) PROVE PcTypes'
  BY <1>1 DEF RunStep, PcTypes, Locations, Holding, Wanting, Locking, Trying,
     Waiting, Goto, Lock, Yield, Longjmp, OtherStep, Calls, Return, RaiseError,
     Throw, MarkRoot, CallRoot, CallContinuationOf, CatchError, MarkError, RootExit,
     LeaveRun
<1>2. ASSUME NEW t \in Threads, ThreadStep(t) PROVE PcTypes'
  BY <1>2 DEF ThreadStep, PcTypes, Locations, Holding, Wanting, Locking, Trying,
     Waiting, Goto, SetUp, FinishThread, FinishMain, MakeThread, Calls, ThreadJoin,
     Throw, JoinLoop, Return, JoinWake
<1>3. ASSUME NEW t \in Threads, MutexStep(t) PROVE PcTypes'
  BY <1>3 DEF MutexStep, PcTypes, Locations, Holding, Wanting, Locking, Trying,
     Waiting, Goto, MakeMutex, Calls, Return, MutexLock, Relock, StartLock, Throw,
     MutexTrylock, MutexUnlock, PthreadLock, OwnMutex, PthreadTrylock, OwnTried
<1>4. ASSUME NEW t \in Threads, CondvarStep(t) PROVE PcTypes'
  BY <1>4 DEF CondvarStep, PcTypes, Locations, Holding, Wanting, Locking, Trying,
     Waiting, Goto, MakeCondvar, Calls, Return, NotOwner, Throw, CondvarWait, Owns,
     CondvarSignal, WakeAll, CondvarBroadcast, PthreadWait, PthreadWake,
     RestoreOwner
<1>5. ASSUME NEW t \in Threads, Spurious(t) PROVE PcTypes'
  BY <1>5 DEF Spurious, PcTypes, Locations, Holding, Wanting, Locking, Trying,
     Waiting, Goto, SpuriousJoinWake, SpuriousWake
<1>6. CASE UNCHANGED vars
  BY <1>6 DEF vars, PcTypes, Locations, Holding, Wanting, Locking, Trying, Waiting,
     Goto, gilVars, runVars, threadVars, mutexVars, condVars
<1> QED BY <1>1, <1>2, <1>3, <1>4, <1>5, <1>6 DEF Next, Step

\* The types of the GIL.
LEMMA GilTypesStep == GilTypes /\ [Next]_vars => GilTypes'
<1> SUFFICES ASSUME GilTypes, [Next]_vars PROVE GilTypes'
  OBVIOUS
<1> USE ThreadsAssumption
<1>1. ASSUME NEW t \in Threads, RunStep(t) PROVE GilTypes'
  BY <1>1 DEF RunStep, GilTypes, Goto, gilVars, klisp_lock, klisp_unlock,
     klisp_unlock_all, Lock, Yield, Longjmp, OtherStep, Calls, Return, RaiseError,
     Throw, MarkRoot, CallRoot, CallContinuationOf, CatchError, MarkError, RootExit,
     LeaveRun
<1>2. ASSUME NEW t \in Threads, ThreadStep(t) PROVE GilTypes'
  BY <1>2 DEF ThreadStep, GilTypes, Goto, gilVars, klisp_lock, klisp_unlock,
     klisp_unlock_all, SetUp, FinishThread, FinishMain, MakeThread, Calls,
     ThreadJoin, Throw, JoinLoop, Return, JoinWake
<1>3. ASSUME NEW t \in Threads, MutexStep(t) PROVE GilTypes'
  BY <1>3 DEF MutexStep, GilTypes, Goto, gilVars, klisp_lock, klisp_unlock,
     klisp_unlock_all, MakeMutex, Calls, Return, MutexLock, Relock, StartLock,
     Throw, MutexTrylock, MutexUnlock, PthreadLock, OwnMutex, PthreadTrylock,
     OwnTried
<1>4. ASSUME NEW t \in Threads, CondvarStep(t) PROVE GilTypes'
  BY <1>4 DEF CondvarStep, GilTypes, Goto, gilVars, klisp_lock, klisp_unlock,
     klisp_unlock_all, MakeCondvar, Calls, Return, NotOwner, Throw, CondvarWait,
     Owns, CondvarSignal, WakeAll, CondvarBroadcast, PthreadWait, PthreadWake,
     RestoreOwner
<1>5. ASSUME NEW t \in Threads, Spurious(t) PROVE GilTypes'
  BY <1>5 DEF Spurious, GilTypes, Goto, gilVars, klisp_lock, klisp_unlock,
     klisp_unlock_all, SpuriousJoinWake, SpuriousWake
<1>6. CASE UNCHANGED vars
  BY <1>6 DEF vars, GilTypes, Goto, gilVars, runVars, threadVars, mutexVars,
     condVars
<1> QED BY <1>1, <1>2, <1>3, <1>4, <1>5, <1>6 DEF Next, Step

\* The types of the dispatch loop's variables.
LEMMA RunTypesStep ==
  RunTypes /\ ThreadTypes /\ LocalsInv /\ [Next]_vars => RunTypes'
<1> SUFFICES ASSUME RunTypes, ThreadTypes, LocalsInv, [Next]_vars PROVE RunTypes'
  OBVIOUS
<1> USE ThreadsAssumption
<1>1. ASSUME NEW t \in Threads, RunStep(t) PROVE RunTypes'
  <2>1. ASSUME OtherStep(t) PROVE RunTypes'
    BY <2>1 DEF OtherStep, Calls, Return, RunTypes
  <2>2. ASSUME RaiseError(t) PROVE RunTypes'
    BY <2>2 DEF RaiseError, Calls, Throw, RunTypes
  <2>3. ASSUME MarkRoot(t) PROVE RunTypes'
    BY <2>3 DEF MarkRoot, Calls, RunTypes
  <2>4. ASSUME CallRoot(t) PROVE RunTypes'
    BY <2>4 DEF CallRoot, Calls, RunTypes
  <2>5. ASSUME NEW u \in Threads, CallContinuationOf(t, u) PROVE RunTypes'
    BY <2>5 DEF CallContinuationOf, Calls, RunTypes
  <2>6. ASSUME CatchError(t) PROVE RunTypes'
    BY <2>6 DEF CatchError, RunTypes
  <2>7. ASSUME MarkError(t) PROVE RunTypes'
    BY <2>7 DEF MarkError, RunTypes
  <2>8. ASSUME RootExit(t) PROVE RunTypes'
    BY <2>8 DEF RootExit, RunTypes
  <2>9. ASSUME Lock(t) \/ Yield(t) \/ Longjmp(t) \/ LeaveRun(t) PROVE RunTypes'
    BY <2>9 DEF RunTypes, runVars, Lock, Yield, Longjmp, LeaveRun
  <2> QED BY <1>1, <2>1, <2>2, <2>3, <2>4, <2>5, <2>6, <2>7, <2>8, <2>9 DEF RunStep
<1>2. ASSUME NEW t \in Threads, ThreadStep(t) PROVE RunTypes'
  <2>1. ASSUME SetUp(t) PROVE RunTypes'
    BY <2>1 DEF SetUp, RunTypes
  <2>2. ASSUME NEW u \in Threads, MakeThread(t, u) PROVE RunTypes'
    BY <2>2 DEF MakeThread, Calls, RunTypes
  <2>3. ASSUME NEW u \in Threads, ThreadJoin(t, u) PROVE RunTypes'
    BY <2>3 DEF ThreadJoin, Calls, Throw, RunTypes, runVars
  <2>4. ASSUME JoinLoop(t) PROVE RunTypes'
    BY <2>4 DEF JoinLoop, Return, Throw, RunTypes, LocalsInv, runVars, ThreadTypes
  <2>5. ASSUME FinishThread(t) \/ FinishMain \/ JoinWake(t) PROVE RunTypes'
    BY <2>5 DEF RunTypes, runVars, FinishThread, FinishMain, JoinWake
  <2> QED BY <1>2, <2>1, <2>2, <2>3, <2>4, <2>5 DEF ThreadStep
<1>3. ASSUME NEW t \in Threads, MutexStep(t) PROVE RunTypes'
  BY <1>3 DEF MutexStep, RunTypes, runVars, MakeMutex, Calls, Return, MutexLock,
     Relock, StartLock, Throw, MutexTrylock, MutexUnlock, PthreadLock, OwnMutex,
     PthreadTrylock, OwnTried
<1>4. ASSUME NEW t \in Threads, CondvarStep(t) PROVE RunTypes'
  BY <1>4 DEF CondvarStep, RunTypes, runVars, MakeCondvar, Calls, Return, NotOwner,
     Throw, CondvarWait, Owns, CondvarSignal, WakeAll, CondvarBroadcast,
     PthreadWait, PthreadWake, RestoreOwner
<1>5. ASSUME NEW t \in Threads, Spurious(t) PROVE RunTypes'
  BY <1>5 DEF Spurious, RunTypes, runVars, SpuriousJoinWake, SpuriousWake
<1>6. CASE UNCHANGED vars
  BY <1>6 DEF vars, RunTypes, gilVars, runVars, threadVars, mutexVars, condVars
<1> QED BY <1>1, <1>2, <1>3, <1>4, <1>5, <1>6 DEF Next, Step

\* The types of the variables that concern joining.
LEMMA ThreadTypesStep ==
  ThreadTypes /\ LocalsInv /\ [Next]_vars => ThreadTypes'
<1> SUFFICES ASSUME ThreadTypes, LocalsInv, [Next]_vars PROVE ThreadTypes'
  OBVIOUS
<1> USE ThreadsAssumption
<1>1. ASSUME NEW t \in Threads, RunStep(t) PROVE ThreadTypes'
  BY <1>1 DEF RunStep, ThreadTypes, Statuses, threadVars, Lock, Yield, Longjmp,
     OtherStep, Calls, Return, RaiseError, Throw, MarkRoot, CallRoot,
     CallContinuationOf, CatchError, MarkError, RootExit, LeaveRun
<1>2. ASSUME NEW t \in Threads, ThreadStep(t) PROVE ThreadTypes'
  <2>1. ASSUME JoinLoop(t) PROVE ThreadTypes'
    BY <2>1 DEF JoinLoop, Return, Throw, ThreadTypes, Statuses, LocalsInv
  <2>2. ASSUME SetUp(t) \/ FinishThread(t) \/ FinishMain
          \/ (\E u \in Threads : MakeThread(t, u)) \/ (\E u \in Threads : ThreadJoin(t, u))
          \/ JoinWake(t) PROVE ThreadTypes'
    BY <2>2 DEF ThreadTypes, Statuses, threadVars, SetUp, FinishThread, FinishMain,
     MakeThread, Calls, ThreadJoin, Throw, JoinWake
  <2> QED BY <1>2, <2>1, <2>2 DEF ThreadStep
<1>3. ASSUME NEW t \in Threads, MutexStep(t) PROVE ThreadTypes'
  BY <1>3 DEF MutexStep, ThreadTypes, Statuses, threadVars, MakeMutex, Calls,
     Return, MutexLock, Relock, StartLock, Throw, MutexTrylock, MutexUnlock,
     PthreadLock, OwnMutex, PthreadTrylock, OwnTried
<1>4. ASSUME NEW t \in Threads, CondvarStep(t) PROVE ThreadTypes'
  BY <1>4 DEF CondvarStep, ThreadTypes, Statuses, threadVars, MakeCondvar, Calls,
     Return, NotOwner, Throw, CondvarWait, Owns, CondvarSignal, WakeAll,
     CondvarBroadcast, PthreadWait, PthreadWake, RestoreOwner
<1>5. ASSUME NEW t \in Threads, Spurious(t) PROVE ThreadTypes'
  BY <1>5 DEF Spurious, ThreadTypes, Statuses, threadVars, SpuriousJoinWake,
     SpuriousWake
<1>6. CASE UNCHANGED vars
  BY <1>6 DEF vars, ThreadTypes, Statuses, gilVars, runVars, threadVars, mutexVars,
     condVars
<1> QED BY <1>1, <1>2, <1>3, <1>4, <1>5, <1>6 DEF Next, Step

\* The types of the mutexes; here the limit of the recursion count.
LEMMA MutexTypesStep ==
  MutexTypes /\ CondTypes /\ OwnerAgrees /\ LocalsInv /\ [Next]_vars => MutexTypes'
<1> SUFFICES ASSUME MutexTypes, CondTypes, OwnerAgrees, LocalsInv, [Next]_vars
              PROVE MutexTypes'
  OBVIOUS
<1> USE ThreadsAssumption
<1>1. ASSUME NEW t \in Threads, RunStep(t) PROVE MutexTypes'
  BY <1>1 DEF RunStep, MutexTypes, mutexVars, Lock, Yield, Longjmp, OtherStep,
     Calls, Return, RaiseError, Throw, MarkRoot, CallRoot, CallContinuationOf,
     CatchError, MarkError, RootExit, LeaveRun
<1>2. ASSUME NEW t \in Threads, ThreadStep(t) PROVE MutexTypes'
  BY <1>2 DEF ThreadStep, MutexTypes, mutexVars, SetUp, FinishThread, FinishMain,
     MakeThread, Calls, ThreadJoin, Throw, JoinLoop, Return, JoinWake
<1>3. ASSUME NEW t \in Threads, MutexStep(t) PROVE MutexTypes'
  <2>1. ASSUME NEW m \in Mutexes, MakeMutex(t, m) PROVE MutexTypes'
    BY <2>1 DEF MakeMutex, Calls, Return, MutexTypes
  <2>2. ASSUME NEW m \in Mutexes, MutexLock(t, m) PROVE MutexTypes'
    BY <2>2 DEF MutexLock, Relock, StartLock, Calls, Return, Throw, MutexTypes
  <2>3. ASSUME NEW m \in Mutexes, MutexTrylock(t, m) PROVE MutexTypes'
    BY <2>3 DEF MutexTrylock, Relock, Calls, Return, Throw, MutexTypes, mutexVars
  <2>4. ASSUME NEW m \in Mutexes, MutexUnlock(t, m) PROVE MutexTypes'
    BY <2>4 DEF MutexUnlock, Calls, Return, Throw, MutexTypes, OwnerAgrees
  <2>5. ASSUME PthreadLock(t) PROVE MutexTypes'
    BY <2>5 DEF PthreadLock, MutexTypes
  <2>6. ASSUME OwnMutex(t) PROVE MutexTypes'
    BY <2>6 DEF OwnMutex, Return, MutexTypes, LocalsInv, Locking
  <2>7. ASSUME PthreadTrylock(t) PROVE MutexTypes'
    BY <2>7 DEF PthreadTrylock, MutexTypes
  <2>8. ASSUME OwnTried(t) PROVE MutexTypes'
    BY <2>8 DEF OwnTried, Return, MutexTypes, LocalsInv, Trying
  <2> QED BY <1>3, <2>1, <2>2, <2>3, <2>4, <2>5, <2>6, <2>7, <2>8 DEF MutexStep
<1>4. ASSUME NEW t \in Threads, CondvarStep(t) PROVE MutexTypes'
  <2>1. ASSUME NEW c \in Condvars, CondvarWait(t, c) PROVE MutexTypes'
    BY <2>1 DEF CondvarWait, Calls, Owns, MutexTypes, CondTypes
  <2>2. ASSUME PthreadWait(t) PROVE MutexTypes'
    BY <2>2 DEF PthreadWait, MutexTypes
  <2>3. ASSUME RestoreOwner(t) PROVE MutexTypes'
    BY <2>3 DEF RestoreOwner, Return, MutexTypes, LocalsInv, Waiting, CondTypes
  <2>4. ASSUME (\E c \in Condvars, m \in Mutexes : MakeCondvar(t, c, m))
          \/ (\E c \in Condvars : NotOwner(t, c))
          \/ (\E c \in Condvars : CondvarSignal(t, c))
          \/ (\E c \in Condvars : CondvarBroadcast(t, c)) \/ PthreadWake(t)
          PROVE MutexTypes'
    BY <2>4 DEF MutexTypes, mutexVars, MakeCondvar, Calls, Return, NotOwner, Throw,
     CondvarSignal, WakeAll, Owns, CondvarBroadcast, PthreadWake
  <2> QED BY <1>4, <2>1, <2>2, <2>3, <2>4 DEF CondvarStep
<1>5. ASSUME NEW t \in Threads, Spurious(t) PROVE MutexTypes'
  BY <1>5 DEF Spurious, MutexTypes, mutexVars, SpuriousJoinWake, SpuriousWake
<1>6. CASE UNCHANGED vars
  BY <1>6 DEF vars, MutexTypes, gilVars, runVars, threadVars, mutexVars, condVars
<1> QED BY <1>1, <1>2, <1>3, <1>4, <1>5, <1>6 DEF Next, Step

\* The types of the condition variables.
LEMMA CondTypesStep ==
  CondTypes /\ MutexTypes /\ LocalsInv /\ [Next]_vars => CondTypes'
<1> SUFFICES ASSUME CondTypes, MutexTypes, LocalsInv, [Next]_vars PROVE CondTypes'
  OBVIOUS
<1> USE ThreadsAssumption
<1>1. ASSUME NEW t \in Threads, RunStep(t) PROVE CondTypes'
  BY <1>1 DEF RunStep, CondTypes, condVars, Lock, Yield, Longjmp, OtherStep, Calls,
     Return, RaiseError, Throw, MarkRoot, CallRoot, CallContinuationOf, CatchError,
     MarkError, RootExit, LeaveRun
<1>2. ASSUME NEW t \in Threads, ThreadStep(t) PROVE CondTypes'
  BY <1>2 DEF ThreadStep, CondTypes, condVars, SetUp, FinishThread, FinishMain,
     MakeThread, Calls, ThreadJoin, Throw, JoinLoop, Return, JoinWake
<1>3. ASSUME NEW t \in Threads, MutexStep(t) PROVE CondTypes'
  BY <1>3 DEF MutexStep, CondTypes, condVars, MakeMutex, Calls, Return, MutexLock,
     Relock, StartLock, Throw, MutexTrylock, MutexUnlock, PthreadLock, OwnMutex,
     PthreadTrylock, OwnTried
<1>4. ASSUME NEW t \in Threads, CondvarStep(t) PROVE CondTypes'
  <2>1. ASSUME NEW c \in Condvars, CondvarWait(t, c) PROVE CondTypes'
    BY <2>1 DEF CondvarWait, Calls, Owns, CondTypes, MutexTypes
  <2>2. ASSUME PthreadWait(t) PROVE CondTypes'
    BY <2>2 DEF PthreadWait, CondTypes
  <2>3. ASSUME RestoreOwner(t) PROVE CondTypes'
    BY <2>3 DEF RestoreOwner, Return, CondTypes
  <2>4. ASSUME (\E c \in Condvars, m \in Mutexes : MakeCondvar(t, c, m))
          \/ (\E c \in Condvars : NotOwner(t, c))
          \/ (\E c \in Condvars : CondvarSignal(t, c))
          \/ (\E c \in Condvars : CondvarBroadcast(t, c)) \/ PthreadWake(t) PROVE CondTypes'
    BY <2>4 DEF CondTypes, condVars, MakeCondvar, Calls, Return, NotOwner, Throw,
     CondvarSignal, WakeAll, Owns, CondvarBroadcast, PthreadWake
  <2> QED BY <1>4, <2>1, <2>2, <2>3, <2>4 DEF CondvarStep
<1>5. ASSUME NEW t \in Threads, Spurious(t) PROVE CondTypes'
  <2>1. ASSUME SpuriousWake(t) PROVE CondTypes'
    BY <2>1 DEF SpuriousWake, CondTypes
  <2>2. ASSUME SpuriousJoinWake(t) PROVE CondTypes'
    BY <2>2 DEF CondTypes, condVars, SpuriousJoinWake
  <2> QED BY <1>5, <2>1, <2>2 DEF Spurious
<1>6. CASE UNCHANGED vars
  BY <1>6 DEF vars, CondTypes, gilVars, runVars, threadVars, mutexVars, condVars
<1> QED BY <1>1, <1>2, <1>3, <1>4, <1>5, <1>6 DEF Next, Step
\* The GIL has one holder, who took it once.
LEMMA GilOnceStep ==
  GilTypes /\ PcTypes /\ GilOnce /\ CondQueues /\ JoinersAwaitTheLiving /\ LocalsInv
    /\ [Next]_vars => GilOnce'
<1> SUFFICES ASSUME GilTypes, PcTypes, GilOnce, CondQueues, JoinersAwaitTheLiving,
              LocalsInv, [Next]_vars PROVE GilOnce'
  OBVIOUS
<1> USE ThreadsAssumption
<1>1. ASSUME NEW t \in Threads, RunStep(t) PROVE GilOnce'
  <2>1. ASSUME Lock(t) PROVE GilOnce'
    <3>1. gil = Nil /\ gil' = t /\ gil_count' = [gil_count EXCEPT ![t] = 1]
      BY <2>1, LockWanted DEF Lock
    <3> QED BY <2>1, <3>1 DEF Lock, GilOnce, Holding, Goto, PcTypes, GilTypes,
     Wanting
  <2>2. ASSUME Yield(t) PROVE GilOnce'
    <3>1. gil' = Nil /\ gil_count' = [gil_count EXCEPT ![t] = 0]
      BY <2>2, UnlockHeld DEF Yield, Holding
    <3> QED BY <2>2, <3>1 DEF Yield, GilOnce, Holding, Goto, PcTypes, GilTypes,
     gilVars
  <2>3. ASSUME Longjmp(t) PROVE GilOnce'
    <3>1. gil' = Nil /\ gil_count' = [gil_count EXCEPT ![t] = 0]
      BY <2>3, UnlockAllHeld DEF Longjmp, Holding
    <3> QED BY <2>3, <3>1 DEF Longjmp, GilOnce, Holding, Goto, PcTypes, GilTypes
  <2>4. ASSUME LeaveRun(t) PROVE GilOnce'
    <3>1. gil' = Nil /\ gil_count' = [gil_count EXCEPT ![t] = 0]
      BY <2>4, UnlockHeld DEF LeaveRun, Holding
    <3> QED BY <2>4, <3>1 DEF LeaveRun, GilOnce, Holding, Goto, PcTypes, GilTypes,
     gilVars
  <2>5. ASSUME OtherStep(t) \/ RaiseError(t) \/ MarkRoot(t) \/ CallRoot(t)
          \/ (\E u \in Threads : CallContinuationOf(t, u)) \/ CatchError(t) \/ MarkError(t)
          \/ RootExit(t) PROVE GilOnce'
    BY <2>5 DEF GilOnce, Holding, Goto, PcTypes, GilTypes, gilVars, OtherStep,
     Calls, Return, RaiseError, Throw, MarkRoot, CallRoot, CallContinuationOf,
     CatchError, MarkError, RootExit
  <2> QED BY <1>1, <2>1, <2>2, <2>3, <2>4, <2>5 DEF RunStep
<1>2. ASSUME NEW t \in Threads, ThreadStep(t) PROVE GilOnce'
  <2>1. ASSUME SetUp(t) PROVE GilOnce'
    <3>1. gil' = Nil /\ gil_count' = [gil_count EXCEPT ![t] = 0]
      BY <2>1, UnlockHeld DEF SetUp, Holding
    <3> QED BY <2>1, <3>1 DEF SetUp, GilOnce, Holding, Goto, PcTypes, GilTypes,
     gilVars
  <2>2. ASSUME FinishThread(t) PROVE GilOnce'
    <3>1. gil' = Nil /\ gil_count' = [gil_count EXCEPT ![t] = 0]
      BY <2>2, UnlockHeld DEF FinishThread, Holding
    <3> QED BY <2>2, <3>1 DEF FinishThread, GilOnce, Holding, Goto, PcTypes,
     GilTypes, JoinersAwaitTheLiving
  <2>3. ASSUME JoinLoop(t) PROVE GilOnce'
    BY <2>3 DEF JoinLoop, Return, Throw, GilOnce, Holding, Goto, PcTypes, GilTypes
  <2>4. ASSUME JoinWake(t) PROVE GilOnce'
    BY <2>4 DEF JoinWake, GilOnce, Holding, Goto, PcTypes, GilTypes
  <2>5. ASSUME FinishMain \/ (\E u \in Threads : MakeThread(t, u))
          \/ (\E u \in Threads : ThreadJoin(t, u)) PROVE GilOnce'
    BY <2>5 DEF GilOnce, Holding, Goto, PcTypes, GilTypes, gilVars, FinishMain,
     MakeThread, Calls, ThreadJoin, Throw
  <2> QED BY <1>2, <2>1, <2>2, <2>3, <2>4, <2>5 DEF ThreadStep
<1>3. ASSUME NEW t \in Threads, MutexStep(t) PROVE GilOnce'
  <2>1. ASSUME NEW m \in Mutexes, MutexLock(t, m) PROVE GilOnce'
    <3>1. \/ UNCHANGED gilVars /\ pc'[t] \in Holding
          \/ gil' = Nil /\ gil_count' = [gil_count EXCEPT ![t] = 0]
      BY <2>1, UnlockHeld DEF MutexLock, Relock, StartLock, Calls, Return, Throw,
     Holding, Goto, PcTypes
    <3> QED BY <2>1, <3>1 DEF MutexLock, Relock, StartLock, Calls, Return, Throw,
     GilOnce, Holding, Goto, PcTypes, GilTypes, gilVars
  <2>2. ASSUME NEW m \in Mutexes, MutexTrylock(t, m) PROVE GilOnce'
    <3>1. \/ UNCHANGED gilVars /\ pc'[t] \in Holding
          \/ gil' = Nil /\ gil_count' = [gil_count EXCEPT ![t] = 0]
      BY <2>2, UnlockHeld DEF MutexTrylock, Relock, Calls, Return, Throw, Holding,
     Goto, PcTypes
    <3> QED BY <2>2, <3>1 DEF MutexTrylock, Relock, Calls, Return, Throw, GilOnce,
     Holding, Goto, PcTypes, GilTypes, gilVars
  <2>3. ASSUME (\E m \in Mutexes : MakeMutex(t, m))
          \/ (\E m \in Mutexes : MutexUnlock(t, m)) \/ PthreadLock(t) \/ OwnMutex(t)
          \/ PthreadTrylock(t) \/ OwnTried(t) PROVE GilOnce'
    BY <2>3 DEF GilOnce, Holding, Goto, PcTypes, GilTypes, gilVars, MakeMutex,
     Calls, Return, MutexUnlock, Throw, PthreadLock, OwnMutex, PthreadTrylock,
     OwnTried
  <2> QED BY <1>3, <2>1, <2>2, <2>3 DEF MutexStep
<1>4. ASSUME NEW t \in Threads, CondvarStep(t) PROVE GilOnce'
  <2>1. ASSUME NEW c \in Condvars, CondvarWait(t, c) PROVE GilOnce'
    <3>1. gil' = Nil /\ gil_count' = [gil_count EXCEPT ![t] = 0]
      BY <2>1, UnlockHeld DEF CondvarWait, Calls, Owns, Holding
    <3> QED BY <2>1, <3>1 DEF CondvarWait, Calls, Owns, GilOnce, Holding, Goto,
     PcTypes, GilTypes, gilVars
  <2>2. ASSUME NEW c \in Condvars, CondvarSignal(t, c) PROVE GilOnce'
    BY <2>2 DEF CondvarSignal, WakeAll, Calls, Owns, GilOnce, Holding, Goto,
     PcTypes, GilTypes, gilVars, CondQueues
  <2>3. ASSUME NEW c \in Condvars, CondvarBroadcast(t, c) PROVE GilOnce'
    BY <2>3 DEF CondvarBroadcast, WakeAll, Calls, Owns, GilOnce, Holding, Goto,
     PcTypes, GilTypes, gilVars, CondQueues
  <2>4. ASSUME (\E c \in Condvars, m \in Mutexes : MakeCondvar(t, c, m))
          \/ (\E c \in Condvars : NotOwner(t, c)) \/ PthreadWait(t) \/ PthreadWake(t)
          \/ RestoreOwner(t) PROVE GilOnce'
    BY <2>4 DEF GilOnce, Holding, Goto, PcTypes, GilTypes, gilVars, MakeCondvar,
     Calls, Return, NotOwner, Throw, PthreadWait, PthreadWake, RestoreOwner
  <2> QED BY <1>4, <2>1, <2>2, <2>3, <2>4 DEF CondvarStep
<1>5. ASSUME NEW t \in Threads, Spurious(t) PROVE GilOnce'
  <2>1. ASSUME SpuriousJoinWake(t) PROVE GilOnce'
    BY <2>1 DEF SpuriousJoinWake, GilOnce, Holding, Goto, PcTypes, GilTypes, gilVars
  <2>2. ASSUME SpuriousWake(t) PROVE GilOnce'
    BY <2>2 DEF GilOnce, Holding, Goto, PcTypes, GilTypes, gilVars, SpuriousWake
  <2> QED BY <1>5, <2>1, <2>2 DEF Spurious
<1>6. CASE UNCHANGED vars
  BY <1>6 DEF vars, GilOnce, Holding, Goto, PcTypes, GilTypes, gilVars, runVars,
     threadVars, mutexVars, condVars
<1> QED BY <1>1, <1>2, <1>3, <1>4, <1>5, <1>6 DEF Next, Step
\* A thread has ended exactly when it is dead.
LEMMA EndedStep ==
  PcTypes /\ ThreadTypes /\ EndedInv /\ JoinersAwaitTheLiving /\ CondQueues
    /\ [Next]_vars => EndedInv'
<1> SUFFICES ASSUME PcTypes, ThreadTypes, EndedInv, JoinersAwaitTheLiving, CondQueues,
              [Next]_vars PROVE EndedInv'
  OBVIOUS
<1> USE ThreadsAssumption
<1>1. ASSUME NEW t \in Threads, RunStep(t) PROVE EndedInv'
  <2>1. ASSUME Lock(t) PROVE EndedInv'
    BY <2>1 DEF Lock, EndedInv, Ended, Goto, PcTypes, ThreadTypes, threadVars,
     Wanting
  <2>2. ASSUME Yield(t) \/ Longjmp(t) \/ OtherStep(t) \/ RaiseError(t) \/ MarkRoot(t)
          \/ CallRoot(t) \/ (\E u \in Threads : CallContinuationOf(t, u)) \/ CatchError(t)
          \/ MarkError(t) \/ RootExit(t) \/ LeaveRun(t) PROVE EndedInv'
    BY <2>2 DEF EndedInv, Ended, Goto, PcTypes, ThreadTypes, threadVars, Yield,
     Longjmp, OtherStep, Calls, Return, RaiseError, Throw, MarkRoot, CallRoot,
     CallContinuationOf, CatchError, MarkError, RootExit, LeaveRun
  <2> QED BY <1>1, <2>1, <2>2 DEF RunStep
<1>2. ASSUME NEW t \in Threads, ThreadStep(t) PROVE EndedInv'
  <2>1. ASSUME FinishThread(t) PROVE EndedInv'
    BY <2>1 DEF FinishThread, EndedInv, Ended, Goto, PcTypes, ThreadTypes,
     threadVars, JoinersAwaitTheLiving
  <2>2. ASSUME SetUp(t) \/ FinishMain \/ (\E u \in Threads : MakeThread(t, u))
          \/ (\E u \in Threads : ThreadJoin(t, u)) \/ JoinLoop(t) \/ JoinWake(t)
          PROVE EndedInv'
    BY <2>2 DEF EndedInv, Ended, Goto, PcTypes, ThreadTypes, threadVars, SetUp,
     FinishMain, MakeThread, Calls, ThreadJoin, Throw, JoinLoop, Return, JoinWake
  <2> QED BY <1>2, <2>1, <2>2 DEF ThreadStep
<1>3. ASSUME NEW t \in Threads, MutexStep(t) PROVE EndedInv'
  BY <1>3 DEF MutexStep, EndedInv, Ended, Goto, PcTypes, ThreadTypes, threadVars,
     MakeMutex, Calls, Return, MutexLock, Relock, StartLock, Throw, MutexTrylock,
     MutexUnlock, PthreadLock, OwnMutex, PthreadTrylock, OwnTried
<1>4. ASSUME NEW t \in Threads, CondvarStep(t) PROVE EndedInv'
  <2>1. ASSUME NEW c \in Condvars, CondvarSignal(t, c) PROVE EndedInv'
    BY <2>1 DEF CondvarSignal, WakeAll, Calls, Owns, EndedInv, Ended, Goto, PcTypes,
     ThreadTypes, threadVars, CondQueues
  <2>2. ASSUME NEW c \in Condvars, CondvarBroadcast(t, c) PROVE EndedInv'
    BY <2>2 DEF CondvarBroadcast, WakeAll, Calls, Owns, EndedInv, Ended, Goto,
     PcTypes, ThreadTypes, threadVars, CondQueues
  <2>3. ASSUME (\E c \in Condvars, m \in Mutexes : MakeCondvar(t, c, m))
          \/ (\E c \in Condvars : NotOwner(t, c)) \/ (\E c \in Condvars : CondvarWait(t, c))
          \/ PthreadWait(t) \/ PthreadWake(t) \/ RestoreOwner(t) PROVE EndedInv'
    BY <2>3 DEF EndedInv, Ended, Goto, PcTypes, ThreadTypes, threadVars,
     MakeCondvar, Calls, Return, NotOwner, Throw, CondvarWait, Owns, PthreadWait,
     PthreadWake, RestoreOwner
  <2> QED BY <1>4, <2>1, <2>2, <2>3 DEF CondvarStep
<1>5. ASSUME NEW t \in Threads, Spurious(t) PROVE EndedInv'
  BY <1>5 DEF Spurious, EndedInv, Ended, Goto, PcTypes, ThreadTypes, threadVars,
     SpuriousJoinWake, SpuriousWake
<1>6. CASE UNCHANGED vars
  BY <1>6 DEF vars, EndedInv, Ended, Goto, PcTypes, ThreadTypes, threadVars,
     gilVars, runVars, mutexVars, condVars
<1> QED BY <1>1, <1>2, <1>3, <1>4, <1>5, <1>6 DEF Next, Step

\* Who is a root of the collector.
LEMMA LiveRootedStep ==
  PcTypes /\ ThreadTypes /\ LiveRooted /\ JoinersAwaitTheLiving /\ CondQueues
    /\ [Next]_vars => LiveRooted'
<1> SUFFICES ASSUME PcTypes, ThreadTypes, LiveRooted, JoinersAwaitTheLiving, CondQueues,
              [Next]_vars PROVE LiveRooted'
  OBVIOUS
<1> USE ThreadsAssumption
<1>1. ASSUME NEW t \in Threads, RunStep(t) PROVE LiveRooted'
  <2>1. ASSUME Lock(t) PROVE LiveRooted'
    BY <2>1 DEF Lock, LiveRooted, Goto, PcTypes, ThreadTypes, threadVars, Wanting
  <2>2. ASSUME Yield(t) \/ Longjmp(t) \/ OtherStep(t) \/ RaiseError(t) \/ MarkRoot(t)
          \/ CallRoot(t) \/ (\E u \in Threads : CallContinuationOf(t, u)) \/ CatchError(t)
          \/ MarkError(t) \/ RootExit(t) \/ LeaveRun(t) PROVE LiveRooted'
    BY <2>2 DEF LiveRooted, Goto, PcTypes, ThreadTypes, threadVars, Yield, Longjmp,
     OtherStep, Calls, Return, RaiseError, Throw, MarkRoot, CallRoot,
     CallContinuationOf, CatchError, MarkError, RootExit, LeaveRun
  <2> QED BY <1>1, <2>1, <2>2 DEF RunStep
<1>2. ASSUME NEW t \in Threads, ThreadStep(t) PROVE LiveRooted'
  <2>1. ASSUME FinishThread(t) PROVE LiveRooted'
    BY <2>1 DEF FinishThread, LiveRooted, Goto, PcTypes, ThreadTypes, threadVars,
     JoinersAwaitTheLiving
  <2>2. ASSUME SetUp(t) \/ FinishMain \/ (\E u \in Threads : MakeThread(t, u))
          \/ (\E u \in Threads : ThreadJoin(t, u)) \/ JoinLoop(t) \/ JoinWake(t)
          PROVE LiveRooted'
    BY <2>2 DEF LiveRooted, Goto, PcTypes, ThreadTypes, threadVars, SetUp,
     FinishMain, MakeThread, Calls, ThreadJoin, Throw, JoinLoop, Return, JoinWake
  <2> QED BY <1>2, <2>1, <2>2 DEF ThreadStep
<1>3. ASSUME NEW t \in Threads, MutexStep(t) PROVE LiveRooted'
  BY <1>3 DEF MutexStep, LiveRooted, Goto, PcTypes, ThreadTypes, threadVars,
     MakeMutex, Calls, Return, MutexLock, Relock, StartLock, Throw, MutexTrylock,
     MutexUnlock, PthreadLock, OwnMutex, PthreadTrylock, OwnTried
<1>4. ASSUME NEW t \in Threads, CondvarStep(t) PROVE LiveRooted'
  <2>1. ASSUME NEW c \in Condvars, CondvarSignal(t, c) PROVE LiveRooted'
    BY <2>1 DEF CondvarSignal, WakeAll, Calls, Owns, LiveRooted, Goto, PcTypes,
     ThreadTypes, threadVars, CondQueues
  <2>2. ASSUME NEW c \in Condvars, CondvarBroadcast(t, c) PROVE LiveRooted'
    BY <2>2 DEF CondvarBroadcast, WakeAll, Calls, Owns, LiveRooted, Goto, PcTypes,
     ThreadTypes, threadVars, CondQueues
  <2>3. ASSUME (\E c \in Condvars, m \in Mutexes : MakeCondvar(t, c, m))
          \/ (\E c \in Condvars : NotOwner(t, c)) \/ (\E c \in Condvars : CondvarWait(t, c))
          \/ PthreadWait(t) \/ PthreadWake(t) \/ RestoreOwner(t) PROVE LiveRooted'
    BY <2>3 DEF LiveRooted, Goto, PcTypes, ThreadTypes, threadVars, MakeCondvar,
     Calls, Return, NotOwner, Throw, CondvarWait, Owns, PthreadWait, PthreadWake,
     RestoreOwner
  <2> QED BY <1>4, <2>1, <2>2, <2>3 DEF CondvarStep
<1>5. ASSUME NEW t \in Threads, Spurious(t) PROVE LiveRooted'
  BY <1>5 DEF Spurious, LiveRooted, Goto, PcTypes, ThreadTypes, threadVars,
     SpuriousJoinWake, SpuriousWake
<1>6. CASE UNCHANGED vars
  BY <1>6 DEF vars, LiveRooted, Goto, PcTypes, ThreadTypes, threadVars, gilVars,
     runVars, mutexVars, condVars
<1> QED BY <1>1, <1>2, <1>3, <1>4, <1>5, <1>6 DEF Next, Step

\* Joiners sleep on the threads that have not ended.
LEMMA JoinersStep ==
  PcTypes /\ ThreadTypes /\ EndedInv /\ JoinersAwaitTheLiving /\ CondQueues /\ LocalsInv
    /\ [Next]_vars => JoinersAwaitTheLiving'
<1> SUFFICES ASSUME PcTypes, ThreadTypes, EndedInv, JoinersAwaitTheLiving, CondQueues,
              LocalsInv, [Next]_vars PROVE JoinersAwaitTheLiving'
  OBVIOUS
<1> USE ThreadsAssumption
<1>1. ASSUME NEW t \in Threads, RunStep(t) PROVE JoinersAwaitTheLiving'
  <2>1. ASSUME Lock(t) PROVE JoinersAwaitTheLiving'
    BY <2>1 DEF Lock, JoinersAwaitTheLiving, EndedInv, Ended, Goto, PcTypes,
     ThreadTypes, threadVars, Wanting
  <2>2. ASSUME Yield(t) \/ Longjmp(t) \/ OtherStep(t) \/ RaiseError(t) \/ MarkRoot(t)
          \/ CallRoot(t) \/ (\E u \in Threads : CallContinuationOf(t, u)) \/ CatchError(t)
          \/ MarkError(t) \/ RootExit(t) \/ LeaveRun(t) PROVE JoinersAwaitTheLiving'
    BY <2>2 DEF JoinersAwaitTheLiving, EndedInv, Ended, Goto, PcTypes, ThreadTypes,
     threadVars, Yield, Longjmp, OtherStep, Calls, Return, RaiseError, Throw,
     MarkRoot, CallRoot, CallContinuationOf, CatchError, MarkError, RootExit,
     LeaveRun
  <2> QED BY <1>1, <2>1, <2>2 DEF RunStep
<1>2. ASSUME NEW t \in Threads, ThreadStep(t) PROVE JoinersAwaitTheLiving'
  <2>1. ASSUME JoinLoop(t) PROVE JoinersAwaitTheLiving'
    BY <2>1 DEF JoinLoop, Return, Throw, JoinersAwaitTheLiving, EndedInv, Ended,
     Goto, PcTypes, ThreadTypes, threadVars, LocalsInv
  <2>2. ASSUME SetUp(t) \/ FinishThread(t) \/ FinishMain
          \/ (\E u \in Threads : MakeThread(t, u)) \/ (\E u \in Threads : ThreadJoin(t, u))
          \/ JoinWake(t) PROVE JoinersAwaitTheLiving'
    BY <2>2 DEF JoinersAwaitTheLiving, EndedInv, Ended, Goto, PcTypes, ThreadTypes,
     threadVars, SetUp, FinishThread, FinishMain, MakeThread, Calls, ThreadJoin,
     Throw, JoinWake
  <2> QED BY <1>2, <2>1, <2>2 DEF ThreadStep
<1>3. ASSUME NEW t \in Threads, MutexStep(t) PROVE JoinersAwaitTheLiving'
  BY <1>3 DEF MutexStep, JoinersAwaitTheLiving, EndedInv, Ended, Goto, PcTypes,
     ThreadTypes, threadVars, MakeMutex, Calls, Return, MutexLock, Relock,
     StartLock, Throw, MutexTrylock, MutexUnlock, PthreadLock, OwnMutex,
     PthreadTrylock, OwnTried
<1>4. ASSUME NEW t \in Threads, CondvarStep(t) PROVE JoinersAwaitTheLiving'
  <2>1. ASSUME NEW c \in Condvars, CondvarSignal(t, c) PROVE JoinersAwaitTheLiving'
    BY <2>1 DEF CondvarSignal, WakeAll, Calls, Owns, JoinersAwaitTheLiving,
     EndedInv, Ended, Goto, PcTypes, ThreadTypes, threadVars, CondQueues
  <2>2. ASSUME NEW c \in Condvars, CondvarBroadcast(t, c) PROVE JoinersAwaitTheLiving'
    BY <2>2 DEF CondvarBroadcast, WakeAll, Calls, Owns, JoinersAwaitTheLiving,
     EndedInv, Ended, Goto, PcTypes, ThreadTypes, threadVars, CondQueues
  <2>3. ASSUME (\E c \in Condvars, m \in Mutexes : MakeCondvar(t, c, m))
          \/ (\E c \in Condvars : NotOwner(t, c)) \/ (\E c \in Condvars : CondvarWait(t, c))
          \/ PthreadWait(t) \/ PthreadWake(t) \/ RestoreOwner(t)
          PROVE JoinersAwaitTheLiving'
    BY <2>3 DEF JoinersAwaitTheLiving, EndedInv, Ended, Goto, PcTypes, ThreadTypes,
     threadVars, MakeCondvar, Calls, Return, NotOwner, Throw, CondvarWait, Owns,
     PthreadWait, PthreadWake, RestoreOwner
  <2> QED BY <1>4, <2>1, <2>2, <2>3 DEF CondvarStep
<1>5. ASSUME NEW t \in Threads, Spurious(t) PROVE JoinersAwaitTheLiving'
  <2>1. ASSUME SpuriousJoinWake(t) PROVE JoinersAwaitTheLiving'
    BY <2>1 DEF SpuriousJoinWake, JoinersAwaitTheLiving, EndedInv, Ended, Goto,
     PcTypes, ThreadTypes, threadVars, LocalsInv
  <2>2. ASSUME SpuriousWake(t) PROVE JoinersAwaitTheLiving'
    BY <2>2 DEF JoinersAwaitTheLiving, EndedInv, Ended, Goto, PcTypes, ThreadTypes,
     threadVars, SpuriousWake
  <2> QED BY <1>5, <2>1, <2>2 DEF Spurious
<1>6. CASE UNCHANGED vars
  BY <1>6 DEF vars, JoinersAwaitTheLiving, EndedInv, Ended, Goto, PcTypes,
     ThreadTypes, threadVars, gilVars, runVars, mutexVars, condVars
<1> QED BY <1>1, <1>2, <1>3, <1>4, <1>5, <1>6 DEF Next, Step

\* The queues of the condition variables.
LEMMA CondQueuesStep ==
  PcTypes /\ CondTypes /\ JoinersAwaitTheLiving /\ CondQueues /\ LocalsInv
    /\ [Next]_vars => CondQueues'
<1> SUFFICES ASSUME PcTypes, CondTypes, JoinersAwaitTheLiving, CondQueues, LocalsInv,
              [Next]_vars PROVE CondQueues'
  OBVIOUS
<1> USE ThreadsAssumption
<1>1. ASSUME NEW t \in Threads, RunStep(t) PROVE CondQueues'
  <2>1. ASSUME Lock(t) PROVE CondQueues'
    BY <2>1 DEF Lock, CondQueues, Goto, PcTypes, CondTypes, condVars, Wanting
  <2>2. ASSUME Yield(t) \/ Longjmp(t) \/ OtherStep(t) \/ RaiseError(t) \/ MarkRoot(t)
          \/ CallRoot(t) \/ (\E u \in Threads : CallContinuationOf(t, u)) \/ CatchError(t)
          \/ MarkError(t) \/ RootExit(t) \/ LeaveRun(t) PROVE CondQueues'
    BY <2>2 DEF CondQueues, Goto, PcTypes, CondTypes, condVars, Yield, Longjmp,
     OtherStep, Calls, Return, RaiseError, Throw, MarkRoot, CallRoot,
     CallContinuationOf, CatchError, MarkError, RootExit, LeaveRun
  <2> QED BY <1>1, <2>1, <2>2 DEF RunStep
<1>2. ASSUME NEW t \in Threads, ThreadStep(t) PROVE CondQueues'
  <2>1. ASSUME FinishThread(t) PROVE CondQueues'
    BY <2>1 DEF FinishThread, CondQueues, Goto, PcTypes, CondTypes, condVars,
     JoinersAwaitTheLiving
  <2>2. ASSUME SetUp(t) \/ FinishMain \/ (\E u \in Threads : MakeThread(t, u))
          \/ (\E u \in Threads : ThreadJoin(t, u)) \/ JoinLoop(t) \/ JoinWake(t)
          PROVE CondQueues'
    BY <2>2 DEF CondQueues, Goto, PcTypes, CondTypes, condVars, SetUp, FinishMain,
     MakeThread, Calls, ThreadJoin, Throw, JoinLoop, Return, JoinWake
  <2> QED BY <1>2, <2>1, <2>2 DEF ThreadStep
<1>3. ASSUME NEW t \in Threads, MutexStep(t) PROVE CondQueues'
  BY <1>3 DEF MutexStep, CondQueues, Goto, PcTypes, CondTypes, condVars, MakeMutex,
     Calls, Return, MutexLock, Relock, StartLock, Throw, MutexTrylock, MutexUnlock,
     PthreadLock, OwnMutex, PthreadTrylock, OwnTried
<1>4. ASSUME NEW t \in Threads, CondvarStep(t) PROVE CondQueues'
  <2>1. ASSUME PthreadWait(t) PROVE CondQueues'
    BY <2>1 DEF PthreadWait, CondQueues, Goto, PcTypes, CondTypes, condVars,
     LocalsInv, Waiting
  <2>2. ASSUME (\E c \in Condvars, m \in Mutexes : MakeCondvar(t, c, m))
          \/ (\E c \in Condvars : NotOwner(t, c)) \/ (\E c \in Condvars : CondvarWait(t, c))
          \/ (\E c \in Condvars : CondvarSignal(t, c))
          \/ (\E c \in Condvars : CondvarBroadcast(t, c)) \/ PthreadWake(t)
          \/ RestoreOwner(t) PROVE CondQueues'
    BY <2>2 DEF CondQueues, Goto, PcTypes, CondTypes, condVars, MakeCondvar, Calls,
     Return, NotOwner, Throw, CondvarWait, Owns, CondvarSignal, WakeAll,
     CondvarBroadcast, PthreadWake, RestoreOwner
  <2> QED BY <1>4, <2>1, <2>2 DEF CondvarStep
<1>5. ASSUME NEW t \in Threads, Spurious(t) PROVE CondQueues'
  <2>1. ASSUME SpuriousWake(t) PROVE CondQueues'
    BY <2>1 DEF SpuriousWake, CondQueues, Goto, PcTypes, CondTypes, condVars,
     LocalsInv, Waiting
  <2>2. ASSUME SpuriousJoinWake(t) PROVE CondQueues'
    BY <2>2 DEF CondQueues, Goto, PcTypes, CondTypes, condVars, SpuriousJoinWake
  <2> QED BY <1>5, <2>1, <2>2 DEF Spurious
<1>6. CASE UNCHANGED vars
  BY <1>6 DEF vars, CondQueues, Goto, PcTypes, CondTypes, condVars, gilVars,
     runVars, threadVars, mutexVars
<1> QED BY <1>1, <1>2, <1>3, <1>4, <1>5, <1>6 DEF Next, Step

\* The locals of the handlers that block.
LEMMA LocalsStep ==
  PcTypes /\ CondTypes /\ MutexTypes /\ ThreadTypes /\ JoinersAwaitTheLiving /\ CondQueues
    /\ OwnerAgrees /\ LocalsInv /\ [Next]_vars => LocalsInv'
<1> SUFFICES ASSUME PcTypes, CondTypes, MutexTypes, ThreadTypes, JoinersAwaitTheLiving,
              CondQueues, OwnerAgrees, LocalsInv, [Next]_vars PROVE LocalsInv'
  OBVIOUS
<1> USE ThreadsAssumption
<1>1. ASSUME NEW t \in Threads, RunStep(t) PROVE LocalsInv'
  <2>1. ASSUME Lock(t) PROVE LocalsInv'
    BY <2>1 DEF Lock, LocalsInv, Locking, Trying, Waiting, Goto, PcTypes, CondTypes,
     MutexTypes, ThreadTypes, threadVars, mutexVars, condVars, Wanting
  <2>2. ASSUME Yield(t) \/ Longjmp(t) \/ OtherStep(t) \/ RaiseError(t) \/ MarkRoot(t)
          \/ CallRoot(t) \/ (\E u \in Threads : CallContinuationOf(t, u)) \/ CatchError(t)
          \/ MarkError(t) \/ RootExit(t) \/ LeaveRun(t) PROVE LocalsInv'
    BY <2>2 DEF LocalsInv, Locking, Trying, Waiting, Goto, PcTypes, CondTypes,
     MutexTypes, ThreadTypes, threadVars, mutexVars, condVars, Yield, Longjmp,
     OtherStep, Calls, Return, RaiseError, Throw, MarkRoot, CallRoot,
     CallContinuationOf, CatchError, MarkError, RootExit, LeaveRun
  <2> QED BY <1>1, <2>1, <2>2 DEF RunStep
<1>2. ASSUME NEW t \in Threads, ThreadStep(t) PROVE LocalsInv'
  <2>1. ASSUME FinishThread(t) PROVE LocalsInv'
    BY <2>1 DEF FinishThread, LocalsInv, Locking, Trying, Waiting, Goto, PcTypes,
     CondTypes, MutexTypes, ThreadTypes, threadVars, mutexVars, condVars,
     JoinersAwaitTheLiving
  <2>2. ASSUME SetUp(t) \/ FinishMain \/ (\E u \in Threads : MakeThread(t, u))
          \/ (\E u \in Threads : ThreadJoin(t, u)) \/ JoinLoop(t) \/ JoinWake(t)
          PROVE LocalsInv'
    BY <2>2 DEF LocalsInv, Locking, Trying, Waiting, Goto, PcTypes, CondTypes,
     MutexTypes, ThreadTypes, threadVars, mutexVars, condVars, SetUp, FinishMain,
     MakeThread, Calls, ThreadJoin, Throw, JoinLoop, Return, JoinWake
  <2> QED BY <1>2, <2>1, <2>2 DEF ThreadStep
<1>3. ASSUME NEW t \in Threads, MutexStep(t) PROVE LocalsInv'
  BY <1>3 DEF MutexStep, LocalsInv, Locking, Trying, Waiting, Goto, PcTypes,
     CondTypes, MutexTypes, ThreadTypes, threadVars, mutexVars, condVars, MakeMutex,
     Calls, Return, MutexLock, Relock, StartLock, Throw, MutexTrylock, MutexUnlock,
     PthreadLock, OwnMutex, PthreadTrylock, OwnTried
<1>4. ASSUME NEW t \in Threads, CondvarStep(t) PROVE LocalsInv'
  <2>1. ASSUME NEW c \in Condvars, CondvarWait(t, c) PROVE LocalsInv'
    BY <2>1 DEF CondvarWait, Calls, Owns, LocalsInv, Locking, Trying, Waiting, Goto,
     PcTypes, CondTypes, MutexTypes, ThreadTypes, threadVars, mutexVars, condVars,
     OwnerAgrees
  <2>2. ASSUME NEW c \in Condvars, CondvarSignal(t, c) PROVE LocalsInv'
    BY <2>2 DEF CondvarSignal, WakeAll, Calls, Owns, LocalsInv, Locking, Trying,
     Waiting, Goto, PcTypes, CondTypes, MutexTypes, ThreadTypes, threadVars,
     mutexVars, condVars, CondQueues
  <2>3. ASSUME NEW c \in Condvars, CondvarBroadcast(t, c) PROVE LocalsInv'
    BY <2>3 DEF CondvarBroadcast, WakeAll, Calls, Owns, LocalsInv, Locking, Trying,
     Waiting, Goto, PcTypes, CondTypes, MutexTypes, ThreadTypes, threadVars,
     mutexVars, condVars, CondQueues
  <2>4. ASSUME (\E c \in Condvars, m \in Mutexes : MakeCondvar(t, c, m))
          \/ (\E c \in Condvars : NotOwner(t, c)) \/ PthreadWait(t) \/ PthreadWake(t)
          \/ RestoreOwner(t) PROVE LocalsInv'
    BY <2>4 DEF LocalsInv, Locking, Trying, Waiting, Goto, PcTypes, CondTypes,
     MutexTypes, ThreadTypes, threadVars, mutexVars, condVars, MakeCondvar, Calls,
     Return, NotOwner, Throw, PthreadWait, PthreadWake, RestoreOwner
  <2> QED BY <1>4, <2>1, <2>2, <2>3, <2>4 DEF CondvarStep
<1>5. ASSUME NEW t \in Threads, Spurious(t) PROVE LocalsInv'
  BY <1>5 DEF Spurious, LocalsInv, Locking, Trying, Waiting, Goto, PcTypes,
     CondTypes, MutexTypes, ThreadTypes, threadVars, mutexVars, condVars,
     SpuriousJoinWake, SpuriousWake
<1>6. CASE UNCHANGED vars
  BY <1>6 DEF vars, LocalsInv, Locking, Trying, Waiting, Goto, PcTypes, CondTypes,
     MutexTypes, ThreadTypes, threadVars, mutexVars, condVars, gilVars, runVars
<1> QED BY <1>1, <1>2, <1>3, <1>4, <1>5, <1>6 DEF Next, Step

\* A mutex not made yet is free.
LEMMA UnmadeStep ==
  MutexTypes /\ CondTypes /\ LocalsInv /\ UnmadeInv /\ [Next]_vars => UnmadeInv'
<1> SUFFICES ASSUME MutexTypes, CondTypes, LocalsInv, UnmadeInv, [Next]_vars
              PROVE UnmadeInv'
  OBVIOUS
<1> USE ThreadsAssumption
<1>1. ASSUME NEW t \in Threads, RunStep(t) PROVE UnmadeInv'
  BY <1>1 DEF RunStep, UnmadeInv, MutexTypes, mutexVars, Lock, Yield, Longjmp,
     OtherStep, Calls, Return, RaiseError, Throw, MarkRoot, CallRoot,
     CallContinuationOf, CatchError, MarkError, RootExit, LeaveRun
<1>2. ASSUME NEW t \in Threads, ThreadStep(t) PROVE UnmadeInv'
  BY <1>2 DEF ThreadStep, UnmadeInv, MutexTypes, mutexVars, SetUp, FinishThread,
     FinishMain, MakeThread, Calls, ThreadJoin, Throw, JoinLoop, Return, JoinWake
<1>3. ASSUME NEW t \in Threads, MutexStep(t) PROVE UnmadeInv'
  <2>1. ASSUME NEW m \in Mutexes, MakeMutex(t, m) PROVE UnmadeInv'
    BY <2>1 DEF MakeMutex, Calls, Return, UnmadeInv, MutexTypes, mutexVars
  <2>2. ASSUME NEW m \in Mutexes, MutexLock(t, m) PROVE UnmadeInv'
    BY <2>2 DEF MutexLock, Relock, StartLock, Calls, Return, Throw, UnmadeInv,
     MutexTypes, mutexVars
  <2>3. ASSUME NEW m \in Mutexes, MutexTrylock(t, m) PROVE UnmadeInv'
    BY <2>3 DEF MutexTrylock, Relock, Calls, Return, Throw, UnmadeInv, MutexTypes,
     mutexVars
  <2>4. ASSUME NEW m \in Mutexes, MutexUnlock(t, m) PROVE UnmadeInv'
    BY <2>4 DEF MutexUnlock, Calls, Return, Throw, UnmadeInv, MutexTypes, mutexVars
  <2>5. ASSUME PthreadLock(t) PROVE UnmadeInv'
    BY <2>5 DEF PthreadLock, UnmadeInv, MutexTypes, mutexVars
  <2>6. ASSUME OwnMutex(t) PROVE UnmadeInv'
    BY <2>6 DEF OwnMutex, Return, UnmadeInv, MutexTypes, mutexVars, LocalsInv,
     Locking
  <2>7. ASSUME OwnTried(t) PROVE UnmadeInv'
    BY <2>7 DEF OwnTried, Return, UnmadeInv, MutexTypes, mutexVars, LocalsInv,
     Trying
  <2>8. ASSUME PthreadTrylock(t) PROVE UnmadeInv'
    BY <2>8 DEF UnmadeInv, MutexTypes, mutexVars, PthreadTrylock
  <2> QED BY <1>3, <2>1, <2>2, <2>3, <2>4, <2>5, <2>6, <2>7, <2>8 DEF MutexStep
<1>4. ASSUME NEW t \in Threads, CondvarStep(t) PROVE UnmadeInv'
  <2>1. ASSUME NEW c \in Condvars, CondvarWait(t, c) PROVE UnmadeInv'
    BY <2>1 DEF CondvarWait, Calls, Owns, UnmadeInv, MutexTypes, mutexVars,
     LocalsInv
  <2>2. ASSUME PthreadWait(t) PROVE UnmadeInv'
    BY <2>2 DEF PthreadWait, UnmadeInv, MutexTypes, mutexVars
  <2>3. ASSUME RestoreOwner(t) PROVE UnmadeInv'
    BY <2>3 DEF RestoreOwner, Return, UnmadeInv, MutexTypes, mutexVars, LocalsInv,
     Waiting
  <2>4. ASSUME (\E c \in Condvars, m \in Mutexes : MakeCondvar(t, c, m))
          \/ (\E c \in Condvars : NotOwner(t, c))
          \/ (\E c \in Condvars : CondvarSignal(t, c))
          \/ (\E c \in Condvars : CondvarBroadcast(t, c)) \/ PthreadWake(t) PROVE UnmadeInv'
    BY <2>4 DEF UnmadeInv, MutexTypes, mutexVars, MakeCondvar, Calls, Return,
     NotOwner, Throw, CondvarSignal, WakeAll, Owns, CondvarBroadcast, PthreadWake
  <2> QED BY <1>4, <2>1, <2>2, <2>3, <2>4 DEF CondvarStep
<1>5. ASSUME NEW t \in Threads, Spurious(t) PROVE UnmadeInv'
  BY <1>5 DEF Spurious, UnmadeInv, MutexTypes, mutexVars, SpuriousJoinWake,
     SpuriousWake
<1>6. CASE UNCHANGED vars
  BY <1>6 DEF vars, UnmadeInv, MutexTypes, mutexVars, gilVars, runVars, threadVars,
     condVars
<1> QED BY <1>1, <1>2, <1>3, <1>4, <1>5, <1>6 DEF Next, Step

\* klisp's owner and the holder of the pthread mutex.
LEMMA OwnerAgreesStep ==
  PcTypes /\ CondTypes /\ MutexTypes /\ JoinersAwaitTheLiving /\ CondQueues /\ LocalsInv
    /\ UnmadeInv /\ OwnerAgrees /\ [Next]_vars => OwnerAgrees'
<1> SUFFICES ASSUME PcTypes, CondTypes, MutexTypes, JoinersAwaitTheLiving, CondQueues,
              LocalsInv, UnmadeInv, OwnerAgrees, [Next]_vars PROVE OwnerAgrees'
  OBVIOUS
<1> USE ThreadsAssumption
<1>1. ASSUME NEW t \in Threads, RunStep(t) PROVE OwnerAgrees'
  <2>1. ASSUME Lock(t) PROVE OwnerAgrees'
    BY <2>1 DEF Lock, OwnerAgrees, HoldsUnowned, Goto, PcTypes, MutexTypes,
     mutexVars, Wanting
  <2>2. ASSUME Yield(t) \/ Longjmp(t) \/ OtherStep(t) \/ RaiseError(t) \/ MarkRoot(t)
          \/ CallRoot(t) \/ (\E u \in Threads : CallContinuationOf(t, u)) \/ CatchError(t)
          \/ MarkError(t) \/ RootExit(t) \/ LeaveRun(t) PROVE OwnerAgrees'
    BY <2>2 DEF OwnerAgrees, HoldsUnowned, Goto, PcTypes, MutexTypes, mutexVars,
     Yield, Longjmp, OtherStep, Calls, Return, RaiseError, Throw, MarkRoot,
     CallRoot, CallContinuationOf, CatchError, MarkError, RootExit, LeaveRun
  <2> QED BY <1>1, <2>1, <2>2 DEF RunStep
<1>2. ASSUME NEW t \in Threads, ThreadStep(t) PROVE OwnerAgrees'
  <2>1. ASSUME FinishThread(t) PROVE OwnerAgrees'
    BY <2>1 DEF FinishThread, OwnerAgrees, HoldsUnowned, Goto, PcTypes, MutexTypes,
     mutexVars, JoinersAwaitTheLiving
  <2>2. ASSUME SetUp(t) \/ FinishMain \/ (\E u \in Threads : MakeThread(t, u))
          \/ (\E u \in Threads : ThreadJoin(t, u)) \/ JoinLoop(t) \/ JoinWake(t)
          PROVE OwnerAgrees'
    BY <2>2 DEF OwnerAgrees, HoldsUnowned, Goto, PcTypes, MutexTypes, mutexVars,
     SetUp, FinishMain, MakeThread, Calls, ThreadJoin, Throw, JoinLoop, Return,
     JoinWake
  <2> QED BY <1>2, <2>1, <2>2 DEF ThreadStep
<1>3. ASSUME NEW t \in Threads, MutexStep(t) PROVE OwnerAgrees'
  <2>1. ASSUME NEW m \in Mutexes, MakeMutex(t, m) PROVE OwnerAgrees'
    BY <2>1 DEF MakeMutex, Calls, Return, OwnerAgrees, HoldsUnowned, Goto, PcTypes,
     MutexTypes, mutexVars, UnmadeInv
  <2>2. ASSUME PthreadLock(t) PROVE OwnerAgrees'
    BY <2>2 DEF PthreadLock, OwnerAgrees, HoldsUnowned, Goto, PcTypes, MutexTypes,
     mutexVars, LocalsInv, Locking
  <2>3. ASSUME OwnMutex(t) PROVE OwnerAgrees'
    BY <2>3 DEF OwnMutex, Return, OwnerAgrees, HoldsUnowned, Goto, PcTypes,
     MutexTypes, mutexVars, LocalsInv, Locking
  <2>4. ASSUME PthreadTrylock(t) PROVE OwnerAgrees'
    <3>1. \/ /\ pmutex[mutex[t]] = Nil
             /\ res' = [res EXCEPT ![t] = TRUE]
             /\ pmutex' = [pmutex EXCEPT ![mutex[t]] = t]
          \/ /\ res' = [res EXCEPT ![t] = FALSE]
             /\ pmutex' = pmutex
      BY <2>4 DEF PthreadTrylock
    <3> QED BY <2>4, <3>1 DEF PthreadTrylock, OwnerAgrees, HoldsUnowned, Goto,
     PcTypes, MutexTypes, mutexVars, LocalsInv, Trying
  <2>5. ASSUME OwnTried(t) PROVE OwnerAgrees'
    BY <2>5 DEF OwnTried, Return, OwnerAgrees, HoldsUnowned, Goto, PcTypes,
     MutexTypes, mutexVars, LocalsInv, Trying
  <2>6. ASSUME (\E m \in Mutexes : MutexLock(t, m))
          \/ (\E m \in Mutexes : MutexTrylock(t, m))
          \/ (\E m \in Mutexes : MutexUnlock(t, m)) PROVE OwnerAgrees'
    BY <2>6 DEF OwnerAgrees, HoldsUnowned, Goto, PcTypes, MutexTypes, mutexVars,
     MutexLock, Relock, StartLock, Calls, Return, Throw, MutexTrylock, MutexUnlock
  <2> QED BY <1>3, <2>1, <2>2, <2>3, <2>4, <2>5, <2>6 DEF MutexStep
<1>4. ASSUME NEW t \in Threads, CondvarStep(t) PROVE OwnerAgrees'
  <2>1. ASSUME NEW c \in Condvars, CondvarWait(t, c) PROVE OwnerAgrees'
    BY <2>1 DEF CondvarWait, Calls, Owns, OwnerAgrees, HoldsUnowned, Goto, PcTypes,
     MutexTypes, mutexVars, LocalsInv
  <2>2. ASSUME NEW c \in Condvars, CondvarSignal(t, c) PROVE OwnerAgrees'
    BY <2>2 DEF CondvarSignal, WakeAll, Calls, Owns, OwnerAgrees, HoldsUnowned,
     Goto, PcTypes, MutexTypes, mutexVars, CondQueues
  <2>3. ASSUME NEW c \in Condvars, CondvarBroadcast(t, c) PROVE OwnerAgrees'
    BY <2>3 DEF CondvarBroadcast, WakeAll, Calls, Owns, OwnerAgrees, HoldsUnowned,
     Goto, PcTypes, MutexTypes, mutexVars, CondQueues
  <2>4. ASSUME PthreadWait(t) PROVE OwnerAgrees'
    BY <2>4 DEF PthreadWait, OwnerAgrees, HoldsUnowned, Goto, PcTypes, MutexTypes,
     mutexVars, LocalsInv, Waiting
  <2>5. ASSUME PthreadWake(t) PROVE OwnerAgrees'
    BY <2>5 DEF PthreadWake, OwnerAgrees, HoldsUnowned, Goto, PcTypes, MutexTypes,
     mutexVars, LocalsInv, Waiting
  <2>6. ASSUME RestoreOwner(t) PROVE OwnerAgrees'
    BY <2>6 DEF RestoreOwner, Return, OwnerAgrees, HoldsUnowned, Goto, PcTypes,
     MutexTypes, mutexVars, LocalsInv, Waiting, CondTypes
  <2>7. ASSUME (\E c \in Condvars, m \in Mutexes : MakeCondvar(t, c, m))
          \/ (\E c \in Condvars : NotOwner(t, c)) PROVE OwnerAgrees'
    BY <2>7 DEF OwnerAgrees, HoldsUnowned, Goto, PcTypes, MutexTypes, mutexVars,
     MakeCondvar, Calls, Return, NotOwner, Throw
  <2> QED BY <1>4, <2>1, <2>2, <2>3, <2>4, <2>5, <2>6, <2>7 DEF CondvarStep
<1>5. ASSUME NEW t \in Threads, Spurious(t) PROVE OwnerAgrees'
  <2>1. ASSUME SpuriousWake(t) PROVE OwnerAgrees'
    BY <2>1 DEF SpuriousWake, OwnerAgrees, HoldsUnowned, Goto, PcTypes, MutexTypes,
     mutexVars, LocalsInv, Waiting
  <2>2. ASSUME SpuriousJoinWake(t) PROVE OwnerAgrees'
    BY <2>2 DEF OwnerAgrees, HoldsUnowned, Goto, PcTypes, MutexTypes, mutexVars,
     SpuriousJoinWake
  <2> QED BY <1>5, <2>1, <2>2 DEF Spurious
<1>6. CASE UNCHANGED vars
  BY <1>6 DEF vars, OwnerAgrees, HoldsUnowned, Goto, PcTypes, MutexTypes, mutexVars,
     gilVars, runVars, threadVars, condVars
<1> QED BY <1>1, <1>2, <1>3, <1>4, <1>5, <1>6 DEF Next, Step

\* The invariant holds at the start.
LEMMA InitIInv == Init => IInv
<1> SUFFICES ASSUME Init PROVE IInv
  OBVIOUS
<1> USE ThreadsAssumption
<1>1. TypeOK
  BY DEF Init, TypeOK, GilTypes, PcTypes, RunTypes, ThreadTypes, MutexTypes, CondTypes,
     Locations, Wanting, Statuses
<1>2. GilOnce
  BY DEF Init, GilOnce, Holding
<1>3. OwnerAgrees /\ UnmadeInv
  BY DEF Init, OwnerAgrees, UnmadeInv, HoldsUnowned
<1>4. CondQueues /\ JoinersAwaitTheLiving /\ LiveRooted /\ EndedInv
  BY DEF Init, CondQueues, JoinersAwaitTheLiving, LiveRooted, EndedInv, Ended
<1>5. LocalsInv
  BY DEF Init, LocalsInv, Locking, Trying, Waiting
<1> QED BY <1>1, <1>2, <1>3, <1>4, <1>5 DEF IInv

\* Every step keeps the invariant.
LEMMA StepIInv == IInv /\ [Next]_vars => IInv'
<1> SUFFICES ASSUME IInv, [Next]_vars PROVE IInv'
  OBVIOUS
<1>1. TypeOK'
  BY GilTypesStep, PcTypesStep, RunTypesStep, ThreadTypesStep, MutexTypesStep,
     CondTypesStep DEF IInv, TypeOK
<1>2. GilOnce' /\ OwnerAgrees'
  BY GilOnceStep, OwnerAgreesStep DEF IInv, TypeOK
<1>3. CondQueues' /\ JoinersAwaitTheLiving' /\ LiveRooted' /\ EndedInv'
  BY CondQueuesStep, JoinersStep, LiveRootedStep, EndedStep DEF IInv, TypeOK
<1>4. LocalsInv' /\ UnmadeInv'
  BY LocalsStep, UnmadeStep DEF IInv, TypeOK
<1> QED BY <1>1, <1>2, <1>3, <1>4 DEF IInv

\* So it holds throughout.
LEMMA SpecIInv == Spec => []IInv
  BY InitIInv, StepIInv, PTL DEF Spec

-----------------------------------------------------------------------------
(***************************************************************************)
(* What the invariant gives.                                               *)
(***************************************************************************)
\* The types of all variables; the recursion count of every mutex stays within
\* KMUTEX_MAX_COUNT, through nested locks, waits and wakeups.
THEOREM TypeCorrect == Spec => []TypeOK
<1>1. IInv => TypeOK
  BY DEF IInv
<1> QED BY <1>1, SpecIInv, PTL

\* The GIL excludes: one thread at a time runs handlers, and none of them ever
\* holds it twice, whatever errors were thrown before.
THEOREM GilSafety == Spec => []GilOnce
<1>1. IInv => GilOnce
  BY DEF IInv
<1> QED BY <1>1, SpecIInv, PTL

\* The owner klisp records for a mutex holds its pthread mutex, and only in the
\* windows of lock, trylock and wait is a held pthread mutex without owner.
THEOREM MutexSafety == Spec => []OwnerAgrees
<1>1. IInv => OwnerAgrees
  BY DEF IInv
<1> QED BY <1>1, SpecIInv, PTL

\* No signal can fall between giving up the mutex and being queued.
THEOREM WaitSafety == Spec => []NoLostWakeup
<1>1. IInv => NoLostWakeup
  <2> SUFFICES ASSUME IInv, NEW t \in Threads, pc[t] = "wait", NEW u \in Threads
               PROVE  ~Owns(u, condvar[t])
    BY DEF NoLostWakeup, IInv
  <2>1. /\ condvar[t] \in Condvars
        /\ kcondvar_mutex[condvar[t]] = mutex[t]
        /\ mutex[t] \in Mutexes
    BY DEF IInv, LocalsInv, Waiting, TypeOK, MutexTypes
  <2>2. HoldsUnowned(t, mutex[t])
    BY DEF HoldsUnowned
  <2>3. owner[mutex[t]] = Nil
    BY <2>1, <2>2 DEF IInv, OwnerAgrees
  <2> QED BY <2>1, <2>3, ThreadsAssumption DEF Owns
<1> QED BY <1>1, SpecIInv, PTL

\* A joiner sleeps only on a thread that has yet to broadcast its end.
THEOREM JoinSafety == Spec => []JoinersAwaitTheLiving
<1>1. IInv => JoinersAwaitTheLiving
  BY DEF IInv
<1> QED BY <1>1, SpecIInv, PTL

\* A thread that may run is a root of the collector.
THEOREM RootSafety == Spec => []LiveRooted
<1>1. IInv => LiveRooted
  BY DEF IInv
<1> QED BY <1>1, SpecIInv, PTL
\* One step of OutcomeFrozen.
Frozen == \A v \in Threads :
            Ended(v) => status'[v] = status[v] /\ next_value'[v] = next_value[v]

\* No step changes the outcome of a thread that ended.
LEMMA FrozenStep ==
  RunTypes /\ ThreadTypes /\ EndedInv /\ [Next]_vars => Frozen
<1> SUFFICES ASSUME RunTypes, ThreadTypes, EndedInv, [Next]_vars PROVE Frozen
  OBVIOUS
<1> USE ThreadsAssumption
<1>1. ASSUME NEW t \in Threads, RunStep(t) PROVE Frozen
  BY <1>1 DEF RunStep, Frozen, EndedInv, Ended, RunTypes, ThreadTypes, runVars,
     threadVars, Lock, Yield, Longjmp, OtherStep, Calls, Return, RaiseError, Throw,
     MarkRoot, CallRoot, CallContinuationOf, CatchError, MarkError, RootExit,
     LeaveRun
<1>2. ASSUME NEW t \in Threads, ThreadStep(t) PROVE Frozen
  <2>1. ASSUME SetUp(t) PROVE Frozen
    BY <2>1 DEF SetUp, Frozen, EndedInv, Ended, RunTypes, ThreadTypes
  <2>2. ASSUME FinishThread(t) PROVE Frozen
    BY <2>2 DEF FinishThread, Frozen, EndedInv, Ended, RunTypes, ThreadTypes,
     runVars
  <2>3. ASSUME NEW u \in Threads, MakeThread(t, u) PROVE Frozen
    BY <2>3 DEF MakeThread, Calls, Frozen, EndedInv, Ended, RunTypes, ThreadTypes
  <2>4. ASSUME JoinLoop(t) PROVE Frozen
    BY <2>4 DEF JoinLoop, Return, Throw, Frozen, EndedInv, Ended, RunTypes,
     ThreadTypes, runVars
  <2>5. ASSUME FinishMain \/ (\E u \in Threads : ThreadJoin(t, u)) \/ JoinWake(t) PROVE Frozen
    BY <2>5 DEF Frozen, EndedInv, Ended, RunTypes, ThreadTypes, runVars, threadVars,
     FinishMain, ThreadJoin, Calls, Throw, JoinWake
  <2> QED BY <1>2, <2>1, <2>2, <2>3, <2>4, <2>5 DEF ThreadStep
<1>3. ASSUME NEW t \in Threads, MutexStep(t) PROVE Frozen
  BY <1>3 DEF MutexStep, Frozen, EndedInv, Ended, RunTypes, ThreadTypes, runVars,
     threadVars, MakeMutex, Calls, Return, MutexLock, Relock, StartLock, Throw,
     MutexTrylock, MutexUnlock, PthreadLock, OwnMutex, PthreadTrylock, OwnTried
<1>4. ASSUME NEW t \in Threads, CondvarStep(t) PROVE Frozen
  BY <1>4 DEF CondvarStep, Frozen, EndedInv, Ended, RunTypes, ThreadTypes, runVars,
     threadVars, MakeCondvar, Calls, Return, NotOwner, Throw, CondvarWait, Owns,
     CondvarSignal, WakeAll, CondvarBroadcast, PthreadWait, PthreadWake,
     RestoreOwner
<1>5. ASSUME NEW t \in Threads, Spurious(t) PROVE Frozen
  BY <1>5 DEF Spurious, Frozen, EndedInv, Ended, RunTypes, ThreadTypes, runVars,
     threadVars, SpuriousJoinWake, SpuriousWake
<1>6. CASE UNCHANGED vars
  BY <1>6 DEF vars, Frozen, EndedInv, Ended, RunTypes, ThreadTypes, gilVars,
     runVars, threadVars, mutexVars, condVars
<1> QED BY <1>1, <1>2, <1>3, <1>4, <1>5, <1>6 DEF Next, Step

\* What a thread ended with, and how, is final.
THEOREM OutcomeFinal == Spec => OutcomeFrozen
<1>1. IInv /\ [Next]_vars => [\A t \in Threads : Ended(t) => /\ status'[t] = status[t]
                                                             /\ next_value'[t] = next_value[t]]_vars
  BY FrozenStep DEF IInv, TypeOK, Frozen
<1> QED BY <1>1, SpecIInv, PTL DEF Spec, OutcomeFrozen

-----------------------------------------------------------------------------
(***************************************************************************)
(* The refinement: every step of the threads is a step of the monitors or  *)
(* leaves them as they are.                                                *)
(***************************************************************************)
\* A thread moves between locations outside kcondvar_wait.
LEMMA AwakeMove ==
  ASSUME PcTypes, NEW t \in Threads, NEW l \in Locations, Goto(t, l),
         pc[t] \notin Waiting, l \notin Waiting
  PROVE  Place' = Place
BY DEF Place, Goto, PcTypes, Waiting

MonitorSame == UNCHANGED <<owner, count, kcondvar_mutex, Place, condvar, saved>>

\* The dispatch loop, thread ends and joins do not touch the monitors.
LEMMA ControlIsSame ==
  ASSUME IInv, NEW t \in Threads, RunStep(t) \/ ThreadStep(t)
  PROVE  MonitorSame
<1> USE DEF MonitorSame
<1>a. PcTypes /\ JoinersAwaitTheLiving
  BY DEF IInv, TypeOK
<1> USE ThreadsAssumption
<1>1. CASE RunStep(t)
  <2>1. ASSUME Lock(t) PROVE MonitorSame
    BY <1>a, <2>1 DEF Lock, PcTypes, Place, Goto, mutexVars, condVars, Wanting
  <2>2. ASSUME Yield(t) \/ Longjmp(t) \/ OtherStep(t) \/ RaiseError(t) \/ MarkRoot(t)
          \/ CallRoot(t) \/ (\E u \in Threads : CallContinuationOf(t, u)) \/ CatchError(t)
          \/ MarkError(t) \/ RootExit(t) \/ LeaveRun(t) PROVE MonitorSame
    BY <1>a, <2>2 DEF PcTypes, Place, Goto, mutexVars, condVars, Yield, Longjmp,
     OtherStep, Calls, Return, RaiseError, Throw, MarkRoot, CallRoot,
     CallContinuationOf, CatchError, MarkError, RootExit, LeaveRun
  <2> QED BY <1>1, <2>1, <2>2 DEF RunStep
<1>2. CASE ThreadStep(t)
  <2>1. ASSUME FinishThread(t) PROVE MonitorSame
    BY <1>a, <2>1 DEF FinishThread, PcTypes, Place, Goto, mutexVars, condVars,
     JoinersAwaitTheLiving
  <2>2. ASSUME SetUp(t) \/ FinishMain \/ (\E u \in Threads : MakeThread(t, u))
          \/ (\E u \in Threads : ThreadJoin(t, u)) \/ JoinLoop(t) \/ JoinWake(t)
          PROVE MonitorSame
    BY <1>a, <2>2 DEF PcTypes, Place, Goto, mutexVars, condVars, SetUp, FinishMain,
     MakeThread, Calls, ThreadJoin, Throw, JoinLoop, Return, JoinWake
  <2> QED BY <1>2, <2>1, <2>2 DEF ThreadStep
<1> QED BY <1>1, <1>2

\* What the rest of the simulation uses of the invariant.
LEMMA Facts ==
  ASSUME IInv
  PROVE  /\ PcTypes /\ MutexTypes /\ CondTypes
         /\ OwnerAgrees /\ UnmadeInv /\ LocalsInv /\ CondQueues
BY DEF IInv, TypeOK

\* The steps of the mutexes are acquisitions, releases, or nothing.
LEMMA MutexSimulates ==
  ASSUME IInv, NEW t \in Threads, MutexStep(t)
  PROVE  MonitorSame \/ \E m \in Mutexes : Promise!Acquire(t, m) \/ Promise!Release(t, m)
<1> USE ThreadsAssumption, Facts DEF PcTypes, Place, Goto, Waiting
<1>1. ASSUME NEW m \in Mutexes, MakeMutex(t, m) PROVE MonitorSame
  BY <1>1 DEF MakeMutex, Calls, Return, MonitorSame, MutexTypes, OwnerAgrees, UnmadeInv, condVars
<1>2. ASSUME NEW m \in Mutexes, Relock(t, m), Calls(t) PROVE MonitorSame
          \/ Promise!Acquire(t, m)
  BY <1>2 DEF Relock, Calls, Return, Throw, MonitorSame, Promise!Acquire, MutexTypes, OwnerAgrees, condVars
<1>3. ASSUME NEW m \in Mutexes, StartLock(t, m), Calls(t) PROVE MonitorSame
  BY <1>3 DEF StartLock, Calls, MonitorSame, condVars
<1>4. ASSUME NEW m \in Mutexes, MutexTrylock(t, m), ~Relock(t, m) PROVE MonitorSame
  BY <1>4 DEF MutexTrylock, Calls, Return, MonitorSame, mutexVars, condVars
<1>5. ASSUME NEW m \in Mutexes, MutexUnlock(t, m) PROVE MonitorSame \/ Promise!Release(t, m)
  BY <1>5 DEF MutexUnlock, Calls, Return, Throw, MonitorSame, Promise!Release, MutexTypes, OwnerAgrees, condVars
<1>6. ASSUME PthreadLock(t) \/ PthreadTrylock(t) PROVE MonitorSame
  BY <1>6 DEF PthreadLock, PthreadTrylock, MonitorSame, condVars
<1>7. ASSUME OwnMutex(t) PROVE Promise!Acquire(t, mutex[t]) /\ mutex[t] \in Mutexes
  <2>1. mutex[t] \in Mutexes
    BY <1>7 DEF OwnMutex, LocalsInv, Locking, MutexTypes
  <2>2. owner[mutex[t]] = Nil /\ count[mutex[t]] = 0
    BY <1>7, <2>1 DEF OwnMutex, OwnerAgrees, HoldsUnowned
  <2> QED BY <1>7, <2>1, <2>2 DEF OwnMutex, Return, Promise!Acquire, MutexTypes, condVars
<1>8. ASSUME OwnTried(t) PROVE MonitorSame
          \/ (Promise!Acquire(t, mutex[t]) /\ mutex[t] \in Mutexes)
  BY <1>8 DEF OwnTried, Return, MonitorSame, Promise!Acquire, MutexTypes, OwnerAgrees, HoldsUnowned,
     LocalsInv, Trying, condVars
<1> QED BY <1>1, <1>2, <1>3, <1>4, <1>5, <1>6, <1>7, <1>8 DEF MutexStep, MutexLock, MutexTrylock

\* The steps of the condition variables.
LEMMA CondvarSimulates ==
  ASSUME IInv, NEW t \in Threads, CondvarStep(t) \/ Spurious(t)
  PROVE  MonitorSame \/ Promise!MNext
<1> USE ThreadsAssumption, Facts DEF PcTypes, Place, Goto, Waiting
<1>1. ASSUME NEW c \in Condvars, NEW m \in Mutexes, MakeCondvar(t, c, m)
          PROVE Promise!MakeCond(c, m)
  BY <1>1 DEF MakeCondvar, Calls, Return, Promise!MakeCond, mutexVars
<1>2. ASSUME NEW c \in Condvars, NotOwner(t, c) PROVE MonitorSame
  BY <1>2 DEF NotOwner, Calls, Throw, MonitorSame, mutexVars, condVars
<1>3. ASSUME NEW c \in Condvars, CondvarWait(t, c) PROVE Promise!Wait(t, c)
  BY <1>3 DEF CondvarWait, Calls, Owns, Promise!Wait
<1>5. ASSUME NEW c \in Condvars, Owns(t, c) PROVE Promise!Asleep(c) = cond[c]
  BY <1>5 DEF Owns, Promise!Asleep, CondQueues, CondTypes, OwnerAgrees, HoldsUnowned,
     LocalsInv, MutexTypes
<1>6. ASSUME NEW c \in Condvars, CondvarSignal(t, c)
      PROVE MonitorSame \/ Promise!Signal(t, c)
  <2>1. CASE cond[c] = {}
    BY <1>6, <2>1 DEF CondvarSignal, WakeAll, Calls, MonitorSame, CondTypes, mutexVars
  <2>2. CASE cond[c] # {}
    <3>1. PICK w \in cond[c] : WakeAll(t, c, {w})
      BY <1>6, <2>2 DEF CondvarSignal
    <3>2. w \in Threads
      BY DEF CondTypes
    <3>3. /\ Place' = [u \in Threads |-> IF u \in {w} THEN "waking" ELSE Place[u]]
          /\ UNCHANGED <<owner, count, kcondvar_mutex, condvar, saved>>
      BY <1>6, <3>1, <3>2 DEF CondvarSignal, WakeAll, Calls, CondQueues, CondTypes, mutexVars
    <3>4. Owns(t, c) /\ w \in Promise!Asleep(c)
      BY <1>6, <1>5 DEF CondvarSignal
    <3> QED BY <3>3, <3>4 DEF Promise!Signal, Promise!Wake, Owns
  <2> QED BY <2>1, <2>2
<1>7. ASSUME NEW c \in Condvars, CondvarBroadcast(t, c) PROVE Promise!Broadcast(t, c)
  <2>1. WakeAll(t, c, cond[c]) /\ Calls(t) /\ Owns(t, c)
    BY <1>7 DEF CondvarBroadcast
  <2>2. /\ Place' = [w \in Threads |-> IF w \in cond[c] THEN "waking" ELSE Place[w]]
        /\ UNCHANGED <<owner, count, kcondvar_mutex, condvar, saved>>
    BY <2>1 DEF WakeAll, Calls, CondQueues, CondTypes, mutexVars
  <2>3. Promise!Asleep(c) = cond[c]
    BY <2>1, <1>5
  <2> QED BY <2>1, <2>2, <2>3 DEF Promise!Broadcast, Promise!Wake, Owns
<1>8. ASSUME PthreadWait(t) \/ PthreadWake(t) \/ SpuriousJoinWake(t) PROVE MonitorSame
  BY <1>8 DEF PthreadWait, PthreadWake, SpuriousJoinWake, MonitorSame, mutexVars, condVars
<1>9. ASSUME RestoreOwner(t) PROVE Promise!Resume(t)
  <2>1. /\ mutex[t] \in Mutexes /\ condvar[t] \in Condvars
        /\ kcondvar_mutex[condvar[t]] = mutex[t]
    BY <1>9 DEF RestoreOwner, LocalsInv, MutexTypes
  <2>2. owner[mutex[t]] = Nil
    BY <1>9, <2>1 DEF RestoreOwner, OwnerAgrees, HoldsUnowned
  <2> QED BY <1>9, <2>1, <2>2 DEF RestoreOwner, Return, Promise!Resume
<1>10. ASSUME SpuriousWake(t) PROVE Promise!WakeUnasked(t)
  BY <1>10 DEF SpuriousWake, Promise!WakeUnasked, Promise!Wake, mutexVars
<1> QED BY <1>1, <1>2, <1>3, <1>6, <1>7, <1>8, <1>9, <1>10
        DEF CondvarStep, Spurious, Promise!MNext

\* The interpreter's mutexes and condition variables, with the GIL and pthreads
\* underneath, implement the monitors of KMonitor.
THEOREM Refinement == Spec => KeepsPromise
<1>1. Init => Promise!MInit
  BY ThreadsAssumption DEF Init, Promise!MInit, Place
<1>2. MonitorSame => UNCHANGED Promise!mvars
  BY DEF MonitorSame, Promise!mvars
<1>3. IInv /\ [Next]_vars => [Promise!MNext]_Promise!mvars
  <2> SUFFICES ASSUME IInv, [Next]_vars PROVE MonitorSame \/ Promise!MNext
    BY <1>2
  <2>1. CASE UNCHANGED vars
    BY <2>1 DEF vars, MonitorSame, Place, mutexVars, condVars
  <2>2. ASSUME NEW t \in Threads, RunStep(t) \/ ThreadStep(t) PROVE MonitorSame
    BY <2>2, ControlIsSame
  <2>3. ASSUME NEW t \in Threads, MutexStep(t) PROVE MonitorSame \/ Promise!MNext
    BY <2>3, MutexSimulates DEF Promise!MNext
  <2>4. ASSUME NEW t \in Threads, CondvarStep(t) \/ Spurious(t) PROVE MonitorSame
          \/ Promise!MNext
    BY <2>4, CondvarSimulates
  <2> QED BY <2>1, <2>2, <2>3, <2>4 DEF Next, Step
<1> QED BY <1>1, <1>3, SpecIInv, PTL DEF Spec, KeepsPromise, Promise!MSpec
=============================================================================
