--------------------------- MODULE KPromisesProofs ---------------------------
(***************************************************************************)
(* Proofs about KPromises, for any threads, promises, objects and bounds:  *)
(* a promise never determines two objects.                                 *)
(*                                                                         *)
(* TypeOK is inductive.  From it, every step is one of KDetermined, whose  *)
(* steps never change what a promise has determined.                       *)
(***************************************************************************)
EXTENDS KPromises, TLAPS

\* What a frame added to, or taken from, a continuation leaves.
LEMMA AppendFrame ==
    ASSUME NEW s \in Seq(Frames), NEW f \in Frames
    PROVE  /\ Append(s, f) \in Seq(Frames)
           /\ Append(s, f) # <<>>
           /\ DOMAIN Append(s, f) = DOMAIN s \cup {Len(s) + 1}
           /\ \A i \in DOMAIN s : Append(s, f)[i] = s[i]
           /\ Append(s, f)[Len(s) + 1] = f
    OBVIOUS

LEMMA FrontFrames ==
    ASSUME NEW s \in Seq(Frames), s # <<>>
    PROVE  /\ Front(s) \in Seq(Frames)
           /\ DOMAIN Front(s) \subseteq DOMAIN s
           /\ \A i \in DOMAIN Front(s) : Front(s)[i] = s[i]
           /\ Len(s) \in DOMAIN s
           /\ Last(s) \in Frames /\ Last(s) = s[Len(s)]
    BY DEF Front, Last

\* Removing a frame, and adding one for a promise that exists, leaves only
\* frames of promises that exist.
LEMMA FrontForced ==
    ASSUME NEW s \in Seq(Frames), s # <<>>, ForcedExist(s)
    PROVE  ForcedExist(Front(s))
    BY FrontFrames DEF ForcedExist

LEMMA AppendForced ==
    ASSUME NEW s \in Seq(Frames), ForcedExist(s), NEW f \in Frames,
           f # EvalOperand => Exists(f.prom)
    PROVE  ForcedExist(Append(s, f))
    <1> SUFFICES ASSUME NEW i \in DOMAIN Append(s, f), Append(s, f)[i] # EvalOperand
                 PROVE  Exists(Append(s, f)[i].prom)
        BY DEF ForcedExist
    <1>1. CASE i \in DOMAIN s
        BY <1>1, AppendFrame DEF ForcedExist
    <1>2. CASE i = Len(s) + 1
        BY <1>2, AppendFrame
    <1> QED BY <1>1, <1>2, AppendFrame

\* The promise of a handler that is called next exists.
LEMMA HandledExists ==
    ASSUME TypeOK, NEW t \in Threads, ~Runs(t)
    PROVE  /\ stack[t] \in Seq(Frames) /\ stack[t] # <<>>
           /\ prom(t) \in Promises /\ Exists(prom(t))
    <1>1. stack[t] \in Seq(Frames) /\ stack[t] # <<>> /\ Last(stack[t]) # EvalOperand
        BY DEF TypeOK, Types, HandlersOK
    <1>2. /\ Last(stack[t]) \in Frames
          /\ Len(stack[t]) \in DOMAIN stack[t] /\ Last(stack[t]) = stack[t][Len(stack[t])]
        BY <1>1, FrontFrames
    <1>3. prom(t) \in Promises
        BY <1>1, <1>2 DEF Frames, HandleResult, prom
    <1>4. Exists(prom(t))
        BY <1>1, <1>2 DEF TypeOK, FramesOK, ForcedExist, prom
    <1> QED BY <1>1, <1>3, <1>4

\* What one handler makes stays: a promise that exists goes on existing.
LEMMA ExistenceStays ==
    ASSUME TypeOK, Next, NEW q \in Promises, Exists(q)
    PROVE  Exists(q)'
    <1> PICK t \in Threads : Step(t) BY DEF Next
    <1> USE PromisesAssumption DEF Exists, TypeOK, Types, Runs
    <1>1. CASE Lazy(t) BY <1>1 DEF Lazy, kmake_promise
    <1>2. CASE Memoize(t) BY <1>2 DEF Memoize, kmake_promise
    <1>3. CASE Sdelay(t) BY <1>3 DEF Sdelay, kmake_promise
    <1>4. CASE Determine(t)
        <2>1. cell' = [cell EXCEPT ![node[prom(t)]] = obj[t]] /\ obj[t] \in Objects
            BY <1>4 DEF Determine
        <2> QED BY <2>1
    <1>5. CASE \/ Delay(t) \/ force(t) \/ Return(t) \/ CallCC(t) \/ ApplyContinuation(t)
               \/ Discard(t) \/ Link(t)
        BY <1>5 DEF Delay, force, Return, CallCC, ApplyContinuation, Discard, Link
    <1> QED BY <1>1, <1>2, <1>3, <1>4, <1>5 DEF Step

-----------------------------------------------------------------------------
(***************************************************************************)
(* Type correctness: one lemma per conjunct of TypeOK.                     *)
(***************************************************************************)
\* Reachable objects go on being reachable.
LEMMA ReachableStays ==
    ASSUME TypeOK, Next
    PROVE  Reachable \subseteq Reachable'
    BY ExistenceStays DEF Reachable

LEMMA TypesStep ==
    ASSUME TypeOK, Next
    PROVE  Types'
    <1> PICK t \in Threads : Step(t) BY DEF Next
    <1> USE DEF Types
    <1>t. Types BY DEF TypeOK
    <1>o. Reachable \subseteq Objects
        BY DEF Reachable, Objects
    <1>1. CASE Lazy(t)
        BY <1>t, <1>1 DEF Lazy, kmake_promise
    <1>2. CASE Memoize(t)
        BY <1>t, <1>2, <1>o DEF Memoize, kmake_promise
    <1>3. CASE Delay(t)
        <2>1. EvalOperand \in Frames BY DEF Frames
        <2>2. Append(stack[t], EvalOperand) \in Seq(Frames)
            BY <1>t, <2>1, AppendFrame
        <2> QED BY <1>t, <1>3, <2>2 DEF Delay
    <1>4. CASE Sdelay(t)
        <2>1. Front(stack[t]) \in Seq(Frames)
            BY <1>t, <1>4, FrontFrames DEF Sdelay
        <2>2. stack' \in [Threads -> Seq(Frames)]
            BY <1>t, <1>4, <2>1 DEF Sdelay
        <2> QED BY <1>t, <1>4, <2>2 DEF Sdelay, kmake_promise
    <1>5. CASE force(t)
        <2> PICK p \in Promises : Exists(p)
                /\ IF Determined(p)
                   THEN results' = results \cup {<<p, value[p]>>} /\ UNCHANGED stack
                   ELSE /\ stack' = [stack EXCEPT ![t] = Append(@, HandleResult(p))]
                        /\ UNCHANGED results
            BY <1>5 DEF force
        <2>1. Append(stack[t], HandleResult(p)) \in Seq(Frames)
            BY <1>t, AppendFrame DEF Frames
        <2>2. stack' \in [Threads -> Seq(Frames)]
            BY <1>t, <2>1
        <2>3. results' \subseteq Promises \X Objects
            BY <1>t DEF Determined
        <2> QED BY <1>t, <1>5, <2>2, <2>3 DEF force
    <1>6. CASE Return(t)
        BY <1>t, <1>6, <1>o DEF Return
    <1>7. CASE CallCC(t)
        BY <1>t, <1>7 DEF CallCC
    <1>8. CASE ApplyContinuation(t)
        <2> PICK cont \in held \cup {<<>>} : stack' = [stack EXCEPT ![t] = cont]
            BY <1>8 DEF ApplyContinuation
        <2>1. <<>> \in Seq(Frames) OBVIOUS
        <2>2. held \subseteq Seq(Frames) BY <1>t
        <2>3. cont \in Seq(Frames) BY <2>1, <2>2
        <2>4. stack' \in [Threads -> Seq(Frames)] BY <1>t, <2>3
        <2> QED BY <1>t, <1>8, <2>4 DEF ApplyContinuation
    <1>9. CASE Discard(t)
        <2>1. /\ stack[t] # <<>> /\ prom(t) \in Promises
              /\ Front(stack[t]) \in Seq(Frames)
            BY <1>9, HandledExists, FrontFrames DEF Discard
        <2> QED BY <1>t, <1>9, <2>1 DEF Discard, Returns, Determined
    <1>10. CASE Link(t)
        <2>1. /\ stack[t] # <<>> /\ prom(t) \in Promises
              /\ Front(stack[t]) \in Seq(Frames)
            BY <1>10, HandledExists, FrontFrames DEF Link
        <2>2. node' \in [Promises -> Promises]
            BY <1>t, <1>10, <2>1 DEF Link
        <2>3. stack' \in [Threads -> Seq(Frames)]
            BY <1>t, <1>10, <2>1 DEF Link, Returns
        <2>4. results' \subseteq Promises \X Objects
            BY <1>t, <1>10, <2>1 DEF Link, Returns, Determined
        <2>5. obj' \in [Threads -> Objects \cup {NoObject}]
            BY <1>t, <1>10 DEF Link, Returns
        <2> QED BY <1>t, <1>10, <2>1, <2>2, <2>3, <2>4, <2>5 DEF Link
    <1>11. CASE Determine(t)
        <2>1. obj[t] \in Objects BY <1>t, <1>11 DEF Determine, Runs
        <2> QED BY <1>t, <1>11, <2>1 DEF Determine
    <1> QED BY <1>1, <1>2, <1>3, <1>4, <1>5, <1>6, <1>7, <1>8, <1>9, <1>10, <1>11 DEF Step

LEMMA NodesStep ==
    ASSUME TypeOK, Next
    PROVE  NodesOK'
    <1> PICK t \in Threads : Step(t) BY DEF Next
    <1>t. Types /\ NodesOK BY DEF TypeOK
    <1>s. \A q \in Promises : Exists(q) => Exists(q)' BY ExistenceStays
    <1> USE PromisesAssumption DEF Types
    <1>1. ASSUME NEW p \in Promises, NEW o \in {Undetermined} \cup Reachable,
                 kmake_promise(p, o)
          PROVE  NodesOK'
        <2>1. \A q \in Promises : Exists(q)' <=> (Exists(q) \/ q = p)
            BY <1>1, <1>t DEF kmake_promise, Exists, Reachable, Objects
        <2>2. /\ node' = node /\ cell' = [cell EXCEPT ![p] = o]
              /\ o \in Promises => Exists(o)
            BY <1>1 DEF kmake_promise, Reachable, Objects
        <2>3. ASSUME NEW q \in Promises
              PROVE  /\ Exists(q)' => Exists(node[q])'
                     /\ ~Exists(q)' => node'[q] = q
            BY <1>t, <2>1, <2>2 DEF NodesOK
        <2>4. ASSUME NEW q \in Promises, cell'[q] \in Promises
              PROVE  Exists(cell[q])'
            BY <1>t, <2>1, <2>2, <2>4 DEF NodesOK
        <2> QED BY <2>3, <2>4 DEF NodesOK, Exists
    <1>2. CASE Lazy(t) BY <1>1, <1>2 DEF Lazy
    <1>3. CASE Memoize(t) BY <1>1, <1>3 DEF Memoize
    <1>4. CASE Sdelay(t) BY <1>1, <1>4 DEF Sdelay
    <1>5. CASE Link(t)
        <2>1. prom(t) \in Promises /\ Exists(prom(t)) /\ obj[t] \in Promises
            BY <1>5, HandledExists DEF Link
        <2>2. Exists(obj[t])
            BY <1>5, <2>1 DEF TypeOK, HandlersOK, Reachable, Link
        <2> QED BY <1>5, <1>t, <2>1, <2>2 DEF Link, NodesOK, Exists
    <1>6. CASE Determine(t)
        <2>1. prom(t) \in Promises /\ Exists(prom(t))
            BY <1>6, HandledExists DEF Determine
        <2>2. cell' = [cell EXCEPT ![node[prom(t)]] = obj[t]] /\ node' = node
            BY <1>6 DEF Determine
        <2>3. obj[t] \in Objects /\ obj[t] \notin Promises
            BY <1>6, <1>t DEF Determine, Runs
        <2>4. Exists(node[prom(t)]) BY <1>t, <2>1 DEF NodesOK
        <2>5. \A q \in Promises : Exists(q)' <=> Exists(q)
            BY <1>t, <2>2, <2>3, <2>4 DEF Exists
        <2> QED BY <1>t, <2>2, <2>3, <2>5 DEF NodesOK
    <1>7. CASE \/ Delay(t) \/ force(t) \/ Return(t) \/ CallCC(t) \/ ApplyContinuation(t)
               \/ Discard(t)
        BY <1>t, <1>7 DEF Delay, force, Return, CallCC, ApplyContinuation, Discard,
                          NodesOK, Exists
    <1> QED BY <1>2, <1>3, <1>4, <1>5, <1>6, <1>7 DEF Step

LEMMA FramesStep ==
    ASSUME TypeOK, Next
    PROVE  FramesOK'
    <1> PICK t \in Threads : Step(t) BY DEF Next
    <1>t. Types /\ FramesOK BY DEF TypeOK
    <1>s. ASSUME NEW frames \in Seq(Frames), ForcedExist(frames)
          PROVE  ForcedExist(frames)'
        <2> SUFFICES ASSUME NEW i \in DOMAIN frames, frames[i] # EvalOperand
                     PROVE  Exists(frames[i].prom)'
            BY DEF ForcedExist
        <2>1. frames[i].prom \in Promises
            BY DEF Frames, HandleResult
        <2> QED BY <1>s, <2>1, ExistenceStays DEF ForcedExist
    \* It is enough that the continuation of t is one of promises that exist.
    <1>1. ASSUME NEW cont \in Seq(Frames), ForcedExist(cont),
                 stack' = [stack EXCEPT ![t] = cont], held' = held
          PROVE  FramesOK'
        <2>1. \A s \in Threads : stack'[s] \in Seq(Frames) /\ ForcedExist(stack'[s])
            BY <1>1, <1>t DEF Types, FramesOK
        <2>2. \A s \in Threads : ForcedExist(stack[s])'
            BY <1>s, <2>1
        <2>3. \A c \in held' : ForcedExist(c)'
            BY <1>1, <1>t, <1>s DEF Types, FramesOK
        <2> QED BY <2>2, <2>3 DEF FramesOK
    <1>2. ASSUME held' = held, stack' = stack
          PROVE  FramesOK'
        BY <1>1, <1>2, <1>t DEF Types, FramesOK
    <1>3. CASE Delay(t)
        <2>1. EvalOperand \in Frames BY DEF Frames
        <2>2. /\ Append(stack[t], EvalOperand) \in Seq(Frames)
              /\ ForcedExist(Append(stack[t], EvalOperand))
            BY <1>t, <2>1, AppendFrame, AppendForced DEF Types, FramesOK
        <2> QED BY <1>1, <1>3, <2>2 DEF Delay
    <1>4. CASE force(t)
        <2>1. PICK p \in Promises :
                /\ Exists(p)
                /\ \/ UNCHANGED stack
                   \/ stack' = [stack EXCEPT ![t] = Append(@, HandleResult(p))]
            BY <1>4 DEF force
        <2>2. held' = held BY <1>4 DEF force
        <2>3. HandleResult(p) \in Frames /\ HandleResult(p).prom = p
            BY DEF Frames, HandleResult
        <2>4. /\ Append(stack[t], HandleResult(p)) \in Seq(Frames)
              /\ ForcedExist(Append(stack[t], HandleResult(p)))
            BY <1>t, <2>1, <2>3, AppendFrame, AppendForced DEF Types, FramesOK
        <2> QED BY <1>1, <1>2, <2>1, <2>2, <2>4
    <1>5. CASE CallCC(t)
        <2>1. held' = held \cup {stack[t]} /\ stack' = stack
            BY <1>5 DEF CallCC
        <2> QED BY <1>s, <1>t, <2>1 DEF Types, FramesOK
    <1>6. CASE ApplyContinuation(t)
        <2>1. PICK cont \in held \cup {<<>>} : stack' = [stack EXCEPT ![t] = cont]
            BY <1>6 DEF ApplyContinuation
        <2>2. CASE cont \in held
            BY <1>t, <2>2, <1>1, <1>6, <2>1 DEF Types, FramesOK, ApplyContinuation
        <2>3. CASE cont = <<>>
            <3>1. <<>> \in Seq(Frames) /\ ForcedExist(<<>>) BY DEF ForcedExist
            <3> QED BY <2>3, <3>1, <1>1, <1>6, <2>1 DEF ApplyContinuation
        <2> QED BY <2>2, <2>3
    <1>7. ASSUME stack[t] # <<>>
          PROVE  Front(stack[t]) \in Seq(Frames) /\ ForcedExist(Front(stack[t]))
        BY <1>t, <1>7, FrontFrames, FrontForced DEF Types, FramesOK
    <1>8. CASE Sdelay(t)
        BY <1>1, <1>7, <1>8 DEF Sdelay
    <1>9. CASE Discard(t)
        BY <1>1, <1>7, <1>9, HandledExists DEF Discard, Returns
    <1>10. CASE Link(t)
        BY <1>1, <1>2, <1>7, <1>10, HandledExists DEF Link, Returns
    <1>11. CASE Lazy(t) \/ Memoize(t) \/ Return(t) \/ Determine(t)
        BY <1>2, <1>11 DEF Lazy, Memoize, Return, Determine
    <1> QED BY <1>3, <1>4, <1>5, <1>6, <1>8, <1>9, <1>10, <1>11 DEF Step

LEMMA HandlersStep ==
    ASSUME TypeOK, Next
    PROVE  HandlersOK'
    <1> PICK t \in Threads : Step(t) BY DEF Next
    <1>t. Types /\ HandlersOK BY DEF TypeOK
    <1>r. Reachable \subseteq Reachable' BY ReachableStays
    <1>1. \A s \in Threads \ {t} : stack'[s] = stack[s] /\ obj'[s] = obj[s]
        BY <1>t DEF Types, Step, Lazy, Memoize, Delay, Sdelay, force, Return, CallCC,
                    ApplyContinuation, Discard, Link, Determine, Returns
    <1>2. ASSUME Runs(t)' \/ (stack'[t] = stack[t] /\ obj'[t] = obj[t])
          PROVE  HandlersOK'
        BY <1>1, <1>2, <1>t, <1>r DEF HandlersOK, Runs
    <1>3. CASE Return(t)
        <2>1. stack' = stack /\ stack[t] # <<>> /\ Last(stack[t]).fn = "do_handle_result"
            BY <1>3 DEF Return
        <2>2. Last(stack[t]) # EvalOperand BY <2>1 DEF EvalOperand
        <2>3. obj'[t] \in Reachable' BY <1>3, <1>t, <1>r DEF Return, Types
        <2> QED BY <1>1, <1>t, <1>r, <2>1, <2>2, <2>3 DEF HandlersOK, Runs
    <1>4. CASE Lazy(t) \/ Memoize(t) \/ Delay(t) \/ Sdelay(t) \/ force(t) \/ CallCC(t)
               \/ ApplyContinuation(t)
        BY <1>2, <1>4 DEF Lazy, Memoize, Delay, Sdelay, force, CallCC,
                          ApplyContinuation, Runs
    <1>5. CASE Discard(t)
        BY <1>2, <1>5, <1>t DEF Discard, Returns, Runs, Types
    <1>6. CASE Link(t)
        BY <1>2, <1>6, <1>t DEF Link, Returns, Runs, Types
    <1>7. CASE Determine(t)
        BY <1>2, <1>7 DEF Determine
    <1> QED BY <1>3, <1>4, <1>5, <1>6, <1>7 DEF Step

\* Every promise, node and object in use exists (TypeOK).
THEOREM TypeCorrect == Spec => []TypeOK
    <1>1. Init => TypeOK
        <2> SUFFICES ASSUME Init PROVE TypeOK OBVIOUS
        <2> USE PromisesAssumption DEF Init
        <2>1. Types BY DEF Types
        <2>2. NodesOK BY DEF NodesOK, Exists, Objects
        <2>3. FramesOK BY DEF FramesOK, ForcedExist
        <2>4. HandlersOK BY DEF HandlersOK, Runs
        <2> QED BY <2>1, <2>2, <2>3, <2>4 DEF TypeOK
    <1>2. TypeOK /\ [Next]_vars => TypeOK'
        <2>1. CASE UNCHANGED vars
            BY <2>1 DEF vars, TypeOK, Types, NodesOK, FramesOK, HandlersOK, ForcedExist,
                        Exists, Reachable, Runs
        <2>2. CASE Next
            BY <2>2, TypesStep, NodesStep, FramesStep, HandlersStep DEF TypeOK
        <2> QED BY <2>1, <2>2
    <1> QED BY <1>1, <1>2, PTL DEF Spec

-----------------------------------------------------------------------------
(***************************************************************************)
(* Every step is one of the promises of the documentation.                 *)
(***************************************************************************)
\* A new promise changes what no other has determined.
LEMMA MakeCells ==
    ASSUME TypeOK, NEW p \in Promises, NEW o \in {Undetermined} \cup Objects,
           kmake_promise(p, o), UNCHANGED results, TypeOK'
    PROVE  Cells!Next
    <1>t. Types /\ Types' /\ NodesOK BY DEF TypeOK
    <1>1. /\ ~Exists(p) /\ cell' = [cell EXCEPT ![p] = o] /\ node' = node
        BY DEF kmake_promise
    <1>2. \A q \in Promises : q # p => node[q] # p
        BY <1>t, <1>1 DEF NodesOK
    <1>3. node[p] = p BY <1>t, <1>1 DEF NodesOK
    <1>4. value[p] = Unmade /\ value'[p] = o
        BY <1>t, <1>1, <1>3 DEF Types, Exists, value
    <1>5. \A q \in Promises : q # p => value'[q] = value[q]
        BY <1>t, <1>1, <1>2 DEF Types, value
    <1>6. value' \in [Promises -> {Unmade, Undetermined} \cup Objects]
        BY <1>t DEF Types, value
    <1>7. ~Cells!Determines(p)
        BY <1>4, PromisesAssumption DEF Cells!Determines
    <1>8. \A q \in Promises : Cells!Determines(q) => q = p
        BY <1>5, PromisesAssumption DEF Cells!Determines
    <1> QED BY <1>4, <1>5, <1>6, <1>7, <1>8 DEF Cells!Next, Cells!Made

LEMMA LinkCells ==
    ASSUME TypeOK, TypeOK', NEW t \in Threads, Link(t)
    PROVE  Cells!Next
    <1>t. Types /\ Types' /\ NodesOK BY DEF TypeOK
    <1>1. prom(t) \in Promises /\ Exists(prom(t)) /\ obj[t] \in Promises
        BY HandledExists DEF Link
    <1>2. Exists(obj[t])
        BY <1>1, PromisesAssumption DEF TypeOK, HandlersOK, Reachable, Link
    <1>3. /\ node' = [node EXCEPT ![prom(t)] = node[obj[t]]] /\ cell' = cell
        BY DEF Link
    <1>4. value[prom(t)] = Undetermined
        BY <1>1, <1>t DEF Link, Determined, value, Types, NodesOK, Exists
    <1>5. value'[prom(t)] = value[obj[t]]
        BY <1>1, <1>3, <1>t DEF value, Types
    <1>6. value[obj[t]] \in {Undetermined} \cup Objects
        BY <1>1, <1>2, <1>t DEF value, Types, NodesOK, Exists
    <1>7. \A q \in Promises : q # prom(t) => value'[q] = value[q]
        BY <1>3, <1>t DEF value, Types
    <1>8. value' \in [Promises -> {Unmade, Undetermined} \cup Objects]
        BY <1>t DEF Types, value
    <1>9. \A q \in Promises : Cells!Determines(q) => q = prom(t)
        BY <1>7, PromisesAssumption DEF Cells!Determines
    <1>10. \A q \in Promises : value'[q] = value[q] \/ Cells!Determines(q)
        BY <1>4, <1>5, <1>6, <1>7 DEF Cells!Determines
    <1>11. /\ results \subseteq results'
           /\ \A r \in results' \ results :
                value'[prom(t)] \in Objects /\ r = <<prom(t), value'[prom(t)]>>
        BY <1>1, <1>5 DEF Link, Returns, Determined
    <1> QED BY <1>1, <1>8, <1>9, <1>10, <1>11 DEF Cells!Next

LEMMA DetermineCells ==
    ASSUME TypeOK, TypeOK', NEW t \in Threads, Determine(t)
    PROVE  Cells!Next
    <1>t. Types /\ Types' /\ NodesOK BY DEF TypeOK
    <1> DEFINE n == node[prom(t)]
    <1>1. prom(t) \in Promises /\ Exists(prom(t))
        BY HandledExists DEF Determine
    <1>2. cell' = [cell EXCEPT ![n] = obj[t]] /\ node' = node /\ results' = results
        BY DEF Determine
    <1>3. obj[t] \in Objects /\ n \in Promises
        BY <1>t, <1>1 DEF Determine, Runs, Types
    <1>4. cell[n] = Undetermined
        BY <1>1, <1>t DEF Determine, Determined, value, Types, NodesOK, Exists
    <1>5. \A q \in Promises :
            IF node[q] = n THEN value[q] = Undetermined /\ value'[q] = obj[t]
            ELSE value'[q] = value[q]
        BY <1>2, <1>3, <1>4, <1>t DEF value, Types
    <1>6. value' \in [Promises -> {Unmade, Undetermined} \cup Objects]
        BY <1>t DEF Types, value
    <1>7. \A q \in Promises : Cells!Determines(q) => value'[q] = obj[t]
        BY <1>5, PromisesAssumption DEF Cells!Determines
    <1>8. \A q \in Promises : value'[q] = value[q] \/ Cells!Determines(q)
        BY <1>3, <1>5 DEF Cells!Determines
    <1> QED BY <1>2, <1>6, <1>7, <1>8 DEF Cells!Next

\* A call to force that returns, of a promise that has been determined.
LEMMA ReturnCells ==
    ASSUME TypeOK, UNCHANGED <<node, cell>>,
           NEW p \in Promises, Determined(p), results' = results \cup {<<p, value[p]>>}
    PROVE  Cells!Next
    <1>1. value' = value BY DEF value
    <1>2. value \in [Promises -> {Unmade, Undetermined} \cup Objects]
        BY DEF TypeOK, Types, value
    <1>3. \A q \in Promises : ~Cells!Determines(q)
        BY <1>1, PromisesAssumption DEF Cells!Determines
    <1> QED BY <1>1, <1>2, <1>3 DEF Cells!Next, Determined

LEMMA StepCells ==
    ASSUME TypeOK, TypeOK', Next
    PROVE  Cells!Next \/ UNCHANGED <<value, results>>
    <1> PICK t \in Threads : Step(t) BY DEF Next
    <1>o. Reachable \subseteq Objects BY DEF Reachable, Objects
    <1>1. CASE Lazy(t) BY <1>1, MakeCells DEF Lazy
    <1>2. CASE Memoize(t) BY <1>2, <1>o, MakeCells DEF Memoize
    <1>3. CASE Sdelay(t) BY <1>3, MakeCells DEF Sdelay
    <1>4. CASE force(t)
        BY <1>4, ReturnCells DEF force, value
    <1>5. CASE Discard(t)
        BY <1>5, HandledExists, ReturnCells DEF Discard, Returns
    <1>6. CASE Link(t) BY <1>6, LinkCells
    <1>7. CASE Determine(t) BY <1>7, DetermineCells
    <1>8. CASE Delay(t) \/ Return(t) \/ CallCC(t) \/ ApplyContinuation(t)
        BY <1>8 DEF Delay, Return, CallCC, ApplyContinuation, value
    <1> QED BY <1>1, <1>2, <1>3, <1>4, <1>5, <1>6, <1>7, <1>8 DEF Step

\* The promises of klisp are write-once cells, and a call to force returns what
\* is in the cell (Implements).
THEOREM Refinement == Spec => Implements
    <1>1. Init => Cells!Init
        BY DEF Init, Cells!Init, value
    <1>2. TypeOK /\ TypeOK' /\ [Next]_vars => [Cells!Next]_<<value, results>>
        <2>1. CASE UNCHANGED vars
            BY <2>1 DEF vars, value
        <2> QED BY <2>1, StepCells
    <1> QED BY <1>1, <1>2, TypeCorrect, PTL DEF Spec, Implements, Cells!Spec

\* Whatever the nesting, the threads and the captured continuations, all forces
\* of a promise that return, return one object (SameValueForever).
THEOREM ForcesAgree == Spec => []SameValueForever
    <1>1. Init => SameValueForever BY DEF Init, SameValueForever
    <1>2. SameValueForever /\ TypeOK /\ TypeOK' /\ [Next]_vars => SameValueForever'
        <2> SUFFICES ASSUME SameValueForever, TypeOK, TypeOK', [Next]_vars
                     PROVE  SameValueForever'
            OBVIOUS
        <2>1. CASE UNCHANGED <<value, results>>
            BY <2>1 DEF SameValueForever
        <2>2. CASE Cells!Next
            <3> SUFFICES ASSUME NEW r \in results' PROVE value'[r[1]] = r[2]
                BY DEF SameValueForever
            <3>1. CASE r \in results
                <4>1. r[1] \in Promises /\ r[2] \in Objects /\ value[r[1]] = r[2]
                    BY <3>1 DEF TypeOK, Types, SameValueForever
                <4> QED BY <2>2, <4>1, PromisesAssumption
                        DEF Cells!Next, Cells!Made, Cells!Determines
            <3>2. CASE r \notin results
                BY <2>2, <3>2 DEF Cells!Next
            <3> QED BY <3>1, <3>2
        <2>3. CASE UNCHANGED vars
            BY <2>3, <2>1 DEF vars, value
        <2> QED BY <2>1, <2>2, <2>3, StepCells
    <1> QED BY <1>1, <1>2, TypeCorrect, PTL DEF Spec

=============================================================================
