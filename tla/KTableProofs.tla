----------------------------- MODULE KTableProofs -----------------------------
(***************************************************************************)
(* Proofs about KTable: Brent's invariant and the counts hold in every     *)
(* table (TableSafety), and a table is a finite map (TableIsMap).          *)
(*                                                                         *)
(* Brent's invariant is not inductive: newkey moves the colliding node and *)
(* goes through the chain from its main position to find what is before    *)
(* it. The invariant that is, IInv, says of the hash part that its chains  *)
(* have no cycle and no two nodes with one successor, that every key is in *)
(* one node, in the chain from its main position, and that no free node is *)
(* in a chain; that what is before lastfree is all that is free; and that  *)
(* there is a free node for each pair a resize has taken from the array.   *)
(*                                                                         *)
(* A chain is said to reach a node when every closed set of nodes with its *)
(* start has the node: that needs no induction on the way to it. The three *)
(* ways to put a key (HereKeeps, ChainKeeps, MoveKeeps) are about any hash *)
(* part, and say which bindings come of it.                                *)
(*                                                                         *)
(* That the table is a map follows from what each step leaves in work and  *)
(* what it changes of what is found: a key put takes it from the one to    *)
(* the other, and a resize or a copy lists all bindings, once each.        *)
(***************************************************************************)
EXTENDS KTable, Lemmas

NodeType(n) == [key : Keys \cup {Free, Dead}, val : Values \cup {Free},
                next : Indices(n) \cup {NULL}]
PairType == [key : Keys, val : Values \cup {Free}]

-----------------------------------------------------------------------------
(***************************************************************************)
(* The chains of a hash part nd whose keys have the main positions M.      *)
(***************************************************************************)
Closed(nd, S) == \A i \in S : nd[i].next \in S \cup {NULL}

\* b is in the chain from a.
Reaches(nd, a, b) == \A S \in SUBSET DOMAIN nd : a \in S /\ Closed(nd, S) => b \in S

FreeApart(nd) ==
    /\ \A i \in DOMAIN nd : nd[i].key = Free => nd[i].next = NULL
    /\ \A i \in DOMAIN nd : nd[i].next # NULL => nd[nd[i].next].key # Free
OneBefore(nd) ==
    \A i, j \in DOMAIN nd : nd[i].next = nd[j].next /\ nd[i].next # NULL => i = j
Acyclic(nd) == \A S \in SUBSET DOMAIN nd : (\A i \in S : nd[i].next \in S) => S = {}
KeysReached(nd, M) ==
    \A i \in DOMAIN nd : nd[i].key \in Keys => Reaches(nd, M[nd[i].key], i)
KeysOnce(nd) ==
    \A i, j \in DOMAIN nd : nd[i].key \in Keys /\ nd[i].key = nd[j].key => i = j
\* What keeps a key from its main position is in its own.
MainFirst(nd, M) ==
    \A i \in DOMAIN nd :
        nd[i].key \in Keys =>
            LET m == M[nd[i].key] IN m # i /\ nd[m].key \in Keys => M[nd[m].key] = m

Typed(nd, n, M) ==
    /\ n \in Nat /\ n >= 1
    /\ nd \in [Indices(n) -> NodeType(n)]
    /\ M \in [Keys -> Indices(n)]
    /\ \A i \in Indices(n) : nd[i].key \in {Free, Dead} => nd[i].val = Free

WellChained(nd, M) ==
    /\ FreeApart(nd) /\ OneBefore(nd) /\ Acyclic(nd)
    /\ KeysReached(nd, M) /\ KeysOnce(nd) /\ MainFirst(nd, M)

\* The key c is bound to w in nd.
Binds(nd, c, w) == \E i \in DOMAIN nd : nd[i].key = c /\ nd[i].val = w
NotUsed(nd) == {i \in DOMAIN nd : nd[i].key = Free}
Lacks(nd, k) == \A i \in DOMAIN nd : nd[i].key # k

\* nd2 is nd with the key k bound to v, and x no longer free.
Adds(nd, nd2, k, v, x) ==
    /\ \A c \in Keys \ {k} : \A w \in Values : Binds(nd2, c, w) <=> Binds(nd, c, w)
    /\ \A w \in Values : Binds(nd2, k, w) <=> w = v
    /\ NotUsed(nd2) = NotUsed(nd) \ {x}
    /\ \A i \in DOMAIN nd2 : nd2[i].key # k => \E j \in DOMAIN nd : nd[j].key = nd2[i].key

-----------------------------------------------------------------------------
(***************************************************************************)
(* The inductive invariant.                                                *)
(***************************************************************************)
MainOf(n) ==
    [k \in Keys |-> IF k \in Ints THEN k % (IF n > 2 THEN n - 1 ELSE 1) ELSE hash[k] % n]

KeyPlaces ==
    /\ \A i \in DOMAIN array : array[i] # Free => i \in Ints
    /\ \A i \in DOMAIN node : node[i].key \in Ints => node[i].key >= sizearray
FreePlaces ==
    /\ \A i \in DOMAIN node : node[i].key = Free => dummy \/ i < lastfree
    /\ dummy => lastfree = 0
Room == moving > 0 => ~dummy /\ moving <= Cardinality(NotUsed(node))

Chains ==
    Typed(node, sizenode, MainOf(sizenode)) /\ WellChained(node, MainOf(sizenode))

IInv ==
    /\ TypeOK
    /\ sizearray \in Nat
    /\ work \in Seq(PairType)
    /\ Chains /\ KeyPlaces /\ FreePlaces /\ Room

LEMMA TypedFacts ==
    ASSUME NEW nd, NEW n, NEW M, Typed(nd, n, M)
    PROVE  /\ DOMAIN nd = Indices(n) /\ n \in Nat /\ n >= 1 /\ DOMAIN nd \subseteq Nat
           /\ NULL \notin DOMAIN nd
           /\ \A i \in DOMAIN nd : /\ nd[i].next \in DOMAIN nd \cup {NULL}
                                   /\ nd[i].key \in Keys \cup {Free, Dead}
                                   /\ nd[i].val \in Values \cup {Free}
           /\ \A k \in Keys : M[k] \in DOMAIN nd
BY DEF Typed, NodeType, NULL, Indices

LEMMA ReachesSelf == ASSUME NEW nd, NEW a PROVE Reaches(nd, a, a)
BY DEF Reaches

LEMMA ReachesNext ==
    ASSUME NEW nd, NEW a \in DOMAIN nd, NEW b, nd[a].next \in DOMAIN nd, b # a,
           NULL \notin DOMAIN nd
    PROVE  Reaches(nd, a, b) <=> Reaches(nd, nd[a].next, b)
<1>0. PICK m : m = nd[a].next OBVIOUS
<1>1. ASSUME Reaches(nd, a, b), NEW S \in SUBSET DOMAIN nd, m \in S, Closed(nd, S)
      PROVE  b \in S
  <2>1. S \cup {a} \in SUBSET DOMAIN nd /\ a \in S \cup {a} OBVIOUS
  <2>2. Closed(nd, S \cup {a}) BY <1>0, <1>1 DEF Closed
  <2>3. b \in S \cup {a} BY <1>1, <2>1, <2>2 DEF Reaches
  <2>4. QED BY <2>3
<1>2. ASSUME Reaches(nd, m, b), NEW S \in SUBSET DOMAIN nd, a \in S, Closed(nd, S)
      PROVE  b \in S
  <2>1. m \in S BY <1>0, <1>2 DEF Closed
  <2>2. QED BY <1>2, <2>1 DEF Reaches
<1>3. QED BY <1>0, <1>1, <1>2 DEF Reaches

LEMMA ReachesEnd ==
    ASSUME NEW nd, NEW a \in DOMAIN nd, NEW b, nd[a].next = NULL, Reaches(nd, a, b)
    PROVE  b = a
<1>1. {a} \in SUBSET DOMAIN nd /\ Closed(nd, {a}) BY DEF Closed
<1>2. QED BY <1>1 DEF Reaches

LEMMA NotItself ==
    ASSUME NEW nd, Acyclic(nd), NEW a \in DOMAIN nd
    PROVE  nd[a].next # a
<1>1. {a} \in SUBSET DOMAIN nd /\ {a} # {} OBVIOUS
<1>2. QED BY <1>1 DEF Acyclic

(***************************************************************************)
(* The search for a key finds its node.                                    *)
(***************************************************************************)
IsSearchFor(f, nd, k) ==
    f = [i \in DOMAIN nd \cup {NULL} |->
            IF i = NULL \/ nd[i].key = k THEN i ELSE f[nd[i].next]]

LEMMA SearchForExists ==
    ASSUME NEW nd, NEW n, NEW M, Typed(nd, n, M), KeysOnce(nd), NEW k \in Keys
    PROVE  \E f : IsSearchFor(f, nd, k)
<1> DEFINE D == DOMAIN nd
           At(i) == {j \in D : nd[j].key = k /\ Reaches(nd, i, j)}
<1>1. PICK f : f = [i \in D \cup {NULL} |->
                       IF i = NULL \/ At(i) = {} THEN NULL ELSE CHOOSE j \in At(i) : TRUE]
  OBVIOUS
<1>2. \A i \in D : \A j \in At(i) : f[i] = j
  <2>1. SUFFICES ASSUME NEW i \in D, NEW j \in At(i) PROVE f[i] = j OBVIOUS
  <2>2. f[i] = CHOOSE j1 \in At(i) : TRUE BY <1>1, <2>1, TypedFacts
  <2>3. f[i] \in At(i) BY <2>2
  <2>4. QED BY <2>1, <2>3 DEF KeysOnce
<1>3. \A i \in D : At(i) = {} => f[i] = NULL BY <1>1
<1>4. f[NULL] = NULL BY <1>1
<1>5. ASSUME NEW i \in D
      PROVE  f[i] = IF nd[i].key = k THEN i ELSE f[nd[i].next]
  <2>1. CASE nd[i].key = k
    <3>1. i \in At(i) BY <2>1, ReachesSelf
    <3>2. QED BY <2>1, <3>1, <1>2
  <2>2. CASE nd[i].key # k /\ nd[i].next = NULL
    <3>1. At(i) = {}
      <4>1. SUFFICES ASSUME NEW j \in At(i) PROVE FALSE OBVIOUS
      <4>2. j = i BY <2>2, <4>1, ReachesEnd
      <4>3. QED BY <2>2, <4>1, <4>2
    <3>2. QED BY <3>1, <1>3, <1>4, <2>2
  <2>3. CASE nd[i].key # k /\ nd[i].next # NULL
    <3>1. PICK m : m = nd[i].next OBVIOUS
    <3>2. m \in D BY <2>3, <3>1, TypedFacts
    <3>3. At(i) = At(m)
      <4>1. ASSUME NEW j \in D, nd[j].key = k
            PROVE  Reaches(nd, i, j) <=> Reaches(nd, m, j)
        <5>1. j # i BY <4>1, <2>3
        <5>2. NULL \notin DOMAIN nd BY TypedFacts
        <5>3. nd[i].next \in DOMAIN nd BY <3>1, <3>2
        <5>4. QED BY <5>1, <5>2, <5>3, <3>1, ReachesNext
      <4>2. QED BY <4>1
    <3>4. CASE At(i) = {} BY <1>3, <2>3, <3>1, <3>2, <3>3, <3>4
    <3>5. ASSUME NEW j \in At(i) PROVE f[i] = f[m]
      <4>1. f[i] = j BY <1>2, <3>5
      <4>2. f[m] = j BY <1>2, <3>2, <3>3, <3>5
      <4>3. QED BY <4>1, <4>2
    <3>6. QED BY <2>3, <3>1, <3>4, <3>5
  <2>4. QED BY <2>1, <2>2, <2>3
<1>6. f = [i \in D \cup {NULL} |-> IF i = NULL \/ nd[i].key = k THEN i ELSE f[nd[i].next]]
  <2>1. f = [i \in D \cup {NULL} |-> f[i]] BY <1>1
  <2>2. \A i \in D \cup {NULL} :
           f[i] = IF i = NULL \/ nd[i].key = k THEN i ELSE f[nd[i].next]
    BY <1>4, <1>5, TypedFacts
  <2>3. QED BY <2>1, <2>2
<1>7. QED BY <1>6 DEF IsSearchFor

LEMMA SearchForFinds ==
    ASSUME NEW nd, NEW n, NEW M, Typed(nd, n, M), KeysOnce(nd), Acyclic(nd), NEW k \in Keys,
           NEW f, IsSearchFor(f, nd, k)
    PROVE  /\ \A i, j \in DOMAIN nd : nd[j].key = k /\ Reaches(nd, i, j) => f[i] = j
           /\ \A i \in DOMAIN nd :
                 f[i] = NULL \/ (f[i] \in DOMAIN nd /\ nd[f[i]].key = k)
<1> DEFINE D == DOMAIN nd
<1>1. f[NULL] = NULL BY DEF IsSearchFor
<1>2. \A i \in D : f[i] = IF nd[i].key = k THEN i ELSE f[nd[i].next]
  <2>1. NULL \notin D BY TypedFacts
  <2>2. QED BY <2>1 DEF IsSearchFor
<1>3. \A i \in D : nd[i].next \in D \cup {NULL} BY TypedFacts
<1>4. ASSUME NEW i \in D, NEW j \in D, nd[j].key = k, Reaches(nd, i, j), f[i] # j
      PROVE  FALSE
  <2> DEFINE T == {x \in D : f[x] # j}
  <2>1. ASSUME NEW x \in T PROVE nd[x].next \in T \cup {NULL}
    <3>1. nd[x].key # k
      <4>1. SUFFICES ASSUME nd[x].key = k PROVE FALSE OBVIOUS
      <4>2. x = j BY <4>1, <1>4, <2>1 DEF KeysOnce
      <4>3. f[x] = x BY <4>1, <1>2, <2>1
      <4>4. QED BY <4>2, <4>3, <2>1
    <3>2. f[x] = f[nd[x].next] BY <1>2, <2>1, <3>1
    <3>3. QED BY <1>3, <2>1, <3>2
  <2>2. T \in SUBSET DOMAIN nd /\ i \in T BY <1>4
  <2>3. Closed(nd, T) BY <2>1 DEF Closed
  <2>4. j \in T BY <2>2, <2>3, <1>4 DEF Reaches
  <2>5. f[j] = j BY <1>2, <1>4
  <2>6. QED BY <2>4, <2>5
<1>5. \A i \in D : f[i] = NULL \/ (f[i] \in D /\ nd[f[i]].key = k)
  <2> DEFINE T == {x \in D : ~ (f[x] = NULL \/ (f[x] \in D /\ nd[f[x]].key = k))}
  <2>1. ASSUME NEW x \in T PROVE nd[x].next \in T
    <3>1. nd[x].key # k
      <4>1. SUFFICES ASSUME nd[x].key = k PROVE FALSE OBVIOUS
      <4>2. f[x] = x BY <4>1, <1>2, <2>1
      <4>3. QED BY <4>1, <4>2, <2>1
    <3>2. f[x] = f[nd[x].next] BY <1>2, <2>1, <3>1
    <3>3. nd[x].next # NULL BY <1>1, <2>1, <3>2
    <3>4. nd[x].next \in D BY <1>3, <2>1, <3>3
    <3>5. QED BY <2>1, <3>2, <3>4
  <2>2. T \in SUBSET DOMAIN nd OBVIOUS
  <2>3. T = {} BY <2>1, <2>2 DEF Acyclic
  <2>4. QED BY <2>3
<1>6. QED BY <1>4, <1>5

(***************************************************************************)
(* What an insertion leaves of the chains.                                 *)
(***************************************************************************)
LEMMA NoSpecialKeys == Free \notin Keys /\ Dead \notin Keys /\ Free # Dead /\ Free \notin Values
BY TableAssumption DEF Keys

SameNext(nd, nd2) ==
    DOMAIN nd2 = DOMAIN nd /\ \A i \in DOMAIN nd : nd2[i].next = nd[i].next

LEMMA SameNextFacts ==
    ASSUME NEW nd, NEW nd2, SameNext(nd, nd2), Acyclic(nd), OneBefore(nd)
    PROVE  /\ Acyclic(nd2) /\ OneBefore(nd2)
           /\ \A a, b : Reaches(nd, a, b) => Reaches(nd2, a, b)
<1>1. Acyclic(nd2) BY DEF SameNext, Acyclic
<1>2. OneBefore(nd2) BY DEF SameNext, OneBefore
<1>3. \A S \in SUBSET DOMAIN nd : Closed(nd2, S) => Closed(nd, S) BY DEF SameNext, Closed
<1>4. \A a, b : Reaches(nd, a, b) => Reaches(nd2, a, b) BY <1>3 DEF Reaches, SameNext
<1>5. QED BY <1>1, <1>2, <1>4

Assigned(nd, nd2, m, v) ==
    nd2 = [nd EXCEPT ![m].val = v]

LEMMA AssignKeeps ==
    ASSUME NEW nd, NEW n, NEW M, Typed(nd, n, M), WellChained(nd, M),
           NEW k \in Keys, NEW v \in Values \cup {Free}, NEW m \in DOMAIN nd, nd[m].key = k,
           NEW nd2, Assigned(nd, nd2, m, v)
    PROVE  /\ Typed(nd2, n, M) /\ WellChained(nd2, M) /\ DOMAIN nd2 = DOMAIN nd
           /\ \A i \in DOMAIN nd : nd2[i].key = nd[i].key
           /\ \A i \in DOMAIN nd : i # m => nd2[i] = nd[i]
           /\ nd2[m].val = v
<1> USE DEF Assigned
<1>1. /\ DOMAIN nd2 = DOMAIN nd
      /\ \A i \in DOMAIN nd : nd2[i].key = nd[i].key /\ nd2[i].next = nd[i].next
      /\ \A i \in DOMAIN nd : i # m => nd2[i] = nd[i]
      /\ nd2[m].val = v
  BY DEF Typed, NodeType
<1>2. Typed(nd2, n, M) BY <1>1, NoSpecialKeys DEF Typed, NodeType
<1>3. SameNext(nd, nd2) BY <1>1 DEF SameNext
<1>4. /\ Acyclic(nd2) /\ OneBefore(nd2)
      /\ \A a, b : Reaches(nd, a, b) => Reaches(nd2, a, b)
  BY <1>3, SameNextFacts DEF WellChained
<1>5. FreeApart(nd2) BY <1>1, TypedFacts DEF WellChained, FreeApart
<1>6. KeysReached(nd2, M) BY <1>1, <1>4 DEF WellChained, KeysReached
<1>7. KeysOnce(nd2) BY <1>1 DEF WellChained, KeysOnce
<1>8. MainFirst(nd2, M) BY <1>1, TypedFacts DEF WellChained, MainFirst
<1>9. QED BY <1>1, <1>2, <1>4, <1>5, <1>6, <1>7, <1>8 DEF WellChained

Killed(nd, nd2) ==
    nd2 = [i \in DOMAIN nd |->
             IF nd[i].val = Free /\ nd[i].key \in Symbols
             THEN [nd[i] EXCEPT !.key = Dead] ELSE nd[i]]

LEMMA KillKeeps ==
    ASSUME NEW nd, NEW n, NEW M, Typed(nd, n, M), WellChained(nd, M),
           NEW nd2, Killed(nd, nd2)
    PROVE  /\ Typed(nd2, n, M) /\ WellChained(nd2, M) /\ DOMAIN nd2 = DOMAIN nd
           /\ \A i \in DOMAIN nd : nd2[i].key = nd[i].key \/ nd2[i].key = Dead
           /\ \A i \in DOMAIN nd : nd2[i].val = nd[i].val
           /\ \A i \in DOMAIN nd : nd[i].val # Free => nd2[i].key = nd[i].key
           /\ NotUsed(nd2) = NotUsed(nd)
<1> USE DEF Killed
<1>1. /\ DOMAIN nd2 = DOMAIN nd
      /\ \A i \in DOMAIN nd : nd2[i].key = nd[i].key \/ nd2[i].key = Dead
      /\ \A i \in DOMAIN nd : nd[i].key \notin Keys => nd2[i].key = nd[i].key
      /\ \A i \in DOMAIN nd : nd2[i].val = nd[i].val /\ nd2[i].next = nd[i].next
      /\ \A i \in DOMAIN nd : nd[i].val # Free => nd2[i].key = nd[i].key
      /\ \A i \in DOMAIN nd : nd2[i].key = Dead => nd2[i].val = Free
  BY DEF Typed, NodeType, Keys
<1>2. \A i \in DOMAIN nd : nd2[i] \in NodeType(n)
  BY DEF Typed, NodeType
<1>3. Typed(nd2, n, M) BY <1>1, <1>2 DEF Typed
<1>4. SameNext(nd, nd2) BY <1>1 DEF SameNext
<1>5. /\ Acyclic(nd2) /\ OneBefore(nd2)
      /\ \A a, b : Reaches(nd, a, b) => Reaches(nd2, a, b)
  <2>1. Acyclic(nd) /\ OneBefore(nd) BY DEF WellChained
  <2>2. QED BY ONLY <1>4, <2>1, SameNextFacts
<1>6. \A i \in DOMAIN nd : nd2[i].key = Free <=> nd[i].key = Free
  BY <1>1, NoSpecialKeys
<1>7. FreeApart(nd2) BY <1>1, <1>6, TypedFacts DEF WellChained, FreeApart
<1>8. \A i \in DOMAIN nd : nd2[i].key \in Keys => nd2[i].key = nd[i].key
  BY <1>1, NoSpecialKeys
<1>9. KeysReached(nd2, M) BY <1>1, <1>5, <1>8 DEF WellChained, KeysReached
<1>10. KeysOnce(nd2) BY <1>1, <1>8 DEF WellChained, KeysOnce
<1>11. MainFirst(nd2, M) BY <1>1, <1>8, TypedFacts DEF WellChained, MainFirst
<1>12. NotUsed(nd2) = NotUsed(nd) BY <1>1, <1>6 DEF NotUsed
<1>13. QED BY <1>1, <1>3, <1>5, <1>7, <1>9, <1>10, <1>11, <1>12 DEF WellChained

PutHere(nd, nd2, k, v, m) ==
    nd2 = [nd EXCEPT ![m].key = k, ![m].val = v]

LEMMA HereKeeps ==
    ASSUME NEW nd, NEW n, NEW M, Typed(nd, n, M), WellChained(nd, M),
           NEW k \in Keys, NEW v \in Values \cup {Free}, NEW m, m = M[k],
           Lacks(nd, k), nd[m].val = Free,
           NEW nd2, PutHere(nd, nd2, k, v, m)
    PROVE  /\ Typed(nd2, n, M) /\ WellChained(nd2, M) /\ DOMAIN nd2 = DOMAIN nd
           /\ Adds(nd, nd2, k, v, m)
<1> USE DEF PutHere
<1>0. m \in DOMAIN nd BY TypedFacts
<1>1. /\ DOMAIN nd2 = DOMAIN nd
      /\ \A i \in DOMAIN nd : nd2[i].next = nd[i].next
      /\ \A i \in DOMAIN nd : i # m => nd2[i] = nd[i]
      /\ nd2[m].key = k /\ nd2[m].val = v
  <2>1. PICK nd1 : nd1 = [nd EXCEPT ![m].key = k] OBVIOUS
  <2>2. /\ DOMAIN nd1 = DOMAIN nd /\ nd1[m].key = k /\ nd1[m].next = nd[m].next
        /\ \A i \in DOMAIN nd : i # m => nd1[i] = nd[i]
        /\ nd1[m] \in [key : {k}, val : Values \cup {Free}, next : Indices(n) \cup {NULL}]
    BY <1>0, <2>1 DEF Typed, NodeType
  <2>3. nd2 = [nd1 EXCEPT ![m].val = v] BY <2>1
  <2>4. QED BY <1>0, <2>2, <2>3
<1>2. \A i \in DOMAIN nd : nd2[i] \in NodeType(n)
  BY <1>0 DEF Typed, NodeType
<1>3. Typed(nd2, n, M) BY <1>1, <1>2, NoSpecialKeys DEF Typed
<1>4. SameNext(nd, nd2) BY <1>1 DEF SameNext
<1>5. /\ Acyclic(nd2) /\ OneBefore(nd2)
      /\ \A a, b : Reaches(nd, a, b) => Reaches(nd2, a, b)
  <2>1. Acyclic(nd) /\ OneBefore(nd) BY DEF WellChained
  <2>2. QED BY ONLY <1>4, <2>1, SameNextFacts
<1>6. FreeApart(nd2)
  <2>1. \A i \in DOMAIN nd : nd2[i].key = Free => nd[i].key = Free
    BY <1>1, NoSpecialKeys
  <2>2. QED BY <1>1, <2>1, TypedFacts DEF WellChained, FreeApart
<1>7. KeysReached(nd2, M)
  <2>1. ASSUME NEW i \in DOMAIN nd, nd2[i].key \in Keys PROVE Reaches(nd2, M[nd2[i].key], i)
    <3>1. CASE i = m BY <3>1, <1>1, ReachesSelf
    <3>2. CASE i # m BY <3>2, <1>1, <1>5, <2>1 DEF WellChained, KeysReached
    <3>3. QED BY <3>1, <3>2
  <2>2. QED BY <1>1, <2>1 DEF KeysReached
<1>8. KeysOnce(nd2) BY <1>1 DEF WellChained, KeysOnce, Lacks
<1>9. MainFirst(nd2, M)
  <2>1. SUFFICES ASSUME NEW i \in DOMAIN nd, nd2[i].key \in Keys, NEW x, x = M[nd2[i].key],
                        x # i, nd2[x].key \in Keys
                 PROVE  M[nd2[x].key] = x
    BY <1>1 DEF MainFirst
  <2>2. i # m BY <1>1, <2>1
  <2>3. CASE x = m BY <1>1, <2>3
  <2>4. CASE x # m
    <3>1. x \in DOMAIN nd BY <2>1, TypedFacts
    <3>2. QED BY <1>1, <2>1, <2>2, <2>4, <3>1 DEF WellChained, MainFirst
  <2>5. QED BY <2>3, <2>4
<1>10. Adds(nd, nd2, k, v, m)
  <2>1. \A c \in Keys \ {k} : \A w \in Values : Binds(nd2, c, w) <=> Binds(nd, c, w)
    BY <1>0, <1>1, NoSpecialKeys DEF Binds
  <2>2. \A w \in Values : Binds(nd2, k, w) <=> w = v BY <1>0, <1>1 DEF Binds, Lacks
  <2>3. NotUsed(nd2) = NotUsed(nd) \ {m} BY <1>0, <1>1, NoSpecialKeys DEF NotUsed
  <2>4. \A i \in DOMAIN nd2 : nd2[i].key # k => \E j \in DOMAIN nd : nd[j].key = nd2[i].key
    BY <1>1
  <2>5. QED BY <2>1, <2>2, <2>3, <2>4 DEF Adds
<1>11. QED BY <1>1, <1>3, <1>5, <1>6, <1>7, <1>8, <1>9, <1>10 DEF WellChained

LEMMA MainTaken ==
    ASSUME NEW nd, NEW n, NEW M, Typed(nd, n, M), WellChained(nd, M),
           NEW i \in DOMAIN nd, nd[i].key \in Keys
    PROVE  nd[M[nd[i].key]].key # Free
<1>1. PICK m : m = M[nd[i].key] OBVIOUS
<1>2. m \in DOMAIN nd /\ Reaches(nd, m, i) BY <1>1, TypedFacts DEF WellChained, KeysReached
<1>3. SUFFICES ASSUME nd[m].key = Free PROVE FALSE BY <1>1
<1>4. nd[m].next = NULL BY <1>2, <1>3 DEF WellChained, FreeApart
<1>5. i = m BY <1>2, <1>4, ReachesEnd
<1>6. QED BY <1>3, <1>5, NoSpecialKeys

\* The new node f is put behind m.
ChainKeepsFacts(nd, nd2, f, m, k, v) ==
    /\ DOMAIN nd2 = DOMAIN nd
    /\ \A i \in DOMAIN nd : i # m /\ i # f => nd2[i] = nd[i]
    /\ nd2[f].key = k /\ nd2[f].val = v /\ nd2[f].next = nd[m].next
    /\ nd2[m].key = nd[m].key /\ nd2[m].val = nd[m].val /\ nd2[m].next = f

PutBehind(nd, nd2, k, v, m, f) ==
    nd2 = [nd EXCEPT ![f] = [key |-> k, val |-> v, next |-> nd[m].next], ![m].next = f]

LEMMA ChainKeeps ==
    ASSUME NEW nd, NEW n, NEW M, Typed(nd, n, M), WellChained(nd, M),
           NEW k \in Keys, NEW v \in Values \cup {Free}, NEW m, m = M[k],
           Lacks(nd, k), nd[m].key \in Keys, M[nd[m].key] = m,
           NEW f \in DOMAIN nd, nd[f].key = Free,
           NEW nd2, PutBehind(nd, nd2, k, v, m, f)
    PROVE  /\ Typed(nd2, n, M) /\ WellChained(nd2, M) /\ DOMAIN nd2 = DOMAIN nd
           /\ Adds(nd, nd2, k, v, f)
<1> USE DEF PutBehind
<1>0. m \in DOMAIN nd /\ f # m BY TypedFacts, NoSpecialKeys
<1>1. ChainKeepsFacts(nd, nd2, f, m, k, v)
  <2>0. PICK l : l = nd[m].next OBVIOUS
  <2>1. PICK nd1 : nd1 = [nd EXCEPT ![f] = [key |-> k, val |-> v, next |-> l]] OBVIOUS
  <2>2. /\ DOMAIN nd1 = DOMAIN nd
        /\ \A i \in DOMAIN nd : i # f => nd1[i] = nd[i]
        /\ nd1[f] = [key |-> k, val |-> v, next |-> l]
    BY <2>1 DEF Typed
  <2>3. nd2 = [nd1 EXCEPT ![m].next = f] BY <2>0, <2>1
  <2>4. nd1[m] \in NodeType(n) BY <1>0, <2>2 DEF Typed
  <2>5. /\ nd2[m].key = nd1[m].key /\ nd2[m].val = nd1[m].val /\ nd2[m].next = f
        /\ DOMAIN nd2 = DOMAIN nd /\ \A i \in DOMAIN nd : i # m => nd2[i] = nd1[i]
    BY <1>0, <2>2, <2>3, <2>4 DEF NodeType
  <2>6. nd2[f].key = k /\ nd2[f].val = v /\ nd2[f].next = l BY <1>0, <2>2, <2>5
  <2>7. QED BY <1>0, <2>0, <2>2, <2>5, <2>6 DEF ChainKeepsFacts
<1>2. Typed(nd2, n, M)
  <2>1. nd2[f] \in NodeType(n)
    <3>1. PICK l : l = nd[m].next OBVIOUS
    <3>2. l \in Indices(n) \cup {NULL} BY <1>0, <3>1, TypedFacts
    <3>3. nd2[f] = [key |-> k, val |-> v, next |-> l] BY <1>0, <3>1 DEF Typed
    <3>4. QED BY <3>2, <3>3 DEF NodeType
  <2>2. nd2[m] \in NodeType(n) BY <1>0 DEF Typed, NodeType
  <2>3. \A i \in DOMAIN nd : nd2[i] \in NodeType(n)
    BY <2>1, <2>2, <1>1 DEF Typed, ChainKeepsFacts
  <2>4. nd2 \in [Indices(n) -> NodeType(n)] BY <2>3 DEF Typed
  <2>5. \A i \in Indices(n) : nd2[i].key \in {Free, Dead} => nd2[i].val = Free
    BY <1>0, <1>1, NoSpecialKeys DEF Typed, ChainKeepsFacts
  <2>6. QED BY <2>4, <2>5 DEF Typed
<1> HIDE DEF Typed
<1>3. \A i \in DOMAIN nd : nd[i].next # f
  <2>1. \A i \in DOMAIN nd : nd[i].next = f => nd[i].next # NULL BY TypedFacts
  <2>2. FreeApart(nd) BY DEF WellChained
  <2>3. QED BY <2>1, <2>2 DEF FreeApart
<1>4. nd[m].next # m BY <1>0, NotItself DEF WellChained
<1>5. FreeApart(nd2)
  <2>1. \A i \in DOMAIN nd : nd2[i].key = Free => i # m /\ i # f /\ nd[i].key = Free
    BY <1>0, <1>1, NoSpecialKeys DEF ChainKeepsFacts
  <2>2. \A i \in DOMAIN nd : nd2[i].key = Free => nd2[i].next = NULL
    BY <2>1, <1>1 DEF ChainKeepsFacts, WellChained, FreeApart
  <2>3. ASSUME NEW i \in DOMAIN nd, NEW j, j = nd2[i].next, j # NULL PROVE nd2[j].key # Free
    <3>1. CASE i = m BY <3>1, <2>3, <1>1, NoSpecialKeys DEF ChainKeepsFacts
    <3>2. CASE i = f
      <4>1. j = nd[m].next /\ j \in DOMAIN nd BY <1>0, <2>3, <3>2, <1>1, TypedFacts DEF ChainKeepsFacts
      <4>2. nd[j].key # Free BY <1>0, <4>1, <2>3 DEF WellChained, FreeApart
      <4>3. QED BY <2>1, <4>1, <4>2
    <3>3. CASE i # m /\ i # f
      <4>1. j = nd[i].next /\ j \in DOMAIN nd BY <2>3, <3>3, <1>1, TypedFacts DEF ChainKeepsFacts
      <4>2. nd[j].key # Free BY <4>1, <2>3 DEF WellChained, FreeApart
      <4>3. QED BY <2>1, <4>1, <4>2
    <3>4. QED BY <3>1, <3>2, <3>3
  <2>4. \A i \in DOMAIN nd : nd2[i].next # NULL => nd2[nd2[i].next].key # Free BY <2>3
  <2>5. DOMAIN nd2 = DOMAIN nd BY <1>1 DEF ChainKeepsFacts
  <2>6. QED BY <2>2, <2>4, <2>5 DEF FreeApart
<1>6. OneBefore(nd2)
  <2>1. \A i, j \in DOMAIN nd : nd[i].next = nd[j].next /\ nd[i].next # NULL => i = j
    BY DEF WellChained, OneBefore
  <2>2. ASSUME NEW i \in DOMAIN nd, NEW j \in DOMAIN nd, nd2[i].next = nd2[j].next,
               nd2[i].next # NULL
        PROVE  i = j
    <3>1. CASE i = m /\ j = f BY <1>0, <3>1, <2>2, <1>1, <1>3 DEF ChainKeepsFacts
    <3>2. CASE i = f /\ j = m BY <1>0, <3>2, <2>2, <1>1, <1>3 DEF ChainKeepsFacts
    <3>3. CASE i = m /\ j # f /\ j # m BY <1>0, <3>3, <2>2, <1>1, <1>3 DEF ChainKeepsFacts
    <3>4. CASE j = m /\ i # f /\ i # m BY <1>0, <3>4, <2>2, <1>1, <1>3 DEF ChainKeepsFacts
    <3>5. CASE i = f /\ j # f /\ j # m
      <4>1. nd[m].next = nd[j].next /\ nd[m].next # NULL
        BY <3>5, <2>2, <1>1 DEF ChainKeepsFacts
      <4>2. QED BY <1>0, <2>1, <3>5, <4>1
    <3>6. CASE j = f /\ i # f /\ i # m
      <4>1. nd[m].next = nd[i].next /\ nd[m].next # NULL
        BY <3>6, <2>2, <1>1 DEF ChainKeepsFacts
      <4>2. QED BY <1>0, <2>1, <3>6, <4>1
    <3>7. CASE i # m /\ i # f /\ j # m /\ j # f
      BY <3>7, <2>1, <2>2, <1>1 DEF ChainKeepsFacts
    <3>8. QED BY <3>1, <3>2, <3>3, <3>4, <3>5, <3>6, <3>7
  <2>3. QED BY <2>2, <1>1 DEF OneBefore, ChainKeepsFacts
<1>7. Acyclic(nd2)
  <2>1. SUFFICES ASSUME NEW S \in SUBSET DOMAIN nd, \A i \in S : nd2[i].next \in S, S # {}
                 PROVE  FALSE
    BY <1>1 DEF Acyclic, ChainKeepsFacts
  <2>2. \A T \in SUBSET DOMAIN nd : (\A i \in T : nd[i].next \in T) => T = {}
    BY DEF WellChained, Acyclic
  <2>3. PICK T : T = S \ {f} OBVIOUS
  <2>4. ASSUME NEW i \in T PROVE nd[i].next \in T
    <3>1. CASE i = m
      <4>1. f \in S BY <3>1, <2>1, <2>3, <2>4, <1>1 DEF ChainKeepsFacts
      <4>2. nd[m].next \in S BY <4>1, <2>1, <1>1 DEF ChainKeepsFacts
      <4>3. QED BY <1>0, <1>3, <3>1, <4>2, <2>3
    <3>2. CASE i # m
      <4>1. nd[i].next \in S BY <3>2, <2>1, <2>3, <2>4, <1>1 DEF ChainKeepsFacts
      <4>2. QED BY <1>3, <2>1, <2>3, <2>4, <4>1
    <3>3. QED BY <3>1, <3>2
  <2>5. T = {} BY <2>1, <2>2, <2>3, <2>4
  <2>6. S = {f} BY <2>1, <2>3, <2>5
  <2>7. nd[m].next = f BY <2>1, <2>6, <1>1 DEF ChainKeepsFacts
  <2>8. QED BY <1>0, <1>3, <2>7
<1>8. ASSUME NEW a \in DOMAIN nd, a # f, NEW b \in DOMAIN nd, b # f, Reaches(nd, a, b)
      PROVE  Reaches(nd2, a, b)
  <2>1. SUFFICES ASSUME NEW S \in SUBSET DOMAIN nd, a \in S, Closed(nd2, S) PROVE b \in S
    BY <1>1 DEF Reaches, ChainKeepsFacts
  <2>2. PICK T : T = S \ {f} OBVIOUS
  <2>3. ASSUME NEW i \in T PROVE nd[i].next \in T \cup {NULL}
    <3>1. CASE i = m
      <4>1. f \in S \cup {NULL} BY <3>1, <2>1, <2>2, <2>3, <1>1 DEF ChainKeepsFacts, Closed
      <4>2. f \in S BY <4>1, TypedFacts
      <4>3. nd[m].next \in S \cup {NULL} BY <4>2, <2>1, <1>1 DEF ChainKeepsFacts, Closed
      <4>4. QED BY <1>0, <1>3, <3>1, <4>3, <2>2
    <3>2. CASE i # m
      <4>1. nd[i].next \in S \cup {NULL}
        BY <3>2, <2>1, <2>2, <2>3, <1>1 DEF ChainKeepsFacts, Closed
      <4>2. QED BY <1>3, <2>1, <2>2, <2>3, <4>1
    <3>3. QED BY <3>1, <3>2
  <2>4. T \in SUBSET DOMAIN nd /\ a \in T /\ Closed(nd, T)
    BY <1>8, <2>1, <2>2, <2>3 DEF Closed
  <2>5. b \in T BY <1>8, <2>4 DEF Reaches
  <2>6. QED BY <2>2, <2>5
<1>9. KeysReached(nd2, M)
  <2>1. ASSUME NEW i \in DOMAIN nd, NEW c \in Keys, c = nd2[i].key PROVE Reaches(nd2, M[c], i)
    <3>1. CASE i = f
      <4>1. M[c] = m BY <2>1, <3>1, <1>1 DEF ChainKeepsFacts
      <4>2. ASSUME NEW S, m \in S, Closed(nd2, S) PROVE f \in S
        <5>1. f \in S \cup {NULL} BY <4>2, <1>1 DEF ChainKeepsFacts, Closed
        <5>2. QED BY <5>1, TypedFacts
      <4>3. QED BY <3>1, <4>1, <4>2 DEF Reaches
    <3>2. CASE i # f
      <4>1. nd[i].key = c BY <2>1, <3>2, <1>1 DEF ChainKeepsFacts
      <4>2. Reaches(nd, M[c], i) BY <2>1, <4>1 DEF WellChained, KeysReached
      <4>3. nd[M[c]].key # Free BY <2>1, <4>1, MainTaken
      <4>4. M[c] \in DOMAIN nd /\ M[c] # f BY <2>1, <4>3, TypedFacts
      <4>5. QED BY <1>8, <2>1, <3>2, <4>2, <4>4
    <3>3. QED BY <3>1, <3>2
  <2>2. QED BY <2>1, <1>1 DEF KeysReached, ChainKeepsFacts
<1>10. KeysOnce(nd2)
  <2>1. \A i \in DOMAIN nd : i # f => nd2[i].key = nd[i].key BY <1>1 DEF ChainKeepsFacts
  <2>2. nd2[f].key = k /\ DOMAIN nd2 = DOMAIN nd BY <1>1 DEF ChainKeepsFacts
  <2>3. QED BY <2>1, <2>2 DEF WellChained, KeysOnce, Lacks
<1>11. MainFirst(nd2, M)
  <2>1. SUFFICES ASSUME NEW i \in DOMAIN nd, nd2[i].key \in Keys, NEW x, x = M[nd2[i].key],
                        x # i, nd2[x].key \in Keys
                 PROVE  M[nd2[x].key] = x
    BY <1>1 DEF MainFirst, ChainKeepsFacts
  <2>2. \A j \in DOMAIN nd : j # f => nd2[j].key = nd[j].key BY <1>1 DEF ChainKeepsFacts
  <2>3. CASE i = f BY <1>0, <1>1, <2>1, <2>2, <2>3 DEF ChainKeepsFacts
  <2>4. CASE i # f
    <3>1. nd[i].key = nd2[i].key BY <2>2, <2>4
    <3>2. x \in DOMAIN nd /\ nd[x].key # Free BY <2>1, <3>1, MainTaken, TypedFacts
    <3>3. nd2[x].key = nd[x].key BY <2>2, <3>2
    <3>4. QED BY <2>1, <3>1, <3>2, <3>3 DEF WellChained, MainFirst
  <2>5. QED BY <2>3, <2>4
<1>12. Adds(nd, nd2, k, v, f)
  <2>0. \A j \in DOMAIN nd : j # f => nd2[j].key = nd[j].key /\ nd2[j].val = nd[j].val
    BY <1>1 DEF ChainKeepsFacts
  <2>1. nd2[f].key = k /\ nd2[f].val = v /\ DOMAIN nd2 = DOMAIN nd
    BY <1>1 DEF ChainKeepsFacts
  <2>2. \A c \in Keys \ {k} : \A w \in Values : Binds(nd2, c, w) <=> Binds(nd, c, w)
    BY <2>0, <2>1, NoSpecialKeys DEF Binds
  <2>3. \A w \in Values : Binds(nd2, k, w) <=> w = v BY <2>0, <2>1 DEF Binds, Lacks
  <2>4. NotUsed(nd2) = NotUsed(nd) \ {f} BY <2>0, <2>1, NoSpecialKeys DEF NotUsed
  <2>5. \A i \in DOMAIN nd2 : nd2[i].key # k => \E j \in DOMAIN nd : nd[j].key = nd2[i].key
    BY <2>0, <2>1
  <2>6. QED BY <2>2, <2>3, <2>4, <2>5 DEF Adds
<1>13. DOMAIN nd2 = DOMAIN nd BY <1>1 DEF ChainKeepsFacts
<1>14. QED BY <1>2, <1>5, <1>6, <1>7, <1>9, <1>10, <1>11, <1>12, <1>13 DEF WellChained

\* The node m, which p is before, is moved to f, and m is taken.
MoveKeepsFacts(nd, nd2, f, p, m, k, v) ==
    /\ DOMAIN nd2 = DOMAIN nd
    /\ \A i \in DOMAIN nd : i # m /\ i # f /\ i # p => nd2[i] = nd[i]
    /\ nd2[f].key = nd[m].key /\ nd2[f].val = nd[m].val /\ nd2[f].next = nd[m].next
    /\ nd2[p].key = nd[p].key /\ nd2[p].val = nd[p].val /\ nd2[p].next = f
    /\ nd2[m].key = k /\ nd2[m].val = v /\ nd2[m].next = NULL

LEMMA PreviousExists ==
    ASSUME NEW nd, NEW n, NEW M, Typed(nd, n, M), WellChained(nd, M),
           NEW m \in DOMAIN nd, nd[m].key \in Keys, M[nd[m].key] # m
    PROVE  \E p \in DOMAIN nd : nd[p].next = m
<1>1. SUFFICES ASSUME \A p \in DOMAIN nd : nd[p].next # m PROVE FALSE OBVIOUS
<1>2. PICK a : a = M[nd[m].key] OBVIOUS
<1>3. a \in DOMAIN nd /\ a # m /\ Reaches(nd, a, m)
  BY <1>2, TypedFacts DEF WellChained, KeysReached
<1>4. PICK S : S = (DOMAIN nd) \ {m} OBVIOUS
<1>5. S \in SUBSET DOMAIN nd /\ a \in S BY <1>3, <1>4
<1>6. Closed(nd, S) BY <1>1, <1>4, TypedFacts DEF Closed
<1>7. m \in S BY <1>3, <1>5, <1>6 DEF Reaches
<1>8. QED BY <1>4, <1>7

PutBefore(nd, nd2, k, v, m, f, p) ==
    nd2 = [nd EXCEPT ![f] = nd[m], ![p].next = f,
                     ![m] = [key |-> k, val |-> v, next |-> NULL]]

LEMMA MoveKeeps ==
    ASSUME NEW nd, NEW n, NEW M, Typed(nd, n, M), WellChained(nd, M),
           NEW k \in Keys, NEW v \in Values \cup {Free}, NEW m, m = M[k],
           Lacks(nd, k), nd[m].key \in Keys, M[nd[m].key] # m,
           NEW f \in DOMAIN nd, nd[f].key = Free,
           NEW p \in DOMAIN nd, nd[p].next = m,
           NEW nd2, PutBefore(nd, nd2, k, v, m, f, p)
    PROVE  /\ Typed(nd2, n, M) /\ WellChained(nd2, M) /\ DOMAIN nd2 = DOMAIN nd
           /\ Adds(nd, nd2, k, v, f)
<1> USE DEF PutBefore
<1>0. m \in DOMAIN nd /\ f # m BY TypedFacts, NoSpecialKeys
<1>a. p # m BY <1>0, NotItself DEF WellChained
<1>b. m # NULL BY <1>0, TypedFacts
<1>c. p # f BY <1>b DEF WellChained, FreeApart
<1>1. MoveKeepsFacts(nd, nd2, f, p, m, k, v)
  <2>0. PICK l, r : l = nd[m] /\ r = [key |-> k, val |-> v, next |-> NULL] OBVIOUS
  <2>1. PICK nd1 : nd1 = [nd EXCEPT ![f] = l] OBVIOUS
  <2>2. /\ DOMAIN nd1 = DOMAIN nd
        /\ \A i \in DOMAIN nd : i # f => nd1[i] = nd[i]
        /\ nd1[f] = l
    BY <2>1 DEF Typed
  <2>3. PICK nd3 : nd3 = [nd1 EXCEPT ![p].next = f] OBVIOUS
  <2>4. nd1[p] \in NodeType(n) BY <1>c, <2>2 DEF Typed
  <2>5. /\ nd3[p].key = nd1[p].key /\ nd3[p].val = nd1[p].val /\ nd3[p].next = f
        /\ DOMAIN nd3 = DOMAIN nd /\ \A i \in DOMAIN nd : i # p => nd3[i] = nd1[i]
    BY <2>2, <2>3, <2>4 DEF NodeType
  <2>6. nd2 = [nd3 EXCEPT ![m] = r] BY <2>0, <2>1, <2>3
  <2>7. /\ DOMAIN nd2 = DOMAIN nd /\ nd2[m] = r
        /\ \A i \in DOMAIN nd : i # m => nd2[i] = nd3[i]
    BY <1>0, <2>5, <2>6
  <2>8. nd2[m].key = k /\ nd2[m].val = v /\ nd2[m].next = NULL BY <2>0, <2>7
  <2>9. nd2[f] = l BY <1>0, <1>c, <2>2, <2>5, <2>7
  <2>10. nd2[p].key = nd[p].key /\ nd2[p].val = nd[p].val /\ nd2[p].next = f
    BY <1>a, <1>c, <2>2, <2>5, <2>7
  <2>11. \A i \in DOMAIN nd : i # m /\ i # f /\ i # p => nd2[i] = nd[i] BY <2>2, <2>5, <2>7
  <2>12. QED BY <2>0, <2>7, <2>8, <2>9, <2>10, <2>11 DEF MoveKeepsFacts
<1>2. Typed(nd2, n, M)
  <2>0. nd \in [Indices(n) -> NodeType(n)] BY DEF Typed
  <2>1. nd2[m] = [key |-> k, val |-> v, next |-> NULL] BY <1>0, <1>a, <1>c, <2>0
  <2>2. nd2[m] \in NodeType(n) BY <2>1 DEF NodeType
  <2>3. nd2[f] = nd[m] BY <1>0, <1>a, <1>c, <2>0
  <2>4. nd2[f] \in NodeType(n) BY <1>0, <2>0, <2>3
  <2>5. nd2[p] = [nd[p] EXCEPT !.next = f] BY <1>0, <1>a, <1>c, <2>0
  <2>6. nd2[p] \in NodeType(n) BY <2>0, <2>5 DEF NodeType
  <2>7. \A i \in DOMAIN nd : nd2[i] \in NodeType(n)
    BY <2>0, <2>2, <2>4, <2>6, <1>1 DEF MoveKeepsFacts
  <2>8. nd2 \in [Indices(n) -> NodeType(n)] BY <2>0, <2>7
  <2>9. \A i \in Indices(n) : nd2[i].key \in {Free, Dead} => nd2[i].val = Free
    <3>1. \A i \in DOMAIN nd : nd[i].key \in {Free, Dead} => nd[i].val = Free BY DEF Typed
    <3>2. \A i \in DOMAIN nd : i # m /\ i # f =>
             nd2[i].key = nd[i].key /\ nd2[i].val = nd[i].val
      BY <1>1 DEF MoveKeepsFacts
    <3>3. nd2[m].key \in Keys BY <1>1 DEF MoveKeepsFacts
    <3>4. nd2[f].key \in Keys BY <1>1 DEF MoveKeepsFacts
    <3>5. QED BY <2>0, <3>1, <3>2, <3>3, <3>4, NoSpecialKeys
  <2>10. QED BY <2>8, <2>9 DEF Typed
<1> HIDE DEF Typed
<1>3. \A i \in DOMAIN nd : nd[i].next # f
  <2>1. \A i \in DOMAIN nd : nd[i].next = f => nd[i].next # NULL BY TypedFacts
  <2>2. FreeApart(nd) BY DEF WellChained
  <2>3. QED BY <2>1, <2>2 DEF FreeApart
<1>4. nd[m].next # m BY <1>0, NotItself DEF WellChained
<1>5. \A i \in DOMAIN nd : nd[i].next = m => i = p
  BY <1>b DEF WellChained, OneBefore
<1>6. /\ \A i \in DOMAIN nd : i # m /\ i # f /\ i # p => nd2[i].next = nd[i].next
      /\ nd2[f].next = nd[m].next /\ nd2[p].next = f /\ nd2[m].next = NULL
      /\ \A i \in DOMAIN nd : i # m /\ i # f =>
             nd2[i].key = nd[i].key /\ nd2[i].val = nd[i].val
      /\ nd2[f].key = nd[m].key /\ nd2[f].val = nd[m].val
      /\ nd2[m].key = k /\ nd2[m].val = v
      /\ DOMAIN nd2 = DOMAIN nd
  BY <1>1 DEF MoveKeepsFacts
<1>7. FreeApart(nd2)
  <2>1. \A i \in DOMAIN nd : nd2[i].key = Free => i # m /\ i # f /\ nd[i].key = Free
    BY <1>6, NoSpecialKeys
  <2>2. \A i \in DOMAIN nd : nd2[i].key = Free => nd2[i].next = NULL
    <3>1. \A i \in DOMAIN nd : nd[i].key = Free => i # p BY <1>b DEF WellChained, FreeApart
    <3>2. QED BY <2>1, <3>1, <1>6 DEF WellChained, FreeApart
  <2>3. ASSUME NEW i \in DOMAIN nd, NEW j, j = nd2[i].next, j # NULL PROVE nd2[j].key # Free
    <3>1. CASE i = m BY <3>1, <2>3, <1>6
    <3>2. CASE i = f
      <4>1. j = nd[m].next /\ j \in DOMAIN nd BY <1>0, <2>3, <3>2, <1>6, TypedFacts
      <4>2. nd[j].key # Free BY <1>0, <4>1, <2>3 DEF WellChained, FreeApart
      <4>3. QED BY <2>1, <4>1, <4>2
    <3>3. CASE i = p BY <3>3, <2>3, <1>6, NoSpecialKeys
    <3>4. CASE i # m /\ i # f /\ i # p
      <4>1. j = nd[i].next /\ j \in DOMAIN nd BY <2>3, <3>4, <1>6, TypedFacts
      <4>2. nd[j].key # Free BY <4>1, <2>3 DEF WellChained, FreeApart
      <4>3. QED BY <2>1, <4>1, <4>2
    <3>5. QED BY <3>1, <3>2, <3>3, <3>4
  <2>4. \A i \in DOMAIN nd : nd2[i].next # NULL => nd2[nd2[i].next].key # Free BY <2>3
  <2>5. QED BY <2>2, <2>4, <1>6 DEF FreeApart
<1>8. OneBefore(nd2)
  <2>1. \A i, j \in DOMAIN nd : nd[i].next = nd[j].next /\ nd[i].next # NULL => i = j
    BY DEF WellChained, OneBefore
  <2>2. PICK Old : Old = [i \in DOMAIN nd |-> IF i = f THEN m ELSE i] OBVIOUS
  <2>3. \A i \in DOMAIN nd : i # m /\ i # p => nd2[i].next = nd[Old[i]].next /\ Old[i] # p
    BY <1>0, <1>a, <1>c, <1>6, <2>2
  <2>4. \A i \in DOMAIN nd : i # m /\ i # p => nd2[i].next # f
    BY <1>0, <1>3, <1>6
  <2>5. ASSUME NEW i \in DOMAIN nd, NEW j \in DOMAIN nd, nd2[i].next = nd2[j].next,
               nd2[i].next # NULL
        PROVE  i = j
    <3>1. i # m /\ j # m BY <2>5, <1>6
    <3>2. CASE i = p BY <2>4, <2>5, <3>1, <3>2, <1>6
    <3>3. CASE j = p BY <2>4, <2>5, <3>1, <3>3, <1>6
    <3>4. CASE i # p /\ j # p
      <4>1. Old[i] \in DOMAIN nd /\ Old[j] \in DOMAIN nd BY <1>0, <2>2
      <4>2. nd[Old[i]].next = nd[Old[j]].next /\ nd[Old[i]].next # NULL
        BY <2>3, <2>5, <3>1, <3>4
      <4>3. Old[i] = Old[j] BY <2>1, <4>1, <4>2
      <4>4. QED BY <2>2, <3>1, <4>3
    <3>5. QED BY <3>2, <3>3, <3>4
  <2>6. QED BY <2>5, <1>6 DEF OneBefore
<1>9. Acyclic(nd2)
  <2>1. SUFFICES ASSUME NEW S \in SUBSET DOMAIN nd, \A i \in S : nd2[i].next \in S, S # {}
                 PROVE  FALSE
    BY <1>6 DEF Acyclic
  <2>2. \A T \in SUBSET DOMAIN nd : (\A i \in T : nd[i].next \in T) => T = {}
    BY DEF WellChained, Acyclic
  <2>3. m \notin S
    <3>1. NULL \notin S BY <2>1, TypedFacts
    <3>2. QED BY <2>1, <3>1, <1>6
  <2>4. PICK T : T = (S \ {f}) \cup (IF f \in S THEN {m} ELSE {}) OBVIOUS
  <2>5. ASSUME NEW i \in T PROVE nd[i].next \in T
    <3>1. CASE i = m
      <4>1. f \in S BY <3>1, <2>3, <2>4, <2>5
      <4>2. nd[m].next \in S BY <4>1, <2>1, <1>6
      <4>3. QED BY <1>0, <1>3, <3>1, <4>2, <2>4
    <3>2. CASE i = p
      <4>1. f \in S BY <3>2, <1>a, <2>1, <2>4, <2>5, <1>6
      <4>2. QED BY <3>2, <4>1, <2>4
    <3>3. CASE i # m /\ i # p
      <4>1. i \in S /\ i # f BY <3>3, <2>4, <2>5, <1>0
      <4>2. nd[i].next \in S BY <4>1, <3>3, <2>1, <1>6
      <4>3. QED BY <1>3, <2>1, <2>4, <4>1, <4>2
    <3>4. QED BY <3>1, <3>2, <3>3
  <2>6. T \in SUBSET DOMAIN nd BY <1>0, <2>1, <2>4
  <2>7. T = {} BY <2>2, <2>5, <2>6
  <2>8. QED BY <2>1, <2>4, <2>7
<1>10. ASSUME NEW a \in DOMAIN nd, a # f, a # m, NEW b \in DOMAIN nd, Reaches(nd, a, b),
              NEW b2, b2 = IF b = m THEN f ELSE b, b # f
       PROVE  Reaches(nd2, a, b2)
  <2>1. SUFFICES ASSUME NEW S \in SUBSET DOMAIN nd, a \in S, Closed(nd2, S) PROVE b2 \in S
    BY <1>6 DEF Reaches
  <2>2. PICK T : T = (S \ {f, m}) \cup (IF f \in S THEN {m} ELSE {}) OBVIOUS
  <2>3. \A i \in S : nd2[i].next \in S \cup {NULL} BY <2>1 DEF Closed
  <2>4. ASSUME NEW i \in T PROVE nd[i].next \in T \cup {NULL}
    <3>1. CASE i = m
      <4>1. f \in S BY <3>1, <2>2, <2>4
      <4>2. nd[m].next \in S \cup {NULL} BY <4>1, <2>3, <1>6
      <4>3. QED BY <1>0, <1>3, <1>4, <3>1, <4>2, <2>2
    <3>2. CASE i = p
      <4>1. p \in S BY <3>2, <1>a, <2>2, <2>4
      <4>2. f \in S \cup {NULL} BY <4>1, <2>3, <1>6
      <4>3. f \in S BY <4>2, TypedFacts
      <4>4. QED BY <3>2, <4>3, <2>2
    <3>3. CASE i # m /\ i # p
      <4>1. i \in S /\ i # f BY <3>3, <2>2, <2>4, <1>0
      <4>2. nd[i].next \in S \cup {NULL} BY <4>1, <3>3, <2>3, <1>6, <2>1
      <4>3. nd[i].next # f /\ nd[i].next # m BY <1>3, <1>5, <3>3, <4>1, <2>1
      <4>4. QED BY <2>2, <4>2, <4>3
    <3>4. QED BY <3>1, <3>2, <3>3
  <2>5. T \in SUBSET DOMAIN nd /\ a \in T BY <1>0, <1>10, <2>1, <2>2
  <2>6. Closed(nd, T) BY <2>4 DEF Closed
  <2>7. b \in T BY <1>10, <2>5, <2>6 DEF Reaches
  <2>8. QED BY <1>10, <2>2, <2>7
<1>11. ASSUME NEW i \in DOMAIN nd, nd[i].key \in Keys, NEW x, x = M[nd[i].key], x # m \/ i = m
       PROVE  x \in DOMAIN nd /\ x # f /\ x # m
  <2>1. x \in DOMAIN nd /\ nd[x].key # Free BY <1>11, MainTaken, TypedFacts
  <2>2. QED BY <1>11, <2>1
<1>12. ASSUME NEW i \in DOMAIN nd, nd[i].key \in Keys, i # m
       PROVE  M[nd[i].key] # m
  BY <1>12 DEF WellChained, MainFirst
<1>13. KeysReached(nd2, M)
  <2>1. ASSUME NEW i \in DOMAIN nd, NEW c \in Keys, c = nd2[i].key PROVE Reaches(nd2, M[c], i)
    <3>1. CASE i = m BY <3>1, <2>1, <1>6, ReachesSelf
    <3>2. CASE i = f
      <4>1. c = nd[m].key BY <2>1, <3>2, <1>6
      <4>2. Reaches(nd, M[c], m) BY <1>0, <4>1 DEF WellChained, KeysReached
      <4>3. M[c] \in DOMAIN nd /\ M[c] # f /\ M[c] # m BY <1>0, <4>1, <1>11
      <4>4. QED BY <1>0, <3>2, <4>2, <4>3, <1>10
    <3>3. CASE i # m /\ i # f
      <4>1. c = nd[i].key BY <2>1, <3>3, <1>6
      <4>2. Reaches(nd, M[c], i) BY <2>1, <4>1 DEF WellChained, KeysReached
      <4>3. M[c] # m BY <2>1, <3>3, <4>1, <1>12
      <4>4. M[c] \in DOMAIN nd /\ M[c] # f BY <2>1, <4>1, <4>3, <1>11
      <4>5. QED BY <3>3, <4>2, <4>3, <4>4, <1>10
    <3>4. QED BY <3>1, <3>2, <3>3
  <2>2. QED BY <2>1, <1>6 DEF KeysReached
<1>14. KeysOnce(nd2)
  <2>1. \A i \in DOMAIN nd : i # m => nd2[i].key # k BY <1>0, <1>6 DEF Lacks
  <2>2. \A i, j \in DOMAIN nd : nd[i].key \in Keys /\ nd[i].key = nd[j].key => i = j
    BY DEF WellChained, KeysOnce
  <2>3. ASSUME NEW i \in DOMAIN nd, NEW j \in DOMAIN nd, nd2[i].key \in Keys,
               nd2[i].key = nd2[j].key
        PROVE  i = j
    BY <1>0, <1>6, <2>1, <2>2, <2>3
  <2>4. QED BY <2>3, <1>6 DEF KeysOnce
<1>15. MainFirst(nd2, M)
  <2>1. ASSUME NEW i \in DOMAIN nd, NEW c \in Keys, c = nd2[i].key, NEW x, x = M[c],
               x # i, nd2[x].key \in Keys
        PROVE  M[nd2[x].key] = x
    <3>1. i # m BY <2>1, <1>6
    <3>2. PICK j \in DOMAIN nd : nd[j].key = c /\ (i = f => j = m) /\ (i # f => j = i)
      BY <1>0, <1>6, <2>1, <3>1
    <3>3. x \in DOMAIN nd /\ x # f /\ x # m
      <4>1. CASE i = f BY <1>0, <2>1, <3>2, <4>1, <1>11
      <4>2. CASE i # f
        <5>1. x # m BY <2>1, <3>1, <3>2, <4>2, <1>12
        <5>2. QED BY <2>1, <3>2, <5>1, <1>11
      <4>3. QED BY <4>1, <4>2
    <3>4. nd2[x].key = nd[x].key BY <3>3, <1>6
    <3>5. x # j BY <2>1, <3>2, <3>3
    <3>6. x = M[nd[j].key] /\ nd[x].key \in Keys /\ nd[j].key \in Keys BY <2>1, <3>2, <3>4
    <3>7. M[nd[x].key] = x
      <4>1. MainFirst(nd, M) BY DEF WellChained
      <4>2. QED BY ONLY <3>2, <3>5, <3>6, <4>1 DEF MainFirst
    <3>8. QED BY <3>4, <3>7
  <2>2. ASSUME NEW i \in DOMAIN nd, nd2[i].key \in Keys,
               M[nd2[i].key] # i, nd2[M[nd2[i].key]].key \in Keys
        PROVE  M[nd2[M[nd2[i].key]].key] = M[nd2[i].key]
    <3>1. PICK c, x : c = nd2[i].key /\ x = M[c] OBVIOUS
    <3>2. QED BY <2>1, <2>2, <3>1
  <2>3. QED BY <2>2, <1>6 DEF MainFirst
<1>16. Adds(nd, nd2, k, v, f)
  <2>1. nd[f].val = Free BY DEF Typed
  <2>2. ASSUME NEW c \in Keys \ {k}, NEW w PROVE Binds(nd2, c, w) <=> Binds(nd, c, w)
    <3>1. ASSUME NEW i \in DOMAIN nd, nd2[i].key = c, nd2[i].val = w
          PROVE  \E j \in DOMAIN nd : nd[j].key = c /\ nd[j].val = w
      BY <1>0, <1>6, <2>2, <3>1
    <3>2. ASSUME NEW i \in DOMAIN nd, nd[i].key = c, nd[i].val = w
          PROVE  \E j \in DOMAIN nd : nd2[j].key = c /\ nd2[j].val = w
      <4>1. i # f BY <3>2, NoSpecialKeys
      <4>2. QED BY <1>0, <1>6, <2>2, <3>2, <4>1
    <3>3. QED BY <3>1, <3>2, <1>6 DEF Binds
  <2>3. \A w \in Values : Binds(nd2, k, w) <=> w = v
    <3>1. \A i \in DOMAIN nd : i # m => nd2[i].key # k BY <1>0, <1>6 DEF Lacks
    <3>2. QED BY <1>0, <1>6, <3>1 DEF Binds
  <2>4. NotUsed(nd2) = NotUsed(nd) \ {f} BY <1>0, <1>6, NoSpecialKeys DEF NotUsed
  <2>5. \A i \in DOMAIN nd2 : nd2[i].key # k => \E j \in DOMAIN nd : nd[j].key = nd2[i].key
    BY <1>0, <1>6
  <2>6. QED BY <2>2, <2>3, <2>4, <2>5 DEF Adds
<1>17. QED BY <1>2, <1>6, <1>7, <1>8, <1>9, <1>13, <1>14, <1>15, <1>16 DEF WellChained

-----------------------------------------------------------------------------
(***************************************************************************)
(* Sizes, and the slots in order.                                          *)
(***************************************************************************)
IsTwoto(g, n) == g = [i \in 0 .. n |-> IF i = 0 THEN 1 ELSE 2 * g[i - 1]]

LEMMA TwotoUpTo == \A n \in Nat : \E g : IsTwoto(g, n)
<1> DEFINE S == {n \in Nat : \E g : IsTwoto(g, n)}
<1>1. 0 \in S
  <2>1. PICK g : g = [i \in 0 .. 0 |-> 1] OBVIOUS
  <2>2. g = [i \in 0 .. 0 |-> IF i = 0 THEN 1 ELSE 2 * g[i - 1]] BY <2>1
  <2>3. QED BY <2>2 DEF IsTwoto
<1>2. ASSUME NEW n \in Nat, n \in S PROVE n + 1 \in S
  <2>1. PICK g : IsTwoto(g, n) BY <1>2
  <2>2. PICK h : h = [i \in 0 .. n + 1 |-> IF i = n + 1 THEN 2 * g[n] ELSE g[i]] OBVIOUS
  <2>3. ASSUME NEW i \in 0 .. n + 1 PROVE h[i] = IF i = 0 THEN 1 ELSE 2 * h[i - 1]
    <3>1. CASE i = n + 1
      <4>1. i - 1 = n /\ i # 0 /\ n \in 0 .. n + 1 /\ n # n + 1 BY <3>1
      <4>2. h[i] = 2 * g[n] /\ h[n] = g[n] BY <2>2, <3>1, <4>1
      <4>3. QED BY <4>1, <4>2
    <3>2. CASE i # n + 1
      <4>1. i \in 0 .. n BY <3>2
      <4>2. g[i] = IF i = 0 THEN 1 ELSE 2 * g[i - 1] BY <2>1, <4>1 DEF IsTwoto
      <4>3. h[i] = g[i] BY <2>2, <3>2
      <4>4. i # 0 => h[i - 1] = g[i - 1] BY <2>2, <4>1
      <4>5. QED BY <4>2, <4>3, <4>4
    <3>3. QED BY <3>1, <3>2
  <2>4. h = [i \in 0 .. n + 1 |-> h[i]] BY <2>2
  <2>5. h = [i \in 0 .. n + 1 |-> IF i = 0 THEN 1 ELSE 2 * h[i - 1]] BY <2>3, <2>4
  <2>6. n + 1 \in Nat /\ IsTwoto(h, n + 1) BY <2>5 DEF IsTwoto
  <2>7. QED BY <2>6
<1>3. QED
  <2> HIDE DEF S
  <2>1. \A n \in Nat : n \in S => n + 1 \in S BY <1>2
  <2>2. Nat \subseteq S BY <1>1, <2>1, NatSetInduction
  <2>3. QED BY <2>2 DEF S

LEMMA TwotoAgree ==
    ASSUME NEW g, NEW h, NEW n \in Nat, NEW m \in Nat, IsTwoto(g, n), IsTwoto(h, m)
    PROVE  \A i \in Nat : i <= n /\ i <= m => g[i] = h[i]
<1> DEFINE S == {i \in Nat : i <= n /\ i <= m => g[i] = h[i]}
<1>1. 0 \in S BY DEF IsTwoto
<1>2. ASSUME NEW i \in Nat, i \in S PROVE i + 1 \in S
  <2>1. SUFFICES ASSUME i + 1 <= n, i + 1 <= m PROVE g[i + 1] = h[i + 1] OBVIOUS
  <2>2. g[i] = h[i] BY <1>2, <2>1
  <2>3. i + 1 \in 0 .. n /\ i + 1 \in 0 .. m /\ i + 1 # 0 /\ (i + 1) - 1 = i BY <2>1
  <2>4. g[i + 1] = 2 * g[i] /\ h[i + 1] = 2 * h[i] BY <2>3 DEF IsTwoto
  <2>5. QED BY <2>2, <2>4
<1>3. QED
  <2> HIDE DEF S
  <2>1. \A i \in Nat : i \in S => i + 1 \in S BY <1>2
  <2>2. Nat \subseteq S BY <1>1, <2>1, NatSetInduction
  <2>3. QED BY <2>2 DEF S

LEMMA TwotoIs == twoto = [i \in Nat |-> IF i = 0 THEN 1 ELSE 2 * twoto[i - 1]]
<1>1. PICK f : f = [n \in Nat |-> (CHOOSE g : IsTwoto(g, n))[n]] OBVIOUS
<1>2. ASSUME NEW n \in Nat PROVE f[n] = IF n = 0 THEN 1 ELSE 2 * f[n - 1]
  <2>1. PICK g : g = CHOOSE x : IsTwoto(x, n) OBVIOUS
  <2>2. IsTwoto(g, n) BY <2>1, TwotoUpTo
  <2>3. f[n] = g[n] BY <1>1, <2>1
  <2>4. CASE n = 0
    <3>1. 0 \in 0 .. n BY <2>4
    <3>2. QED BY <2>2, <2>3, <2>4, <3>1 DEF IsTwoto
  <2>5. CASE n # 0
    <3>1. PICK m \in Nat : m = n - 1 BY <2>5
    <3>2. PICK h : h = CHOOSE x : IsTwoto(x, m) OBVIOUS
    <3>3. IsTwoto(h, m) BY <3>2, TwotoUpTo
    <3>4. f[m] = h[m] BY <1>1, <3>1, <3>2
    <3>5. m <= n /\ m <= m BY <3>1
    <3>6. g[m] = h[m] BY <2>2, <3>3, <3>5, TwotoAgree
    <3>7. n \in 0 .. n OBVIOUS
    <3>8. g[n] = 2 * g[n - 1] BY <2>2, <2>5, <3>7 DEF IsTwoto
    <3>9. QED BY <2>3, <2>5, <3>1, <3>4, <3>6, <3>8
  <2>6. QED BY <2>4, <2>5
<1>3. f = [n \in Nat |-> f[n]] BY <1>1
<1>4. f = [i \in Nat |-> IF i = 0 THEN 1 ELSE 2 * f[i - 1]] BY <1>2, <1>3
<1>5. QED BY <1>4 DEF twoto

LEMMA TwotoFacts ==
    /\ twoto[0] = 1
    /\ \A n \in Nat : twoto[n + 1] = 2 * twoto[n]
    /\ \A n \in Nat : twoto[n] \in Nat /\ twoto[n] >= n + 1
<1>1. twoto[0] = 1 BY TwotoIs
<1>2. ASSUME NEW n \in Nat PROVE twoto[n + 1] = 2 * twoto[n]
  <2>1. n + 1 \in Nat /\ n + 1 # 0 /\ (n + 1) - 1 = n OBVIOUS
  <2>2. \A i \in Nat : twoto[i] = IF i = 0 THEN 1 ELSE 2 * twoto[i - 1] BY TwotoIs
  <2>3. QED BY <2>1, <2>2
<1> DEFINE S == {n \in Nat : twoto[n] \in Nat /\ twoto[n] >= n + 1}
<1>3. 0 \in S BY <1>1
<1>4. \A n \in Nat : n \in S => n + 1 \in S
  <2>1. SUFFICES ASSUME NEW n \in Nat, NEW x, x = twoto[n], x \in Nat, x >= n + 1
                 PROVE  2 * x \in Nat /\ 2 * x >= (n + 1) + 1
    BY <1>2
  <2>2. QED BY <2>1
<1>5. Nat \subseteq S
  <2> HIDE DEF S
  <2>1. QED BY <1>3, <1>4, NatSetInduction
<1>6. QED BY <1>1, <1>2, <1>5

LEMMA TwotoGrows == \A j \in Nat : \A i \in 0 .. j : twoto[i] <= twoto[j]
<1> DEFINE S == {j \in Nat : \A i \in 0 .. j : twoto[i] <= twoto[j]}
<1>1. 0 \in S BY TwotoFacts
<1>2. ASSUME NEW j \in Nat, j \in S PROVE j + 1 \in S
  <2>1. PICK x, y : x = twoto[j] /\ y = twoto[j + 1] OBVIOUS
  <2>2. x \in Nat /\ y = 2 * x BY <2>1, TwotoFacts
  <2>3. ASSUME NEW i \in 0 .. j + 1 PROVE twoto[i] <= y
    <3>1. CASE i = j + 1
      <4>1. twoto[i] = y BY <2>1, <3>1
      <4>2. y \in Nat BY <2>2
      <4>3. y <= y BY <4>2
      <4>4. QED BY <4>1, <4>3
    <3>2. CASE i # j + 1
      <4>1. i \in 0 .. j BY <3>2
      <4>2. twoto[i] <= x /\ twoto[i] \in Nat BY <1>2, <2>1, <4>1, TwotoFacts
      <4>3. QED BY <2>2, <4>2
    <3>3. QED BY <3>1, <3>2
  <2>4. QED BY <2>1, <2>3
<1>3. QED
  <2> HIDE DEF S
  <2>1. \A j \in Nat : j \in S => j + 1 \in S BY <1>2
  <2>2. Nat \subseteq S BY <1>1, <2>1, NatSetInduction
  <2>3. QED BY <2>2 DEF S

LEMMA CeilLog ==
    ASSUME NEW n \in Nat
    PROVE  /\ ceillog2(n) \in 0 .. n /\ ceillog2(n) \in Nat
           /\ twoto[ceillog2(n)] >= n /\ twoto[ceillog2(n)] \in Nat /\ twoto[ceillog2(n)] >= 1
<1>1. PICK T : T = {i \in 0 .. n : twoto[i] >= n} OBVIOUS
<1>2. n \in T BY <1>1, TwotoFacts
<1>3. T \in SUBSET Nat BY <1>1
<1>4. Min(T) \in T BY <1>2, <1>3, MinInSet
<1>5. ceillog2(n) = Min(T) BY <1>1 DEF ceillog2
<1>6. PICK c : c = ceillog2(n) OBVIOUS
<1>7. c \in 0 .. n /\ twoto[c] >= n BY <1>1, <1>4, <1>5, <1>6
<1>8. c \in Nat BY <1>7
<1>9. twoto[c] \in Nat /\ twoto[c] >= c + 1 BY <1>8, TwotoFacts
<1>10. QED BY <1>6, <1>7, <1>8, <1>9

\* a enumerates S upwards.
Enumerates(a, S) ==
    /\ Cardinality(S) \in Nat
    /\ a = [j \in 1 .. Cardinality(S) |-> a[j]]
    /\ \A j \in 1 .. Cardinality(S) : a[j] \in S
    /\ \A j, l \in 1 .. Cardinality(S) : j < l => a[j] < a[l]
    /\ \A i \in S : \E j \in 1 .. Cardinality(S) : a[j] = i

LEMMA AscendingEnumerates ==
    ASSUME NEW S \in SUBSET Nat, IsFiniteSet(S)
    PROVE  Enumerates(ascending(S), S)
<1> DEFINE Below(i) == {h \in S : h < i}
<1>0. PICK N : N = Cardinality(S) OBVIOUS
<1>1. N \in Nat BY <1>0, FS_CardinalityType
<1>2. \A i \in S : IsFiniteSet(Below(i)) /\ Cardinality(Below(i)) \in Nat
                   /\ Cardinality(Below(i)) < N
  <2>1. SUFFICES ASSUME NEW i \in S
                 PROVE  IsFiniteSet(Below(i)) /\ Cardinality(Below(i)) \in Nat
                        /\ Cardinality(Below(i)) < N
    OBVIOUS
  <2>2. PICK B : B = Below(i) OBVIOUS
  <2>3. B \in SUBSET S /\ i \notin B BY <2>2
  <2>4. IsFiniteSet(B) /\ Cardinality(B) <= N /\ (N = Cardinality(B) => S = B)
    BY <2>3, <1>0, FS_Subset
  <2>5. Cardinality(B) \in Nat BY <2>4, FS_CardinalityType
  <2>6. Cardinality(B) # N BY <2>3, <2>4, <2>1
  <2>7. QED BY <1>1, <2>2, <2>4, <2>5, <2>6
<1>3. ASSUME NEW i \in S, NEW j \in S, i < j
      PROVE  Cardinality(Below(i)) < Cardinality(Below(j))
  <2>1. PICK B, C : B = Below(i) /\ C = Below(j) OBVIOUS
  <2>2. IsFiniteSet(B) /\ IsFiniteSet(C) /\ Cardinality(B) \in Nat /\ Cardinality(C) \in Nat
    BY <1>2, <2>1
  <2>3. i \in Nat /\ j \in Nat OBVIOUS
  <2>4. B \in SUBSET C
    <3>1. \A h \in S : h \in Nat /\ (h < i => h < j) BY <1>3, <2>3
    <3>2. QED BY <3>1, <2>1
  <2>5. i \in C /\ i \notin B BY <1>3, <2>1, <2>3
  <2>6. Cardinality(B) <= Cardinality(C) /\ (Cardinality(C) = Cardinality(B) => C = B)
    BY <2>2, <2>4, FS_Subset
  <2>7. QED BY <2>1, <2>2, <2>5, <2>6
<1>4. PICK rank : rank = [i \in S |-> Cardinality(Below(i)) + 1] OBVIOUS
<1>5. rank \in [S -> 1 .. N] BY <1>1, <1>2, <1>4
<1>6. \A i, j \in S : i < j => rank[i] < rank[j]
  <2>1. SUFFICES ASSUME NEW i \in S, NEW j \in S, i < j PROVE rank[i] < rank[j] OBVIOUS
  <2>2. Cardinality(Below(i)) \in Nat /\ Cardinality(Below(j)) \in Nat BY <1>2
  <2>3. Cardinality(Below(i)) < Cardinality(Below(j)) BY <1>3, <2>1
  <2>4. QED BY <1>4, <2>2, <2>3
<1>7. \A i, j \in S : rank[i] = rank[j] => i = j
  <2>1. \A i, j \in S : i \in Nat /\ j \in Nat /\ rank[i] \in Nat /\ rank[j] \in Nat BY <1>5
  <2>2. QED BY <1>6, <2>1
<1>8. rank \in Injection(S, 1 .. N) BY <1>5, <1>7 DEF Injection, IsInjective
<1>9. IsFiniteSet(1 .. N) /\ Cardinality(1 .. N) = N BY <1>1, FS_Interval
<1>10. rank \in Surjection(S, 1 .. N) BY <1>0, <1>8, <1>9, FS_Injection
<1>11. \A j \in 1 .. N : \E i \in S : rank[i] = j BY <1>10 DEF Surjection
<1>12. PICK a : a = ascending(S) OBVIOUS
<1>13. a = [j \in 1 .. N |-> CHOOSE i \in S : Cardinality(Below(i)) = j - 1]
  BY <1>0, <1>12 DEF ascending
<1>14. ASSUME NEW j \in 1 .. N PROVE a[j] \in S /\ rank[a[j]] = j
  <2>1. PICK i \in S : rank[i] = j BY <1>11
  <2>2. Cardinality(Below(i)) = j - 1 BY <1>2, <1>4, <2>1
  <2>3. a[j] = CHOOSE x \in S : Cardinality(Below(x)) = j - 1 BY <1>13
  <2>4. a[j] \in S /\ Cardinality(Below(a[j])) = j - 1 BY <2>2, <2>3
  <2>5. QED BY <1>4, <2>4
<1>15. \A j, l \in 1 .. N : j < l => a[j] < a[l]
  <2>1. SUFFICES ASSUME NEW j \in 1 .. N, NEW l \in 1 .. N, j < l PROVE a[j] < a[l] OBVIOUS
  <2>2. PICK x, y : x = a[j] /\ y = a[l] OBVIOUS
  <2>3. x \in S /\ y \in S /\ rank[x] = j /\ rank[y] = l BY <1>14, <2>2
  <2>4. x \in Nat /\ y \in Nat BY <2>3
  <2>5. ~ (y < x) BY <1>6, <2>1, <2>3
  <2>6. x # y BY <2>1, <2>3
  <2>7. QED BY <2>2, <2>4, <2>5, <2>6
<1>16. \A i \in S : \E j \in 1 .. N : a[j] = i
  <2>1. SUFFICES ASSUME NEW i \in S PROVE \E j \in 1 .. N : a[j] = i OBVIOUS
  <2>2. rank[i] \in 1 .. N BY <1>5
  <2>3. a[rank[i]] \in S /\ rank[a[rank[i]]] = rank[i] BY <1>14, <2>2
  <2>4. QED BY <1>7, <2>2, <2>3
<1>17. a = [j \in 1 .. N |-> a[j]]
  <2> DEFINE at(j) == CHOOSE i \in S : Cardinality(Below(i)) = j - 1
  <2>1. a = [j \in 1 .. N |-> at(j)] BY <1>13
  <2> HIDE DEF at
  <2>2. QED BY <2>1
<1>18. QED BY <1>0, <1>1, <1>12, <1>14, <1>15, <1>16, <1>17 DEF Enumerates

LEMMA MaxIs ==
    ASSUME NEW T \in SUBSET Int, NEW m \in T, \A t \in T : t <= m
    PROVE  Max(T) = m
<1>1. \A x \in T : (\A t \in T : t <= x) => x = m
  <2>1. \A x \in T : x \in Int OBVIOUS
  <2>2. QED BY <2>1
<1>2. QED BY <1>1 DEF Max

LEMMA MaxOf ==
    ASSUME NEW n \in Nat, NEW T \in SUBSET (0 .. n), T # {}
    PROVE  Max(T) \in T /\ \A t \in T : t <= Max(T)
<1> DEFINE U == {n - t : t \in T}
<1>1. U \in SUBSET Nat /\ U # {}
  <2>1. \A t \in T : n - t \in Nat OBVIOUS
  <2>2. PICK t \in T : TRUE OBVIOUS
  <2>3. n - t \in U OBVIOUS
  <2>4. QED BY <2>1, <2>3
<1>2. PICK u \in U : \A x \in U : u <= x BY <1>1, LeastNat
<1>3. PICK m \in T : u = n - m OBVIOUS
<1>4. \A t \in T : t <= m
  <2>1. SUFFICES ASSUME NEW t \in T PROVE t <= m OBVIOUS
  <2>2. n - t \in U OBVIOUS
  <2>3. u <= n - t BY <1>2, <2>2
  <2>4. QED BY <1>3, <2>3
<1>5. T \in SUBSET Int OBVIOUS
<1>6. Max(T) = m BY <1>4, <1>5, MaxIs
<1>7. QED BY <1>4, <1>6

LEMMA Smaller ==
    ASSUME NEW S, IsFiniteSet(S), NEW T \in SUBSET S
    PROVE  /\ IsFiniteSet(T) /\ Cardinality(T) \in Nat /\ Cardinality(S) \in Nat
           /\ Cardinality(T) <= Cardinality(S)
BY FS_Subset, FS_CardinalityType

\* The image of S under f, a function, is no larger.
LEMMA ImageSmaller ==
    ASSUME NEW S, IsFiniteSet(S), NEW f, NEW T, f \in [S -> T],
           \A t \in T : \E s \in S : f[s] = t
    PROVE  IsFiniteSet(T) /\ Cardinality(T) \in Nat /\ Cardinality(T) <= Cardinality(S)
<1>1. f \in Surjection(S, T) BY DEF Surjection
<1>2. QED BY <1>1, FS_Surjection, FS_CardinalityType

LEMMA SizesOf ==
    ASSUME NEW c, IsFiniteSet(c.slots), IsFiniteSet(c.keys), IsFiniteSet(c.new),
           c.slots \subseteq Nat
    PROVE  LET na == computesizes(c)
           IN  /\ na.size \in Nat /\ na.keys \in Nat
               /\ na.keys <= Cardinality({s \in c.slots : s <= na.size}) + Cardinality(c.keys)
                               + Cardinality(c.new)
<1> DEFINE Slice(i) == {k \in Ints \cup c.slots : k >= 1 /\ ceillog2(k) = i}
           Under(i) == UNION {Slice(j) : j \in 0 .. i}
           total == nums(c, c.slots \cup c.keys \cup c.new)
           fit == {i \in 0 .. ceillog2(total) + 1 :
                     /\ twoto[i] \div 2 < total
                     /\ nums(c, Slice(i)) > 0
                     /\ nums(c, Under(i)) > twoto[i] \div 2}
<1>1. computesizes(c) = IF fit = {} THEN [size |-> 0, keys |-> 0]
                        ELSE [size |-> twoto[Max(fit)], keys |-> nums(c, Under(Max(fit)))]
  BY DEF computesizes
<1>2. Cardinality(c.keys) \in Nat /\ Cardinality(c.new) \in Nat BY FS_CardinalityType
<1>3. \A x : /\ IsFiniteSet({s \in c.slots : s <= x})
             /\ Cardinality({s \in c.slots : s <= x}) \in Nat
  <2>1. SUFFICES ASSUME NEW x, NEW T, T = {s \in c.slots : s <= x}
                 PROVE  IsFiniteSet(T) /\ Cardinality(T) \in Nat
    OBVIOUS
  <2>2. T \in SUBSET c.slots BY <2>1
  <2>3. QED BY <2>2, Smaller
<1>4. \A S : nums(c, S) \in Nat
  <2>1. SUFFICES ASSUME NEW S PROVE nums(c, S) \in Nat OBVIOUS
  <2>2. c.slots \cap S \in SUBSET c.slots /\ c.keys \cap S \in SUBSET c.keys
        /\ c.new \cap S \in SUBSET c.new
    OBVIOUS
  <2>3. /\ Cardinality(c.slots \cap S) \in Nat /\ Cardinality(c.keys \cap S) \in Nat
        /\ Cardinality(c.new \cap S) \in Nat
    BY <2>2, Smaller
  <2>4. QED BY <2>3 DEF nums
<1>5. total \in Nat BY <1>4
<1>6. PICK B : B = ceillog2(total) + 1 OBVIOUS
<1>7. B \in Nat BY <1>5, <1>6, CeilLog
<1>8. fit \in SUBSET (0 .. B) BY <1>6
<1>9. CASE fit = {}
  <2>1. computesizes(c) = [size |-> 0, keys |-> 0] BY <1>1, <1>9
  <2>2. computesizes(c).size = 0 /\ computesizes(c).keys = 0 BY <2>1
  <2>3. PICK x : x = Cardinality({s \in c.slots : s <= computesizes(c).size}) OBVIOUS
  <2>4. x \in Nat BY <1>3, <2>3
  <2>5. 0 <= x + Cardinality(c.keys) + Cardinality(c.new) BY <1>2, <2>4
  <2>6. QED BY <2>2, <2>3, <2>5
<1>10. CASE fit # {}
  <2>1. PICK m : m = Max(fit) OBVIOUS
  <2>2. m \in 0 .. B BY <1>7, <1>8, <1>10, <2>1, MaxOf
  <2>3. m \in Nat BY <1>7, <2>2
  <2>4. PICK U : U = Under(m) OBVIOUS
  <2>5. computesizes(c) = [size |-> twoto[m], keys |-> nums(c, U)] BY <1>1, <1>10, <2>1, <2>4
  <2>6. twoto[m] \in Nat BY <2>3, TwotoFacts
  <2>7. PICK T : T = {s \in c.slots : s <= twoto[m]} OBVIOUS
  <2>8. c.slots \cap U \in SUBSET T
    <3>1. SUFFICES ASSUME NEW s \in c.slots, s \in U PROVE s <= twoto[m] BY <2>7
    <3>2. PICK j \in 0 .. m : s \in Slice(j) BY <2>4, <3>1
    <3>3. s \in Nat /\ ceillog2(s) = j BY <3>1, <3>2
    <3>4. twoto[j] >= s /\ twoto[j] \in Nat BY <3>3, CeilLog
    <3>5. twoto[j] <= twoto[m] BY <2>3, <3>2, TwotoGrows
    <3>6. QED BY <2>6, <3>3, <3>4, <3>5
  <2>9. IsFiniteSet(T) /\ Cardinality(T) \in Nat BY <1>3, <2>7
  <2>10. Cardinality(c.slots \cap U) \in Nat /\ Cardinality(c.slots \cap U) <= Cardinality(T)
    BY <2>8, <2>9, Smaller
  <2>11. c.keys \cap U \in SUBSET c.keys /\ c.new \cap U \in SUBSET c.new OBVIOUS
  <2>12. /\ Cardinality(c.keys \cap U) \in Nat /\ Cardinality(c.new \cap U) \in Nat
         /\ Cardinality(c.keys \cap U) <= Cardinality(c.keys)
         /\ Cardinality(c.new \cap U) <= Cardinality(c.new)
    BY <2>11, Smaller
  <2>13. nums(c, U) <= Cardinality(T) + Cardinality(c.keys) + Cardinality(c.new)
    BY <1>2, <2>9, <2>10, <2>12 DEF nums
  <2>14. nums(c, U) \in Nat BY <1>4
  <2>15. QED BY <2>5, <2>6, <2>7, <2>13, <2>14
<1>11. QED BY <1>9, <1>10

(***************************************************************************)
(* A new hash part.                                                        *)
(***************************************************************************)
IsFresh(nd, s, nh) ==
    /\ s \in Nat /\ s >= 1 /\ DOMAIN nd = Indices(s)
    /\ \A i \in DOMAIN nd : nd[i] = FreeNode
    /\ nh = 0 => s = 1 /\ Lastfree(nh) = 0
    /\ nh # 0 => s >= nh /\ Lastfree(nh) = s
    /\ NotUsed(nd) = DOMAIN nd
    /\ \A M \in [Keys -> Indices(s)] : Typed(nd, s, M) /\ WellChained(nd, M)

LEMMA FreshPart ==
    ASSUME NEW nh \in Nat, NEW nd, nd = FreeNodes(nh), NEW s, s = Cardinality(DOMAIN nd)
    PROVE  IsFresh(nd, s, nh)
<1>1. PICK z : z = IF nh = 0 THEN 1 ELSE twoto[ceillog2(nh)] OBVIOUS
<1>2. z \in Nat /\ z >= 1 /\ (nh # 0 => z >= nh) BY <1>1, CeilLog
<1>4. nd = [i \in Indices(z) |-> FreeNode] BY <1>1 DEF FreeNodes
<1>5. DOMAIN nd = 0 .. z - 1 /\ \A i \in DOMAIN nd : nd[i] = FreeNode BY <1>4 DEF Indices
<1>6. s = z
  <2>1. 0 \in Int /\ z - 1 \in Int BY <1>2
  <2>2. Cardinality(0 .. z - 1) = IF 0 > z - 1 THEN 0 ELSE (z - 1) - 0 + 1 BY <2>1, FS_Interval
  <2>3. QED BY <1>2, <1>5, <2>2
<1>7. Lastfree(nh) = IF nh = 0 THEN 0 ELSE s BY <1>1, <1>6 DEF Lastfree
<1>8. FreeNode.key = Free /\ FreeNode.val = Free /\ FreeNode.next = NULL BY DEF FreeNode
<1>9. NotUsed(nd) = DOMAIN nd BY <1>5, <1>8 DEF NotUsed
<1>10. ASSUME NEW M \in [Keys -> Indices(s)] PROVE Typed(nd, s, M) /\ WellChained(nd, M)
  <2>1. FreeNode \in NodeType(s) BY DEF FreeNode, NodeType
  <2>2. Typed(nd, s, M) BY <1>2, <1>4, <1>5, <1>6, <1>8, <1>10, <2>1 DEF Typed
  <2>3. \A i \in DOMAIN nd : nd[i].key \notin Keys /\ nd[i].next = NULL
    BY <1>5, <1>8, NoSpecialKeys
  <2>4. NULL \notin DOMAIN nd BY <1>5, <1>2 DEF NULL
  <2>5. FreeApart(nd) BY <1>5, <1>8 DEF FreeApart
  <2>6. OneBefore(nd) BY <2>3 DEF OneBefore
  <2>7. Acyclic(nd)
    <3>1. SUFFICES ASSUME NEW S \in SUBSET DOMAIN nd, \A i \in S : nd[i].next \in S,
                          NEW i \in S
                   PROVE  FALSE
      BY DEF Acyclic
    <3>2. QED BY <2>3, <2>4, <3>1
  <2>8. KeysReached(nd, M) BY <2>3 DEF KeysReached
  <2>9. KeysOnce(nd) BY <2>3 DEF KeysOnce
  <2>10. MainFirst(nd, M) BY <2>3 DEF MainFirst
  <2>11. QED BY <2>2, <2>5, <2>6, <2>7, <2>8, <2>9, <2>10 DEF WellChained
<1>11. DOMAIN nd = Indices(s) BY <1>4, <1>6
<1>12. nh = 0 => s = 1 BY <1>1, <1>6
<1>13. QED BY <1>2, <1>5, <1>6, <1>7, <1>9, <1>10, <1>11, <1>12 DEF IsFresh

-----------------------------------------------------------------------------
(***************************************************************************)
(* What is found in a table.                                               *)
(***************************************************************************)
LEMMA MainOfType == ASSUME NEW n \in Nat, n >= 1 PROVE MainOf(n) \in [Keys -> Indices(n)]
<1>1. SUFFICES ASSUME NEW k \in Keys PROVE MainOf(n)[k] \in Indices(n) BY DEF MainOf
<1>2. CASE k \in Ints
  <2>1. k \in Nat BY <1>2, TableAssumption
  <2>2. PICK m \in Nat : m = (IF n > 2 THEN n - 1 ELSE 1) OBVIOUS
  <2>3. m >= 1 /\ m <= n BY <2>2
  <2>4. k % m \in 0 .. m - 1 BY <2>1, <2>2, <2>3
  <2>5. MainOf(n)[k] = k % m BY <1>2, <2>2 DEF MainOf
  <2>6. QED BY <2>2, <2>3, <2>4, <2>5 DEF Indices
<1>3. CASE k \notin Ints
  <2>1. PICK h \in Nat : h = hash[k] BY <1>3, TableAssumption DEF Keys
  <2>2. h % n \in 0 .. n - 1 OBVIOUS
  <2>3. MainOf(n)[k] = h % n BY <1>3, <2>1 DEF MainOf
  <2>4. QED BY <2>2, <2>3 DEF Indices
<1>4. QED BY <1>2, <1>3

LEMMA MainIs == \A k \in Keys : mainposition(k) = MainOf(sizenode)[k]
BY DEF mainposition, MainOf

LEMMA ChainedFacts ==
    ASSUME Chains, NEW k \in Keys
    PROVE  /\ \A j \in DOMAIN node : node[j].key = k => Chained(k) = j
           /\ Chained(k) = NULL \/ (Chained(k) \in DOMAIN node /\ node[Chained(k)].key = k)
           /\ Chained(k) = NULL <=> Lacks(node, k)
<1>1. PICK M : M = MainOf(sizenode) OBVIOUS
<1>2. Typed(node, sizenode, M) /\ WellChained(node, M) BY <1>1 DEF Chains
<1>3. PICK f : f = CHOOSE g : IsSearchFor(g, node, k) OBVIOUS
<1>4. IsSearchFor(f, node, k) BY <1>2, <1>3, SearchForExists DEF WellChained
<1>5. Chained(k) = f[M[k]]
  <2>1. Chained(k) = f[mainposition(k)] BY <1>3 DEF Chained, IsSearchFor
  <2>2. QED BY <1>1, <2>1, MainIs
<1>6. /\ \A i, j \in DOMAIN node : node[j].key = k /\ Reaches(node, i, j) => f[i] = j
      /\ \A i \in DOMAIN node :
            f[i] = NULL \/ (f[i] \in DOMAIN node /\ node[f[i]].key = k)
  BY <1>2, <1>4, SearchForFinds DEF WellChained
<1>7. M[k] \in DOMAIN node BY <1>2, TypedFacts
<1>8. \A j \in DOMAIN node : node[j].key = k => Chained(k) = j
  BY <1>2, <1>5, <1>6, <1>7 DEF WellChained, KeysReached
<1>9. Chained(k) = NULL \/ (Chained(k) \in DOMAIN node /\ node[Chained(k)].key = k)
  BY <1>5, <1>6, <1>7
<1>10. NULL \notin DOMAIN node BY <1>2, TypedFacts
<1>11. QED BY <1>8, <1>9, <1>10 DEF Lacks

\* What a table binds k to.
Holds(k, w) == IF InArray(k) THEN array[k] = w ELSE Binds(node, k, w)

LEMMA ArrayFacts ==
    ASSUME TypeOK, sizearray \in Nat
    PROVE  /\ DOMAIN array = 0 .. sizearray - 1
           /\ \A i \in DOMAIN array : array[i] \in Values \cup {Free}
           /\ \A k \in Keys : InArray(k) <=> k \in Ints /\ k \in DOMAIN array
<1>1. DOMAIN array = 0 .. sizearray - 1 /\ \A i \in DOMAIN array : array[i] \in Values \cup {Free}
  BY DEF TypeOK, Indices
<1>2. ASSUME NEW k \in Keys PROVE InArray(k) <=> k \in Ints /\ k \in DOMAIN array
  <2>1. k \in Ints => k \in Nat BY TableAssumption
  <2>2. k \in Ints => (k < sizearray <=> k \in 0 .. sizearray - 1) BY <2>1
  <2>3. QED BY <1>1, <2>2 DEF InArray
<1>3. QED BY <1>1, <1>2

LEMMA GetFacts ==
    ASSUME IInv, NEW k \in Keys
    PROVE  /\ klispH_get(k) \in Values \cup {Free}
           /\ \A w \in Values : klispH_get(k) = w <=> Holds(k, w)
<1>1. CASE InArray(k)
  <2>1. klispH_get(k) = array[k] BY <1>1 DEF klispH_get
  <2>2. k \in DOMAIN array BY <1>1, ArrayFacts DEF IInv
  <2>3. array[k] \in Values \cup {Free} BY <2>2, ArrayFacts DEF IInv
  <2>4. QED BY <1>1, <2>1, <2>3 DEF Holds
<1>2. CASE ~InArray(k)
  <2>1. klispH_get(k) = IF Chained(k) = NULL THEN Free ELSE node[Chained(k)].val
    BY <1>2 DEF klispH_get
  <2>2. Chains BY DEF IInv
  <2>3. CASE Chained(k) = NULL
    <3>1. \A w : ~Binds(node, k, w) BY <2>2, <2>3, ChainedFacts DEF Lacks, Binds
    <3>2. QED BY <1>2, <2>1, <2>3, <3>1, NoSpecialKeys DEF Holds
  <2>4. CASE Chained(k) # NULL
    <3>1. PICK j : j = Chained(k) OBVIOUS
    <3>2. j \in DOMAIN node /\ node[j].key = k BY <2>2, <2>4, <3>1, ChainedFacts
    <3>3. \A i \in DOMAIN node : node[i].key = k => i = j BY <2>2, <3>1, ChainedFacts
    <3>4. \A w : Binds(node, k, w) <=> node[j].val = w BY <3>2, <3>3 DEF Binds
    <3>5. node[j].val \in Values \cup {Free} BY <2>2, <3>2, TypedFacts DEF Chains
    <3>6. QED BY <1>2, <2>1, <2>4, <3>1, <3>4, <3>5 DEF Holds
  <2>5. QED BY <2>3, <2>4
<1>3. QED BY <1>1, <1>2

\* Two tables that bind k to the same value give the same for it.
LEMMA SameGet ==
    ASSUME NEW x \in Values \cup {Free}, NEW y \in Values \cup {Free},
           \A w \in Values : x = w <=> y = w
    PROVE  x = y
BY NoSpecialKeys

(***************************************************************************)
(* What resize takes out of the old parts.                                 *)
(***************************************************************************)
LEMMA PairFacts == \A k, v : Pair(k, v).key = k /\ Pair(k, v).val = v
BY DEF Pair

LEMMA PairTyped ==
    \A k \in Keys : \A v \in Values \cup {Free} : Pair(k, v) \in PairType
BY DEF Pair, PairType

LEMMA UsedFacts ==
    ASSUME IInv
    PROVE  /\ ArrayUsed \in SUBSET Nat /\ IsFiniteSet(ArrayUsed)
           /\ HashUsed \in SUBSET Nat /\ IsFiniteSet(HashUsed)
           /\ \A i \in ArrayUsed : i \in Ints /\ i \in Keys /\ i \in DOMAIN array
                                   /\ array[i] \in Values /\ InArray(i)
           /\ \A i \in HashUsed : i \in DOMAIN node /\ node[i].key \in Keys
                                  /\ node[i].val \in Values /\ ~InArray(node[i].key)
<1>1. IsFiniteSet(0 .. sizearray - 1) /\ IsFiniteSet(0 .. sizenode - 1)
  BY FS_Interval DEF IInv, Chains, Typed
<1>2. DOMAIN array = 0 .. sizearray - 1 BY ArrayFacts DEF IInv
<1>3. DOMAIN node = 0 .. sizenode - 1 BY TypedFacts DEF IInv, Chains, Indices
<1>4. IsFiniteSet(ArrayUsed) /\ IsFiniteSet(HashUsed)
  <2>1. ArrayUsed \in SUBSET (0 .. sizearray - 1) BY <1>2 DEF ArrayUsed
  <2>2. HashUsed \in SUBSET (0 .. sizenode - 1) BY <1>3 DEF HashUsed
  <2>3. QED BY <1>1, <2>1, <2>2, FS_Subset
<1>5. ArrayUsed \in SUBSET Nat /\ HashUsed \in SUBSET Nat
  BY <1>2, <1>3 DEF ArrayUsed, HashUsed, IInv, Chains, Typed
<1>6. ASSUME NEW i \in ArrayUsed
      PROVE  i \in Ints /\ i \in Keys /\ i \in DOMAIN array /\ array[i] \in Values /\ InArray(i)
  <2>1. i \in DOMAIN array /\ array[i] # Free BY DEF ArrayUsed
  <2>2. i \in Ints BY <2>1 DEF IInv, KeyPlaces
  <2>3. i \in Keys BY <2>2 DEF Keys
  <2>4. array[i] \in Values BY <2>1, ArrayFacts DEF IInv
  <2>5. InArray(i) BY <2>1, <2>2, <2>3, ArrayFacts DEF IInv
  <2>6. QED BY <2>1, <2>2, <2>3, <2>4, <2>5
<1>7. ASSUME NEW i \in HashUsed
      PROVE  i \in DOMAIN node /\ node[i].key \in Keys /\ node[i].val \in Values
             /\ ~InArray(node[i].key)
  <2>1. i \in DOMAIN node /\ node[i].val # Free BY DEF HashUsed
  <2>2. node[i].key \in Keys /\ node[i].val \in Values
    BY <2>1, TypedFacts DEF IInv, Chains, Typed
  <2>3. node[i].key \in Ints => node[i].key >= sizearray BY <2>1 DEF IInv, KeyPlaces
  <2>4. node[i].key \in Ints => node[i].key \in Nat BY TableAssumption
  <2>5. ~InArray(node[i].key)
    <3>1. sizearray \in Nat BY DEF IInv
    <3>2. QED BY <2>3, <2>4, <3>1 DEF InArray
  <2>6. QED BY <2>1, <2>2, <2>5
<1>8. QED BY <1>4, <1>5, <1>6, <1>7

\* w has the pairs of the slots in S, with their keys and values in the table.
Lists(w, S, key, val) ==
    /\ w \in Seq(PairType) /\ Len(w) = Cardinality(S)
    /\ \A j \in 1 .. Len(w) : \E i \in S : w[j] = Pair(key[i], val[i])
    /\ \A i \in S : \E j \in 1 .. Len(w) : w[j] = Pair(key[i], val[i])

InSomeOrder(a, S) == Enumerates(a, S) \/ (Enumerates(Reverse(a), S) /\ IsSeq(a))

LEMMA ListsInOrder ==
    ASSUME NEW S \in SUBSET Nat, IsFiniteSet(S), NEW key, NEW val,
           \A i \in S : key[i] \in Keys /\ val[i] \in Values \cup {Free},
           NEW a, InSomeOrder(a, S),
           NEW w, w = [j \in DOMAIN a |-> Pair(key[a[j]], val[a[j]])]
    PROVE  Lists(w, S, key, val)
<1>1. PICK n \in Nat : n = Cardinality(S) BY FS_CardinalityType
<1>2. /\ DOMAIN a = 1 .. n
      /\ \A j \in 1 .. n : a[j] \in S
      /\ \A i \in S : \E j \in 1 .. n : a[j] = i
  <2>1. CASE Enumerates(a, S)
    <3>1. a = [j \in 1 .. n |-> a[j]] BY <1>1, <2>1 DEF Enumerates
    <3>2. DOMAIN a = 1 .. n BY <3>1
    <3>3. QED BY <1>1, <2>1, <3>2 DEF Enumerates
  <2>2. CASE Enumerates(Reverse(a), S) /\ IsSeq(a)
    <3>1. PICK r : r = Reverse(a) OBVIOUS
    <3>2. Len(a) \in Nat /\ DOMAIN a = 1 .. Len(a) BY <2>2, IsSeqFacts
    <3>3. r = [i \in 1 .. Len(a) |-> a[(Len(a) - i) + 1]] BY <3>1 DEF Reverse
    <3>4. r = [j \in 1 .. n |-> r[j]] BY <1>1, <2>2, <3>1 DEF Enumerates
    <3>5. DOMAIN r = 1 .. Len(a) /\ DOMAIN r = 1 .. n BY <3>3, <3>4
    <3>6. Len(a) = n BY <1>1, <3>2, <3>5
    <3>7. \A j \in 1 .. n : r[j] \in S BY <1>1, <2>2, <3>1 DEF Enumerates
    <3>8. \A i \in S : \E j \in 1 .. n : r[j] = i BY <1>1, <2>2, <3>1 DEF Enumerates
    <3>9. \A j \in 1 .. n : (n - j) + 1 \in 1 .. n /\ (n - ((n - j) + 1)) + 1 = j OBVIOUS
    <3>10. \A j \in 1 .. n : r[j] = a[(n - j) + 1] BY <3>3, <3>6
    <3>11. \A j \in 1 .. n : a[j] = r[(n - j) + 1] BY <3>9, <3>10
    <3>12. QED BY <3>2, <3>6, <3>7, <3>8, <3>9, <3>10, <3>11
  <2>3. QED BY <2>1, <2>2 DEF InSomeOrder
<1>3. \A i \in S : Pair(key[i], val[i]) \in PairType BY PairTyped
<1>4. w \in [1 .. n -> PairType] BY <1>2, <1>3
<1>5. w \in Seq(PairType) /\ Len(w) = n BY <1>4
<1>6. QED BY <1>1, <1>2, <1>5 DEF Lists

\* The key and the value in the slot i of the array, or in the node i.
ArrayKeys == [i \in DOMAIN array |-> i]
NodeKeys == [i \in DOMAIN node |-> node[i].key]
NodeVals == [i \in DOMAIN node |-> node[i].val]

LEMMA VanishingLists ==
    ASSUME IInv, NEW na \in Nat
    PROVE  Lists(vanishing(na), {i \in ArrayUsed : i >= na}, ArrayKeys, array)
<1>1. PICK S : S = {i \in ArrayUsed : i >= na} OBVIOUS
<1>2. S \in SUBSET ArrayUsed BY <1>1
<1>3. S \in SUBSET Nat /\ IsFiniteSet(S) BY <1>2, UsedFacts, FS_Subset
<1>4. PICK a : a = ascending(S) OBVIOUS
<1>5. Enumerates(a, S) BY <1>3, <1>4, AscendingEnumerates
<1>6. \A i \in S : i \in DOMAIN array /\ ArrayKeys[i] = i /\ i \in Keys /\ array[i] \in Values
  BY <1>2, UsedFacts DEF ArrayKeys
<1>7. a = [j \in 1 .. Cardinality(S) |-> a[j]] /\ \A j \in 1 .. Cardinality(S) : a[j] \in S
  BY <1>5 DEF Enumerates
<1>8. \A j \in DOMAIN a : a[j] \in S BY <1>7
<1>9. vanishing(na) = [j \in DOMAIN a |-> Pair(a[j], array[a[j]])]
  BY <1>1, <1>4 DEF vanishing
<1>10. \A j \in DOMAIN a : Pair(a[j], array[a[j]]) = Pair(ArrayKeys[a[j]], array[a[j]])
  BY <1>6, <1>8
<1>11. vanishing(na) = [j \in DOMAIN a |-> Pair(ArrayKeys[a[j]], array[a[j]])]
  BY <1>9, <1>10
<1>12. \A i \in S : ArrayKeys[i] \in Keys /\ array[i] \in Values \cup {Free} BY <1>6
<1>13. PICK w, keys : w = vanishing(na) /\ keys = ArrayKeys OBVIOUS
<1>14. w = [j \in DOMAIN a |-> Pair(keys[a[j]], array[a[j]])] BY <1>11, <1>13
<1>15. \A i \in S : keys[i] \in Keys /\ array[i] \in Values \cup {Free} BY <1>12, <1>13
<1>16. InSomeOrder(a, S) BY <1>5 DEF InSomeOrder
<1>17. Lists(w, S, keys, array) BY <1>3, <1>14, <1>15, <1>16, ListsInOrder
<1>18. QED BY <1>1, <1>13, <1>17

LEMMA RehashedLists ==
    ASSUME IInv
    PROVE  Lists(rehashed, HashUsed, NodeKeys, NodeVals)
<1>1. PICK S : S = HashUsed OBVIOUS
<1>3. S \in SUBSET Nat /\ IsFiniteSet(S) BY <1>1, UsedFacts
<1>4. PICK b : b = ascending(S) OBVIOUS
<1>5. Enumerates(b, S) BY <1>3, <1>4, AscendingEnumerates
<1>6. PICK n \in Nat : n = Cardinality(S) BY <1>3, FS_CardinalityType
<1>7. b = [j \in 1 .. n |-> b[j]] /\ (\A j \in 1 .. n : b[j] \in S) BY <1>5, <1>6 DEF Enumerates
<1>8. IsSeq(b) /\ Len(b) = n
  <2>1. DOMAIN b = 1 .. n BY <1>7
  <2>2. QED BY <1>7, <2>1, FunctionIsSeq
<1>9. PICK a : a = Reverse(b) OBVIOUS
<1>10. a = [i \in 1 .. n |-> b[(n - i) + 1]] BY <1>8, <1>9 DEF Reverse
<1>11. DOMAIN a = 1 .. n /\ a = [i \in 1 .. n |-> a[i]] BY <1>10
<1>12. IsSeq(a) /\ Len(a) = n BY <1>11, FunctionIsSeq
<1>13. Reverse(a) = b
  <2>1. PICK r : r = Reverse(a) OBVIOUS
  <2>2. r = [i \in 1 .. n |-> a[(n - i) + 1]] BY <1>12, <2>1 DEF Reverse
  <2>3. \A i \in 1 .. n : (n - i) + 1 \in 1 .. n /\ (n - ((n - i) + 1)) + 1 = i OBVIOUS
  <2>4. \A i \in 1 .. n : r[i] = b[i] BY <1>10, <2>2, <2>3
  <2>5. r = [i \in 1 .. n |-> r[i]] BY <2>2
  <2>6. QED BY <1>7, <2>1, <2>4, <2>5
<1>14. \A j \in DOMAIN a : a[j] \in S
  <2>1. \A i \in 1 .. n : (n - i) + 1 \in 1 .. n OBVIOUS
  <2>2. QED BY <1>7, <1>10, <1>11, <2>1
<1>15. \A i \in S : /\ i \in DOMAIN node /\ NodeKeys[i] = node[i].key /\ NodeVals[i] = node[i].val
                    /\ NodeKeys[i] \in Keys /\ NodeVals[i] \in Values
  BY <1>1, UsedFacts DEF NodeKeys, NodeVals
<1>16. rehashed = [j \in DOMAIN a |-> Pair(node[a[j]].key, node[a[j]].val)]
  BY <1>1, <1>4, <1>9 DEF rehashed
<1>17. \A j \in DOMAIN a :
          Pair(node[a[j]].key, node[a[j]].val) = Pair(NodeKeys[a[j]], NodeVals[a[j]])
  BY <1>14, <1>15
<1>18. rehashed = [j \in DOMAIN a |-> Pair(NodeKeys[a[j]], NodeVals[a[j]])]
  BY <1>16, <1>17
<1>19. InSomeOrder(a, S) BY <1>5, <1>12, <1>13 DEF InSomeOrder
<1>20. \A i \in S : NodeKeys[i] \in Keys /\ NodeVals[i] \in Values \cup {Free} BY <1>15
<1>21. QED BY <1>1, <1>3, <1>18, <1>19, <1>20, ListsInOrder

(***************************************************************************)
(* A walk from key to key.                                                 *)
(***************************************************************************)
IsWalk(f, ks, nx, pr) ==
    f = [k \in ks \cup {Free} |-> IF k = Free THEN <<>> ELSE <<pr[k]>> \o f[nx[k]]]

\* nx goes through the n keys of K in their order: after[k] is where it goes on.
Walks(ks, nx, n, K, after) ==
    /\ n \in Nat /\ Free \notin ks
    /\ \A j \in 1 .. n : K[j] \in ks /\ after[K[j]] = j + 1
    /\ \A k \in ks : after[k] \in 1 .. n + 1
                     /\ nx[k] = IF after[k] = n + 1 THEN Free ELSE K[after[k]]

\* The pairs from the jth key on.
Rest(pr, n, K, j) == [m \in 1 .. n + 1 - j |-> pr[K[j + m - 1]]]

PairsIn(pr, n, K, D) == \A j \in 1 .. n : pr[K[j]] \in D

LEMMA RestFacts ==
    ASSUME NEW n \in Nat, NEW K, NEW D, NEW pr, PairsIn(pr, n, K, D)
    PROVE  /\ \A j \in 1 .. n + 1 : Rest(pr, n, K, j) \in Seq(D)
           /\ Rest(pr, n, K, n + 1) = <<>>
           /\ \A j \in 1 .. n : Rest(pr, n, K, j) = <<pr[K[j]]>> \o Rest(pr, n, K, j + 1)
<1>1. ASSUME NEW j \in 1 .. n + 1
      PROVE  Rest(pr, n, K, j) \in Seq(D) /\ Len(Rest(pr, n, K, j)) = n + 1 - j
  <2>1. PICK l \in Nat : l = n + 1 - j OBVIOUS
  <2>2. Rest(pr, n, K, j) = [m \in 1 .. l |-> pr[K[j + m - 1]]] BY <2>1 DEF Rest
  <2>3. \A m \in 1 .. l : j + m - 1 \in 1 .. n BY <2>1
  <2>4. Rest(pr, n, K, j) \in [1 .. l -> D] BY <2>2, <2>3 DEF PairsIn
  <2>5. QED BY <2>1, <2>4
<1>2. Rest(pr, n, K, n + 1) = <<>>
  <2>1. n + 1 \in 1 .. n + 1 OBVIOUS
  <2>2. Rest(pr, n, K, n + 1) \in Seq(D) /\ Len(Rest(pr, n, K, n + 1)) = n + 1 - (n + 1)
    BY <1>1, <2>1
  <2>3. QED BY <2>2, EmptySeq
<1>3. ASSUME NEW j \in 1 .. n
      PROVE  Rest(pr, n, K, j) = <<pr[K[j]]>> \o Rest(pr, n, K, j + 1)
  <2>1. PICK r, t, h : r = Rest(pr, n, K, j) /\ t = Rest(pr, n, K, j + 1) /\ h = <<pr[K[j]]>>
    OBVIOUS
  <2>2. j \in 1 .. n + 1 /\ j + 1 \in 1 .. n + 1 OBVIOUS
  <2>3. /\ r \in Seq(D) /\ Len(r) = n + 1 - j
        /\ t \in Seq(D) /\ Len(t) = n + 1 - (j + 1)
    BY <1>1, <2>1, <2>2
  <2>4. Len(h) = 1 /\ h[1] = pr[K[j]] BY <2>1
  <2>b. h \in Seq(D) BY <2>1 DEF PairsIn
  <2>c. t \in Seq(D) BY <2>3
  <2>5. PICK u : u = h \o t OBVIOUS
  <2>6. /\ u \in Seq(D) /\ Len(u) = Len(h) + Len(t)
        /\ \A i \in 1 .. Len(u) : u[i] = IF i <= Len(h) THEN h[i] ELSE t[i - Len(h)]
    BY <2>b, <2>c, <2>5, ConcatProperties
  <2>a. Len(u) = n + 1 - j /\ n + 1 - j \in Nat BY <2>3, <2>4, <2>6
  <2>7. \A m \in 1 .. n + 1 - j : r[m] = pr[K[j + m - 1]] BY <2>1 DEF Rest
  <2>8. \A m \in 1 .. n + 1 - (j + 1) : t[m] = pr[K[(j + 1) + m - 1]] BY <2>1 DEF Rest
  <2>9. ASSUME NEW m \in 1 .. n + 1 - j PROVE u[m] = r[m]
    <3>1. CASE m = 1
      <4>1. u[1] = h[1] BY <2>4, <2>6, <2>a, <3>1
      <4>2. j + m - 1 = j BY <3>1
      <4>3. QED BY <2>4, <2>7, <3>1, <4>1, <4>2
    <3>2. CASE m # 1
      <4>1. PICK i \in 1 .. n + 1 - (j + 1) : i = m - 1 BY <3>2
      <4>2. u[m] = t[i] BY <2>4, <2>6, <2>a, <3>2, <4>1
      <4>3. (j + 1) + i - 1 = j + m - 1 BY <4>1
      <4>4. QED BY <2>7, <2>8, <4>1, <4>2, <4>3
    <3>3. QED BY <3>1, <3>2
  <2>10. u = r
    <3>1. u = [m \in 1 .. Len(u) |-> u[m]] /\ r = [m \in 1 .. Len(r) |-> r[m]] BY <2>3, <2>6
    <3>2. PICK l : l = n + 1 - j OBVIOUS
    <3>3. Len(u) = l /\ Len(r) = l /\ \A m \in 1 .. l : u[m] = r[m] BY <2>3, <2>a, <2>9, <3>2
    <3>4. QED BY <3>1, <3>3
  <2>11. QED BY <2>1, <2>5, <2>10
<1>4. QED BY <1>1, <1>2, <1>3

LEMMA WalkExists ==
    ASSUME NEW ks, NEW nx, NEW n, NEW K, NEW after, Walks(ks, nx, n, K, after),
           NEW D, NEW pr, \A k \in ks : pr[k] \in D
    PROVE  \E f : IsWalk(f, ks, nx, pr)
<1> DEFINE R(j) == Rest(pr, n, K, j)
<1>0. n \in Nat /\ PairsIn(pr, n, K, D) BY DEF Walks, PairsIn
<1>1. PICK f : f = [k \in ks \cup {Free} |->
                       IF k = Free THEN <<>> ELSE <<pr[k]>> \o R(after[k])]
  OBVIOUS
<1>2. R(n + 1) = <<>> /\ \A j \in 1 .. n : R(j) = <<pr[K[j]]>> \o R(j + 1)
  BY <1>0, RestFacts
<1> HIDE DEF R
<1>3. ASSUME NEW k \in ks PROVE f[nx[k]] = R(after[k])
  <2>1. CASE after[k] = n + 1
    <3>1. nx[k] = Free BY <2>1 DEF Walks
    <3>2. QED BY <1>1, <1>2, <2>1, <3>1
  <2>2. CASE after[k] # n + 1
    <3>1. PICK j \in 1 .. n : j = after[k] /\ nx[k] = K[j] BY <2>2 DEF Walks
    <3>2. K[j] \in ks /\ K[j] # Free /\ after[K[j]] = j + 1 BY DEF Walks
    <3>3. f[K[j]] = <<pr[K[j]]>> \o R(j + 1) BY <1>1, <3>2
    <3>4. QED BY <1>2, <3>1, <3>3
  <2>3. QED BY <2>1, <2>2
<1>4. f[Free] = <<>> BY <1>1
<1>5. \A k \in ks : f[k] = <<pr[k]>> \o f[nx[k]]
  <2>1. \A k \in ks : f[k] = <<pr[k]>> \o R(after[k]) BY <1>1 DEF Walks
  <2>2. QED BY <1>3, <2>1
<1>6. f = [k \in ks \cup {Free} |-> f[k]] BY <1>1
<1>7. f = [k \in ks \cup {Free} |-> IF k = Free THEN <<>> ELSE <<pr[k]>> \o f[nx[k]]]
  BY <1>4, <1>5, <1>6
<1>8. QED BY <1>7 DEF IsWalk

LEMMA WalkIs ==
    ASSUME NEW ks, NEW nx, NEW n, NEW K, NEW after, Walks(ks, nx, n, K, after),
           NEW D, NEW pr, \A k \in ks : pr[k] \in D, NEW f, IsWalk(f, ks, nx, pr)
    PROVE  f[Free] = <<>> /\ \A j \in 1 .. n : f[K[j]] = Rest(pr, n, K, j)
<1> DEFINE S == {l \in Nat : \A j \in 1 .. n : j + l = n => f[K[j]] = Rest(pr, n, K, j)}
<1>0. n \in Nat /\ PairsIn(pr, n, K, D) BY DEF Walks, PairsIn
<1>1. f[Free] = <<>> BY DEF IsWalk
<1>2. ASSUME NEW j \in 1 .. n
      PROVE  f[K[j]] = <<pr[K[j]]>> \o f[IF j = n THEN Free ELSE K[j + 1]]
  <2>1. K[j] \in ks /\ K[j] # Free /\ after[K[j]] = j + 1 BY DEF Walks
  <2>2. nx[K[j]] = IF j + 1 = n + 1 THEN Free ELSE K[j + 1] BY <2>1 DEF Walks
  <2>3. nx[K[j]] = IF j = n THEN Free ELSE K[j + 1] BY <1>0, <2>2
  <2>4. f[K[j]] = <<pr[K[j]]>> \o f[nx[K[j]]] BY <2>1 DEF IsWalk
  <2>5. QED BY <2>3, <2>4
<1>3. Rest(pr, n, K, n + 1) = <<>>
      /\ \A j \in 1 .. n : Rest(pr, n, K, j) = <<pr[K[j]]>> \o Rest(pr, n, K, j + 1)
  BY ONLY <1>0, RestFacts
<1>4. 0 \in S
  <2>1. SUFFICES ASSUME NEW j \in 1 .. n, j + 0 = n PROVE f[K[j]] = Rest(pr, n, K, j) OBVIOUS
  <2>2. j = n BY <2>1, <1>0
  <2>3. f[K[j]] = <<pr[K[j]]>> \o <<>> BY <1>1, <1>2, <2>2
  <2>4. Rest(pr, n, K, j) = <<pr[K[j]]>> \o <<>> BY <1>3, <2>2
  <2>5. QED BY <2>3, <2>4
<1>5. ASSUME NEW l \in Nat, l \in S PROVE l + 1 \in S
  <2>1. SUFFICES ASSUME NEW j \in 1 .. n, j + (l + 1) = n PROVE f[K[j]] = Rest(pr, n, K, j)
    OBVIOUS
  <2>2. PICK i : i = j + 1 OBVIOUS
  <2>3. i \in 1 .. n /\ i + l = n /\ j # n BY <1>0, <2>1, <2>2
  <2>4. f[K[i]] = Rest(pr, n, K, i) BY <1>5, <2>3
  <2>5. f[K[j]] = <<pr[K[j]]>> \o f[K[i]] BY <1>2, <2>2, <2>3
  <2>6. Rest(pr, n, K, j) = <<pr[K[j]]>> \o Rest(pr, n, K, i) BY <1>3, <2>2
  <2>7. QED BY <2>4, <2>5, <2>6
<1>6. \A j \in 1 .. n : f[K[j]] = Rest(pr, n, K, j)
  <2> HIDE DEF S
  <2>1. \A l \in Nat : l \in S => l + 1 \in S BY <1>5
  <2>2. Nat \subseteq S BY <1>4, <2>1, NatSetInduction
  <2>3. SUFFICES ASSUME NEW j \in 1 .. n PROVE f[K[j]] = Rest(pr, n, K, j) OBVIOUS
  <2>4. PICK l \in Nat : j + l = n
    <3>1. n - j \in Nat /\ j + (n - j) = n BY <1>0
    <3>2. QED BY <3>1
  <2>5. l \in S BY <2>2
  <2>6. QED BY <2>4, <2>5 DEF S
<1>7. QED BY <1>1, <1>6

(***************************************************************************)
(* A traversal meets every binding once.                                   *)
(***************************************************************************)
UsedSlots == {i \in Slots : SlotVal(i) # Free}

LEMMA SlotFacts ==
    ASSUME IInv, NEW i \in UsedSlots
    PROVE  /\ SlotKey(i) \in Keys /\ SlotVal(i) \in Values
           /\ findindex(SlotKey(i)) = i
           /\ klispH_get(SlotKey(i)) = SlotVal(i)
<1>0. sizearray \in Nat /\ sizenode \in Nat BY DEF IInv, Chains, Typed
<1>1. i \in Nat /\ i < sizearray + sizenode /\ SlotVal(i) # Free
  BY <1>0 DEF UsedSlots, Slots
<1>2. CASE i < sizearray
  <2>1. SlotKey(i) = i /\ SlotVal(i) = array[i] BY <1>2 DEF SlotKey, SlotVal
  <2>2. i \in DOMAIN array BY <1>0, <1>1, <1>2, ArrayFacts DEF IInv
  <2>3. i \in ArrayUsed BY <1>1, <2>1, <2>2 DEF ArrayUsed
  <2>4. i \in Keys /\ array[i] \in Values /\ InArray(i) BY <2>3, UsedFacts
  <2>5. findindex(i) = i /\ klispH_get(i) = array[i] BY <2>4 DEF findindex, klispH_get
  <2>6. QED BY <2>1, <2>4, <2>5
<1>3. CASE ~(i < sizearray)
  <2>1. PICK x \in Nat : x = i - sizearray BY <1>0, <1>1, <1>3
  <2>2. SlotKey(i) = node[x].key /\ SlotVal(i) = node[x].val
    BY <1>3, <2>1 DEF SlotKey, SlotVal
  <2>3. x \in DOMAIN node
    <3>1. DOMAIN node = 0 .. sizenode - 1 BY TypedFacts DEF IInv, Chains, Indices
    <3>2. QED BY <1>0, <1>1, <2>1, <3>1
  <2>4. x \in HashUsed BY <1>1, <2>2, <2>3 DEF HashUsed
  <2>5. PICK k \in Keys : k = node[x].key BY <2>4, UsedFacts
  <2>6. node[x].val \in Values /\ ~InArray(k) BY <2>4, <2>5, UsedFacts
  <2>7. Chained(k) = x BY <2>3, <2>5, ChainedFacts DEF IInv
  <2>8. findindex(k) = sizearray + x BY <2>6, <2>7 DEF findindex
  <2>9. sizearray + x = i BY <1>0, <1>1, <2>1
  <2>10. x # NULL BY DEF NULL
  <2>11. klispH_get(k) = node[x].val BY <2>6, <2>7, <2>10 DEF klispH_get
  <2>12. QED BY <2>2, <2>5, <2>6, <2>8, <2>9, <2>11
<1>4. QED BY <1>2, <1>3

LEMMA SlotOfKey ==
    ASSUME IInv, NEW k \in Keys, klispH_get(k) # Free
    PROVE  \E i \in UsedSlots : SlotKey(i) = k
<1>0. sizearray \in Nat /\ sizenode \in Nat /\ sizenode >= 1 BY DEF IInv, Chains, Typed
<1>1. CASE InArray(k)
  <2>1. k \in DOMAIN array BY <1>1, ArrayFacts DEF IInv
  <2>2. k \in 0 .. sizearray - 1 BY <2>1, ArrayFacts DEF IInv
  <2>3. k < sizearray /\ k \in Slots BY <1>0, <2>2 DEF Slots
  <2>4. SlotKey(k) = k /\ SlotVal(k) = klispH_get(k)
    BY <1>1, <2>3 DEF SlotKey, SlotVal, klispH_get
  <2>5. QED BY <2>3, <2>4 DEF UsedSlots
<1>2. CASE ~InArray(k)
  <2>1. PICK x : x = Chained(k) OBVIOUS
  <2>2. x # NULL /\ klispH_get(k) = node[x].val BY <1>2, <2>1 DEF klispH_get
  <2>3. x \in DOMAIN node /\ node[x].key = k BY <2>1, <2>2, ChainedFacts DEF IInv
  <2>4. DOMAIN node = 0 .. sizenode - 1 BY TypedFacts DEF IInv, Chains, Indices
  <2>5. x \in Nat /\ x < sizenode BY <1>0, <2>3, <2>4
  <2>6. PICK i : i = sizearray + x OBVIOUS
  <2>7. i \in Slots /\ ~(i < sizearray) /\ i - sizearray = x BY <1>0, <2>5, <2>6 DEF Slots
  <2>8. SlotKey(i) = k /\ SlotVal(i) = node[x].val BY <2>3, <2>7 DEF SlotKey, SlotVal
  <2>9. QED BY <2>2, <2>7, <2>8 DEF UsedSlots
<1>3. QED BY <1>1, <1>2

\* The first of the n slots in a after i is the jth.
IsAfter(a, n, i, j) ==
    /\ j \in 1 .. n + 1
    /\ \A l \in 1 .. n : l < j => a[l] <= i
    /\ j <= n => a[j] > i

LEMMA AfterExists ==
    ASSUME NEW U \in SUBSET Nat, NEW a, Enumerates(a, U), NEW n, n = Cardinality(U),
           NEW i \in Int
    PROVE  \E j : IsAfter(a, n, i, j)
<1>0. n \in Nat /\ (\A j \in 1 .. n : a[j] \in Nat) BY DEF Enumerates
<1>1. PICK T : T = {j \in 1 .. n : a[j] > i} OBVIOUS
<1>2. CASE T = {}
  <2>1. \A l \in 1 .. n : a[l] <= i BY <1>0, <1>1, <1>2
  <2>2. IsAfter(a, n, i, n + 1) BY <1>0, <2>1 DEF IsAfter
  <2>3. QED BY <2>2
<1>3. CASE T # {}
  <2>1. T \in SUBSET Nat BY <1>1
  <2>2. PICK j \in T : \A l \in T : j <= l BY <1>3, <2>1, LeastNat
  <2>3. j \in 1 .. n /\ a[j] > i BY <1>1, <2>2
  <2>4. \A l \in 1 .. n : l < j => a[l] <= i
    <3>1. SUFFICES ASSUME NEW l \in 1 .. n, l < j, a[l] > i PROVE FALSE BY <1>0
    <3>2. l \in T BY <1>1, <3>1
    <3>3. j <= l /\ j \in Nat /\ l \in Nat BY <2>1, <2>2, <3>2
    <3>4. QED BY <3>1, <3>3
  <2>5. IsAfter(a, n, i, j) BY <1>0, <2>3, <2>4 DEF IsAfter
  <2>6. QED BY <2>5
<1>4. QED BY <1>2, <1>3

LEMMA AfterFacts ==
    ASSUME NEW U \in SUBSET Nat, NEW a, Enumerates(a, U), NEW n, n = Cardinality(U),
           NEW i \in Int, NEW j, IsAfter(a, n, i, j), NEW T, T = {x \in U : x > i}
    PROVE  /\ j \in 1 .. n + 1
           /\ j = n + 1 => T = {}
           /\ j # n + 1 => j \in 1 .. n /\ T # {} /\ Min(T) = a[j]
           /\ \A l \in 1 .. n : i = a[l] => j = l + 1
           /\ (\A l \in 1 .. n : a[l] > i) => j = 1
<1>0. /\ n \in Nat /\ \A l \in 1 .. n : a[l] \in U /\ a[l] \in Nat
      /\ \A x \in U : \E l \in 1 .. n : a[l] = x
      /\ \A l, m \in 1 .. n : l < m => a[l] < a[m]
  BY DEF Enumerates
<1>1. j \in 1 .. n + 1 /\ (\A l \in 1 .. n : l < j => a[l] <= i) /\ (j <= n => a[j] > i)
  BY DEF IsAfter
<1>2. j = n + 1 => T = {}
  <2>1. SUFFICES ASSUME j = n + 1, NEW x \in T PROVE FALSE OBVIOUS
  <2>2. PICK l \in 1 .. n : a[l] = x BY <1>0
  <2>3. l < j BY <1>0, <2>1
  <2>4. a[l] <= i /\ a[l] > i /\ a[l] \in Nat BY <1>0, <1>1, <2>2, <2>3
  <2>5. QED BY <2>4
<1>3. j # n + 1 => j \in 1 .. n /\ T # {} /\ Min(T) = a[j]
  <2>1. SUFFICES ASSUME j # n + 1 PROVE j \in 1 .. n /\ T # {} /\ Min(T) = a[j] OBVIOUS
  <2>2. j \in 1 .. n BY <1>0, <1>1, <2>1
  <2>3. a[j] \in T BY <1>0, <1>1, <2>2
  <2>4. \A x \in T : a[j] <= x
    <3>1. SUFFICES ASSUME NEW x \in T PROVE a[j] <= x OBVIOUS
    <3>2. PICK l \in 1 .. n : a[l] = x BY <1>0
    <3>3. ~(l < j)
      <4>1. SUFFICES ASSUME l < j PROVE FALSE OBVIOUS
      <4>2. a[l] <= i /\ a[l] > i /\ a[l] \in Nat BY <1>0, <1>1, <3>2, <4>1
      <4>3. QED BY <4>2
    <3>4. l = j \/ j < l BY <2>2, <3>3
    <3>5. CASE l = j BY <1>0, <2>2, <3>2, <3>5
    <3>6. CASE j < l
      <4>1. a[j] < a[l] /\ a[j] \in Nat /\ a[l] \in Nat BY <1>0, <2>2, <3>6
      <4>2. QED BY <3>2, <4>1
    <3>7. QED BY <3>4, <3>5, <3>6
  <2>5. Min(T) = a[j]
    <3>1. \A x \in T : (\A y \in T : x <= y) => x = a[j]
      <4>1. SUFFICES ASSUME NEW x \in T, \A y \in T : x <= y PROVE x = a[j] OBVIOUS
      <4>2. x <= a[j] /\ a[j] <= x /\ x \in Nat /\ a[j] \in Nat BY <1>0, <2>2, <2>3, <2>4, <4>1
      <4>3. QED BY <4>2
    <3>2. QED BY <2>3, <2>4, <3>1 DEF Min
  <2>6. QED BY <2>2, <2>3, <2>5
<1>4. ASSUME NEW l \in 1 .. n, i = a[l] PROVE j = l + 1
  <2>1. ~(j <= l)
    <3>1. SUFFICES ASSUME j <= l PROVE FALSE OBVIOUS
    <3>2. j <= n /\ j \in 1 .. n BY <1>0, <1>1, <3>1
    <3>3. a[j] > a[l] /\ a[j] \in Nat /\ a[l] \in Nat BY <1>0, <1>1, <1>4, <3>2
    <3>4. j = l \/ j < l BY <3>1, <3>2
    <3>5. QED BY <1>0, <3>2, <3>3, <3>4
  <2>2. ~(l + 1 < j)
    <3>1. SUFFICES ASSUME l + 1 < j PROVE FALSE OBVIOUS
    <3>2. PICK m \in 1 .. n : m = l + 1 BY <1>0, <1>1, <3>1
    <3>3. a[m] <= a[l] /\ a[l] < a[m] /\ a[m] \in Nat /\ a[l] \in Nat
      BY <1>0, <1>1, <1>4, <3>1, <3>2
    <3>4. QED BY <3>3
  <2>3. QED BY <1>0, <1>1, <2>1, <2>2
<1>5. (\A l \in 1 .. n : a[l] > i) => j = 1
  <2>1. SUFFICES ASSUME \A l \in 1 .. n : a[l] > i, j # 1 PROVE FALSE OBVIOUS
  <2>2. 1 \in 1 .. n /\ 1 < j BY <1>0, <1>1, <2>1
  <2>3. a[1] <= i /\ a[1] > i /\ a[1] \in Nat BY <1>0, <1>1, <2>1, <2>2
  <2>4. QED BY <2>3
<1>6. QED BY <1>1, <1>2, <1>3, <1>4, <1>5


LEMMA UsedSlotsFacts == ASSUME IInv PROVE UsedSlots \in SUBSET Nat /\ IsFiniteSet(UsedSlots)
<1>1. sizearray \in Nat /\ sizenode \in Nat BY DEF IInv, Chains, Typed
<1>2. PICK z \in Int : z = sizearray + sizenode - 1 BY <1>1
<1>3. UsedSlots \in SUBSET (0 .. z) BY <1>2 DEF UsedSlots, Slots
<1>4. IsFiniteSet(0 .. z) BY FS_Interval
<1>5. IsFiniteSet(UsedSlots) BY <1>3, <1>4, FS_Subset
<1>6. UsedSlots \in SUBSET Nat BY <1>2, <1>3
<1>7. QED BY <1>5, <1>6

LEMMA NextIs ==
    ASSUME IInv, NEW a, Enumerates(a, UsedSlots), NEW n, n = Cardinality(UsedSlots),
           NEW i \in Int, NEW j, IsAfter(a, n, i, j)
    PROVE  klispH_next(i) = IF j = n + 1 THEN Free ELSE SlotKey(a[j])
<1>1. PICK U : U = UsedSlots OBVIOUS
<1>2. U \in SUBSET Nat /\ Enumerates(a, U) /\ n = Cardinality(U) BY <1>1, UsedSlotsFacts
<1>3. PICK T : T = {x \in U : x > i} OBVIOUS
<1>4. (j = n + 1 => T = {}) /\ (j # n + 1 => T # {} /\ Min(T) = a[j])
  BY <1>2, <1>3, AfterFacts
<1>5. T = {x \in Slots : x > i /\ SlotVal(x) # Free} BY <1>1, <1>3 DEF UsedSlots
<1>6. klispH_next(i) = IF T = {} THEN Free ELSE SlotKey(Min(T)) BY <1>5 DEF klispH_next
<1>7. QED BY <1>4, <1>6

LEMMA IndexType == ASSUME IInv, NEW k \in Keys PROVE findindex(k) \in Int
<1>1. sizearray \in Nat /\ DOMAIN node \subseteq Nat BY TypedFacts DEF IInv, Chains, Typed
<1>2. CASE InArray(k)
  <2>1. k \in Nat BY <1>2, TableAssumption DEF InArray
  <2>2. QED BY <1>2, <2>1 DEF findindex
<1>3. CASE ~InArray(k)
  <2>1. PICK c : c = Chained(k) OBVIOUS
  <2>2. c = NULL \/ c \in DOMAIN node BY <2>1, ChainedFacts DEF IInv
  <2>3. c \in Int BY <1>1, <2>2 DEF NULL
  <2>4. QED BY <1>1, <1>3, <2>1, <2>3 DEF findindex
<1>4. QED BY <1>2, <1>3

SlotKeys == [i \in Slots |-> SlotKey(i)]
SlotVals == [i \in Slots |-> SlotVal(i)]

LEMMA TraversalLists ==
    ASSUME IInv
    PROVE  Lists(traversal, UsedSlots, SlotKeys, SlotVals) /\ IsInjective(traversal)
<1>1. PICK U : U = UsedSlots OBVIOUS
<1>2. U \in SUBSET Nat /\ IsFiniteSet(U) BY <1>1, UsedSlotsFacts
<1>3. PICK a : a = ascending(U) OBVIOUS
<1>4. Enumerates(a, U) BY <1>2, <1>3, AscendingEnumerates
<1>5. PICK n \in Nat : n = Cardinality(U) BY <1>2, FS_CardinalityType
<1>6. (\A j \in 1 .. n : a[j] \in U /\ a[j] \in Nat)
      /\ (\A j, l \in 1 .. n : j < l => a[j] < a[l])
  <2>1. \A j \in 1 .. n : a[j] \in U BY <1>4, <1>5 DEF Enumerates
  <2>2. \A j, l \in 1 .. n : j < l => a[j] < a[l] BY <1>4, <1>5 DEF Enumerates
  <2>3. QED BY <1>2, <2>1, <2>2
<1>7. PICK K : K = [j \in 1 .. n |-> SlotKey(a[j])] OBVIOUS
<1>8. PICK idx : idx = [k \in Keys |-> findindex(k)] OBVIOUS
<1>9. PICK nx : nx = [k \in Keys |-> klispH_next(findindex(k))] OBVIOUS
<1>10. PICK pr : pr = [k \in Keys |-> Pair(k, klispH_get(k))] OBVIOUS
<1>11. \A k \in Keys : idx[k] \in Int BY <1>8, IndexType
<1>12. \A j \in 1 .. n : K[j] \in Keys /\ idx[K[j]] = a[j] /\ klispH_get(K[j]) = SlotVal(a[j])
  BY <1>1, <1>6, <1>7, <1>8, SlotFacts
<1> DEFINE aft(i) == CHOOSE j : IsAfter(a, n, i, j)
<1>13. \A i \in Int : IsAfter(a, n, i, aft(i)) BY <1>2, <1>4, <1>5, AfterExists
<1> HIDE DEF aft
<1>14. PICK after : after = [k \in Keys |-> aft(idx[k])] OBVIOUS
<1>15. ASSUME NEW i \in Int
       PROVE  /\ aft(i) \in 1 .. n + 1
              /\ \A l \in 1 .. n : i = a[l] => aft(i) = l + 1
              /\ (\A l \in 1 .. n : a[l] > i) => aft(i) = 1
              /\ klispH_next(i) = IF aft(i) = n + 1 THEN Free ELSE K[aft(i)]
  <2>1. PICK j : j = aft(i) OBVIOUS
  <2>2. IsAfter(a, n, i, j) BY <1>13, <2>1
  <2>3. PICK T : T = {x \in U : x > i} OBVIOUS
  <2>4. /\ j \in 1 .. n + 1 /\ (j # n + 1 => j \in 1 .. n)
        /\ \A l \in 1 .. n : i = a[l] => j = l + 1
        /\ (\A l \in 1 .. n : a[l] > i) => j = 1
    BY <1>2, <1>4, <1>5, <2>2, <2>3, AfterFacts
  <2>5. klispH_next(i) = IF j = n + 1 THEN Free ELSE SlotKey(a[j])
    BY <1>1, <1>4, <1>5, <2>2, NextIs
  <2>6. j # n + 1 => SlotKey(a[j]) = K[j] BY <1>7, <2>4
  <2>7. QED BY <2>1, <2>4, <2>5, <2>6
<1>16. Walks(Keys, nx, n, K, after)
  <2>1. \A j \in 1 .. n : after[K[j]] = j + 1 BY <1>11, <1>12, <1>14, <1>15
  <2>2. ASSUME NEW k \in Keys
        PROVE  after[k] \in 1 .. n + 1
               /\ nx[k] = IF after[k] = n + 1 THEN Free ELSE K[after[k]]
    <3>1. PICK i \in Int : i = idx[k] BY <1>11
    <3>2. after[k] = aft(i) /\ nx[k] = klispH_next(i) BY <1>8, <1>9, <1>14, <3>1
    <3>3. QED BY <1>15, <3>2
  <2>3. QED BY <1>12, <2>1, <2>2, NoSpecialKeys DEF Walks
<1>17. ASSUME NEW k \in Keys PROVE pr[k] \in PairType
  <2>1. pr[k] = Pair(k, klispH_get(k)) BY <1>10
  <2>2. klispH_get(k) \in Values \cup {Free} BY GetFacts
  <2>3. QED BY <2>1, <2>2, PairTyped
<1>18. PICK f : f = CHOOSE g : IsWalk(g, Keys, nx, pr) OBVIOUS
<1>19. IsWalk(f, Keys, nx, pr) BY <1>16, <1>17, <1>18, WalkExists
<1>20. f[Free] = <<>> /\ \A j \in 1 .. n : f[K[j]] = Rest(pr, n, K, j)
  <2>1. \A k \in Keys : pr[k] \in PairType BY <1>17
  <2>2. QED BY ONLY <1>16, <1>19, <2>1, WalkIs
<1>21. traversal = f[klispH_next(-1)]
  <2>1. \A g : IsWalk(g, Keys, nx, pr) <=>
          g = [k \in Keys \cup {Free} |->
                 IF k = Free THEN <<>>
                 ELSE <<Pair(k, klispH_get(k))>> \o g[klispH_next(findindex(k))]]
    <3>1. SUFFICES ASSUME NEW g
                   PROVE [k \in Keys \cup {Free} |->
                            IF k = Free THEN <<>> ELSE <<pr[k]>> \o g[nx[k]]]
                       = [k \in Keys \cup {Free} |->
                            IF k = Free THEN <<>>
                            ELSE <<Pair(k, klispH_get(k))>> \o g[klispH_next(findindex(k))]]
      BY DEF IsWalk
    <3>2. \A k \in Keys \cup {Free} : k # Free =>
            pr[k] = Pair(k, klispH_get(k)) /\ nx[k] = klispH_next(findindex(k))
      BY <1>9, <1>10
    <3>3. QED BY <3>2
  <2>2. f = CHOOSE g :
          g = [k \in Keys \cup {Free} |->
                 IF k = Free THEN <<>>
                 ELSE <<Pair(k, klispH_get(k))>> \o g[klispH_next(findindex(k))]]
    BY <1>18, <2>1
  <2>3. QED BY <2>2 DEF traversal
<1>22. traversal = Rest(pr, n, K, 1)
  <2>1. -1 \in Int /\ (\A l \in 1 .. n : a[l] > -1) BY <1>6
  <2>2. aft(-1) = 1 BY <1>15, <2>1
  <2>3. klispH_next(-1) = IF 1 = n + 1 THEN Free ELSE K[1] BY <1>15, <2>1, <2>2
  <2>4. CASE n = 0
    <3>1. PairsIn(pr, n, K, PairType) BY <2>4 DEF PairsIn
    <3>2. Rest(pr, n, K, n + 1) = <<>> BY <3>1, RestFacts
    <3>3. QED BY <1>20, <1>21, <2>3, <2>4, <3>2
  <2>5. CASE n # 0
    <3>1. 1 \in 1 .. n /\ 1 # n + 1 BY <2>5
    <3>2. QED BY <1>20, <1>21, <2>3, <3>1
  <2>6. QED BY <2>4, <2>5
<1>23. PICK t : t = traversal OBVIOUS
<1>24. t = [m \in 1 .. n + 1 - 1 |-> pr[K[1 + m - 1]]] BY <1>22, <1>23 DEF Rest
<1>25. t = [m \in 1 .. n |-> pr[K[m]]]
  <2>1. n + 1 - 1 = n /\ \A m \in 1 .. n : 1 + m - 1 = m OBVIOUS
  <2>2. QED BY <1>24, <2>1
<1>26. t \in [1 .. n -> PairType] BY <1>12, <1>17, <1>25
<1>27. t \in Seq(PairType) /\ Len(t) = n BY <1>26
<1>28. PICK sk, sv : sk = SlotKeys /\ sv = SlotVals OBVIOUS
<1>29. ASSUME NEW j \in 1 .. n PROVE t[j] = Pair(sk[a[j]], sv[a[j]])
  <2>1. a[j] \in Slots BY <1>1, <1>6 DEF UsedSlots
  <2>2. sk[a[j]] = SlotKey(a[j]) /\ sv[a[j]] = SlotVal(a[j])
    BY <1>28, <2>1 DEF SlotKeys, SlotVals
  <2>3. t[j] = Pair(K[j], klispH_get(K[j])) BY <1>10, <1>12, <1>25
  <2>4. K[j] = SlotKey(a[j]) BY <1>7
  <2>5. QED BY <1>12, <2>2, <2>3, <2>4
<1>30. Lists(t, U, sk, sv)
  <2>1. \A i \in U : \E j \in 1 .. n : a[j] = i BY <1>4, <1>5 DEF Enumerates
  <2>2. QED BY <1>5, <1>6, <1>27, <1>29, <2>1 DEF Lists
<1>31. IsInjective(t)
  <2>1. SUFFICES ASSUME NEW j \in 1 .. n, NEW l \in 1 .. n, t[j] = t[l] PROVE j = l
    BY <1>25 DEF IsInjective
  <2>2. pr[K[j]].key = K[j] /\ pr[K[l]].key = K[l] BY <1>10, <1>12, PairFacts
  <2>3. K[j] = K[l] BY <1>25, <2>1, <2>2
  <2>4. a[j] = a[l] BY <1>12, <2>3
  <2>5. ~(j < l) /\ ~(l < j) BY <1>6, <2>4
  <2>6. QED BY <2>5
<1>32. QED BY <1>1, <1>23, <1>28, <1>30, <1>31

-----------------------------------------------------------------------------
(***************************************************************************)
(* The steps.                                                              *)
(***************************************************************************)
\* The table has parts of na cells and nh nodes that are as resize makes them.
Fresh(na, nh) ==
    /\ array \in [Indices(na) -> Values \cup {Free}]
    /\ \A i \in Indices(na) : array[i] # Free => i \in Ints
    /\ node = FreeNodes(nh) /\ dummy = (nh = 0) /\ lastfree = Lastfree(nh)
    /\ work \in Seq(PairType) /\ moving \in 0 .. Len(work) /\ moving <= nh

IsNew == \E na, nh \in Nat : Fresh(na, nh)

LEMMA NewIs == IsNew => IInv
<1> SUFFICES ASSUME NEW na \in Nat, NEW nh \in Nat, Fresh(na, nh) PROVE IInv
  BY DEF IsNew
<1>1. PICK s : s = sizenode OBVIOUS
<1>2. IsFresh(node, s, nh) BY <1>1, FreshPart DEF Fresh, sizenode
<1>3. /\ s \in Nat /\ s >= 1 /\ DOMAIN node = Indices(s)
      /\ \A i \in DOMAIN node : node[i] = FreeNode
      /\ nh = 0 => s = 1 /\ Lastfree(nh) = 0
      /\ nh # 0 => s >= nh /\ Lastfree(nh) = s
      /\ NotUsed(node) = DOMAIN node
  BY <1>2 DEF IsFresh
<1>4. MainOf(s) \in [Keys -> Indices(s)] BY <1>3, MainOfType
<1>5. Typed(node, s, MainOf(s)) /\ WellChained(node, MainOf(s)) BY <1>2, <1>4 DEF IsFresh
<1>6. Chains BY <1>1, <1>5 DEF Chains
<1>7. DOMAIN array = 0 .. na - 1 BY DEF Fresh, Indices
<1>8. sizearray = na
  <2>1. 0 \in Int /\ na - 1 \in Int OBVIOUS
  <2>2. Cardinality(0 .. na - 1) = IF 0 > na - 1 THEN 0 ELSE (na - 1) - 0 + 1
    BY <2>1, FS_Interval
  <2>3. QED BY <1>7, <2>2 DEF sizearray
<1>9. Cardinality(NotUsed(node)) = s BY <1>1, <1>3 DEF sizenode
<1>10. TypeOK
  <2>1. array \in [Indices(sizearray) -> Values \cup {Free}] BY <1>8 DEF Fresh
  <2>2. node \in [Indices(sizenode) -> [key : Keys \cup {Free, Dead}, val : Values \cup {Free},
                                        next : Indices(sizenode) \cup {NULL}]]
        /\ \A i \in DOMAIN node : node[i].key \in {Free, Dead} => node[i].val = Free
    BY <1>1, <1>3, <1>5 DEF Typed, NodeType
  <2>3. dummy => node = FreeNodes(0) BY DEF Fresh
  <2>4. lastfree \in 0 .. sizenode BY <1>1, <1>3 DEF Fresh
  <2>5. moving \in 0 .. Len(work) BY DEF Fresh
  <2>6. QED BY <2>1, <2>2, <2>3, <2>4, <2>5 DEF TypeOK
<1>11. FreeNode.key = Free BY DEF FreeNode
<1>12. KeyPlaces
  <2>1. \A i \in DOMAIN array : array[i] # Free => i \in Ints BY <1>7 DEF Fresh, Indices
  <2>2. \A i \in DOMAIN node : node[i].key \notin Keys BY <1>3, <1>11, NoSpecialKeys
  <2>3. QED BY <2>1, <2>2 DEF KeyPlaces, Keys
<1>13. FreePlaces
  <2>1. dummy = (nh = 0) /\ lastfree = Lastfree(nh) BY DEF Fresh
  <2>2. nh # 0 => \A i \in DOMAIN node : i < lastfree BY <1>3, <2>1 DEF Indices
  <2>3. QED BY <1>3, <2>1, <2>2 DEF FreePlaces
<1>14. Room
  <2>1. moving \in Nat /\ moving <= nh /\ dummy = (nh = 0) BY DEF Fresh
  <2>2. moving > 0 => nh # 0 /\ moving <= s BY <1>3, <2>1
  <2>3. QED BY <1>9, <2>1, <2>2 DEF Room
<1>15. QED BY <1>6, <1>8, <1>10, <1>12, <1>13, <1>14 DEF IInv, Fresh

LEMMA NewIsNext == IsNew' => IInv'
BY NewIs, PTL

LEMMA InitFresh == Init => Fresh(0, NHash) /\ NHash \in Nat
<1> SUFFICES ASSUME Init PROVE Fresh(0, NHash) /\ NHash \in Nat OBVIOUS
<1>1. array = FreeArray(0) BY DEF Init
<1>2. Indices(0) = {} BY DEF Indices
<1>3. array \in [Indices(0) -> Values \cup {Free}] BY <1>1, <1>2 DEF FreeArray
<1>4. Fresh(0, NHash)
  <2>1. work \in Seq(PairType) /\ Len(work) = 0 BY DEF Init
  <2>2. moving = 0 BY DEF Init
  <2>3. NHash \in Nat BY TableAssumption
  <2>4. moving \in 0 .. Len(work) /\ moving <= NHash BY <2>1, <2>2, <2>3
  <2>5. QED BY <1>2, <1>3, <2>1, <2>4 DEF Fresh, Init
<1>5. QED BY <1>4, TableAssumption

LEMMA InitIInv == Init => IInv
BY InitFresh, NewIs DEF IsNew

LEMMA OperationKeeps ==
    ASSUME IInv, Idle, NEW k \in Keys, NEW v \in Values \cup {Free},
           work' = <<Pair(k, v)>>, UNCHANGED <<parts, moving>>
    PROVE  IInv'
<1>1. array' = array /\ node' = node /\ dummy' = dummy /\ lastfree' = lastfree
      /\ moving' = moving
  BY DEF parts
<1>2. moving = 0
  <2>1. moving \in 0 .. Len(work) /\ work = <<>> BY DEF IInv, TypeOK, Idle
  <2>2. QED BY <2>1
<1>3. work' \in Seq(PairType) /\ Len(work') = 1 BY PairTyped
<1>4. moving' \in 0 .. Len(work') BY <1>1, <1>2, <1>3
<1>5. TypeOK' BY <1>1, <1>4 DEF IInv, TypeOK, sizearray, sizenode
<1>6. sizearray' \in Nat /\ Chains' /\ KeyPlaces' /\ FreePlaces' /\ Room'
  BY <1>1 DEF IInv, sizearray, sizenode, Chains, KeyPlaces, FreePlaces, Room
<1>7. QED BY <1>3, <1>5, <1>6 DEF IInv

LEMMA StutterKeeps == ASSUME IInv, UNCHANGED vars PROVE IInv'
<1>1. array' = array /\ node' = node /\ dummy' = dummy /\ lastfree' = lastfree
      /\ work' = work /\ moving' = moving
  BY DEF vars
<1>2. QED
  BY <1>1 DEF IInv, TypeOK, sizearray, sizenode, Chains, KeyPlaces, FreePlaces, Room

\* The type of the parts, when the sizes stay.
LEMMA SameSizes ==
    ASSUME IInv, DOMAIN node' = DOMAIN node, array' \in [DOMAIN array -> Values \cup {Free}],
           Typed(node', sizenode, MainOf(sizenode)), lastfree' \in 0 .. sizenode,
           ~dummy', moving' \in 0 .. Len(work')
    PROVE  /\ TypeOK' /\ sizearray' = sizearray /\ sizenode' = sizenode
           /\ DOMAIN array' = DOMAIN array
<1>1. PICK ar, nd : ar = array' /\ nd = node' OBVIOUS
<1>2. sizenode' = sizenode BY DEF sizenode
<1>3. DOMAIN ar = DOMAIN array BY <1>1
<1>4. sizearray' = sizearray BY <1>1, <1>3 DEF sizearray
<1>5. array' \in [Indices(sizearray) -> Values \cup {Free}]
  <2>1. DOMAIN array = Indices(sizearray) BY DEF IInv, TypeOK
  <2>2. QED BY <2>1
<1>6. node' \in [Indices(sizenode) -> [key : Keys \cup {Free, Dead}, val : Values \cup {Free},
                                       next : Indices(sizenode) \cup {NULL}]]
      /\ \A i \in DOMAIN node' : node'[i].key \in {Free, Dead} => node'[i].val = Free
  BY DEF Typed, NodeType
<1>7. QED BY <1>1, <1>2, <1>3, <1>4, <1>5, <1>6 DEF TypeOK

LEMMA InsertedFacts ==
    ASSUME IInv, work # <<>>, Inserted
    PROVE  /\ k0 \in Keys /\ v0 \in Values \cup {Free}
           /\ work' \in Seq(PairType) /\ Len(work') = Len(work) - 1 /\ Len(work) >= 1
           /\ Len(work) \in Nat
           /\ moving' \in 0 .. Len(work') /\ moving' <= moving
           /\ moving' > 0 => moving' = moving - 1
<1>1. PICK w, m : w = work /\ m = moving OBVIOUS
<1>2. w \in Seq(PairType) /\ m \in 0 .. Len(w) /\ w # <<>> BY <1>1 DEF IInv, TypeOK
<1>3. w[1] \in PairType /\ Tail(w) \in Seq(PairType) /\ Len(Tail(w)) = Len(w) - 1
      /\ Len(w) \in Nat /\ Len(w) >= 1
  BY <1>2
<1>4. k0 \in Keys /\ v0 \in Values \cup {Free} BY <1>1, <1>3 DEF k0, v0, PairType
<1>5. work' = Tail(w) /\ moving' = (IF m = 0 THEN 0 ELSE m - 1) BY <1>1 DEF Inserted
<1>6. QED BY <1>1, <1>2, <1>3, <1>4, <1>5

LEMMA NotUsedFinite ==
    ASSUME Chains
    PROVE  IsFiniteSet(NotUsed(node)) /\ Cardinality(NotUsed(node)) \in Nat
<1>1. DOMAIN node = 0 .. sizenode - 1 /\ sizenode \in Nat
  BY TypedFacts DEF Chains, Indices
<1>2. NotUsed(node) \in SUBSET (0 .. sizenode - 1) BY <1>1 DEF NotUsed
<1>3. IsFiniteSet(0 .. sizenode - 1) BY <1>1, FS_Interval
<1>4. QED BY <1>2, <1>3, Smaller

LEMMA AssignKeepsIInv == ASSUME IInv, Assign PROVE IInv'
<1>0. work # <<>> /\ Inserted /\ dummy' = dummy /\ lastfree' = lastfree BY DEF Assign
<1>1. /\ k0 \in Keys /\ v0 \in Values \cup {Free}
      /\ work' \in Seq(PairType) /\ moving' \in 0 .. Len(work')
      /\ moving' <= moving
  BY <1>0, InsertedFacts
<1>2. /\ TypeOK /\ sizearray \in Nat /\ Chains /\ KeyPlaces /\ FreePlaces /\ Room
      /\ lastfree \in 0 .. sizenode /\ moving \in Nat
  BY DEF IInv, TypeOK
<1>3. CASE InArray(k0) /\ array' = [array EXCEPT ![k0] = v0] /\ UNCHANGED node
  <2>1. PICK k \in Keys : k = k0 BY <1>1
  <2>2. k \in Ints /\ k \in DOMAIN array BY <1>2, <1>3, <2>1, ArrayFacts
  <2>3. array' \in [DOMAIN array -> Values \cup {Free}]
    BY <1>1, <1>2, <1>3, <2>1, ArrayFacts DEF TypeOK
  <2>4. DOMAIN array' = DOMAIN array BY <2>3
  <2>5. sizearray' = sizearray /\ sizenode' = sizenode BY <1>3, <2>4 DEF sizearray, sizenode
  <2>6. TypeOK'
    <3>1. array' \in [Indices(sizearray') -> Values \cup {Free}]
      BY <1>2, <2>3, <2>5 DEF TypeOK
    <3>2. QED BY <1>0, <1>1, <1>2, <1>3, <2>5, <3>1 DEF TypeOK
  <2>7. Chains' BY <1>2, <1>3, <2>5 DEF Chains
  <2>8. KeyPlaces'
    <3>1. \A i \in DOMAIN array : array'[i] # Free => i \in Ints
      BY <1>2, <1>3, <2>1, <2>2 DEF KeyPlaces
    <3>2. QED BY <1>2, <1>3, <2>4, <2>5, <3>1 DEF KeyPlaces
  <2>9. FreePlaces' BY <1>0, <1>2, <1>3 DEF FreePlaces
  <2>10. Room'
    <3>1. moving' > 0 => moving > 0 BY <1>1, <1>2
    <3>2. PICK c : c = Cardinality(NotUsed(node)) OBVIOUS
    <3>3. moving' > 0 => moving <= c /\ ~dummy BY <1>2, <3>1, <3>2 DEF Room
    <3>4. c \in Nat BY <1>2, <3>2, NotUsedFinite
    <3>5. moving' > 0 => moving' <= c BY <1>1, <1>2, <3>3, <3>4
    <3>6. QED BY <1>0, <1>3, <3>2, <3>3, <3>5 DEF Room
  <2>11. QED BY <1>1, <1>2, <2>5, <2>6, <2>7, <2>8, <2>9, <2>10 DEF IInv
<1>4. CASE /\ ~InArray(k0) /\ Chained(k0) # NULL
           /\ node' = [node EXCEPT ![Chained(k0)].val = v0] /\ UNCHANGED array
  <2>a. PICK k \in Keys : k = k0 BY <1>1
  <2>b. PICK v \in Values \cup {Free} : v = v0 BY <1>1
  <2>c. PICK m : m = Chained(k0) OBVIOUS
  <2>1. k = k0 /\ v = v0 /\ m = Chained(k0) BY <2>a, <2>b, <2>c
  <2>2. m \in DOMAIN node /\ node[m].key = k BY <1>2, <1>4, <2>1, ChainedFacts
  <2>3. PICK M, nd : M = MainOf(sizenode) /\ nd = node' OBVIOUS
  <2>4. nd = [node EXCEPT ![m].val = v] BY <1>4, <2>1, <2>3
  <2>5. Typed(node, sizenode, M) /\ WellChained(node, M) BY <1>2, <2>3 DEF Chains
  <2>6. /\ Typed(nd, sizenode, M) /\ WellChained(nd, M) /\ DOMAIN nd = DOMAIN node
        /\ \A i \in DOMAIN node : nd[i].key = node[i].key
    <3>1. PICK s, od : s = sizenode /\ od = node OBVIOUS
    <3>2. Typed(od, s, M) /\ WellChained(od, M) BY <2>5, <3>1
    <3>3. m \in DOMAIN od /\ od[m].key = k BY <2>2, <3>1
    <3>4. Assigned(od, nd, m, v) BY <2>4, <3>1 DEF Assigned
    <3>5. /\ Typed(nd, s, M) /\ WellChained(nd, M) /\ DOMAIN nd = DOMAIN od
          /\ \A i \in DOMAIN od : nd[i].key = od[i].key
      BY <3>2, <3>3, <3>4, AssignKeeps
    <3>6. QED BY <3>1, <3>5
  <2>7. ~dummy
    <3>1. SUFFICES ASSUME dummy PROVE FALSE OBVIOUS
    <3>2. node[m] = FreeNode BY <1>2, <2>2, <3>1 DEF TypeOK, FreeNodes
    <3>3. QED BY <2>2, <3>2, NoSpecialKeys DEF FreeNode
  <2>8. TypeOK' /\ sizearray' = sizearray /\ sizenode' = sizenode /\ DOMAIN array' = DOMAIN array
    <3>1. array' \in [DOMAIN array -> Values \cup {Free}] BY <1>2, <1>4, ArrayFacts DEF TypeOK
    <3>2. QED BY <1>0, <1>1, <1>2, <2>3, <2>6, <2>7, <3>1, SameSizes
  <2>9. Chains' BY <2>3, <2>6, <2>8 DEF Chains
  <2>10. KeyPlaces' BY <1>2, <1>4, <2>3, <2>6, <2>8 DEF KeyPlaces
  <2>11. FreePlaces' BY <1>0, <1>2, <2>3, <2>6 DEF FreePlaces
  <2>12. NotUsed(node') = NotUsed(node) BY <2>3, <2>6 DEF NotUsed
  <2>13. Room'
    <3>1. moving' > 0 => moving > 0 BY <1>1, <1>2
    <3>2. PICK c : c = Cardinality(NotUsed(node)) OBVIOUS
    <3>3. moving' > 0 => moving <= c BY <1>2, <3>1, <3>2 DEF Room
    <3>4. c \in Nat BY <1>2, <3>2, NotUsedFinite
    <3>5. moving' > 0 => moving' <= c BY <1>1, <1>2, <3>3, <3>4
    <3>6. QED BY <1>0, <2>7, <2>12, <3>2, <3>5 DEF Room
  <2>14. QED BY <1>1, <1>2, <2>8, <2>9, <2>10, <2>11, <2>13 DEF IInv
<1>5. QED BY <1>3, <1>4 DEF Assign

LEMMA EntryKeepsIInv == ASSUME IInv, removeentry PROVE IInv'
<1>1. PICK od, nd, s, M : od = node /\ nd = node' /\ s = sizenode /\ M = MainOf(sizenode)
  OBVIOUS
<1>2. /\ TypeOK /\ sizearray \in Nat /\ Chains /\ KeyPlaces /\ FreePlaces /\ Room
      /\ lastfree \in 0 .. sizenode /\ moving \in 0 .. Len(work)
  BY DEF IInv, TypeOK
<1>3. Typed(od, s, M) /\ WellChained(od, M) BY <1>1, <1>2 DEF Chains
<1>4. Killed(od, nd) BY <1>1 DEF Killed, removeentry
<1>5. /\ Typed(nd, s, M) /\ WellChained(nd, M) /\ DOMAIN nd = DOMAIN od
      /\ \A i \in DOMAIN od : nd[i].key = od[i].key \/ nd[i].key = Dead
      /\ NotUsed(nd) = NotUsed(od)
  BY <1>3, <1>4, KillKeeps
<1>6. array' = array /\ dummy' = dummy /\ lastfree' = lastfree /\ work' = work
      /\ moving' = moving
  BY DEF removeentry
<1>7. ~dummy
  <2>1. SUFFICES ASSUME dummy PROVE FALSE OBVIOUS
  <2>2. PICK i \in DOMAIN node : node[i].key \in Symbols BY DEF removeentry
  <2>3. node[i] = FreeNode BY <1>2, <2>1, <2>2 DEF TypeOK, FreeNodes
  <2>4. QED BY <2>2, <2>3, NoSpecialKeys DEF FreeNode, Keys
<1>8. TypeOK' /\ sizearray' = sizearray /\ sizenode' = sizenode /\ DOMAIN array' = DOMAIN array
  <2>1. array' \in [DOMAIN array -> Values \cup {Free}] BY <1>2, <1>6, ArrayFacts DEF TypeOK
  <2>2. QED BY <1>1, <1>2, <1>5, <1>6, <1>7, <2>1, SameSizes
<1>9. Chains' BY <1>1, <1>5, <1>8 DEF Chains
<1>10. KeyPlaces'
  <2>1. \A i \in DOMAIN node : node'[i].key \in Ints => node'[i].key = node[i].key
    BY <1>1, <1>5, NoSpecialKeys DEF Keys
  <2>2. QED BY <1>1, <1>2, <1>5, <1>6, <1>8, <2>1 DEF KeyPlaces
<1>11. FreePlaces'
  <2>1. \A i \in DOMAIN node' : node'[i].key = Free => i \in NotUsed(node)
    BY <1>1, <1>5 DEF NotUsed
  <2>2. QED BY <1>2, <1>6, <2>1 DEF FreePlaces, NotUsed
<1>12. Room' BY <1>1, <1>2, <1>5, <1>6 DEF Room
<1>13. QED BY <1>2, <1>6, <1>8, <1>9, <1>10, <1>11, <1>12 DEF IInv

\* A new key takes the node x, the others are before lastfree.
LEMMA NewKeyKeeps ==
    ASSUME IInv, Absent, ~dummy, Inserted, array' = array, dummy' = dummy,
           NEW nd, nd = node', NEW x,
           Typed(nd, sizenode, MainOf(sizenode)), WellChained(nd, MainOf(sizenode)),
           DOMAIN nd = DOMAIN node, Adds(node, nd, k0, v0, x),
           lastfree' \in 0 .. sizenode, \A i \in NotUsed(node) \ {x} : i < lastfree'
    PROVE  IInv'
<1>0. work # <<>> /\ ~InArray(k0) BY DEF Absent
<1>1. /\ k0 \in Keys
      /\ work' \in Seq(PairType) /\ moving' \in 0 .. Len(work') /\ moving' <= moving
      /\ moving' > 0 => moving' = moving - 1
  BY <1>0, InsertedFacts
<1>2. /\ TypeOK /\ sizearray \in Nat /\ Chains /\ KeyPlaces /\ FreePlaces /\ Room
      /\ moving \in Nat
  BY DEF IInv, TypeOK
<1>3. TypeOK' /\ sizearray' = sizearray /\ sizenode' = sizenode /\ DOMAIN array' = DOMAIN array
  <2>1. array' \in [DOMAIN array -> Values \cup {Free}] BY <1>2, ArrayFacts DEF TypeOK
  <2>2. QED BY <1>1, <2>1, SameSizes
<1>4. Chains' BY <1>3 DEF Chains
<1>5. NotUsed(nd) = NotUsed(node) \ {x} BY DEF Adds
<1>6. KeyPlaces'
  <2>1. ASSUME NEW i \in DOMAIN nd, nd[i].key \in Ints PROVE nd[i].key >= sizearray
    <3>1. CASE nd[i].key = k0
      <4>1. k0 \in Ints /\ k0 \in Nat BY <2>1, <3>1, TableAssumption
      <4>2. ~(k0 < sizearray) BY <1>0, <4>1 DEF InArray
      <4>3. QED BY <1>2, <3>1, <4>1, <4>2
    <3>2. CASE nd[i].key # k0
      <4>1. PICK j \in DOMAIN node : node[j].key = nd[i].key BY <3>2 DEF Adds
      <4>2. QED BY <1>2, <2>1, <4>1 DEF KeyPlaces
    <3>3. QED BY <3>1, <3>2
  <2>2. QED BY <1>2, <1>3, <2>1 DEF KeyPlaces
<1>7. FreePlaces'
  <2>1. \A i \in DOMAIN node' : node'[i].key = Free => i < lastfree'
    BY <1>5 DEF NotUsed
  <2>2. QED BY <2>1 DEF FreePlaces
<1>8. Room'
  <2>1. SUFFICES ASSUME moving' > 0 PROVE moving' <= Cardinality(NotUsed(nd)) BY DEF Room
  <2>2. PICK S : S = NotUsed(node) OBVIOUS
  <2>3. IsFiniteSet(S) /\ Cardinality(S) \in Nat BY <1>2, <2>2, NotUsedFinite
  <2>4. moving > 0 /\ moving' = moving - 1 BY <1>1, <1>2, <2>1
  <2>5. moving <= Cardinality(S) BY <1>2, <2>2, <2>4 DEF Room
  <2>6. CASE x \in S
    <3>1. Cardinality(S \ {x}) = Cardinality(S) - 1 BY <2>3, <2>6, FS_RemoveElement
    <3>2. QED BY <1>2, <1>5, <2>2, <2>3, <2>4, <2>5, <3>1
  <2>7. CASE x \notin S
    <3>1. S \ {x} = S BY <2>7
    <3>2. QED BY <1>2, <1>5, <2>2, <2>3, <2>4, <2>5, <3>1
  <2>8. QED BY <2>6, <2>7
<1>9. QED BY <1>1, <1>2, <1>3, <1>4, <1>6, <1>7, <1>8 DEF IInv

LEMMA AbsentFacts ==
    ASSUME IInv, Absent
    PROVE  /\ k0 \in Keys /\ v0 \in Values \cup {Free} /\ Lacks(node, k0)
           /\ mainposition(k0) = MainOf(sizenode)[k0] /\ mainposition(k0) \in DOMAIN node
<1>0. work # <<>> /\ ~InArray(k0) /\ Chained(k0) = NULL BY DEF Absent
<1>1. PICK w : w = work OBVIOUS
<1>2. w \in Seq(PairType) /\ w # <<>> BY <1>0, <1>1 DEF IInv
<1>3. w[1] \in PairType BY <1>2
<1>4. k0 \in Keys /\ v0 \in Values \cup {Free} BY <1>1, <1>3 DEF k0, v0, PairType
<1>5. PICK k \in Keys : k = k0 BY <1>4
<1>6. Lacks(node, k) BY <1>0, <1>5, ChainedFacts DEF IInv
<1>7. mainposition(k) = MainOf(sizenode)[k] BY MainIs
<1>8. MainOf(sizenode)[k] \in DOMAIN node BY TypedFacts DEF IInv, Chains
<1>9. QED BY <1>4, <1>5, <1>6, <1>7, <1>8

LEMMA HereAdds ==
    ASSUME IInv, InsertHere
    PROVE  LET mp == mainposition(k0) IN
           /\ Absent /\ ~dummy /\ Inserted
           /\ array' = array /\ dummy' = dummy /\ lastfree' = lastfree
           /\ Typed(node', sizenode, MainOf(sizenode)) /\ WellChained(node', MainOf(sizenode))
           /\ DOMAIN node' = DOMAIN node /\ Adds(node, node', k0, v0, mp)
<1>1. PICK od, nd, s, M, m : /\ od = node /\ nd = node' /\ s = sizenode
                             /\ M = MainOf(sizenode) /\ m = mainposition(k0)
  OBVIOUS
<1>2. /\ Absent /\ ~dummy /\ Inserted /\ od[m].val = Free
      /\ array' = array /\ dummy' = dummy /\ lastfree' = lastfree
      /\ nd = [od EXCEPT ![m].key = k0, ![m].val = v0]
  BY <1>1 DEF InsertHere, Collides
<1>3. k0 \in Keys /\ v0 \in Values \cup {Free} /\ Lacks(od, k0) /\ m = M[k0]
  BY <1>1, <1>2, AbsentFacts
<1>4. PICK k \in Keys : k = k0 BY <1>3
<1>5. PICK v \in Values \cup {Free} : v = v0 BY <1>3
<1>6. Typed(od, s, M) /\ WellChained(od, M) BY <1>1 DEF IInv, Chains
<1>7. PutHere(od, nd, k, v, m) BY <1>2, <1>4, <1>5 DEF PutHere
<1>8. /\ Typed(nd, s, M) /\ WellChained(nd, M) /\ DOMAIN nd = DOMAIN od
      /\ Adds(od, nd, k, v, m)
  BY <1>2, <1>3, <1>4, <1>6, <1>7, HereKeeps
<1>9. QED BY <1>1, <1>2, <1>4, <1>5, <1>8

LEMMA HereKeepsIInv == ASSUME IInv, InsertHere PROVE IInv'
<1>1. PICK x : x = mainposition(k0) OBVIOUS
<1>2. /\ Absent /\ ~dummy /\ Inserted
      /\ array' = array /\ dummy' = dummy /\ lastfree' = lastfree
      /\ Typed(node', sizenode, MainOf(sizenode)) /\ WellChained(node', MainOf(sizenode))
      /\ DOMAIN node' = DOMAIN node /\ Adds(node, node', k0, v0, x)
  BY <1>1, HereAdds
<1>3. lastfree' \in 0 .. sizenode BY <1>2 DEF IInv, TypeOK
<1>4. \A i \in NotUsed(node) \ {x} : i < lastfree'
  BY <1>2 DEF IInv, FreePlaces, NotUsed
<1>5. QED BY <1>2, <1>3, <1>4, NewKeyKeeps

LEMMA ElsewhereAdds ==
    ASSUME IInv, InsertElsewhere
    PROVE  LET n == Max(getfreepos) IN
           /\ Absent /\ ~dummy /\ Inserted
           /\ array' = array /\ dummy' = dummy /\ lastfree' = n
           /\ n \in getfreepos /\ \A i \in getfreepos : i <= n
           /\ Typed(node', sizenode, MainOf(sizenode)) /\ WellChained(node', MainOf(sizenode))
           /\ DOMAIN node' = DOMAIN node /\ Adds(node, node', k0, v0, n)
<1>1. PICK od, nd, s, M : od = node /\ nd = node' /\ s = sizenode /\ M = MainOf(sizenode)
  OBVIOUS
<1>a. PICK m, f : m = mainposition(k0) /\ f = Max(getfreepos) OBVIOUS
<1>2. /\ Absent /\ Inserted /\ (od[m].val # Free \/ dummy) /\ getfreepos # {}
      /\ array' = array /\ dummy' = dummy /\ lastfree' = f
      /\ nd = IF mainposition(od[m].key) # m THEN Move(m, f) ELSE Chain(m, f)
  BY <1>1, <1>a DEF InsertElsewhere, Collides
<1>3. k0 \in Keys /\ v0 \in Values \cup {Free} /\ Lacks(od, k0) /\ m = M[k0] /\ m \in DOMAIN od
  BY <1>1, <1>a, <1>2, AbsentFacts
<1>4. PICK k \in Keys : k = k0 BY <1>3
<1>5. PICK v \in Values \cup {Free} : v = v0 BY <1>3
<1>6. Typed(od, s, M) /\ WellChained(od, M) BY <1>1 DEF IInv, Chains
<1>7. DOMAIN od = 0 .. s - 1 /\ s \in Nat BY <1>6, TypedFacts DEF Indices
<1>8. getfreepos \in SUBSET (0 .. s) BY <1>1, <1>7 DEF getfreepos
<1>9. f \in getfreepos /\ \A i \in getfreepos : i <= f BY <1>2, <1>7, <1>8, <1>a, MaxOf
<1>10. f \in DOMAIN od /\ f < lastfree /\ od[f].key = Free BY <1>1, <1>9 DEF getfreepos
<1>11. ~dummy
  <2>1. SUFFICES ASSUME dummy PROVE FALSE OBVIOUS
  <2>2. lastfree = 0 BY <2>1 DEF IInv, FreePlaces
  <2>3. QED BY <1>7, <1>10, <2>2
<1>12. od[m].key \in Keys
  <2>1. od[m].val # Free BY <1>2, <1>11
  <2>2. od[m].key \notin {Free, Dead} BY <1>3, <1>6, <2>1, <1>7 DEF Typed, Indices
  <2>3. QED BY <1>3, <1>6, <2>2, TypedFacts
<1>13. mainposition(od[m].key) = M[od[m].key] BY <1>1, <1>12, MainIs
<1>14. Typed(nd, s, M) /\ WellChained(nd, M) /\ DOMAIN nd = DOMAIN od /\ Adds(od, nd, k, v, f)
  <2>1. CASE M[od[m].key] = m
    <3>1. PutBehind(od, nd, k, v, m, f)
      BY <1>1, <1>2, <1>4, <1>5, <1>13, <2>1 DEF PutBehind, Chain
    <3>2. QED BY <1>3, <1>4, <1>6, <1>10, <1>12, <2>1, <3>1, ChainKeeps
  <2>2. CASE M[od[m].key] # m
    <3>1. PICK p : p = CHOOSE q \in DOMAIN node : node[q].next = m OBVIOUS
    <3>2. \E q \in DOMAIN od : od[q].next = m BY <1>3, <1>6, <1>12, <2>2, PreviousExists
    <3>3. p \in DOMAIN od /\ od[p].next = m BY <1>1, <3>1, <3>2
    <3>4. nd = Move(m, f) BY <1>2, <1>13, <2>2
    <3>5. Move(m, f) = [node EXCEPT ![f] = node[m], ![p].next = f,
                                    ![m] = [key |-> k0, val |-> v0, next |-> NULL]]
      BY <3>1 DEF Move
    <3>6. PutBefore(od, nd, k, v, m, f, p) BY <1>1, <1>4, <1>5, <3>4, <3>5 DEF PutBefore
    <3>7. QED BY <1>3, <1>4, <1>6, <1>10, <1>12, <2>2, <3>3, <3>6, MoveKeeps
  <2>3. QED BY <2>1, <2>2
<1>15. QED BY <1>1, <1>a, <1>2, <1>4, <1>5, <1>9, <1>11, <1>14

LEMMA ElsewhereKeepsIInv == ASSUME IInv, InsertElsewhere PROVE IInv'
<1>1. PICK x : x = Max(getfreepos) OBVIOUS
<1>2. /\ Absent /\ ~dummy /\ Inserted
      /\ array' = array /\ dummy' = dummy /\ lastfree' = x
      /\ x \in getfreepos /\ \A i \in getfreepos : i <= x
      /\ Typed(node', sizenode, MainOf(sizenode)) /\ WellChained(node', MainOf(sizenode))
      /\ DOMAIN node' = DOMAIN node /\ Adds(node, node', k0, v0, x)
  BY <1>1, ElsewhereAdds
<1>3. DOMAIN node = 0 .. sizenode - 1 /\ sizenode \in Nat
  BY TypedFacts DEF IInv, Chains, Indices
<1>4. x \in DOMAIN node BY <1>2 DEF getfreepos
<1>5. lastfree' \in 0 .. sizenode BY <1>2, <1>3, <1>4
<1>6. ASSUME NEW i \in NotUsed(node) \ {x} PROVE i < lastfree'
  <2>1. i \in DOMAIN node /\ node[i].key = Free BY DEF NotUsed
  <2>2. i < lastfree BY <1>2, <2>1 DEF IInv, FreePlaces
  <2>3. i \in getfreepos BY <2>1, <2>2 DEF getfreepos
  <2>4. i <= x /\ i # x /\ i \in Nat /\ x \in Nat BY <1>2, <1>3, <1>4, <2>1, <2>3
  <2>5. QED BY <1>2, <2>4
<1>7. QED BY <1>2, <1>5, <1>6, NewKeyKeeps

\* A table that grows has no free node, and nothing in it that is to be moved.
LEMMA FullFacts ==
    ASSUME IInv, Full
    PROVE  moving = 0
<1>1. SUFFICES ASSUME moving # 0 PROVE FALSE OBVIOUS
<1>2. Chains /\ FreePlaces /\ Room /\ moving \in 0 .. Len(work) /\ work \in Seq(PairType)
  BY DEF IInv, TypeOK
<1>3. moving \in Nat /\ moving > 0
  <2>1. Len(work) \in Nat BY <1>2
  <2>2. QED BY <1>1, <1>2, <2>1
<1>4. ~dummy /\ moving <= Cardinality(NotUsed(node)) BY <1>2, <1>3 DEF Room
<1>5. getfreepos = {} BY DEF Full
<1>6. NotUsed(node) = {} BY <1>2, <1>4, <1>5 DEF NotUsed, getfreepos, FreePlaces
<1>7. Cardinality(NotUsed(node)) = 0 BY <1>6, FS_EmptySet
<1>8. QED BY <1>3, <1>4, <1>7

LEMMA CountedFacts ==
    ASSUME IInv, NEW k
    PROVE  LET c == Counted(k) IN
           /\ IsFiniteSet(c.slots) /\ IsFiniteSet(c.keys) /\ IsFiniteSet(c.new)
           /\ c.slots \subseteq Nat
           /\ Cardinality(c.keys) \in Nat /\ Cardinality(c.keys) <= Cardinality(HashUsed)
           /\ Cardinality(c.new) \in Nat /\ Cardinality(c.new) <= 1
           /\ \A x \in Nat : /\ Cardinality({s \in c.slots : s <= x}) \in Nat
                             /\ Cardinality({s \in c.slots : s <= x})
                                   <= Cardinality({i \in ArrayUsed : i < x})
<1>1. PICK A, H : A = ArrayUsed /\ H = HashUsed OBVIOUS
<1>2. /\ IsFiniteSet(A) /\ A \in SUBSET Nat /\ IsFiniteSet(H)
      /\ \A i \in H : i \in DOMAIN node
  BY <1>1, UsedFacts
<1>3. PICK L, Q, N : /\ L = {i + 1 : i \in A} /\ Q = {node[i].key : i \in H} \cap (Ints \ {0})
                     /\ N = {k} \cap (Ints \ {0})
  OBVIOUS
<1>4. Counted(k) = [slots |-> L, keys |-> Q, new |-> N] BY <1>1, <1>3 DEF Counted
<1>5. IsFiniteSet(L) /\ L \subseteq Nat
  <2>1. PICK f : f = [i \in A |-> i + 1] OBVIOUS
  <2>2. f \in [A -> L] /\ \A t \in L : \E i \in A : f[i] = t BY <1>3, <2>1
  <2>3. IsFiniteSet(L) BY <1>2, <2>2, ImageSmaller
  <2>4. \A i \in A : i + 1 \in Nat BY <1>2
  <2>5. QED BY <1>3, <2>3, <2>4
<1>6. IsFiniteSet(Q) /\ Cardinality(Q) \in Nat /\ Cardinality(Q) <= Cardinality(H)
  <2>1. PICK P : P = {node[i].key : i \in H} OBVIOUS
  <2>2. PICK f : f = [i \in H |-> node[i].key] OBVIOUS
  <2>3. f \in [H -> P] /\ \A t \in P : \E i \in H : f[i] = t BY <2>1, <2>2
  <2>4. IsFiniteSet(P) /\ Cardinality(P) \in Nat /\ Cardinality(P) <= Cardinality(H)
    BY <1>2, <2>3, ImageSmaller
  <2>5. Q \in SUBSET P BY <1>3, <2>1
  <2>6. IsFiniteSet(Q) /\ Cardinality(Q) \in Nat /\ Cardinality(Q) <= Cardinality(P)
    BY <2>4, <2>5, Smaller
  <2>7. Cardinality(H) \in Nat BY <1>2, FS_CardinalityType
  <2>8. QED BY <2>4, <2>6, <2>7
<1>7. IsFiniteSet(N) /\ Cardinality(N) \in Nat /\ Cardinality(N) <= 1
  <2>1. N \in SUBSET {k} BY <1>3
  <2>2. IsFiniteSet({k}) /\ Cardinality({k}) = 1 BY FS_Singleton
  <2>3. QED BY <2>1, <2>2, Smaller
<1>8. ASSUME NEW x \in Nat
      PROVE  /\ Cardinality({s \in L : s <= x}) \in Nat
             /\ Cardinality({s \in L : s <= x}) <= Cardinality({i \in A : i < x})
  <2>1. PICK T, B : T = {s \in L : s <= x} /\ B = {i \in A : i < x} OBVIOUS
  <2>2. B \in SUBSET A BY <2>1
  <2>3. IsFiniteSet(B) BY <1>2, <2>2, Smaller
  <2>4. PICK f : f = [i \in B |-> i + 1] OBVIOUS
  <2>5. ASSUME NEW i \in B PROVE i + 1 \in T
    <3>1. i \in A /\ i < x /\ i \in Nat BY <1>2, <2>1
    <3>2. i + 1 \in L /\ i + 1 <= x BY <1>3, <3>1
    <3>3. QED BY <2>1, <3>2
  <2>6. ASSUME NEW t \in T PROVE \E i \in B : i + 1 = t
    <3>1. t \in L /\ t <= x BY <2>1
    <3>2. PICK i \in A : t = i + 1 BY <1>3, <3>1
    <3>3. i \in Nat /\ i < x BY <1>2, <3>1, <3>2
    <3>4. QED BY <2>1, <3>2, <3>3
  <2>7. f \in [B -> T] /\ \A t \in T : \E i \in B : f[i] = t BY <2>4, <2>5, <2>6
  <2>8. QED BY <2>1, <2>3, <2>7, ImageSmaller
<1>9. QED BY <1>1, <1>4, <1>5, <1>6, <1>7, <1>8

\* There is room in the new hash part for all that leaves the array.
LEMMA GrowSizes ==
    ASSUME IInv, NEW k
    PROVE  LET na == computesizes(Counted(k)) IN
           /\ na.size \in Nat /\ numuse + 1 - na.keys \in Nat
           /\ Len(vanishing(na.size)) \in Nat /\ Len(vanishing(na.size)) <= numuse + 1 - na.keys
<1>1. PICK c : c = Counted(k) OBVIOUS
<1>2. /\ IsFiniteSet(c.slots) /\ IsFiniteSet(c.keys) /\ IsFiniteSet(c.new)
      /\ c.slots \subseteq Nat
      /\ Cardinality(c.keys) \in Nat /\ Cardinality(c.keys) <= Cardinality(HashUsed)
      /\ Cardinality(c.new) \in Nat /\ Cardinality(c.new) <= 1
      /\ \A x \in Nat : /\ Cardinality({s \in c.slots : s <= x}) \in Nat
                        /\ Cardinality({s \in c.slots : s <= x})
                              <= Cardinality({i \in ArrayUsed : i < x})
  BY <1>1, CountedFacts
<1>3. PICK na : na = computesizes(c) OBVIOUS
<1>4. /\ na.size \in Nat /\ na.keys \in Nat
      /\ na.keys <= Cardinality({s \in c.slots : s <= na.size}) + Cardinality(c.keys)
                      + Cardinality(c.new)
  BY <1>2, <1>3, SizesOf
<1>5. PICK A, B, V : /\ A = ArrayUsed /\ B = {i \in ArrayUsed : i < na.size}
                     /\ V = {i \in ArrayUsed : i >= na.size}
  OBVIOUS
<1>6. IsFiniteSet(A) /\ A \in SUBSET Nat /\ IsFiniteSet(HashUsed) BY <1>5, UsedFacts
<1>7. B \in SUBSET A /\ V \in SUBSET A /\ B \cap V = {} /\ B \cup V = A
  <2>1. \A i \in A : i \in Nat BY <1>6
  <2>2. \A i \in A : i < na.size <=> ~(i >= na.size) BY <1>4, <2>1
  <2>3. QED BY <1>5, <2>2
<1>8. IsFiniteSet(B) /\ IsFiniteSet(V) BY <1>6, <1>7, Smaller
<1>9. Cardinality(A) = Cardinality(B) + Cardinality(V) - Cardinality(B \cap V)
  BY <1>7, <1>8, FS_Union
<1>10. Cardinality(B \cap V) = 0 BY <1>7, FS_EmptySet
<1>11. Cardinality(B) \in Nat /\ Cardinality(V) \in Nat /\ Cardinality(HashUsed) \in Nat
  BY <1>6, <1>8, FS_CardinalityType
<1>12. Len(vanishing(na.size)) = Cardinality(V) BY <1>4, <1>5, VanishingLists DEF Lists
<1>13. numuse = Cardinality(B) + Cardinality(V) + Cardinality(HashUsed)
  BY <1>5, <1>9, <1>10, <1>11 DEF numuse
<1>14. na.keys <= Cardinality(B) + Cardinality(HashUsed) + 1
  <2>1. PICK x, y, z : /\ x = Cardinality({s \in c.slots : s <= na.size})
                       /\ y = Cardinality(c.keys) /\ z = Cardinality(c.new)
    OBVIOUS
  <2>2. x \in Nat /\ x <= Cardinality(B) BY <1>2, <1>4, <1>5, <2>1
  <2>3. y \in Nat /\ y <= Cardinality(HashUsed) /\ z \in Nat /\ z <= 1 BY <1>2, <2>1
  <2>4. na.keys <= x + y + z BY <1>4, <2>1
  <2>5. QED BY <1>4, <1>11, <2>2, <2>3, <2>4
<1>15. numuse + 1 - na.keys \in Nat /\ Cardinality(V) <= numuse + 1 - na.keys
  BY <1>4, <1>11, <1>13, <1>14
<1>16. QED BY <1>1, <1>3, <1>4, <1>11, <1>12, <1>15

\* What Grow does.
Grown(na, nh) ==
    /\ na \in Nat /\ nh \in Nat
    /\ Len(vanishing(na)) \in Nat /\ Len(vanishing(na)) <= nh
    /\ resize(na, nh)

LEMMA GrowIs == ASSUME IInv, Grow PROVE \E na, nh : Grown(na, nh)
<1>1. PICK na, nh : /\ na = computesizes(Counted(k0)).size
                    /\ nh = numuse + 1 - computesizes(Counted(k0)).keys
  OBVIOUS
<1>2. resize(na, nh) BY <1>1 DEF Grow, rehash
<1>3. PICK k : k = k0 OBVIOUS
<1>4. /\ na \in Nat /\ nh \in Nat
      /\ Len(vanishing(na)) \in Nat /\ Len(vanishing(na)) <= nh
  BY <1>1, <1>3, GrowSizes
<1>5. QED BY <1>2, <1>4 DEF Grown

LEMMA GrowFresh ==
    ASSUME IInv, Full, NEW na, NEW nh, Grown(na, nh)
    PROVE  na \in Nat /\ nh \in Nat /\ Fresh(na, nh)'
<1>2. /\ na \in Nat /\ nh \in Nat
      /\ Len(vanishing(na)) \in Nat /\ Len(vanishing(na)) <= nh
      /\ resize(na, nh)
  BY DEF Grown
<1>3. moving = 0 BY FullFacts
<1>4. PICK V, R, w : V = vanishing(na) /\ R = rehashed /\ w = work OBVIOUS
<1>5. V \in Seq(PairType) /\ R \in Seq(PairType) /\ w \in Seq(PairType)
  <2>1. V \in Seq(PairType) BY <1>2, <1>4, VanishingLists DEF Lists
  <2>2. R \in Seq(PairType) BY <1>4, RehashedLists DEF Lists
  <2>3. QED BY <1>4, <2>1, <2>2 DEF IInv
<1>6. work' = V \o R \o w /\ moving' = moving + Len(V) BY <1>2, <1>4 DEF resize
<1>7. work' \in Seq(PairType) /\ Len(work') = Len(V) + Len(R) + Len(w) BY <1>5, <1>6
<1>8. Len(V) \in Nat /\ Len(R) \in Nat /\ Len(w) \in Nat BY <1>5
<1>9. moving' = Len(V) /\ Len(V) <= nh BY <1>2, <1>3, <1>4, <1>6, <1>8
<1>10. moving' \in 0 .. Len(work') /\ moving' <= nh BY <1>7, <1>8, <1>9
<1>11. array' = [i \in Indices(na) |-> IF i < sizearray THEN array[i] ELSE Free]
       /\ node' = FreeNodes(nh) /\ dummy' = (nh = 0) /\ lastfree' = Lastfree(nh)
  BY <1>2 DEF resize
<1>12. ASSUME NEW i \in Indices(na)
       PROVE  array'[i] \in Values \cup {Free} /\ (array'[i] # Free => i \in Ints)
  <2>1. i \in Nat /\ array'[i] = IF i < sizearray THEN array[i] ELSE Free
    BY <1>2, <1>11 DEF Indices
  <2>2. CASE i < sizearray
    <3>1. sizearray \in Nat BY DEF IInv
    <3>2. i \in DOMAIN array BY <2>1, <2>2, <3>1, ArrayFacts DEF IInv
    <3>3. array[i] \in Values \cup {Free} /\ (array[i] # Free => i \in Ints)
      BY <3>2, ArrayFacts DEF IInv, KeyPlaces
    <3>4. QED BY <2>1, <2>2, <3>3
  <2>3. CASE ~(i < sizearray) BY <2>1, <2>3
  <2>4. QED BY <2>2, <2>3
<1>13. array' \in [Indices(na) -> Values \cup {Free}] BY <1>11, <1>12
<1>14. QED BY <1>2, <1>7, <1>10, <1>11, <1>12, <1>13 DEF Fresh

LEMMA GrowKeepsIInv == ASSUME IInv, Grow PROVE IInv'
<1>1. PICK na, nh : Grown(na, nh) BY GrowIs
<1>2. na \in Nat /\ nh \in Nat /\ Fresh(na, nh)' BY <1>1, GrowFresh DEF Grow
<1>3. IsNew' BY <1>2 DEF IsNew
<1>4. QED BY <1>3, NewIsNext

LEMMA CopyFresh == ASSUME IInv, Copy PROVE Fresh(0, NHash)' /\ NHash \in Nat
<1>1. /\ Idle /\ array' = FreeArray(0)
      /\ node' = FreeNodes(NHash) /\ dummy' = (NHash = 0) /\ lastfree' = Lastfree(NHash)
      /\ work' = traversal /\ moving' = moving
  BY DEF Copy
<1>2. moving = 0
  <2>1. moving \in 0 .. Len(work) /\ work = <<>> BY <1>1 DEF IInv, TypeOK, Idle
  <2>2. QED BY <2>1
<1>3. PICK t : t = traversal OBVIOUS
<1>4. t \in Seq(PairType) BY <1>3, TraversalLists DEF Lists
<1>5. Len(t) \in Nat BY <1>4
<1>6. work' \in Seq(PairType) /\ moving' \in 0 .. Len(work') BY <1>1, <1>2, <1>3, <1>4, <1>5
<1>7. Indices(0) = {} BY DEF Indices
<1>8. array' \in [Indices(0) -> Values \cup {Free}] BY <1>1, <1>7 DEF FreeArray
<1>9. NHash \in Nat /\ moving' <= NHash BY <1>1, <1>2, TableAssumption
<1>10. QED BY <1>1, <1>6, <1>7, <1>8, <1>9 DEF Fresh

LEMMA CopyKeepsIInv == ASSUME IInv, Copy PROVE IInv'
<1>1. IsNew' BY CopyFresh DEF IsNew
<1>2. QED BY <1>1, NewIsNext

\* The invariant is inductive.
LEMMA StepKeepsIInv == ASSUME IInv, [Next]_vars PROVE IInv'
<1>1. CASE \E k \in Keys : hash_table_deleteB(k)
  <2>1. PICK k \in Keys : hash_table_deleteB(k) BY <1>1
  <2>2. /\ Idle /\ work' = <<Pair(k, Free)>> /\ UNCHANGED <<parts, moving>>
    BY <2>1 DEF hash_table_deleteB
  <2>3. Free \in Values \cup {Free} OBVIOUS
  <2>4. QED BY <2>2, <2>3, OperationKeeps
<1>2. CASE \E k \in Keys, v \in Values : hash_table_setB(k, v)
  <2>1. PICK k \in Keys, v \in Values : hash_table_setB(k, v) BY <1>2
  <2>2. /\ Idle /\ work' = <<Pair(k, v)>> /\ UNCHANGED <<parts, moving>>
    BY <2>1 DEF hash_table_setB
  <2>3. v \in Values \cup {Free} OBVIOUS
  <2>4. QED BY <2>2, <2>3, OperationKeeps
<1>3. CASE Assign BY <1>3, AssignKeepsIInv
<1>4. CASE InsertHere BY <1>4, HereKeepsIInv
<1>5. CASE InsertElsewhere BY <1>5, ElsewhereKeepsIInv
<1>6. CASE Grow BY <1>6, GrowKeepsIInv
<1>7. CASE Copy BY <1>7, CopyKeepsIInv
<1>8. CASE removeentry BY <1>8, EntryKeepsIInv
<1>9. CASE UNCHANGED vars BY <1>9, StutterKeeps
<1>10. QED BY <1>1, <1>2, <1>3, <1>4, <1>5, <1>6, <1>7, <1>8, <1>9 DEF Next, Insert

-----------------------------------------------------------------------------
(***************************************************************************)
(* Brent's invariant, and the counts.                                      *)
(***************************************************************************)
LEMMA SameNumber ==
    ASSUME NEW S, IsFiniteSet(S), NEW T, NEW f, f \in [S -> T],
           \A t \in T : \E s \in S : f[s] = t, \A s, r \in S : f[s] = f[r] => s = r
    PROVE  IsFiniteSet(T) /\ Cardinality(T) = Cardinality(S)
<1>1. f \in Bijection(S, T) BY DEF Bijection, Injection, Surjection, IsInjective
<1>2. QED BY <1>1, FS_Bijection DEF ExistsBijection

LEMMA UsedSlotsNumber == ASSUME IInv PROVE Cardinality(UsedSlots) = numuse
<1>0. sizearray \in Nat /\ sizenode \in Nat BY DEF IInv, Chains, Typed
<1>1. PICK A, H, s : A = ArrayUsed /\ H = HashUsed /\ s = sizearray OBVIOUS
<1>2. IsFiniteSet(A) /\ A \in SUBSET Nat /\ IsFiniteSet(H) /\ H \in SUBSET Nat
  BY <1>1, UsedFacts
<1>3. PICK B : B = {s + x : x \in H} OBVIOUS
<1>4. IsFiniteSet(B) /\ Cardinality(B) = Cardinality(H)
  <2>1. PICK f : f = [x \in H |-> s + x] OBVIOUS
  <2>2. f \in [H -> B] /\ \A t \in B : \E x \in H : f[x] = t BY <1>3, <2>1
  <2>3. \A x, y \in H : f[x] = f[y] => x = y
    <3>1. \A x, y \in H : x \in Nat /\ y \in Nat BY <1>2
    <3>2. QED BY <1>0, <1>1, <2>1, <3>1
  <2>4. QED BY <1>2, <2>2, <2>3, SameNumber
<1>5. DOMAIN array = 0 .. s - 1 BY <1>1, ArrayFacts DEF IInv
<1>6. DOMAIN node = 0 .. sizenode - 1 BY TypedFacts DEF IInv, Chains, Indices
<1>7. A \cap B = {}
  <2>1. SUFFICES ASSUME NEW x \in H, s + x \in A PROVE FALSE BY <1>3
  <2>2. x \in Nat /\ s + x \in 0 .. s - 1 BY <1>1, <1>2, <1>5, <2>1 DEF ArrayUsed
  <2>3. QED BY <1>0, <1>1, <2>2
<1>8. UsedSlots = A \cup B
  <2>1. ASSUME NEW i \in UsedSlots PROVE i \in A \cup B
    <3>1. i \in Nat /\ i < s + sizenode /\ SlotVal(i) # Free
      BY <1>0, <1>1 DEF UsedSlots, Slots
    <3>2. CASE i < s
      <4>1. i \in DOMAIN array /\ array[i] # Free
        BY <1>0, <1>1, <1>5, <3>1, <3>2 DEF SlotVal
      <4>2. QED BY <1>1, <4>1 DEF ArrayUsed
    <3>3. CASE ~(i < s)
      <4>1. PICK x \in Nat : x = i - s BY <1>0, <1>1, <3>1, <3>3
      <4>2. x \in DOMAIN node /\ s + x = i BY <1>0, <1>1, <1>6, <3>1, <4>1
      <4>3. node[x].val # Free BY <1>1, <3>1, <3>3, <4>1 DEF SlotVal
      <4>4. QED BY <1>1, <1>3, <4>2, <4>3 DEF HashUsed
    <3>4. QED BY <3>2, <3>3
  <2>2. ASSUME NEW i \in A PROVE i \in UsedSlots
    <3>1. i \in 0 .. s - 1 /\ array[i] # Free BY <1>1, <1>5 DEF ArrayUsed
    <3>2. i \in Slots /\ i < s BY <1>0, <1>1, <3>1 DEF Slots
    <3>3. QED BY <1>1, <3>1, <3>2 DEF UsedSlots, SlotVal
  <2>3. ASSUME NEW x \in H PROVE s + x \in UsedSlots
    <3>1. x \in 0 .. sizenode - 1 /\ node[x].val # Free BY <1>1, <1>6 DEF HashUsed
    <3>2. s + x \in Slots /\ ~(s + x < s) /\ (s + x) - s = x BY <1>0, <1>1, <3>1 DEF Slots
    <3>3. QED BY <1>1, <3>1, <3>2 DEF UsedSlots, SlotVal
  <2>4. QED BY <1>3, <2>1, <2>2, <2>3
<1>9. Cardinality(A \cup B) = Cardinality(A) + Cardinality(B) - Cardinality(A \cap B)
  BY <1>2, <1>4, FS_Union
<1>10. Cardinality(A \cap B) = 0 BY <1>7, FS_EmptySet
<1>11. Cardinality(A) \in Nat /\ Cardinality(B) \in Nat BY <1>2, <1>4, FS_CardinalityType
<1>12. QED BY <1>1, <1>4, <1>8, <1>9, <1>10, <1>11 DEF numuse

LEMMA BoundNumber ==
    ASSUME IInv
    PROVE  Cardinality({k \in Keys : klispH_get(k) # Free}) = Cardinality(UsedSlots)
<1>1. PICK U, B : U = UsedSlots /\ B = {k \in Keys : klispH_get(k) # Free} OBVIOUS
<1>2. IsFiniteSet(U) BY <1>1, UsedSlotsFacts
<1>3. PICK f : f = [i \in U |-> SlotKey(i)] OBVIOUS
<1>4. \A i \in U : /\ f[i] \in Keys /\ SlotVal(i) \in Values
                   /\ findindex(f[i]) = i /\ klispH_get(f[i]) = SlotVal(i)
  BY <1>1, <1>3, SlotFacts
<1>5. f \in [U -> B] BY <1>1, <1>3, <1>4, NoSpecialKeys
<1>6. \A t \in B : \E i \in U : f[i] = t BY <1>1, <1>3, SlotOfKey
<1>7. \A i, j \in U : f[i] = f[j] => i = j BY <1>4
<1>8. QED BY <1>1, <1>2, <1>5, <1>6, <1>7, SameNumber

LEMMA IInvBrent == IInv => BrentInvariant
<1> SUFFICES ASSUME IInv PROVE BrentInvariant OBVIOUS
<1>1. TypeOK BY DEF IInv
<1>2. ASSUME NEW i \in HashUsed, mainposition(node[i].key) # i,
             node[mainposition(node[i].key)].key \in Keys
      PROVE  mainposition(node[mainposition(node[i].key)].key) = mainposition(node[i].key)
  <2>1. PICK M : M = MainOf(sizenode) OBVIOUS
  <2>2. i \in DOMAIN node /\ node[i].key \in Keys BY UsedFacts
  <2>3. PICK m : m = M[node[i].key] OBVIOUS
  <2>4. mainposition(node[i].key) = m BY <2>1, <2>2, <2>3, MainIs
  <2>5. MainFirst(node, M) BY <2>1 DEF IInv, Chains, WellChained
  <2>6. m # i /\ node[m].key \in Keys BY <1>2, <2>4
  <2>7. M[node[m].key] = m BY <2>2, <2>3, <2>5, <2>6 DEF MainFirst
  <2>8. mainposition(node[m].key) = m BY <2>1, <2>6, <2>7, MainIs
  <2>9. QED BY <2>4, <2>8
<1>3. moving > 0 => ~Full BY FullFacts
<1>4. numuse = Cardinality({k \in Keys : klispH_get(k) # Free})
  BY UsedSlotsNumber, BoundNumber
<1>5. Len(traversal) = numuse /\ IsInjective(traversal)
  BY UsedSlotsNumber, TraversalLists DEF Lists
<1>6. QED BY <1>1, <1>2, <1>3, <1>4, <1>5 DEF BrentInvariant

LEMMA SpecIInv == Spec => []IInv
<1>1. Init => IInv BY InitIInv
<1>2. IInv /\ [Next]_vars => IInv' BY StepKeepsIInv
<1>3. QED BY <1>1, <1>2, PTL DEF Spec

\* An element that is not in its main position was kept from it by one that is, a
\* table never grows while the array has something to be moved, and the bindings are
\* counted, and traversed, once each (ktable.c: newkey, resize, klispH_numuse,
\* klispH_next).
THEOREM TableSafety == Spec => []BrentInvariant
<1>1. IInv => BrentInvariant BY IInvBrent
<1>2. QED BY SpecIInv, <1>1, PTL

-----------------------------------------------------------------------------
(***************************************************************************)
(* What the insertions to be done leave.                                   *)
(***************************************************************************)
Final(w, k, d) ==
    LET last == {i \in DOMAIN w : w[i].key = k}
    IN  IF last = {} THEN d ELSE w[Max(last)].val

LEMMA ContentsIs == Contents = [k \in Keys |-> Final(work, k, klispH_get(k))]
BY DEF Contents, Final

IsFinal(w, k, d, x) ==
    \/ \E i \in DOMAIN w : /\ w[i].key = k /\ w[i].val = x
                           /\ \A j \in DOMAIN w : w[j].key = k => j <= i
    \/ (\A i \in DOMAIN w : w[i].key # k) /\ x = d

LEMMA FinalIs ==
    ASSUME NEW w, w \in Seq(PairType), NEW k, NEW d
    PROVE  /\ IsFinal(w, k, d, Final(w, k, d))
           /\ \A x : IsFinal(w, k, d, x) => x = Final(w, k, d)
<1>1. Len(w) \in Nat /\ DOMAIN w = 1 .. Len(w) BY IsSeqFacts
<1>2. PICK last : last = {i \in DOMAIN w : w[i].key = k} OBVIOUS
<1>3. Final(w, k, d) = IF last = {} THEN d ELSE w[Max(last)].val BY <1>2 DEF Final
<1>4. last \in SUBSET (0 .. Len(w)) BY <1>1, <1>2
<1>5. CASE last = {}
  <2>1. \A i \in DOMAIN w : w[i].key # k BY <1>2, <1>5
  <2>2. QED BY <1>3, <1>5, <2>1 DEF IsFinal
<1>6. CASE last # {}
  <2>1. PICK m : m = Max(last) OBVIOUS
  <2>2. m \in last /\ \A i \in last : i <= m BY <1>1, <1>4, <1>6, <2>1, MaxOf
  <2>3. m \in DOMAIN w /\ w[m].key = k /\ (\A j \in DOMAIN w : w[j].key = k => j <= m)
    BY <1>2, <2>2
  <2>4. Final(w, k, d) = w[m].val BY <1>3, <1>6, <2>1
  <2>5. ASSUME NEW x, IsFinal(w, k, d, x) PROVE x = w[m].val
    <3>1. PICK i \in DOMAIN w : /\ w[i].key = k /\ w[i].val = x
                                /\ \A j \in DOMAIN w : w[j].key = k => j <= i
      BY <2>3, <2>5 DEF IsFinal
    <3>2. i <= m /\ m <= i /\ i \in Nat /\ m \in Nat BY <1>1, <2>3, <3>1
    <3>3. i = m BY <3>2
    <3>4. QED BY <3>1, <3>3
  <2>6. QED BY <2>3, <2>4, <2>5 DEF IsFinal
<1>7. QED BY <1>5, <1>6

LEMMA FinalNone == ASSUME NEW k, NEW d PROVE Final(<<>>, k, d) = d
BY DEF Final

LEMMA FinalOne ==
    ASSUME NEW p \in PairType, NEW k, NEW d
    PROVE  Final(<<p>>, k, d) = IF p.key = k THEN p.val ELSE d
<1>1. PICK w : w = <<p>> OBVIOUS
<1>2. w \in Seq(PairType) /\ DOMAIN w = {1} /\ w[1] = p BY <1>1
<1>3. IsFinal(w, k, d, IF p.key = k THEN p.val ELSE d) BY <1>2 DEF IsFinal
<1>4. QED BY <1>1, <1>2, <1>3, FinalIs

LEMMA FinalAppend ==
    ASSUME NEW u, u \in Seq(PairType), NEW t, t \in Seq(PairType), NEW k, NEW d
    PROVE  Final(u \o t, k, d) = Final(t, k, Final(u, k, d))
<1>1. PICK w, n, m : w = u \o t /\ n = Len(u) /\ m = Len(t) OBVIOUS
<1>2. PICK x, y : x = Final(u, k, d) /\ y = Final(t, k, x) OBVIOUS
<1>3. IsFinal(u, k, d, x) /\ IsFinal(t, k, x, y) BY <1>2, FinalIs
<1>4. /\ w \in Seq(PairType) /\ Len(w) = n + m /\ n \in Nat /\ m \in Nat
      /\ DOMAIN u = 1 .. n /\ DOMAIN t = 1 .. m /\ DOMAIN w = 1 .. n + m
      /\ \A i \in 1 .. n : w[i] = u[i]
      /\ \A i \in 1 .. m : w[n + i] = t[i]
  BY <1>1
<1>5. ASSUME NEW i \in 1 .. n + m PROVE i \in 1 .. n \/ \E j \in 1 .. m : i = n + j
  <2>1. CASE i <= n BY <1>4, <2>1
  <2>2. CASE ~(i <= n)
    <3>1. i - n \in 1 .. m /\ i = n + (i - n) BY <1>4, <2>2
    <3>2. QED BY <3>1
  <2>3. QED BY <2>1, <2>2
<1>6. CASE \A i \in 1 .. m : t[i].key # k
  <2>1. y = x BY <1>3, <1>4, <1>6 DEF IsFinal
  <2>2. \A j \in 1 .. n + m : w[j].key = k => j \in 1 .. n BY <1>4, <1>5, <1>6
  <2>3. CASE \A i \in 1 .. n : u[i].key # k
    <3>1. x = d BY <1>3, <1>4, <2>3 DEF IsFinal
    <3>2. \A i \in DOMAIN w : w[i].key # k BY <1>4, <2>2, <2>3
    <3>3. IsFinal(w, k, d, x) BY <3>1, <3>2 DEF IsFinal
    <3>4. QED BY <1>1, <1>2, <1>4, <2>1, <3>3, FinalIs
  <2>4. CASE ~(\A i \in 1 .. n : u[i].key # k)
    <3>1. PICK i \in 1 .. n : /\ u[i].key = k /\ u[i].val = x
                              /\ \A j \in 1 .. n : u[j].key = k => j <= i
      BY <1>3, <1>4, <2>4 DEF IsFinal
    <3>2. i \in 1 .. n + m BY <1>4
    <3>3. \A j \in DOMAIN w : w[j].key = k => j <= i BY <1>4, <2>2, <3>1
    <3>4. IsFinal(w, k, d, x) BY <1>4, <3>1, <3>2, <3>3 DEF IsFinal
    <3>5. QED BY <1>1, <1>2, <1>4, <2>1, <3>4, FinalIs
  <2>5. QED BY <2>3, <2>4
<1>7. CASE ~(\A i \in 1 .. m : t[i].key # k)
  <2>1. PICK i \in 1 .. m : /\ t[i].key = k /\ t[i].val = y
                            /\ \A j \in 1 .. m : t[j].key = k => j <= i
    BY <1>3, <1>4, <1>7 DEF IsFinal
  <2>2. PICK h : h = n + i OBVIOUS
  <2>3. h \in 1 .. n + m BY <1>4, <2>2
  <2>4. ASSUME NEW j \in 1 .. n + m, w[j].key = k PROVE j <= h
    <3>1. CASE j \in 1 .. n BY <1>4, <2>2, <3>1
    <3>2. CASE \E l \in 1 .. m : j = n + l
      <4>1. PICK l \in 1 .. m : j = n + l BY <3>2
      <4>2. l <= i BY <1>4, <2>1, <2>4, <4>1
      <4>3. QED BY <1>4, <2>2, <4>1, <4>2
    <3>3. QED BY <1>5, <3>1, <3>2
  <2>5. w[h].key = k /\ w[h].val = y BY <1>4, <2>1, <2>2
  <2>6. IsFinal(w, k, d, y) BY <1>4, <2>3, <2>4, <2>5 DEF IsFinal
  <2>7. QED BY <1>1, <1>2, <1>4, <2>6, FinalIs
<1>8. QED BY <1>6, <1>7

LEMMA FinalHead ==
    ASSUME NEW w, w \in Seq(PairType), w # <<>>, NEW k, NEW d
    PROVE  Final(w, k, d) = Final(Tail(w), k, IF w[1].key = k THEN w[1].val ELSE d)
<1>1. PICK p, h, t : p = w[1] /\ h = <<w[1]>> /\ t = Tail(w) OBVIOUS
<1>2. p \in PairType /\ h \in Seq(PairType) /\ t \in Seq(PairType) BY <1>1
<1>3. w = h \o t BY <1>1
<1>4. Final(w, k, d) = Final(t, k, Final(h, k, d)) BY <1>2, <1>3, FinalAppend
<1>5. Final(h, k, d) = IF p.key = k THEN p.val ELSE d BY <1>1, <1>2, FinalOne
<1>6. QED BY <1>1, <1>4, <1>5

\* All pairs of the slots in S whose key is k have the value x.
OnlyValue(S, key, val, k, x) == \A i \in S : key[i] = k => val[i] = x

LEMMA FinalLists ==
    ASSUME NEW w, NEW S, NEW key, NEW val, Lists(w, S, key, val), NEW k, NEW d, NEW x,
           OnlyValue(S, key, val, k, x)
    PROVE  Final(w, k, d) = IF \E i \in S : key[i] = k THEN x ELSE d
<1>1. /\ w \in Seq(PairType)
      /\ \A j \in 1 .. Len(w) : \E i \in S : w[j] = Pair(key[i], val[i])
      /\ \A i \in S : \E j \in 1 .. Len(w) : w[j] = Pair(key[i], val[i])
  BY DEF Lists
<1>2. DOMAIN w = 1 .. Len(w) BY <1>1
<1>3. PICK y : y = Final(w, k, d) OBVIOUS
<1>4. IsFinal(w, k, d, y) BY <1>1, <1>3, FinalIs
<1>5. CASE \E i \in S : key[i] = k
  <2>1. PICK i \in S : key[i] = k BY <1>5
  <2>2. PICK j \in DOMAIN w : w[j] = Pair(key[i], val[i]) BY <1>1, <1>2
  <2>3. w[j].key = k BY <2>1, <2>2, PairFacts
  <2>4. PICK l \in DOMAIN w : w[l].key = k /\ w[l].val = y BY <1>4, <2>3 DEF IsFinal
  <2>5. PICK h \in S : w[l] = Pair(key[h], val[h]) BY <1>1, <1>2
  <2>6. key[h] = k /\ val[h] = y BY <2>4, <2>5, PairFacts
  <2>7. QED BY <1>3, <1>5, <2>6 DEF OnlyValue
<1>6. CASE ~(\E i \in S : key[i] = k)
  <2>1. \A j \in DOMAIN w : w[j].key # k BY <1>1, <1>2, <1>6, PairFacts
  <2>2. QED BY <1>3, <1>4, <1>6, <2>1 DEF IsFinal
<1>7. QED BY <1>5, <1>6

(***************************************************************************)
(* What a step changes of what is found in the table.                      *)
(***************************************************************************)
GetsHeld ==
    \A k \in Keys : /\ klispH_get(k) \in Values \cup {Free}
                    /\ \A w \in Values : klispH_get(k) = w <=> Holds(k, w)

LEMMA HeldIs == IInv => GetsHeld
BY GetFacts DEF GetsHeld

LEMMA HeldIsNext == IInv' => GetsHeld'
BY HeldIs, PTL

\* Only what is found for k changes, and that to v.
Gives(k, v) == \A c \in Keys : klispH_get(c)' = IF c = k THEN v ELSE klispH_get(c)

LEMMA HeldGives ==
    ASSUME IInv, IInv', NEW k \in Keys, NEW v \in Values \cup {Free},
           \A c \in Keys \ {k} : \A w \in Values : Holds(c, w)' <=> Holds(c, w),
           \A w \in Values : Holds(k, w)' <=> w = v
    PROVE  Gives(k, v)
<1>1. GetsHeld /\ GetsHeld' BY HeldIs, HeldIsNext
<1>2. ASSUME NEW c \in Keys PROVE klispH_get(c)' = IF c = k THEN v ELSE klispH_get(c)
  <2>1. PICK x, y, z : /\ x = klispH_get(c)' /\ y = klispH_get(c)
                       /\ z = IF c = k THEN v ELSE klispH_get(c)
    OBVIOUS
  <2>2. /\ x \in Values \cup {Free} /\ y \in Values \cup {Free}
        /\ \A w \in Values : x = w <=> Holds(c, w)'
        /\ \A w \in Values : y = w <=> Holds(c, w)
    BY <1>1, <2>1 DEF GetsHeld
  <2>3. z \in Values \cup {Free} BY <2>1, <2>2
  <2>4. CASE c = k
    <3>1. \A w \in Values : x = w <=> z = w BY <2>1, <2>2, <2>4
    <3>2. QED BY <2>1, <2>2, <2>3, <3>1, SameGet
  <2>5. CASE c # k
    <3>1. \A w \in Values : x = w <=> z = w BY <2>1, <2>2, <2>5
    <3>2. QED BY <2>1, <2>2, <2>3, <3>1, SameGet
  <2>6. QED BY <2>4, <2>5
<1>3. QED BY <1>2 DEF Gives

LEMMA NewKeyGives ==
    ASSUME IInv, IInv', Absent, array' = array, NEW nd, nd = node', NEW x,
           Adds(node, nd, k0, v0, x)
    PROVE  Gives(k0, v0)
<1>1. ~InArray(k0) /\ k0 \in Keys /\ v0 \in Values \cup {Free} BY AbsentFacts DEF Absent
<1>2. \A c : InArray(c)' <=> InArray(c) BY DEF InArray, sizearray
<1>3. PICK k \in Keys : k = k0 BY <1>1
<1>4. PICK v \in Values \cup {Free} : v = v0 BY <1>1
<1>5. \A c, w : Holds(c, w)' <=> IF InArray(c) THEN array[c] = w ELSE Binds(nd, c, w)
  BY <1>2 DEF Holds
<1>6. \A c \in Keys \ {k} : \A w \in Values : Holds(c, w)' <=> Holds(c, w)
  BY <1>3, <1>5 DEF Holds, Adds
<1>7. \A w \in Values : Holds(k, w)' <=> w = v
  BY <1>1, <1>3, <1>4, <1>5 DEF Adds
<1>8. Gives(k, v) BY <1>6, <1>7, HeldGives
<1>9. QED BY <1>3, <1>4, <1>8

LEMMA AssignGives == ASSUME IInv, IInv', Assign PROVE Gives(k0, v0)
<1>0. work # <<>> BY DEF Assign
<1>1. k0 \in Keys /\ v0 \in Values \cup {Free}
  <2>1. Inserted BY DEF Assign
  <2>2. QED BY <1>0, <2>1, InsertedFacts
<1>2. PICK k \in Keys : k = k0 BY <1>1
<1>3. PICK v \in Values \cup {Free} : v = v0 BY <1>1
<1>4. TypeOK /\ sizearray \in Nat /\ Chains BY DEF IInv
<1>5. CASE InArray(k0) /\ array' = [array EXCEPT ![k0] = v0] /\ UNCHANGED node
  <2>1. k \in DOMAIN array BY <1>2, <1>4, <1>5, ArrayFacts
  <2>2. PICK ar : ar = array' OBVIOUS
  <2>3. ar = [array EXCEPT ![k] = v] BY <1>2, <1>3, <1>5, <2>2
  <2>4. DOMAIN ar = DOMAIN array /\ ar[k] = v
        /\ \A i \in DOMAIN array : i # k => ar[i] = array[i]
    BY <2>1, <2>3
  <2>5. \A c : InArray(c)' <=> InArray(c) BY <2>2, <2>4 DEF InArray, sizearray
  <2>6. \A c, w : Holds(c, w)' <=> IF InArray(c) THEN ar[c] = w ELSE Binds(node, c, w)
    BY <1>5, <2>2, <2>5 DEF Holds
  <2>7. \A c \in Keys : InArray(c) => c \in DOMAIN array BY <1>4, ArrayFacts
  <2>8. \A c \in Keys \ {k} : \A w \in Values : Holds(c, w)' <=> Holds(c, w)
    BY <2>4, <2>6, <2>7 DEF Holds
  <2>9. \A w \in Values : Holds(k, w)' <=> w = v BY <1>2, <1>5, <2>4, <2>6
  <2>10. Gives(k, v) BY <2>8, <2>9, HeldGives
  <2>11. QED BY <1>2, <1>3, <2>10
<1>6. CASE /\ ~InArray(k0) /\ Chained(k0) # NULL
           /\ node' = [node EXCEPT ![Chained(k0)].val = v0] /\ UNCHANGED array
  <2>1. PICK m : m = Chained(k0) OBVIOUS
  <2>2. m \in DOMAIN node /\ node[m].key = k /\ \A j \in DOMAIN node : node[j].key = k => j = m
    BY <1>2, <1>4, <1>6, <2>1, ChainedFacts
  <2>3. PICK nd, od, s, M : nd = node' /\ od = node /\ s = sizenode /\ M = MainOf(sizenode)
    OBVIOUS
  <2>4. Typed(od, s, M) /\ WellChained(od, M) BY <1>4, <2>3 DEF Chains
  <2>5. Assigned(od, nd, m, v) BY <1>3, <1>6, <2>1, <2>3 DEF Assigned
  <2>6. m \in DOMAIN od /\ od[m].key = k BY <2>2, <2>3
  <2>7. /\ DOMAIN nd = DOMAIN od
        /\ \A i \in DOMAIN od : nd[i].key = od[i].key
        /\ \A i \in DOMAIN od : i # m => nd[i] = od[i]
        /\ nd[m].val = v
    BY <2>4, <2>5, <2>6, AssignKeeps
  <2>8. \A c : InArray(c)' <=> InArray(c) BY <1>6 DEF InArray, sizearray
  <2>9. \A c, w : Holds(c, w)' <=> IF InArray(c) THEN array[c] = w ELSE Binds(nd, c, w)
    BY <1>6, <2>3, <2>8 DEF Holds
  <2>10. \A c \in Keys \ {k} : \A w \in Values : Binds(nd, c, w) <=> Binds(od, c, w)
    BY <2>6, <2>7 DEF Binds
  <2>11. \A c \in Keys \ {k} : \A w \in Values : Holds(c, w)' <=> Holds(c, w)
    BY <2>3, <2>9, <2>10 DEF Holds
  <2>12. \A w : Binds(nd, k, w) <=> w = v BY <2>2, <2>3, <2>6, <2>7 DEF Binds
  <2>13. \A w \in Values : Holds(k, w)' <=> w = v BY <1>2, <1>6, <2>9, <2>12
  <2>14. Gives(k, v) BY <2>11, <2>13, HeldGives
  <2>15. QED BY <1>2, <1>3, <2>14
<1>7. QED BY <1>5, <1>6 DEF Assign

LEMMA InsertGives ==
    ASSUME IInv, IInv', Assign \/ InsertHere \/ InsertElsewhere
    PROVE  Gives(k0, v0) /\ work # <<>> /\ work' = Tail(work)
<1>1. CASE Assign BY <1>1, AssignGives DEF Assign, Inserted
<1>2. CASE InsertHere
  <2>1. PICK nd, x : nd = node' /\ x = mainposition(k0) OBVIOUS
  <2>2. Absent /\ Inserted /\ array' = array /\ Adds(node, nd, k0, v0, x)
    BY <1>2, <2>1, HereAdds
  <2>3. Gives(k0, v0) BY <2>1, <2>2, NewKeyGives
  <2>4. QED BY <2>2, <2>3 DEF Absent, Inserted
<1>3. CASE InsertElsewhere
  <2>1. PICK nd, x : nd = node' /\ x = Max(getfreepos) OBVIOUS
  <2>2. Absent /\ Inserted /\ array' = array /\ Adds(node, nd, k0, v0, x)
    BY <1>3, <2>1, ElsewhereAdds
  <2>3. Gives(k0, v0) BY <2>1, <2>2, NewKeyGives
  <2>4. QED BY <2>2, <2>3 DEF Absent, Inserted
<1>4. QED BY <1>1, <1>2, <1>3

LEMMA EntryGives ==
    ASSUME IInv, IInv', removeentry
    PROVE  \A c \in Keys : klispH_get(c)' = klispH_get(c)
<1>1. PICK od, nd, s, M : od = node /\ nd = node' /\ s = sizenode /\ M = MainOf(sizenode)
  OBVIOUS
<1>2. Typed(od, s, M) /\ WellChained(od, M) BY <1>1 DEF IInv, Chains
<1>3. Killed(od, nd) /\ array' = array BY <1>1 DEF Killed, removeentry
<1>4. /\ DOMAIN nd = DOMAIN od
      /\ \A i \in DOMAIN od : nd[i].key = od[i].key \/ nd[i].key = Dead
      /\ \A i \in DOMAIN od : nd[i].val = od[i].val
      /\ \A i \in DOMAIN od : od[i].val # Free => nd[i].key = od[i].key
  BY <1>2, <1>3, KillKeeps
<1>5. \A c \in Keys : \A w \in Values : Binds(nd, c, w) <=> Binds(od, c, w)
  BY <1>4, NoSpecialKeys DEF Binds
<1>6. \A c : InArray(c)' <=> InArray(c) BY <1>3 DEF InArray, sizearray
<1>7. \A c \in Keys : \A w \in Values : Holds(c, w)' <=> Holds(c, w)
  BY <1>1, <1>3, <1>5, <1>6 DEF Holds
<1>8. SUFFICES ASSUME NEW c \in Keys PROVE klispH_get(c)' = klispH_get(c) OBVIOUS
<1>9. GetsHeld /\ GetsHeld' BY HeldIs, HeldIsNext
<1>10. PICK x, y : x = klispH_get(c)' /\ y = klispH_get(c) OBVIOUS
<1>11. /\ x \in Values \cup {Free} /\ y \in Values \cup {Free}
       /\ \A w \in Values : x = w <=> y = w
  BY <1>7, <1>9, <1>10 DEF GetsHeld
<1>12. QED BY <1>10, <1>11, SameGet

\* In new parts there is what is in the array.
NewGets ==
    \A na, nh \in Nat : Fresh(na, nh) =>
        \A c \in Keys : klispH_get(c) = IF c \in Ints /\ c < na THEN array[c] ELSE Free

LEMMA NewGetsIs == NewGets
<1> SUFFICES ASSUME NEW na \in Nat, NEW nh \in Nat, Fresh(na, nh), NEW c \in Keys
             PROVE  klispH_get(c) = IF c \in Ints /\ c < na THEN array[c] ELSE Free
  BY DEF NewGets
<1>1. IInv
  <2>1. IsNew BY DEF IsNew
  <2>2. QED BY <2>1, NewIs
<1>2. DOMAIN array = 0 .. na - 1 BY DEF Fresh, Indices
<1>3. sizearray = na
  <2>1. 0 \in Int /\ na - 1 \in Int OBVIOUS
  <2>2. Cardinality(0 .. na - 1) = IF 0 > na - 1 THEN 0 ELSE (na - 1) - 0 + 1
    BY <2>1, FS_Interval
  <2>3. QED BY <1>2, <2>2 DEF sizearray
<1>4. CASE c \in Ints /\ c < na BY <1>3, <1>4 DEF InArray, klispH_get
<1>5. CASE ~(c \in Ints /\ c < na)
  <2>1. ~InArray(c) BY <1>3, <1>5 DEF InArray
  <2>2. PICK s : s = sizenode OBVIOUS
  <2>3. IsFresh(node, s, nh) BY <2>2, FreshPart DEF Fresh, sizenode
  <2>4. FreeNode.key = Free BY DEF FreeNode
  <2>5. \A i \in DOMAIN node : node[i].key = Free BY <2>3, <2>4 DEF IsFresh
  <2>6. Lacks(node, c) BY <2>5, NoSpecialKeys DEF Lacks
  <2>7. Chained(c) = NULL BY <1>1, <2>6, ChainedFacts DEF IInv
  <2>8. klispH_get(c) = Free BY <2>1, <2>7 DEF klispH_get
  <2>9. QED BY <1>5, <2>8
<1>6. QED BY <1>4, <1>5

LEMMA NewGetsNext == NewGets'
BY NewGetsIs, PTL

-----------------------------------------------------------------------------
(***************************************************************************)
(* The table is a map.                                                     *)
(***************************************************************************)
LEMMA InsertContents ==
    ASSUME IInv, IInv', Assign \/ InsertHere \/ InsertElsewhere
    PROVE  Contents' = Contents
<1>1. Gives(k0, v0) /\ work # <<>> /\ work' = Tail(work) BY InsertGives
<1>2. PICK w : w = work OBVIOUS
<1>3. w \in Seq(PairType) /\ w # <<>> BY <1>1, <1>2 DEF IInv
<1>4. ASSUME NEW c \in Keys
      PROVE  Final(work', c, klispH_get(c)') = Final(work, c, klispH_get(c))
  <2>1. PICK d, e : d = klispH_get(c) /\ e = klispH_get(c)' OBVIOUS
  <2>2. e = IF c = k0 THEN v0 ELSE d BY <1>1, <2>1 DEF Gives
  <2>3. e = IF w[1].key = c THEN w[1].val ELSE d BY <1>2, <2>2 DEF k0, v0
  <2>4. Final(w, c, d) = Final(Tail(w), c, e) BY <1>3, <2>3, FinalHead
  <2>5. QED BY <1>1, <1>2, <2>1, <2>4
<1>5. QED BY <1>4, ContentsIs DEF Contents, Final

\* What leaves the old parts and what stays in the array are the old bindings.
LEMMA GrowContents ==
    ASSUME IInv, IInv', Grow
    PROVE  Contents' = Contents
<1>1. PICK na, nh : Grown(na, nh) BY GrowIs
<1>2. na \in Nat /\ nh \in Nat /\ Len(vanishing(na)) \in Nat /\ Len(vanishing(na)) <= nh
      /\ resize(na, nh)
  BY <1>1 DEF Grown
<1>3. PICK V, R, w, ar : V = vanishing(na) /\ R = rehashed /\ w = work /\ ar = array'
  OBVIOUS
<1>4. V \in Seq(PairType) /\ R \in Seq(PairType) /\ w \in Seq(PairType)
  <2>1. V \in Seq(PairType) BY <1>2, <1>3, VanishingLists DEF Lists
  <2>2. R \in Seq(PairType) BY <1>3, RehashedLists DEF Lists
  <2>3. QED BY <1>3, <2>1, <2>2 DEF IInv
<1>5. work' = V \o R \o w /\ ar = [i \in Indices(na) |-> IF i < sizearray THEN array[i] ELSE Free]
  BY <1>2, <1>3 DEF resize
<1>6. \A c \in Keys : klispH_get(c)' = IF c \in Ints /\ c < na THEN ar[c] ELSE Free
  <2>1. Fresh(na, nh)' BY <1>1, GrowFresh DEF Grow
  <2>2. QED BY <1>2, <1>3, <2>1, NewGetsNext DEF NewGets
<1>7. ASSUME NEW c \in Keys
      PROVE  Final(work', c, klispH_get(c)') = Final(work, c, klispH_get(c))
  <2>1. PICK d, e : d = klispH_get(c) /\ e = klispH_get(c)' OBVIOUS
  <2>2. e = IF c \in Ints /\ c < na THEN ar[c] ELSE Free BY <1>6, <2>1
  <2>3. sizearray \in Nat /\ (c \in Ints => c \in Nat) BY TableAssumption DEF IInv
  <2>4. c \in Ints /\ c < na => ar[c] = IF c < sizearray THEN array[c] ELSE Free
    BY <1>2, <1>5, <2>3 DEF Indices
  <2>5. PICK S, key, val : S = {i \in ArrayUsed : i >= na} /\ key = ArrayKeys /\ val = array
    OBVIOUS
  <2>6. Lists(V, S, key, val) BY <1>2, <1>3, <2>5, VanishingLists
  <2>7. \A i \in S : /\ key[i] = i /\ i \in DOMAIN array /\ i \in Ints /\ InArray(i)
                     /\ array[i] # Free /\ i >= na
    BY <2>5, UsedFacts DEF ArrayKeys, ArrayUsed
  <2>8. InArray(c) => d = array[c] /\ c \in Ints /\ c < sizearray /\ c \in DOMAIN array
    BY <2>1, ArrayFacts DEF klispH_get, InArray, IInv
  <2>9. Final(V, c, e) = IF InArray(c) THEN d ELSE Free
    <3>1. PICK x : x = array[c] OBVIOUS
    <3>2. OnlyValue(S, key, val, c, x) BY <2>5, <2>7, <3>1 DEF OnlyValue
    <3>3. Final(V, c, e) = IF \E i \in S : key[i] = c THEN x ELSE e
      BY <2>6, <3>2, FinalLists
    <3>4. CASE InArray(c)
      <4>1. CASE c < na
        <5>1. ~(\E i \in S : key[i] = c) BY <1>2, <2>3, <2>7, <2>8, <3>4, <4>1
        <5>2. e = x BY <2>2, <2>4, <2>8, <3>1, <3>4, <4>1
        <5>3. QED BY <2>8, <3>1, <3>3, <3>4, <5>1, <5>2
      <4>2. CASE ~(c < na)
        <5>1. e = Free BY <2>2, <4>2
        <5>2. c >= na BY <1>2, <2>3, <2>8, <3>4, <4>2
        <5>3. x # Free => c \in S BY <2>5, <2>8, <3>1, <3>4, <5>2 DEF ArrayUsed
        <5>4. c \in S => key[c] = c BY <2>7
        <5>5. QED BY <2>8, <3>1, <3>3, <3>4, <5>1, <5>3, <5>4
      <4>3. QED BY <4>1, <4>2
    <3>5. CASE ~InArray(c)
      <4>1. ~(\E i \in S : key[i] = c) BY <2>7, <3>5
      <4>2. e = Free
        <5>1. c \in Ints => ~(c < sizearray) BY <3>5 DEF InArray
        <5>2. QED BY <2>2, <2>4, <5>1
      <4>3. QED BY <3>3, <3>5, <4>1, <4>2
    <3>6. QED BY <3>4, <3>5
  <2>10. PICK f, H, hk, hv : /\ f = Final(V, c, e) /\ H = HashUsed
                             /\ hk = NodeKeys /\ hv = NodeVals
    OBVIOUS
  <2>11. Lists(R, H, hk, hv) BY <1>3, <2>10, RehashedLists
  <2>12. \A i \in H : /\ hk[i] = node[i].key /\ hv[i] = node[i].val
                      /\ i \in DOMAIN node /\ ~InArray(node[i].key)
    BY <2>10, UsedFacts DEF NodeKeys, NodeVals
  <2>13. ASSUME NEW i \in H, hk[i] = c PROVE hv[i] = d
    <3>1. i \in DOMAIN node /\ node[i].key = c /\ ~InArray(c) BY <2>12, <2>13
    <3>2. Chained(c) = i BY <3>1, ChainedFacts DEF IInv
    <3>3. NULL \notin DOMAIN node BY TypedFacts DEF IInv, Chains
    <3>4. d = node[i].val BY <2>1, <3>1, <3>2, <3>3 DEF klispH_get
    <3>5. QED BY <2>12, <3>4
  <2>14. Final(R, c, f) = IF \E i \in H : hk[i] = c THEN d ELSE f
    <3>1. OnlyValue(H, hk, hv, c, d) BY <2>13 DEF OnlyValue
    <3>2. QED BY <2>11, <3>1, FinalLists
  <2>15. Final(R, c, f) = d
    <3>1. CASE \E i \in H : hk[i] = c BY <2>14, <3>1
    <3>2. CASE ~(\E i \in H : hk[i] = c)
      <4>1. CASE InArray(c) BY <2>9, <2>10, <2>14, <3>2, <4>1
      <4>2. CASE ~InArray(c)
        <5>1. d = Free
          <6>1. SUFFICES ASSUME d # Free PROVE FALSE OBVIOUS
          <6>2. PICK i : i = Chained(c) OBVIOUS
          <6>3. i # NULL /\ d = node[i].val BY <2>1, <4>2, <6>1, <6>2 DEF klispH_get
          <6>4. i \in DOMAIN node /\ node[i].key = c BY <6>2, <6>3, ChainedFacts DEF IInv
          <6>5. i \in H BY <2>10, <6>1, <6>3, <6>4 DEF HashUsed
          <6>6. QED BY <2>12, <3>2, <6>4, <6>5
        <5>2. QED BY <2>9, <2>10, <2>14, <3>2, <4>2, <5>1
      <4>3. QED BY <4>1, <4>2
    <3>3. QED BY <3>1, <3>2
  <2>16. PICK u : u = V \o R OBVIOUS
  <2>17. u \in Seq(PairType) /\ work' = u \o w BY <1>4, <1>5, <2>16
  <2>18. Final(u, c, e) = d BY <1>4, <2>10, <2>15, <2>16, FinalAppend
  <2>19. Final(u \o w, c, e) = Final(w, c, d) BY <1>4, <2>17, <2>18, FinalAppend
  <2>20. QED BY <1>3, <2>1, <2>17, <2>19
<1>8. QED BY <1>7, ContentsIs DEF Contents, Final

LEMMA CopyContents ==
    ASSUME IInv, IInv', Copy
    PROVE  Contents' = Contents
<1>1. Idle /\ work' = traversal BY DEF Copy
<1>2. Fresh(0, NHash)' /\ NHash \in Nat BY CopyFresh
<1>3. \A c \in Keys : klispH_get(c)' = Free
  <2>1. \A c \in Keys : ~(c \in Ints /\ c < 0)
    <3>1. \A c \in Ints : c \in Nat BY TableAssumption
    <3>2. QED BY <3>1
  <2>2. PICK ar : ar = array' OBVIOUS
  <2>3. \A c \in Keys : klispH_get(c)' = IF c \in Ints /\ c < 0 THEN ar[c] ELSE Free
    BY <1>2, <2>2, NewGetsNext DEF NewGets
  <2>4. QED BY <2>1, <2>3
<1>4. PICK t, U, key, val : t = traversal /\ U = UsedSlots /\ key = SlotKeys /\ val = SlotVals
  OBVIOUS
<1>5. Lists(t, U, key, val) BY <1>4, TraversalLists
<1>6. \A i \in U : /\ key[i] = SlotKey(i) /\ val[i] = SlotVal(i)
                   /\ klispH_get(SlotKey(i)) = SlotVal(i)
  BY <1>4, SlotFacts DEF SlotKeys, SlotVals, UsedSlots
<1>7. ASSUME NEW c \in Keys
      PROVE  Final(work', c, klispH_get(c)') = Final(work, c, klispH_get(c))
  <2>1. PICK d : d = klispH_get(c) OBVIOUS
  <2>2. Final(work, c, d) = d BY <1>1, FinalNone DEF Idle
  <2>3. OnlyValue(U, key, val, c, d) BY <1>6, <2>1 DEF OnlyValue
  <2>4. Final(t, c, Free) = IF \E i \in U : key[i] = c THEN d ELSE Free
    BY <1>5, <2>3, FinalLists
  <2>5. d # Free => \E i \in U : key[i] = c BY <1>4, <1>6, <2>1, SlotOfKey
  <2>6. Final(t, c, Free) = d BY <2>4, <2>5
  <2>7. QED BY <1>1, <1>3, <1>4, <2>1, <2>2, <2>6
<1>8. QED BY <1>7, ContentsIs DEF Contents, Final

LEMMA EntryContents ==
    ASSUME IInv, IInv', removeentry
    PROVE  Contents' = Contents
<1>1. \A c \in Keys : klispH_get(c)' = klispH_get(c) BY EntryGives
<1>2. work' = work BY DEF removeentry
<1>3. \A c \in Keys : Final(work', c, klispH_get(c)') = Final(work, c, klispH_get(c))
  BY <1>1, <1>2
<1>4. QED BY <1>3, ContentsIs DEF Contents, Final

\* An operation binds its key, or takes its binding away.
LEMMA OperationContents ==
    ASSUME IInv, IInv', Idle, NEW k \in Keys, NEW v \in Values \cup {Free},
           work' = <<Pair(k, v)>>, UNCHANGED <<parts, moving>>
    PROVE  Contents' = [Contents EXCEPT ![k] = v]
<1>1. array' = array /\ node' = node BY DEF parts
<1>2. \A c \in Keys : klispH_get(c)' = klispH_get(c)
  <2>1. \A c : InArray(c)' <=> InArray(c) BY <1>1 DEF InArray, sizearray
  <2>2. \A c \in Keys : \A w \in Values : Holds(c, w)' <=> Holds(c, w)
    BY <1>1, <2>1 DEF Holds
  <2>3. SUFFICES ASSUME NEW c \in Keys PROVE klispH_get(c)' = klispH_get(c) OBVIOUS
  <2>4. GetsHeld /\ GetsHeld' BY HeldIs, HeldIsNext
  <2>5. PICK x, y : x = klispH_get(c)' /\ y = klispH_get(c) OBVIOUS
  <2>6. /\ x \in Values \cup {Free} /\ y \in Values \cup {Free}
        /\ \A w \in Values : x = w <=> y = w
    BY <2>2, <2>4, <2>5 DEF GetsHeld
  <2>7. QED BY <2>5, <2>6, SameGet
<1>3. ASSUME NEW c \in Keys
      PROVE  Final(work', c, klispH_get(c)') = IF c = k THEN v ELSE Contents[c]
  <2>1. PICK d, p : d = klispH_get(c) /\ p = Pair(k, v) OBVIOUS
  <2>2. Contents[c] = d
    <3>1. Final(work, c, d) = d BY FinalNone DEF Idle
    <3>2. QED BY <2>1, <3>1, ContentsIs
  <2>3. p \in PairType /\ p.key = k /\ p.val = v BY <2>1, PairTyped, PairFacts
  <2>4. Final(<<p>>, c, d) = IF p.key = c THEN p.val ELSE d BY <2>3, FinalOne
  <2>5. QED BY <1>2, <2>1, <2>2, <2>3, <2>4
<1>4. Contents' = [c \in Keys |-> Final(work', c, klispH_get(c)')]
  BY DEF Contents, Final
<1>5. Contents = [c \in Keys |-> Contents[c]] BY DEF Contents
<1>6. QED BY <1>3, <1>4, <1>5

LEMMA StepContents ==
    ASSUME IInv, IInv', [Next]_vars
    PROVE  [Map!Next]_Contents
<1>1. CASE \E k \in Keys : hash_table_deleteB(k)
  <2>1. PICK k \in Keys : hash_table_deleteB(k) BY <1>1
  <2>2. /\ Idle /\ work' = <<Pair(k, Free)>> /\ UNCHANGED <<parts, moving>>
    BY <2>1 DEF hash_table_deleteB
  <2>3. Free \in Values \cup {Free} OBVIOUS
  <2>4. Contents' = [Contents EXCEPT ![k] = Free] BY <2>2, <2>3, OperationContents
  <2>5. QED BY <2>4 DEF Map!Next, Map!Delete
<1>2. CASE \E k \in Keys, v \in Values : hash_table_setB(k, v)
  <2>1. PICK k \in Keys, v \in Values : hash_table_setB(k, v) BY <1>2
  <2>2. /\ Idle /\ work' = <<Pair(k, v)>> /\ UNCHANGED <<parts, moving>>
    BY <2>1 DEF hash_table_setB
  <2>3. v \in Values \cup {Free} OBVIOUS
  <2>4. Contents' = [Contents EXCEPT ![k] = v] BY <2>2, <2>3, OperationContents
  <2>5. QED BY <2>4 DEF Map!Next, Map!Set
<1>3. CASE Assign \/ InsertHere \/ InsertElsewhere BY <1>3, InsertContents
<1>4. CASE Grow BY <1>4, GrowContents
<1>5. CASE Copy BY <1>5, CopyContents
<1>6. CASE removeentry BY <1>6, EntryContents
<1>7. CASE UNCHANGED vars
  <2>1. array' = array /\ node' = node /\ work' = work BY <1>7 DEF vars
  <2>2. Contents' = Contents
    BY <2>1 DEF Contents, klispH_get, InArray, Chained, mainposition, sizearray, sizenode
  <2>3. QED BY <2>2
<1>8. QED BY <1>1, <1>2, <1>3, <1>4, <1>5, <1>6, <1>7 DEF Next, Insert

LEMMA InitContents == Init => Map!Init
<1> SUFFICES ASSUME Init PROVE Contents = [k \in Keys |-> Free] BY DEF Map!Init
<1>1. work = <<>> /\ array = FreeArray(0) BY DEF Init
<1>2. Fresh(0, NHash) /\ NHash \in Nat BY InitFresh
<1>3. ASSUME NEW c \in Keys PROVE Final(work, c, klispH_get(c)) = Free
  <2>1. c \in Ints => ~(c < 0) BY TableAssumption
  <2>2. klispH_get(c) = Free BY <1>2, <2>1, NewGetsIs DEF NewGets
  <2>3. QED BY <1>1, <2>2, FinalNone
<1>4. QED BY <1>3, ContentsIs

\* A table is a finite map, whatever collides, is deleted, freed or moved as it
\* grows and shrinks (kgtables.c, ktable.c).
THEOREM TableIsMap == Spec => Implements
<1>1. Init => Map!Init BY InitContents
<1>2. IInv /\ IInv' /\ [Next]_vars => [Map!Next]_Contents BY StepContents
<1>3. QED BY <1>1, <1>2, SpecIInv, PTL DEF Spec, Implements, Map!Spec
=============================================================================
