-------------------------------- MODULE KTable --------------------------------
(***************************************************************************)
(* Hash tables with an array part.                                         *)
(*                                                                         *)
(* Sources: ktable.c, kgtables.c.                                          *)
(*                                                                         *)
(* A step is one insertion or one assignment, or the resize that makes     *)
(* room for one, which inserts what was in the old parts again: work is    *)
(* what is still to be inserted, first what the innermost resize has left  *)
(* to do.                                                                  *)
(***************************************************************************)
EXTENDS Integers, Sequences, FiniteSets, SequencesExt, FiniteSetsExt

CONSTANTS
    Ints, Symbols,      \* the keys: fixints, and other objects
    hash,               \* hash[s]: the hash of a symbol
    Values,
    NHash,              \* the first size of the hash part
    Free, Dead          \* no key or value; the key of an object that was freed

ASSUME TableAssumption ==
    /\ Ints \subseteq Nat
    /\ hash \in [Symbols -> Nat]
    /\ NHash \in Nat
    /\ Free \notin Values /\ Free # Dead
    /\ Free \notin Ints \cup Symbols /\ Dead \notin Ints \cup Symbols

Keys == Ints \cup Symbols

VARIABLES
    array,      \* the array part: values
    node,       \* the hash part: nodes with key, value and next node
    dummy,      \* there is no hash part: node is the common dummynode
    lastfree,   \* every free node is before this one
    work,       \* insertions to be done
    moving      \* how many of them are still in the array

parts == <<array, node, dummy, lastfree>>
vars == <<array, node, dummy, lastfree, work, moving>>

NULL == -1
FreeNode == [key |-> Free, val |-> Free, next |-> NULL]
sizenode == Cardinality(DOMAIN node)
sizearray == Cardinality(DOMAIN array)

twoto[i \in Nat] == IF i = 0 THEN 1 ELSE 2 * twoto[i - 1]
ceillog2(n) == Min({i \in 0 .. n : twoto[i] >= n})

Indices(n) == 0 .. n - 1
FreeArray(n) == [i \in Indices(n) |-> Free]
FreeNodes(n) == [i \in Indices(IF n = 0 THEN 1 ELSE twoto[ceillog2(n)]) |-> FreeNode]
Lastfree(n) == IF n = 0 THEN 0 ELSE twoto[ceillog2(n)]

\* klispH_new
Init ==
    /\ array = FreeArray(0)
    /\ node = FreeNodes(NHash) /\ dummy = (NHash = 0) /\ lastfree = Lastfree(NHash)
    /\ work = <<>> /\ moving = 0

-----------------------------------------------------------------------------
(***************************************************************************)
(* Searching.                                                              *)
(***************************************************************************)
\* hashmod for fixints, hashpow2 for symbols.
mainposition(k) ==
    IF k \in Ints THEN k % (IF sizenode > 2 THEN sizenode - 1 ELSE 1)
    ELSE hash[k] % sizenode

InArray(k) == k \in Ints /\ k < sizearray

\* The node of the chain of k that has this key.
Chained(k) ==
    LET search[i \in DOMAIN node \cup {NULL}] ==
            IF i = NULL \/ node[i].key = k THEN i ELSE search[node[i].next]
    IN  search[mainposition(k)]

klispH_get(k) ==
    IF InArray(k) THEN array[k]
    ELSE IF Chained(k) = NULL THEN Free ELSE node[Chained(k)].val

-----------------------------------------------------------------------------
(***************************************************************************)
(* Growing.                                                                *)
(***************************************************************************)
ArrayUsed == {i \in DOMAIN array : array[i] # Free}
HashUsed == {i \in DOMAIN node : node[i].val # Free}

\* numusearray counts the slot i of the array, which has the key i, as i + 1;
\* countint counts the key k in the hash part, or the new key, as k, and 0 not
\* at all.
Counted(ek) ==
    [slots |-> {i + 1 : i \in ArrayUsed},
     keys |-> {node[i].key : i \in HashUsed} \cap (Ints \ {0}),
     new |-> {ek} \cap (Ints \ {0})]

nums(c, S) == Cardinality(c.slots \cap S) + Cardinality(c.keys \cap S)
                + Cardinality(c.new \cap S)

\* The size of the array part and the number of keys that go there: of the largest
\* power of two such that more than half of the slots up to it are in use.
computesizes(c) ==
    LET Slice(i) == {k \in Ints \cup c.slots : k >= 1 /\ ceillog2(k) = i}
        UpTo(i) == nums(c, UNION {Slice(j) : j \in 0 .. i})
        total == nums(c, c.slots \cup c.keys \cup c.new)
        fit == {i \in 0 .. ceillog2(total) + 1 :
                  /\ twoto[i] \div 2 < total
                  /\ nums(c, Slice(i)) > 0
                  /\ UpTo(i) > twoto[i] \div 2}
    IN  IF fit = {} THEN [size |-> 0, keys |-> 0]
        ELSE [size |-> twoto[Max(fit)], keys |-> UpTo(Max(fit))]

\* klispH_numuse
numuse == Cardinality(ArrayUsed) + Cardinality(HashUsed)

Pair(k, v) == [key |-> k, val |-> v]

\* Wrong variant: what was in the part of the array that goes away is lost.
vanishingBug(nasize) == <<>>

\* The indices in S, in order.
ascending(S) ==
    [j \in 1 .. Cardinality(S) |-> CHOOSE i \in S : Cardinality({h \in S : h < i}) = j - 1]

\* What is in the slice of the array that goes away, from its start.
vanishing(nasize) ==
    LET slots == ascending({i \in ArrayUsed : i >= nasize})
    IN  [j \in DOMAIN slots |-> Pair(slots[j], array[slots[j]])]

\* What is in the old hash part, from its end.
rehashed ==
    LET nodes == Reverse(ascending(HashUsed))
    IN  [j \in DOMAIN nodes |-> Pair(node[nodes[j]].key, node[nodes[j]].val)]

resize(nasize, nhsize) ==
    /\ array' = [i \in Indices(nasize) |-> IF i < sizearray THEN array[i] ELSE Free]
    /\ node' = FreeNodes(nhsize) /\ dummy' = (nhsize = 0) /\ lastfree' = Lastfree(nhsize)
    /\ work' = vanishing(nasize) \o rehashed \o work
    /\ moving' = moving + Len(vanishing(nasize))

rehash(ek) ==
    LET na == computesizes(Counted(ek))
    IN  resize(na.size, numuse + 1 - na.keys)

-----------------------------------------------------------------------------
(***************************************************************************)
(* Inserting the first pair of work.                                       *)
(***************************************************************************)
k0 == work[1].key
v0 == work[1].val

\* The nodes it looks for from the end.
getfreepos == {i \in DOMAIN node : i < lastfree /\ node[i].key = Free}

Inserted == work' = Tail(work) /\ moving' = IF moving = 0 THEN 0 ELSE moving - 1

\* klispH_set finds the key.
Assign ==
    /\ work # <<>>
    /\ \/ InArray(k0) /\ array' = [array EXCEPT ![k0] = v0] /\ UNCHANGED node
       \/ /\ ~InArray(k0) /\ Chained(k0) # NULL
          /\ node' = [node EXCEPT ![Chained(k0)].val = v0] /\ UNCHANGED array
    /\ Inserted
    /\ UNCHANGED <<dummy, lastfree>>

Absent == work # <<>> /\ ~InArray(k0) /\ Chained(k0) = NULL

Collides(mp) == node[mp].val # Free \/ dummy

\* newkey, its main position is free: the chain that goes through it is kept.
InsertHere ==
    LET mp == mainposition(k0) IN
    /\ Absent /\ ~Collides(mp)
    /\ node' = [node EXCEPT ![mp].key = k0, ![mp].val = v0]
    /\ Inserted
    /\ UNCHANGED <<array, dummy, lastfree>>

\* The new node goes to n, behind the colliding node.
Chain(mp, n) ==
    [node EXCEPT ![n] = [key |-> k0, val |-> v0, next |-> node[mp].next],
                 ![mp].next = n]

\* Wrong variant: whatever the colliding node is, the new one goes behind it.
MoveBug(mp, n) == Chain(mp, n)

\* The colliding node goes to n, and the chain from its main position with it.
Move(mp, n) ==
    LET previous == CHOOSE p \in DOMAIN node : node[p].next = mp
    IN  [node EXCEPT ![n] = node[mp],
                     ![previous].next = n,
                     ![mp] = [key |-> k0, val |-> v0, next |-> NULL]]

\* newkey, it is not.
InsertElsewhere ==
    LET mp == mainposition(k0)
        n == Max(getfreepos)
    IN  /\ Absent /\ Collides(mp) /\ getfreepos # {}
        /\ node' = IF mainposition(node[mp].key) # mp THEN Move(mp, n) ELSE Chain(mp, n)
        /\ lastfree' = n
        /\ Inserted
        /\ UNCHANGED <<array, dummy>>

Full == Absent /\ Collides(mainposition(k0)) /\ getfreepos = {}

Grow == Full /\ rehash(k0)

Insert == Assign \/ InsertHere \/ InsertElsewhere \/ Grow

-----------------------------------------------------------------------------
(***************************************************************************)
(* The operations.                                                         *)
(***************************************************************************)
Idle == work = <<>>

hash_table_setB(k, v) == Idle /\ work' = <<Pair(k, v)>> /\ UNCHANGED <<parts, moving>>

\* A key that is not there is put there without a value.
hash_table_deleteB(k) == Idle /\ work' = <<Pair(k, Free)>> /\ UNCHANGED <<parts, moving>>

\* klispH_next, from the index of a key: arrays come first.
Slots == 0 .. sizearray + sizenode - 1
SlotKey(i) == IF i < sizearray THEN i ELSE node[i - sizearray].key
SlotVal(i) == IF i < sizearray THEN array[i] ELSE node[i - sizearray].val
findindex(k) == IF InArray(k) THEN k ELSE sizearray + Chained(k)

klispH_next(i) ==
    LET used == {j \in Slots : j > i /\ SlotVal(j) # Free}
    IN  IF used = {} THEN Free ELSE SlotKey(Min(used))

traversal ==
    LET from[k \in Keys \cup {Free}] ==
            IF k = Free THEN <<>>
            ELSE <<Pair(k, klispH_get(k))>> \o from[klispH_next(findindex(k))]
    IN  from[klispH_next(-1)]

\* hash_table_merge makes a new table.
Copy ==
    /\ Idle
    /\ array' = FreeArray(0)
    /\ node' = FreeNodes(NHash) /\ dummy' = (NHash = 0) /\ lastfree' = Lastfree(NHash)
    /\ work' = traversal /\ UNCHANGED moving

\* A collection: keys without a value are of objects that may have been freed.
removeentry ==
    /\ Idle
    /\ \E i \in DOMAIN node : node[i].val = Free /\ node[i].key \in Symbols
    /\ node' = [i \in DOMAIN node |->
                  IF node[i].val = Free /\ node[i].key \in Symbols
                  THEN [node[i] EXCEPT !.key = Dead] ELSE node[i]]
    /\ UNCHANGED <<array, dummy, lastfree, work, moving>>

Next ==
    \/ \E k \in Keys : hash_table_deleteB(k)
    \/ \E k \in Keys, v \in Values : hash_table_setB(k, v)
    \/ Insert \/ Copy \/ removeentry

Spec == Init /\ [][Next]_vars

\* The C code goes on until it returns.
FairSpec == Spec /\ WF_vars(Insert)

-----------------------------------------------------------------------------
(***************************************************************************)
(* Properties.                                                             *)
(***************************************************************************)
TypeOK ==
    /\ array \in [Indices(sizearray) -> Values \cup {Free}]
    /\ node \in [Indices(sizenode) -> [key : Keys \cup {Free, Dead},
                                       val : Values \cup {Free},
                                       next : Indices(sizenode) \cup {NULL}]]
    /\ \A i \in DOMAIN node : node[i].key \in {Free, Dead} => node[i].val = Free
    /\ dummy => node = FreeNodes(0)
    /\ lastfree \in 0 .. sizenode
    /\ moving \in 0 .. Len(work)

\* The value that the last insertion to be done will give to k, or that k has.
Contents ==
    [k \in Keys |->
        LET last == {i \in DOMAIN work : work[i].key = k}
        IN  IF last = {} THEN klispH_get(k) ELSE work[Max(last)].val]

Map == INSTANCE KMap WITH map <- Contents

\* A table is a finite map, whatever collides, is deleted, freed or moved as it
\* grows and shrinks (kgtables.c: "silently replacing any existing binding").
Implements == Map!Spec

\* "A main invariant of these tables is that, if an element is not in its main
\* position, then the colliding element is in its own main position."
\* There is room for what resize moves out of the array: were the table to grow
\* again below it, setarrayvector would clear the slice that is still to be moved, and
\* resize would then shrink an array of another size.
\* hash-table-length and the traversals of hash-table->alist and merge count each
\* binding once.
BrentInvariant ==
    /\ TypeOK
    /\ \A i \in HashUsed :
          LET mp == mainposition(node[i].key) IN
          (mp # i /\ node[mp].key \in Keys) => mainposition(node[mp].key) = mp
    /\ moving > 0 => ~Full
    /\ Idle => /\ numuse = Cardinality({k \in Keys : klispH_get(k) # Free})
               /\ Len(traversal) = numuse
               /\ IsInjective(traversal)

\* Every operation returns ("grow table", then "re-insert key into grown table").
Returns == []<>Idle
=============================================================================
