--------------------------------- MODULE KGC ---------------------------------
(***************************************************************************)
(* The allocator, the collector and the table of interned objects.         *)
(*                                                                         *)
(* Sources: kmem.c (klispM_realloc_), kgc.c (klispC_fullgc and below),     *)
(* kstring.c, ksymbol.c, kkeyword.c, kpair.c (the constructors).           *)
(*                                                                         *)
(* Any allocation may run a collection first, and a collection may resize  *)
(* the table, which allocates.  So what matters is the nesting of C calls: *)
(* calls is the C stack, a frame per function under way, innermost last,   *)
(* and a step runs up to the next call or return.  All of it happens under *)
(* the GIL, so one stack is enough.                                        *)
(*                                                                         *)
(* A collection stops the world: marking is abstracted to reachability,    *)
(* and the colours are left out.                                           *)
(***************************************************************************)
EXTENDS Integers, Sequences, FiniteSets, SequencesExt

CONSTANTS
    Addr,             \* bound: blocks of memory
    Contents,         \* what strings, symbols and keywords consist of
    NameKinds,        \* the kinds of names: symbols, keywords
    Hash(_, _),       \* hash of an object of some kind and content
    MINSTRTABSIZE,
    gcpause,          \* a collection is due when memory is this times as big
    MaxCalls,         \* bound: the C stack
    None, Free

ASSUME GCAssumption ==
    /\ IsFiniteSet(Addr)
    /\ MINSTRTABSIZE \in Nat \ {0}
    /\ gcpause \in Nat \ {0}
    /\ MaxCalls \in Nat
    /\ \A kind \in NameKinds \cup {"string"}, c \in Contents : Hash(kind, c) \in Nat
    /\ NameKinds \subseteq {"symbol", "keyword"}
    /\ None \notin Addr

VARIABLES
    heap,         \* the object in each block
    hash,         \* strt.hash: the blocks chained in each bucket
    nuse,         \* strt.nuse
    GCthreshold,
    calls,        \* the C stack
    roots,        \* what the threads hold: registers, continuations, ...
    rooted        \* krooted_tvs

vars == <<heap, hash, nuse, GCthreshold, calls, roots, rooted>>

-----------------------------------------------------------------------------
\* An object refers to its string or car, and to its source info.
Object(kind, content, ref, si) ==
    [kind |-> kind, content |-> content, ref |-> ref, si |-> si]

Objects == [kind : NameKinds \cup {"string", "pair"}, content : Contents \cup {None},
            ref : Addr \cup {None}, si : Addr \cup {None}]

ASSUME FreeAssumption == Free \notin Objects

Refs(o) == {o.ref, o.si} \ {None}

\* Immutable strings, keywords, and symbols without source info are interned:
\* chained in the table, not in rootgc.
Interned(o) == o.kind = "string" \/ (o.kind \in NameKinds /\ o.si = None)

Allocated == {a \in Addr : heap[a] # Free}

Chained == {a \in Allocated : Interned(heap[a])}

size == Cardinality(DOMAIN hash)

Bucket(kind, content, tbsize) == Hash(kind, content) % tbsize

\* The interned object of a kind and content, if there is one.
search(kind, content) ==
    {a \in hash[Bucket(kind, content, size)] :
        heap[a].kind = kind /\ heap[a].content = content}

\* Every object and every entry of the table count as one unit.
totalbytes == Cardinality(Allocated) + size

\* What markroot and propagateall turn black: the least set of blocks with these
\* and with all that the objects in it refer to.
Closed(S) == \A a \in S \cap Allocated : Refs(heap[a]) \subseteq S

Reachable(from) ==
    {a \in Addr : \A S \in SUBSET Addr : from \subseteq S /\ Closed(S) => a \in S}

-----------------------------------------------------------------------------
(***************************************************************************)
(* Frames of the C stack.                                                  *)
(***************************************************************************)
\* A constructor about to allocate object o, or that has made it at block made;
\* collected: klispM_realloc_ has run the collection that was due.
New(o) == [fn |-> "new", o |-> o, made |-> None, collected |-> FALSE]

\* ksymbol_new_bs and kkeyword_new_bs until they have the string.
Name(kind, content, si) ==
    [fn |-> "name", kind |-> kind, content |-> content, si |-> si]

Resize(newsize) ==
    [fn |-> "klispS_resize", newsize |-> newsize, collected |-> FALSE]

\* The phase to come: finish pending sweeps, mark and sweep, or end.
FullGC(phase) == [fn |-> "klispC_fullgc", phase |-> phase]

Top == Last(calls)
In(fn) == calls # <<>> /\ Top.fn = fn

Init ==
    /\ heap = [a \in Addr |-> Free]
    /\ hash = [i \in 0 .. MINSTRTABSIZE - 1 |-> {}]
    /\ nuse = 0
    /\ GCthreshold = 4 * MINSTRTABSIZE
    /\ calls = <<>>
    /\ roots = {}
    /\ rooted = {}

-----------------------------------------------------------------------------
(***************************************************************************)
(* What the interpreter does with objects it holds.                        *)
(***************************************************************************)
Idle == calls = <<>>

Drop(a) ==
    /\ Idle
    /\ roots' = roots \ {a}
    /\ UNCHANGED <<heap, hash, nuse, GCthreshold, calls, rooted>>

NewString(c) ==
    /\ Idle
    /\ LET found == search("string", c)
       IN  /\ roots' = roots \cup found
           /\ calls' = IF found # {} THEN <<>>
                       ELSE <<New(Object("string", c, None, None))>>
    /\ UNCHANGED <<heap, hash, nuse, GCthreshold, rooted>>

\* The source info si of a symbol is a pair; keywords have none.
NewName(kind, c, si) ==
    /\ Idle
    /\ si # None => kind = "symbol" /\ heap[si].kind = "pair"
    /\ LET found == IF si = None THEN search(kind, c) ELSE {}
           str   == search("string", c)
       IN  /\ roots' = roots \cup found
           /\ IF found # {} THEN UNCHANGED <<calls, rooted>>
              ELSE IF str # {}
              THEN /\ calls' = <<New(Object(kind, c, CHOOSE a \in str : TRUE, si))>>
                   /\ rooted' = str
              ELSE /\ calls' = <<Name(kind, c, si), New(Object("string", c, None, None))>>
                   /\ UNCHANGED rooted
    /\ UNCHANGED <<heap, hash, nuse, GCthreshold>>

kcons(car) ==
    /\ Idle
    /\ calls' = <<New(Object("pair", None, car, None))>>
    /\ UNCHANGED <<heap, hash, nuse, GCthreshold, roots, rooted>>

\* delete-file collects, for the file may be open in a port nobody uses.
Collect ==
    /\ Idle
    /\ calls' = <<FullGC("finish")>>
    /\ UNCHANGED <<heap, hash, nuse, GCthreshold, roots, rooted>>

-----------------------------------------------------------------------------
(***************************************************************************)
(* klispM_realloc_ and the functions that call it.                         *)
(***************************************************************************)
Units == IF In("klispS_resize") THEN Top.newsize ELSE 1

Due == ~Top.collected /\ totalbytes + Units >= GCthreshold

Allocating(fn) == In(fn) /\ (fn = "new" => Top.made = None)

\* "prevent recursive call of klispC_fullgc()" is a comment only.  At MaxCalls
\* the C stack is full and the process ends.
CollectFirst ==
    /\ Allocating("new") \/ Allocating("klispS_resize")
    /\ Due
    /\ Len(calls) < MaxCalls
    /\ calls' = Append([calls EXCEPT ![Len(calls)].collected = TRUE], FullGC("finish"))
    /\ UNCHANGED <<heap, hash, nuse, GCthreshold, roots, rooted>>

\* The table has more objects than buckets with one more object, o.
crowded(o) == Interned(o) /\ nuse + 1 > size

\* The block is made an object, which is chained, and rooted while the table is
\* resized if it has become too crowded.
Link ==
    /\ Allocating("new") /\ ~Due
    /\ \E a \in Addr \ Allocated :
         LET o     == Top.o
             frame == [Top EXCEPT !.made = a]
         IN  /\ heap' = [heap EXCEPT ![a] = o]
             /\ IF Interned(o)
                THEN /\ hash' = [hash EXCEPT ![Bucket(o.kind, o.content, size)] = @ \cup {a}]
                     /\ nuse' = nuse + 1
                ELSE UNCHANGED <<hash, nuse>>
             /\ calls' = Append(Front(calls), frame)
                         \o IF crowded(o) THEN <<Resize(2 * size)>> ELSE <<>>
             /\ rooted' = (rooted \ Refs(o)) \cup IF crowded(o) THEN {a} ELSE {}
    /\ UNCHANGED <<GCthreshold, roots>>

\* Wrong variant: the new string is not rooted while the name is allocated.
ReturnBug ==
    /\ In("new") /\ Top.made # None
    /\ LET rest == Front(calls)
           v    == Top.made
       IN  IF rest = <<>>
           THEN calls' = rest /\ roots' = roots \cup {v} /\ rooted' = rooted \ {v}
           ELSE LET f == Last(rest) IN
                  /\ calls' = Append(Front(rest), New(Object(f.kind, f.content, v, f.si)))
                  /\ rooted' = rooted \ {v}
                  /\ UNCHANGED roots
    /\ UNCHANGED <<heap, hash, nuse, GCthreshold>>

\* The constructor returns its object: to the program, or, a string, to the
\* constructor of a name.
Return ==
    /\ In("new") /\ Top.made # None
    /\ LET rest == Front(calls)
           v    == Top.made
       IN  IF rest = <<>>
           THEN calls' = rest /\ roots' = roots \cup {v} /\ rooted' = rooted \ {v}
           ELSE LET f == Last(rest) IN
                  /\ calls' = Append(Front(rest), New(Object(f.kind, f.content, v, f.si)))
                  /\ rooted' = rooted \cup {v}
                  /\ UNCHANGED roots
    /\ UNCHANGED <<heap, hash, nuse, GCthreshold>>

\* Wrong variant: the objects of a bucket stay together.
rehashBug(newsize) ==
    [i \in 0 .. newsize - 1 |-> UNION {hash[j] : j \in {j \in DOMAIN hash : j % newsize = i}}]

rehash(newsize) ==
    [i \in 0 .. newsize - 1 |->
        {a \in UNION {hash[j] : j \in DOMAIN hash} :
            Bucket(heap[a].kind, heap[a].content, newsize) = i}]

ResizeTable ==
    /\ Allocating("klispS_resize") /\ ~Due
    /\ hash' = rehash(Top.newsize)
    /\ calls' = Front(calls)
    /\ UNCHANGED <<heap, nuse, GCthreshold, roots, rooted>>

-----------------------------------------------------------------------------
(***************************************************************************)
(* klispC_fullgc.                                                          *)
(***************************************************************************)
\* checkSizes with n objects in the table, then the next phase.
CheckSizes(n, phase) ==
    calls' = Append(Front(calls), FullGC(phase))
             \o IF n < size \div 4 /\ size > 2 * MINSTRTABSIZE
                THEN <<Resize(size \div 2)>> ELSE <<>>

\* No sweep is pending when a collection starts, and nothing is dead: this one
\* returns all objects to white.
FinishSweep ==
    /\ In("klispC_fullgc") /\ Top.phase = "finish"
    /\ CheckSizes(nuse, "mark")
    /\ UNCHANGED <<heap, hash, nuse, GCthreshold, roots, rooted>>

\* freeobj: how much the objects that are freed lower nuse.
Uncounted(dead) == Cardinality({a \in dead : Interned(heap[a])})

MarkAndSweep ==
    /\ In("klispC_fullgc") /\ Top.phase = "mark"
    /\ LET dead == Allocated \ Reachable(roots \cup rooted) IN
         /\ heap' = [a \in Addr |-> IF a \in dead THEN Free ELSE heap[a]]
         /\ hash' = [i \in DOMAIN hash |-> hash[i] \ dead]
         /\ nuse' = nuse - Uncounted(dead)
    /\ CheckSizes(nuse', "end")
    /\ UNCHANGED <<GCthreshold, roots, rooted>>

EndGC ==
    /\ In("klispC_fullgc") /\ Top.phase = "end"
    /\ GCthreshold' = gcpause * totalbytes
    /\ calls' = Front(calls)
    /\ UNCHANGED <<heap, hash, nuse, roots, rooted>>

Next ==
    \/ \E a \in roots : Drop(a) \/ kcons(a)
    \/ \E c \in Contents : NewString(c)
    \/ \E kind \in NameKinds, c \in Contents, si \in roots \cup {None} :
         NewName(kind, c, si)
    \/ Collect
    \/ CollectFirst \/ Link \/ Return \/ ResizeTable
    \/ FinishSweep \/ MarkAndSweep \/ EndGC

Spec == Init /\ [][Next]_vars

-----------------------------------------------------------------------------
(***************************************************************************)
(* Properties.                                                             *)
(***************************************************************************)
Frames ==
    [fn : {"new"}, o : Objects, made : Addr \cup {None}, collected : BOOLEAN]
    \cup [fn : {"name"}, kind : NameKinds, content : Contents, si : Addr \cup {None}]
    \cup [fn : {"klispS_resize"}, newsize : Nat \ {0}, collected : BOOLEAN]
    \cup [fn : {"klispC_fullgc"}, phase : {"finish", "mark", "end"}]

\* Types; the counter of the table never wraps below zero and the table never
\* has less than its minimum of buckets.
TypeOK ==
    /\ heap \in [Addr -> Objects \cup {Free}]
    /\ size >= MINSTRTABSIZE /\ hash \in [0 .. size - 1 -> SUBSET Addr]
    /\ nuse \in Nat
    /\ GCthreshold \in Nat
    /\ \A i \in DOMAIN calls : calls[i] \in Frames
    /\ roots \subseteq Addr /\ rooted \subseteq Addr

\* What the C functions under way still use.
InUse ==
    roots \cup rooted
    \cup UNION {CASE calls[i].fn = "new" -> (Refs(calls[i].o) \cup {calls[i].made}) \ {None}
                  [] calls[i].fn = "name" -> {calls[i].si} \ {None}
                  [] OTHER -> {} : i \in DOMAIN calls}

Valid(a) ==
    /\ heap[a] # Free
    /\ heap[a].kind \in NameKinds =>
         /\ heap[a].ref \in Allocated
         /\ heap[heap[a].ref].kind = "string"
         /\ heap[heap[a].ref].content = heap[a].content

\* Nothing in use, by the program or by a constructor interrupted by any number
\* of collections, is freed, or freed and made something else; a name has the
\* string it was made with ("GC: assumes ... is rooted" all over the code).
NoDangling ==
    \A a \in Reachable(InUse) : a \in Allocated /\ Valid(a)

\* The table, through insertions, collections and the resizing by both, nested in
\* each other: what is interned is in the bucket where a search looks for it,
\* once, nothing else is, and nuse counts it; there are no more objects than
\* buckets once a constructor has returned.
TableOK ==
    /\ TypeOK
    /\ \A a \in Chained : a \in hash[Bucket(heap[a].kind, heap[a].content, size)]
    /\ \A i, j \in DOMAIN hash : i # j => hash[i] \cap hash[j] = {}
    /\ UNION {hash[i] : i \in DOMAIN hash} = Chained
    /\ \A a, b \in Chained :
         heap[a].kind = heap[b].kind /\ heap[a].content = heap[b].content => a = b
    /\ nuse = Cardinality(Chained)
    /\ Idle => nuse <= size

\* kmem.c: "prevent recursive call of klispC_fullgc()".
NoRecursiveGC ==
    \A i, j \in DOMAIN calls :
        calls[i].fn = "klispC_fullgc" /\ calls[j].fn = "klispC_fullgc" => i = j

=============================================================================
