------------------------------- MODULE KGCProofs -------------------------------
(***************************************************************************)
(* The collector frees nothing that is in use and the table of interned    *)
(* objects is what it should be, for any memory, hash function and depth   *)
(* of the C stack.                                                         *)
(***************************************************************************)
EXTENDS KGC, FiniteSetTheorems, TLAPS

-----------------------------------------------------------------------------
(***************************************************************************)
(* The inductive invariant.                                                *)
(***************************************************************************)
\* A constructor before and after it has its block.
Making(f) == f.fn = "new" /\ f.made = None
Made(f) == f.fn = "new" /\ f.made # None

\* Which function calls which: the only constructor that is called by another is
\* that of the string of a name, the collector is called before there is a block,
\* and the table is resized after that or by the collector.
CalledRightly(i) ==
    LET f == calls[i] IN
    /\ f.fn = "new" => \/ i = 1
                       \/ /\ i = 2 /\ calls[1].fn = "name"
                          /\ f.o = Object("string", calls[1].content, None, None)
    /\ f.fn = "name" => i = 1 /\ Len(calls) >= 2
    /\ f.fn = "klispS_resize" =>
         /\ i > 1
         /\ Made(calls[i-1]) \/ (calls[i-1].fn = "klispC_fullgc" /\ calls[i-1].phase # "finish")
    /\ f.fn = "klispC_fullgc" =>
         i = 1 \/ Making(calls[i-1]) \/ calls[i-1].fn = "klispS_resize"

StackOK == calls \in Seq(Frames) /\ \A i \in 1 .. Len(calls) : CalledRightly(i)

\* What may be made an object: a name has its string.
Sound(o) ==
    /\ Interned(o) => o.content \in Contents
    /\ o.kind \in NameKinds =>
         o.ref \in Allocated /\ heap[o.ref].kind = "string" /\ heap[o.ref].content = o.content

\* All objects are sound, the garbage that is not freed yet included.
HeapOK ==
    /\ heap \in [Addr -> Objects \cup {Free}]
    /\ \A a \in Allocated : Refs(heap[a]) \subseteq Allocated /\ Sound(heap[a])

RootsOK == roots \subseteq Allocated /\ rooted \subseteq Allocated

\* No interned object has this kind and content.
Absent(kind, content) ==
    \A a \in Chained : ~(heap[a].kind = kind /\ heap[a].content = content)

\* What a C function still uses is in a root, but for the object it has just made.
FrameOK(i) ==
    LET f == calls[i] IN
    /\ Making(f) => /\ Sound(f.o) /\ Refs(f.o) \subseteq roots \cup rooted
                    /\ Interned(f.o) => Absent(f.o.kind, f.o.content)
    /\ Made(f) => /\ f.made \in Allocated /\ heap[f.made] = f.o
                  /\ i < Len(calls) => f.made \in rooted
    /\ f.fn = "name" => /\ f.si \in roots \cup {None}
                        /\ f.si = None => Absent(f.kind, f.content)
    /\ f.fn = "klispS_resize" => f.newsize >= MINSTRTABSIZE /\ nuse <= f.newsize

FramesOK == \A i \in 1 .. Len(calls) : FrameOK(i)

HashType == size \in Nat /\ size >= MINSTRTABSIZE /\ hash \in [0 .. size - 1 -> SUBSET Addr]

\* What is interned is in the bucket where a search looks for it, and only there.
Places == \A a \in Addr : \A i \in 0 .. size - 1 :
            a \in hash[i] <=> a \in Chained /\ i = Bucket(heap[a].kind, heap[a].content, size)

Unique == \A a, b \in Chained :
            heap[a].kind = heap[b].kind /\ heap[a].content = heap[b].content => a = b

\* The table is too small only until the constructor's call of resize returns.
Roomy == nuse <= size \/ \E i \in 1 .. Len(calls) - 1 : Made(calls[i])

CountsOK == nuse = Cardinality(Chained) /\ GCthreshold \in Nat /\ Roomy

IInv ==
    /\ HeapOK /\ RootsOK /\ StackOK /\ FramesOK
    /\ HashType /\ Places /\ Unique /\ CountsOK

-----------------------------------------------------------------------------
(***************************************************************************)
(* The C stack as a sequence.                                              *)
(***************************************************************************)
LEMMA PopFacts ==
    ASSUME NEW S, NEW s \in Seq(S), s # <<>>
    PROVE  /\ Front(s) \in Seq(S) /\ Len(s) \in Nat \ {0} /\ Len(Front(s)) = Len(s) - 1
           /\ \A i \in 1 .. Len(s) - 1 : Front(s)[i] = s[i]
           /\ Last(s) = s[Len(s)] /\ Last(s) \in S
<1>1. Len(s) \in Nat \ {0} /\ \A i \in 1 .. Len(s) : s[i] \in S OBVIOUS
<1>2. Front(s) = [i \in 1 .. Len(s) - 1 |-> s[i]] BY <1>1 DEF Front
<1>3. Front(s) \in Seq(S) /\ Len(Front(s)) = Len(s) - 1 BY <1>1, <1>2
<1>4. Last(s) = s[Len(s)] BY DEF Last
<1>5. QED BY <1>1, <1>2, <1>3, <1>4

LEMMA PushFacts ==
    ASSUME NEW S, NEW s \in Seq(S), NEW f \in S
    PROVE  /\ Append(s, f) \in Seq(S) /\ Len(Append(s, f)) = Len(s) + 1
           /\ \A i \in 1 .. Len(s) : Append(s, f)[i] = s[i]
           /\ Append(s, f)[Len(s) + 1] = f
OBVIOUS

LEMMA ReplaceFacts ==
    ASSUME NEW S, NEW s \in Seq(S), NEW n \in 1 .. Len(s), NEW f \in S
    PROVE  /\ [s EXCEPT ![n] = f] \in Seq(S) /\ Len([s EXCEPT ![n] = f]) = Len(s)
           /\ \A i \in 1 .. Len(s) : [s EXCEPT ![n] = f][i] = IF i = n THEN f ELSE s[i]
<1> DEFINE u == [s EXCEPT ![n] = f]
<1>1. Len(s) \in Nat /\ s \in [1 .. Len(s) -> S] OBVIOUS
<1>2. u \in [1 .. Len(s) -> S] BY <1>1
<1>3. \A i \in 1 .. Len(s) : u[i] = IF i = n THEN f ELSE s[i] BY <1>1
<1> HIDE DEF u
<1>4. u \in Seq(S) /\ Len(u) = Len(s) BY <1>1, <1>2
<1>5. QED BY <1>3, <1>4 DEF u

\* The function at the top goes on, and perhaps calls another.
LEMMA GoOnFacts ==
    ASSUME NEW S, NEW s \in Seq(S), s # <<>>, NEW f \in S
    PROVE  LET t == Append(Front(s), f) IN
           /\ t \in Seq(S) /\ Len(t) = Len(s) /\ t[Len(s)] = f /\ t \o <<>> = t
           /\ \A i \in 1 .. Len(s) - 1 : t[i] = s[i]
<1> DEFINE t == Append(Front(s), f)
<1>1. /\ Front(s) \in Seq(S) /\ Len(s) \in Nat \ {0} /\ Len(Front(s)) = Len(s) - 1
      /\ \A i \in 1 .. Len(s) - 1 : Front(s)[i] = s[i]
  BY PopFacts
<1>2. /\ t \in Seq(S) /\ Len(t) = Len(s) /\ t[Len(s)] = f
      /\ \A i \in 1 .. Len(s) - 1 : t[i] = s[i]
  BY <1>1, PushFacts
<1> HIDE DEF t
<1>3. t \o <<>> = t BY <1>2
<1>4. QED BY <1>2, <1>3 DEF t

LEMMA GoOnAndCallFacts ==
    ASSUME NEW S, NEW s \in Seq(S), s # <<>>, NEW f \in S, NEW g \in S
    PROVE  LET u == Append(Front(s), f) \o <<g>> IN
           /\ u \in Seq(S) /\ Len(u) = Len(s) + 1 /\ u[Len(s)] = f /\ u[Len(s) + 1] = g
           /\ \A i \in 1 .. Len(s) - 1 : u[i] = s[i]
<1> DEFINE t == Append(Front(s), f)
           u == t \o <<g>>
<1>1. /\ t \in Seq(S) /\ Len(t) = Len(s) /\ t[Len(s)] = f
      /\ \A i \in 1 .. Len(s) - 1 : t[i] = s[i]
  BY GoOnFacts
<1>2. Len(s) \in Nat \ {0} BY PopFacts
<1> HIDE DEF t
<1>3. /\ u \in Seq(S) /\ Len(u) = Len(t) + 1 /\ u[Len(t) + 1] = g
      /\ \A i \in 1 .. Len(t) : u[i] = t[i]
  BY <1>1
<1> HIDE DEF u
<1>4. u[Len(s)] = f /\ \A i \in 1 .. Len(s) - 1 : u[i] = s[i] BY <1>1, <1>2, <1>3
<1>5. QED BY <1>1, <1>3, <1>4 DEF t, u

\* The kinds of frames.
LEMMA FrameKinds ==
    ASSUME NEW f \in Frames
    PROVE  /\ f.fn \in {"new", "name", "klispS_resize", "klispC_fullgc"}
           /\ f.fn = "new" => f \in [fn : {"new"}, o : Objects, made : Addr \cup {None},
                                     collected : BOOLEAN]
           /\ f.fn = "name" => f \in [fn : {"name"}, kind : NameKinds, content : Contents,
                                      si : Addr \cup {None}]
           /\ f.fn = "klispS_resize" => f \in [fn : {"klispS_resize"}, newsize : Nat \ {0},
                                              collected : BOOLEAN]
           /\ f.fn = "klispC_fullgc" => f \in [fn : {"klispC_fullgc"},
                                              phase : {"finish", "mark", "end"}]
BY DEF Frames

LEMMA NewFrames ==
    /\ \A o \in Objects : New(o) \in Frames
    /\ \A kind \in NameKinds, c \in Contents, si \in Addr \cup {None} :
         Name(kind, c, si) \in Frames
    /\ \A n \in Nat \ {0} : Resize(n) \in Frames
    /\ \A phase \in {"finish", "mark", "end"} : FullGC(phase) \in Frames
BY DEF New, Name, Resize, FullGC, Frames

-----------------------------------------------------------------------------
(***************************************************************************)
(* The table.                                                              *)
(***************************************************************************)
LEMMA BucketRange ==
    ASSUME NEW kind \in NameKinds \cup {"string"}, NEW c \in Contents, NEW n \in Nat \ {0}
    PROVE  Bucket(kind, c, n) \in 0 .. n - 1
<1>1. Hash(kind, c) \in Nat BY GCAssumption
<1>2. QED BY <1>1 DEF Bucket

\* The size of the table is the number of its buckets.
LEMMA SizeOfTable ==
    ASSUME NEW n \in Nat, NEW h, DOMAIN h = 0 .. n - 1
    PROVE  Cardinality(DOMAIN h) = n
<1>1. Cardinality(0 .. n - 1) = IF 0 > n - 1 THEN 0 ELSE n - 1 - 0 + 1 BY FS_Interval
<1>2. QED BY <1>1

LEMMA ChainedIsFinite ==
    HeapOK => IsFiniteSet(Chained) /\ IsFiniteSet(Allocated) /\ Chained \subseteq Addr
<1>1. Chained \in SUBSET Addr /\ Allocated \in SUBSET Addr BY DEF Chained, Allocated
<1>2. QED BY <1>1, FS_Subset, GCAssumption

\* A search finds what is interned.
LEMMA SearchFinds ==
    ASSUME IInv, NEW kind \in NameKinds \cup {"string"}, NEW c \in Contents
    PROVE  search(kind, c) = {a \in Chained : heap[a].kind = kind /\ heap[a].content = c}
<1>1. size \in Nat \ {0} /\ hash \in [0 .. size - 1 -> SUBSET Addr]
  BY GCAssumption DEF IInv, HashType
<1>2. Bucket(kind, c, size) \in 0 .. size - 1 BY <1>1, BucketRange
<1>3. \A a \in Addr : a \in hash[Bucket(kind, c, size)] <=>
         a \in Chained /\ Bucket(kind, c, size) = Bucket(heap[a].kind, heap[a].content, size)
  BY <1>2 DEF IInv, Places
<1>4. hash[Bucket(kind, c, size)] \subseteq Addr BY <1>1, <1>2
<1>5. Chained \subseteq Addr BY DEF Chained, Allocated
<1>6. QED BY <1>3, <1>4, <1>5 DEF search

-----------------------------------------------------------------------------
(***************************************************************************)
(* What a step does to the parts of the invariant.                         *)
(***************************************************************************)
TableOnly ==
    /\ HeapOK /\ HashType /\ Places /\ Unique
    /\ nuse = Cardinality(Chained) /\ GCthreshold \in Nat

\* A step that neither changes an object nor the table.
LEMMA TableUnchanged ==
    ASSUME IInv, UNCHANGED <<heap, hash, nuse, GCthreshold>>
    PROVE  TableOnly' /\ Allocated' = Allocated /\ Chained' = Chained /\ size' = size
<1>1. Allocated' = Allocated /\ size' = size BY DEF Allocated, size
<1>2. Chained' = Chained BY <1>1 DEF Chained
<1>3. HeapOK' BY <1>1 DEF IInv, HeapOK, Sound
<1>4. HashType' /\ Unique' BY <1>1, <1>2 DEF IInv, HashType, Unique
<1>5. Places' BY <1>1, <1>2 DEF IInv, Places, Bucket
<1>6. QED BY <1>1, <1>2, <1>3, <1>4, <1>5 DEF TableOnly, IInv, CountsOK

\* The program calls a C function f: the collector, or a constructor.
LEMMA FirstCall ==
    ASSUME IInv, Idle, UNCHANGED <<heap, hash, nuse, GCthreshold>>,
           NEW f \in Frames, calls' = <<f>>,
           roots' \subseteq Allocated, rooted' \subseteq Allocated,
           \/ f.fn = "klispC_fullgc"
           \/ /\ Making(f) /\ Sound(f.o) /\ Refs(f.o) \subseteq roots' \cup rooted'
              /\ Interned(f.o) => Absent(f.o.kind, f.o.content)
    PROVE  IInv'
<1>1. TableOnly' /\ Allocated' = Allocated /\ Chained' = Chained /\ size' = size
  BY TableUnchanged
<1>2. Len(calls') = 1 /\ calls'[1] = f /\ calls' \in Seq(Frames) OBVIOUS
<1>3. StackOK' BY <1>2 DEF StackOK, CalledRightly, Making
<1>4. FramesOK' BY <1>1, <1>2 DEF FramesOK, FrameOK, Making, Made, Sound, Absent
<1>5. Roomy' BY <1>1 DEF IInv, CountsOK, Roomy, Idle
<1>6. QED BY <1>1, <1>3, <1>4, <1>5 DEF IInv, TableOnly, CountsOK, RootsOK

LEMMA DropStep == ASSUME IInv, NEW a \in roots, Drop(a) PROVE IInv'
<1>1. TableOnly' /\ Allocated' = Allocated /\ Chained' = Chained /\ size' = size
  BY TableUnchanged DEF Drop
<1>2. calls = <<>> /\ calls' = <<>> BY DEF Drop, Idle
<1>3. StackOK' /\ FramesOK' BY <1>2 DEF StackOK, FramesOK
<1>4. Roomy' BY <1>1, <1>2 DEF IInv, CountsOK, Roomy, Drop
<1>5. QED BY <1>1, <1>3, <1>4 DEF IInv, TableOnly, CountsOK, RootsOK, Drop

LEMMA NewStringStep == ASSUME IInv, NEW c \in Contents, NewString(c) PROVE IInv'
<1> DEFINE o == Object("string", c, None, None)
           found == search("string", c)
<1>1. /\ Idle /\ UNCHANGED <<heap, hash, nuse, GCthreshold, rooted>>
      /\ roots' = roots \cup found
      /\ calls' = IF found # {} THEN <<>> ELSE <<New(o)>>
  BY DEF NewString
<1>2. found = {a \in Chained : heap[a].kind = "string" /\ heap[a].content = c}
  BY SearchFinds
<1>3. roots' \subseteq Allocated /\ rooted' \subseteq Allocated
  BY <1>1, <1>2 DEF IInv, RootsOK, Chained
<1>4. CASE found # {}
  <2>1. TableOnly' /\ Allocated' = Allocated /\ Chained' = Chained /\ size' = size
    BY <1>1, TableUnchanged
  <2>2. calls = <<>> /\ calls' = <<>> BY <1>1, <1>4 DEF Idle
  <2>3. StackOK' /\ FramesOK' BY <2>2 DEF StackOK, FramesOK
  <2>4. Roomy' BY <1>1, <2>1, <2>2 DEF IInv, CountsOK, Roomy
  <2>5. QED BY <1>3, <2>1, <2>3, <2>4 DEF IInv, TableOnly, CountsOK, RootsOK
<1>5. CASE found = {}
  <2>1. o \in Objects /\ Interned(o) /\ Refs(o) = {}
    BY DEF Objects, Object, Interned, Refs
  <2>2. New(o) \in Frames BY <2>1, NewFrames
  <2>3. Making(New(o)) /\ New(o).o = o BY DEF Making, New
  <2>4. Sound(o) /\ Absent(o.kind, o.content)
    BY <1>2, <1>5, GCAssumption DEF Sound, Absent, Object, Interned
  <2>5. QED BY <1>1, <1>3, <1>5, <2>1, <2>2, <2>3, <2>4, FirstCall
<1>6. QED BY <1>4, <1>5

LEMMA NewNameStep ==
    ASSUME IInv, NEW kind \in NameKinds, NEW c \in Contents, NEW si \in roots \cup {None},
           NewName(kind, c, si)
    PROVE  IInv'
<1> DEFINE found == IF si = None THEN search(kind, c) ELSE {}
           str   == search("string", c)
           s     == Object("string", c, None, None)
           o     == Object(kind, c, CHOOSE a \in str : TRUE, si)
<1>1. /\ Idle /\ UNCHANGED <<heap, hash, nuse, GCthreshold>>
      /\ roots' = roots \cup found
      /\ IF found # {} THEN UNCHANGED <<calls, rooted>>
         ELSE IF str # {} THEN calls' = <<New(o)>> /\ rooted' = str
         ELSE calls' = <<Name(kind, c, si), New(s)>> /\ UNCHANGED rooted
  BY DEF NewName
<1>2. /\ str = {a \in Chained : heap[a].kind = "string" /\ heap[a].content = c}
      /\ search(kind, c) = {a \in Chained : heap[a].kind = kind /\ heap[a].content = c}
  BY SearchFinds
<1>3. roots \subseteq Allocated /\ rooted \subseteq Allocated /\ Allocated \subseteq Addr
  BY DEF IInv, RootsOK, Allocated
<1>4. roots' \subseteq Allocated BY <1>1, <1>2, <1>3 DEF Chained
<1>5. found = {} => si # None \/ Absent(kind, c) BY <1>2 DEF Absent
<1> HIDE DEF found, str, s, o
<1>6. TableOnly' /\ Allocated' = Allocated /\ Chained' = Chained /\ size' = size
  BY <1>1, TableUnchanged
<1>7. CASE found # {}
  <2>1. calls = <<>> /\ calls' = <<>> /\ rooted' = rooted BY <1>1, <1>7 DEF Idle
  <2>2. StackOK' /\ FramesOK' BY <2>1 DEF StackOK, FramesOK
  <2>3. Roomy' BY <1>1, <1>6, <2>1 DEF IInv, CountsOK, Roomy
  <2>4. QED BY <1>3, <1>4, <1>6, <2>1, <2>2, <2>3 DEF IInv, TableOnly, CountsOK, RootsOK
<1>8. CASE found = {} /\ str # {}
  <2> DEFINE v == CHOOSE a \in str : TRUE
  <2>1. v \in str BY <1>8
  <2>2. /\ v \in Allocated /\ heap[v].kind = "string" /\ heap[v].content = c /\ v # None
        /\ str \subseteq Allocated
    BY <1>2, <1>3, <2>1, GCAssumption DEF Chained
  <2>3. /\ o.kind = kind /\ o.content = c /\ o.ref = v /\ o.si = si /\ o \in Objects
    BY <1>3, <2>2 DEF o, Object, Objects
  <2> HIDE DEF v
  <2>4. New(o) \in Frames /\ Making(New(o)) /\ New(o).o = o
    BY <2>3, NewFrames DEF Making, New
  <2>5. Sound(o) BY <2>2, <2>3 DEF Sound
  <2>6. Refs(o) \subseteq roots' \cup rooted' BY <1>1, <1>8, <2>1, <2>3 DEF Refs
  <2>7. Interned(o) => Absent(o.kind, o.content)
    BY <1>5, <1>8, <2>3, GCAssumption DEF Interned
  <2>8. QED BY <1>1, <1>4, <1>8, <2>2, <2>4, <2>5, <2>6, <2>7, FirstCall
<1>9. CASE found = {} /\ str = {}
  <2>1. s \in Objects /\ s.kind = "string" /\ s.content = c /\ Interned(s) /\ Refs(s) = {}
    BY DEF s, Objects, Object, Interned, Refs
  <2>2. Name(kind, c, si) \in Frames /\ New(s) \in Frames BY <1>3, <2>1, NewFrames
  <2>3. /\ calls' \in Seq(Frames) /\ Len(calls') = 2
        /\ calls'[1] = Name(kind, c, si) /\ calls'[2] = New(s) /\ rooted' = rooted
    <3>1. calls' = <<Name(kind, c, si), New(s)>> /\ rooted' = rooted BY <1>1, <1>9
    <3>2. \A f, g \in Frames : /\ <<f, g>> \in Seq(Frames) /\ Len(<<f, g>>) = 2
                              /\ <<f, g>>[1] = f /\ <<f, g>>[2] = g
      OBVIOUS
    <3>3. QED BY <2>2, <3>1, <3>2
  <2>4. StackOK' BY <2>3 DEF StackOK, CalledRightly, Name, New, s
  <2>5. Absent("string", c) BY <1>2, <1>9 DEF Absent
  <2>6. FrameOK(1)'
    BY <1>1, <1>5, <1>6, <1>9, <2>3 DEF FrameOK, Making, Made, Name, Absent
  <2>7. FrameOK(2)'
    <3>1. New(s).fn = "new" /\ New(s).o = s /\ New(s).made = None BY DEF New
    <3>2. Sound(s) BY <2>1, GCAssumption DEF Sound
    <3>3. Sound(s)' /\ Absent("string", c)' BY <1>1, <1>6, <2>5, <3>2 DEF Sound, Absent, s
    <3>4. QED BY <2>1, <2>3, <3>1, <3>3 DEF FrameOK, Making, Made
  <2>8. FramesOK' BY <2>3, <2>6, <2>7 DEF FramesOK
  <2>9. Roomy' BY <1>1, <1>6 DEF IInv, CountsOK, Roomy, Idle
  <2>10. QED BY <1>3, <1>4, <1>6, <2>3, <2>4, <2>8, <2>9 DEF IInv, TableOnly, CountsOK, RootsOK
<1>10. QED BY <1>7, <1>8, <1>9

LEMMA kconsStep == ASSUME IInv, NEW a \in roots, kcons(a) PROVE IInv'
<1> DEFINE o == Object("pair", None, a, None)
<1>1. /\ Idle /\ UNCHANGED <<heap, hash, nuse, GCthreshold, roots, rooted>>
      /\ calls' = <<New(o)>>
  BY DEF kcons
<1>2. roots \subseteq Allocated /\ rooted \subseteq Allocated /\ Allocated \subseteq Addr
  BY DEF IInv, RootsOK, Allocated
<1>3. o \in Objects /\ ~Interned(o) /\ Refs(o) \subseteq {a}
  BY <1>2, GCAssumption DEF Objects, Object, Interned, Refs
<1>4. New(o) \in Frames BY <1>3, NewFrames
<1>5. Making(New(o)) /\ New(o).o = o BY DEF Making, New
<1>6. Sound(o) BY <1>3, GCAssumption DEF Sound, Object
<1>7. QED BY <1>1, <1>2, <1>3, <1>4, <1>5, <1>6, FirstCall

LEMMA CollectStep == ASSUME IInv, Collect PROVE IInv'
<1>1. /\ Idle /\ UNCHANGED <<heap, hash, nuse, GCthreshold, roots, rooted>>
      /\ calls' = <<FullGC("finish")>>
  BY DEF Collect
<1>2. roots \subseteq Allocated /\ rooted \subseteq Allocated BY DEF IInv, RootsOK
<1>3. FullGC("finish") \in Frames /\ FullGC("finish").fn = "klispC_fullgc"
  BY NewFrames DEF FullGC
<1>4. QED BY <1>1, <1>2, <1>3, FirstCall

-----------------------------------------------------------------------------
(***************************************************************************)
(* Steps of the C function at the top of the stack.                        *)
(***************************************************************************)
LEMMA TopOfStack ==
    ASSUME IInv, calls # <<>>
    PROVE  /\ Len(calls) \in Nat \ {0} /\ calls \in Seq(Frames)
           /\ Top = calls[Len(calls)] /\ Top \in Frames
           /\ CalledRightly(Len(calls)) /\ FrameOK(Len(calls))
<1>1. calls \in Seq(Frames) BY DEF IInv, StackOK
<1>2. Len(calls) \in Nat \ {0} /\ Top = calls[Len(calls)] /\ Top \in Frames
  BY <1>1, PopFacts DEF Top
<1>3. QED BY <1>1, <1>2 DEF IInv, StackOK, FramesOK

\* The functions below the top are called as before.
LEMMA LowerCalls ==
    ASSUME IInv, calls # <<>>, calls' \in Seq(Frames),
           \A i \in 1 .. Len(calls) - 1 : calls'[i] = calls[i],
           NEW i \in 1 .. Len(calls) - 1, Len(calls') >= 2 \/ calls[i].fn # "name"
    PROVE  CalledRightly(i)'
<1>1. Len(calls) \in Nat \ {0} BY TopOfStack
<1>2. i \in 1 .. Len(calls) /\ CalledRightly(i) BY <1>1 DEF IInv, StackOK
<1>3. calls'[i] = calls[i] /\ calls'[1] = calls[1] /\ (i > 1 => calls'[i-1] = calls[i-1])
  BY <1>1
<1>4. QED BY <1>2, <1>3 DEF CalledRightly, Making, Made

LEMMA TopStep ==
    ASSUME IInv, calls # <<>>, calls' \in Seq(Frames),
           Len(calls') \in {Len(calls), Len(calls) + 1},
           \A i \in 1 .. Len(calls) - 1 : calls'[i] = calls[i],
           \A i \in Len(calls) .. Len(calls') : CalledRightly(i)'
    PROVE  StackOK' /\ ((\E i \in 1 .. Len(calls) - 1 : Made(calls[i]))
                           => \E i \in 1 .. Len(calls') - 1 : Made(calls'[i]))
<1>1. Len(calls) \in Nat \ {0} BY TopOfStack
<1>2. ASSUME NEW i \in 1 .. Len(calls) - 1 PROVE CalledRightly(i)'
  <2>1. Len(calls') >= 2 BY <1>1
  <2>2. QED BY <2>1, LowerCalls
<1>3. \A i \in 1 .. Len(calls') : CalledRightly(i)' BY <1>1, <1>2
<1>4. StackOK' BY <1>3 DEF StackOK
<1>5. QED BY <1>1, <1>4

\* One that neither changes an object, nor the table, nor the roots.
LEMMA QuietTopStep ==
    ASSUME IInv, calls # <<>>, UNCHANGED <<heap, hash, nuse, GCthreshold, roots, rooted>>,
           calls' \in Seq(Frames), Len(calls') \in {Len(calls), Len(calls) + 1},
           \A i \in 1 .. Len(calls) - 1 : calls'[i] = calls[i],
           \A i \in Len(calls) .. Len(calls') : CalledRightly(i)' /\ FrameOK(i)'
    PROVE  IInv'
<1>1. Len(calls) \in Nat \ {0} BY TopOfStack
<1>2. TableOnly' /\ Allocated' = Allocated /\ Chained' = Chained /\ size' = size
  BY TableUnchanged
<1>3. StackOK' /\ ((\E i \in 1 .. Len(calls) - 1 : Made(calls[i]))
                      => \E i \in 1 .. Len(calls') - 1 : Made(calls'[i]))
  BY TopStep
<1>4. ASSUME NEW i \in 1 .. Len(calls) - 1 PROVE FrameOK(i)'
  <2>1. FrameOK(i) /\ calls'[i] = calls[i] BY <1>1 DEF IInv, FramesOK
  <2>2. i < Len(calls) BY <1>1
  <2>3. QED BY <1>2, <2>1, <2>2 DEF FrameOK, Sound, Absent
<1>5. FramesOK' BY <1>1, <1>4 DEF FramesOK
<1>6. Roomy' BY <1>2, <1>3 DEF IInv, CountsOK, Roomy
<1>7. QED BY <1>2, <1>3, <1>5, <1>6 DEF IInv, TableOnly, CountsOK, RootsOK

LEMMA CollectFirstStep == ASSUME IInv, CollectFirst PROVE IInv'
<1>n. PICK n : n = Len(calls) OBVIOUS
<1> DEFINE f == [Top EXCEPT !.collected = TRUE]
           g == FullGC("finish")
<1>1. /\ calls # <<>> /\ (Making(Top) \/ Top.fn = "klispS_resize")
      /\ calls' = Append([calls EXCEPT ![n].collected = TRUE], g)
      /\ UNCHANGED <<heap, hash, nuse, GCthreshold, roots, rooted>>
  BY <1>n DEF CollectFirst, Allocating, In, Making
<1>2. /\ n \in Nat \ {0} /\ calls \in Seq(Frames) /\ Top = calls[n] /\ Top \in Frames
      /\ CalledRightly(n) /\ FrameOK(n)
  BY <1>n, <1>1, TopOfStack
<1>3. /\ f \in Frames /\ f.fn = Top.fn
      /\ Making(Top) => Making(f) /\ f.o = Top.o /\ ~Made(f)
      /\ Top.fn = "klispS_resize" => f.newsize = Top.newsize
  <2>1. CASE Making(Top)
    <3>1. Top \in [fn : {"new"}, o : Objects, made : Addr \cup {None}, collected : BOOLEAN]
      BY <1>2, <2>1, FrameKinds DEF Making
    <3>2. QED BY <2>1, <3>1 DEF Making, Made, Frames
  <2>2. CASE Top.fn = "klispS_resize"
    <3>1. Top \in [fn : {"klispS_resize"}, newsize : Nat \ {0}, collected : BOOLEAN]
      BY <1>2, <2>2, FrameKinds
    <3>2. QED BY <2>2, <3>1 DEF Making, Made, Frames
  <2>3. QED BY <1>1, <2>1, <2>2
<1>4. g \in Frames /\ g.fn = "klispC_fullgc" BY NewFrames DEF FullGC
<1> HIDE DEF f, g
<1>5. /\ calls' \in Seq(Frames) /\ Len(calls') = n + 1
      /\ \A i \in 1 .. n - 1 : calls'[i] = calls[i]
      /\ calls'[n] = f /\ calls'[n + 1] = g
  <2>1. [calls EXCEPT ![n].collected = TRUE] = [calls EXCEPT ![n] = f]
    BY <1>2 DEF f
  <2>2. /\ [calls EXCEPT ![n] = f] \in Seq(Frames) /\ Len([calls EXCEPT ![n] = f]) = n
        /\ \A i \in 1 .. n - 1 : [calls EXCEPT ![n] = f][i] = calls[i]
        /\ [calls EXCEPT ![n] = f][n] = f
    BY <1>n, <1>2, <1>3, ReplaceFacts
  <2>3. calls' = Append([calls EXCEPT ![n] = f], g) BY <1>1, <2>1
  <2>4. /\ calls' \in Seq(Frames) /\ Len(calls') = n + 1 /\ calls'[n + 1] = g
        /\ \A i \in 1 .. n : calls'[i] = [calls EXCEPT ![n] = f][i]
    BY <1>4, <2>2, <2>3, PushFacts
  <2>5. QED BY <1>2, <2>2, <2>4
<1>6. CalledRightly(n)'
  BY <1>1, <1>2, <1>3, <1>5 DEF CalledRightly, Making, Made
<1>7. CalledRightly(n + 1)'
  <2>1. Making(calls'[n]) \/ calls'[n].fn = "klispS_resize" BY <1>1, <1>3, <1>5
  <2>2. n + 1 - 1 = n BY <1>2
  <2>3. QED BY <1>2, <1>4, <1>5, <2>1, <2>2 DEF CalledRightly, Making
<1>8. Allocated' = Allocated /\ Chained' = Chained BY <1>1, TableUnchanged
<1>9. FrameOK(n)' BY <1>1, <1>2, <1>3, <1>5, <1>8 DEF FrameOK, Making, Made, Sound, Absent
<1>10. FrameOK(n + 1)' BY <1>4, <1>5 DEF FrameOK, Making, Made
<1>11. QED BY <1>1, <1>2, <1>5, <1>6, <1>7, <1>9, <1>10, <1>n, QuietTopStep

\* checkSizes, of a table with m objects: the collector goes on with a phase, and the
\* table it may shrink has room for them.
LEMMA CheckSizesCalls ==
    ASSUME IInv, In("klispC_fullgc"), NEW n, n = Len(calls), NEW m \in Nat,
           NEW phase \in {"mark", "end"}, CheckSizes(m, phase)
    PROVE  /\ calls' \in Seq(Frames) /\ Len(calls') \in {n, n + 1}
           /\ \A i \in 1 .. n - 1 : calls'[i] = calls[i]
           /\ \A i \in n .. Len(calls') : CalledRightly(i)'
           /\ calls'[n] = FullGC(phase)
           /\ Len(calls') = n + 1 =>
                \E k \in Nat : calls'[n + 1] = Resize(k) /\ k >= MINSTRTABSIZE /\ k >= m
<1> DEFINE f == FullGC(phase)
           k == size \div 2
           g == Resize(k)
<1>n. n = Len(calls) OBVIOUS
<1>1. calls # <<>> /\ Top.fn = "klispC_fullgc" BY DEF In
<1>2. /\ n \in Nat \ {0} /\ calls \in Seq(Frames) /\ Top = calls[n] /\ Top \in Frames
      /\ CalledRightly(n) /\ FrameOK(n)
  BY <1>1, TopOfStack
<1>3. f \in Frames /\ f.fn = "klispC_fullgc" /\ f.phase = phase BY NewFrames DEF FullGC
<1>4. size \in Nat /\ MINSTRTABSIZE \in Nat \ {0} BY GCAssumption DEF IInv, HashType
<1>5. m < size \div 4 /\ size > 2 * MINSTRTABSIZE => k >= MINSTRTABSIZE /\ k >= m
  BY <1>4
<1>6. k \in Nat BY <1>4
<1>7. /\ calls' = Append(Front(calls), f) \o <<>>
         \/ (calls' = Append(Front(calls), f) \o <<g>> /\ k >= MINSTRTABSIZE /\ k >= m)
  BY <1>5 DEF CheckSizes
<1>8. k >= MINSTRTABSIZE => g \in Frames BY <1>4, <1>6, NewFrames
<1>9. g.fn = "klispS_resize" BY DEF Resize
<1> HIDE DEF f, k
<1>10. CASE calls' = Append(Front(calls), f) \o <<>>
  <2>1. /\ calls' \in Seq(Frames) /\ Len(calls') = n /\ calls'[n] = f
        /\ \A i \in 1 .. n - 1 : calls'[i] = calls[i]
    BY <1>1, <1>2, <1>3, <1>10, <1>n, GoOnFacts
  <2>2. CalledRightly(n)' BY <1>1, <1>2, <1>3, <2>1 DEF CalledRightly, Making
  <2>3. QED BY <1>2, <2>1, <2>2 DEF f
<1>11. CASE /\ calls' = Append(Front(calls), f) \o <<g>>
            /\ k >= MINSTRTABSIZE /\ k >= m
  <2>0. g \in Frames BY <1>8, <1>11
  <2> HIDE DEF g
  <2>1. /\ calls' \in Seq(Frames) /\ Len(calls') = n + 1 /\ calls'[n] = f
        /\ calls'[n + 1] = g
        /\ \A i \in 1 .. n - 1 : calls'[i] = calls[i]
    BY <1>1, <1>2, <1>3, <1>11, <1>n, <2>0, GoOnAndCallFacts
  <2>2. CalledRightly(n)' BY <1>1, <1>2, <1>3, <2>1 DEF CalledRightly, Making
  <2>3. CalledRightly(n + 1)'
    <3>1. n + 1 - 1 = n BY <1>2
    <3>2. QED BY <1>2, <1>3, <1>9, <2>1, <3>1 DEF CalledRightly
  <2>4. \A i \in n .. n + 1 : CalledRightly(i)' BY <1>2, <2>2, <2>3
  <2>5. QED BY <1>2, <1>6, <1>11, <2>1, <2>4 DEF f, g
<1>12. QED BY <1>7, <1>10, <1>11

LEMMA FinishSweepStep == ASSUME IInv, FinishSweep PROVE IInv'
<1>n. PICK n : n = Len(calls) OBVIOUS
<1>1. In("klispC_fullgc") /\ CheckSizes(nuse, "mark") /\ calls # <<>>
      /\ UNCHANGED <<heap, hash, nuse, GCthreshold, roots, rooted>>
  BY DEF FinishSweep, In
<1>2. n \in Nat \ {0} BY <1>n, <1>1, TopOfStack
<1>3. nuse \in Nat BY ChainedIsFinite, FS_CardinalityType DEF IInv, CountsOK
<1>4. /\ calls' \in Seq(Frames) /\ Len(calls') \in {n, n + 1}
      /\ \A i \in 1 .. n - 1 : calls'[i] = calls[i]
      /\ \A i \in n .. Len(calls') : CalledRightly(i)'
      /\ calls'[n] = FullGC("mark")
      /\ Len(calls') = n + 1 =>
           \E k \in Nat : calls'[n + 1] = Resize(k) /\ k >= MINSTRTABSIZE /\ k >= nuse
  BY <1>n, <1>1, <1>3, CheckSizesCalls
<1>5. FrameOK(n)' BY <1>4 DEF FrameOK, FullGC, Making, Made
<1>6. ASSUME Len(calls') = n + 1 PROVE FrameOK(n + 1)'
  <2>1. PICK k \in Nat : calls'[n + 1] = Resize(k) /\ k >= MINSTRTABSIZE /\ k >= nuse
    BY <1>4, <1>6
  <2>2. Resize(k).fn = "klispS_resize" /\ Resize(k).newsize = k BY DEF Resize
  <2>3. QED BY <1>1, <1>3, <2>1, <2>2 DEF FrameOK, Making, Made
<1>7. \A i \in n .. Len(calls') : FrameOK(i)' BY <1>2, <1>4, <1>5, <1>6
<1>8. QED BY <1>n, <1>1, <1>4, <1>7, QuietTopStep

LEMMA ResizeTableStep == ASSUME IInv, ResizeTable PROVE IInv'
<1>n. PICK n : n = Len(calls) OBVIOUS
<1> DEFINE m == Top.newsize
<1>1. /\ calls # <<>> /\ Top.fn = "klispS_resize"
      /\ hash' = rehash(m) /\ calls' = Front(calls)
      /\ UNCHANGED <<heap, nuse, GCthreshold, roots, rooted>>
  BY DEF ResizeTable, Allocating, In
<1>2. /\ n \in Nat \ {0} /\ calls \in Seq(Frames) /\ Top = calls[n] /\ Top \in Frames
      /\ CalledRightly(n) /\ FrameOK(n)
  BY <1>n, <1>1, TopOfStack
<1>3. m \in Nat \ {0} /\ m >= MINSTRTABSIZE /\ nuse <= m
  BY <1>1, <1>2, FrameKinds DEF FrameOK
<1>4. /\ calls' \in Seq(Frames) /\ Len(calls') = n - 1
      /\ \A i \in 1 .. n - 1 : calls'[i] = calls[i]
  BY <1>n, <1>1, <1>2, PopFacts
<1>5. n > 1 /\ (Made(calls[n-1]) \/ calls[n-1].fn = "klispC_fullgc")
  BY <1>1, <1>2 DEF CalledRightly
<1> HIDE DEF m
<1>6. Allocated' = Allocated /\ Chained' = Chained BY <1>1 DEF Allocated, Chained
<1>7. size' = m /\ hash' \in [0 .. m - 1 -> SUBSET Addr]
  <2>1. DOMAIN hash' = 0 .. m - 1 BY <1>1 DEF rehash
  <2>2. size' = m BY <1>3, <2>1, SizeOfTable DEF size
  <2>3. hash \in [0 .. size - 1 -> SUBSET Addr] BY DEF IInv, HashType
  <2>4. UNION {hash[j] : j \in DOMAIN hash} \subseteq Addr BY <2>3
  <2>5. QED BY <1>1, <2>2, <2>4 DEF rehash
<1>8. \A a \in Addr : (\E j \in DOMAIN hash : a \in hash[j]) <=> a \in Chained
  <2>1. ASSUME NEW a \in Chained PROVE \E j \in DOMAIN hash : a \in hash[j]
    <3>1. /\ heap[a].kind \in NameKinds \cup {"string"} /\ heap[a].content \in Contents
          /\ a \in Addr
      BY DEF Chained, Allocated, Interned, IInv, HeapOK, Sound
    <3>2. size \in Nat \ {0} /\ DOMAIN hash = 0 .. size - 1
      BY GCAssumption DEF IInv, HashType
    <3>3. Bucket(heap[a].kind, heap[a].content, size) \in 0 .. size - 1
      BY <3>1, <3>2, BucketRange
    <3>4. QED BY <3>1, <3>2, <3>3 DEF IInv, Places
  <2>2. DOMAIN hash = 0 .. size - 1 BY DEF IInv, HashType
  <2>3. QED BY <2>1, <2>2 DEF IInv, Places
<1>9. Places'
  BY <1>1, <1>6, <1>7, <1>8 DEF Places, rehash, Bucket
<1>10. HashType' /\ HeapOK' /\ Unique' /\ RootsOK'
  BY <1>1, <1>3, <1>6, <1>7
     DEF IInv, HashType, HeapOK, Sound, Unique, RootsOK
<1>11. CountsOK' BY <1>1, <1>3, <1>6, <1>7 DEF IInv, CountsOK, Roomy
<1>12. ASSUME NEW i \in 1 .. n - 1 PROVE CalledRightly(i)' /\ FrameOK(i)'
  <2>1. FrameOK(i) /\ CalledRightly(i) /\ calls'[i] = calls[i]
    BY <1>n, <1>2, <1>4 DEF IInv, FramesOK, StackOK
  <2>2. Len(calls') >= 2 \/ calls[i].fn # "name"
    BY <1>2, <1>4, <1>5, <2>1 DEF CalledRightly, Made
  <2>3. CalledRightly(i)' BY <1>n, <1>1, <1>4, <2>2, LowerCalls
  <2>4. FrameOK(i)' BY <1>n, <1>1, <1>2, <1>4, <1>6, <2>1 DEF FrameOK, Sound, Absent
  <2>5. QED BY <2>3, <2>4
<1>13. StackOK' /\ FramesOK' BY <1>4, <1>12 DEF StackOK, FramesOK
<1>14. QED BY <1>9, <1>10, <1>11, <1>13 DEF IInv

LEMMA EndGCStep == ASSUME IInv, EndGC PROVE IInv'
<1>n. PICK n : n = Len(calls) OBVIOUS
<1>1. /\ calls # <<>> /\ Top.fn = "klispC_fullgc"
      /\ GCthreshold' = gcpause * totalbytes /\ calls' = Front(calls)
      /\ UNCHANGED <<heap, hash, nuse, roots, rooted>>
  BY DEF EndGC, In
<1>2. /\ n \in Nat \ {0} /\ calls \in Seq(Frames) /\ Top = calls[n] /\ Top \in Frames
      /\ CalledRightly(n) /\ FrameOK(n)
  BY <1>n, <1>1, TopOfStack
<1>3. /\ calls' \in Seq(Frames) /\ Len(calls') = n - 1
      /\ \A i \in 1 .. n - 1 : calls'[i] = calls[i]
  BY <1>n, <1>1, <1>2, PopFacts
<1>4. n = 1 \/ Making(calls[n-1]) \/ calls[n-1].fn = "klispS_resize"
  BY <1>1, <1>2 DEF CalledRightly
<1>5. Allocated' = Allocated /\ Chained' = Chained /\ size' = size
  BY <1>1 DEF Allocated, Chained, size
<1>6. HashType' /\ HeapOK' /\ Unique' /\ RootsOK' /\ Places'
  BY <1>1, <1>5 DEF IInv, HashType, HeapOK, Sound, Unique, RootsOK, Places, Bucket
<1>7. GCthreshold' \in Nat
  <2>1. size \in Nat /\ Cardinality(Allocated) \in Nat
    BY ChainedIsFinite, FS_CardinalityType DEF IInv, HashType
  <2>2. totalbytes \in Nat /\ gcpause \in Nat BY <2>1, GCAssumption DEF totalbytes
  <2>3. QED BY <1>1, <2>2
<1>8. Roomy'
  <2>1. ASSUME NEW i \in 1 .. n - 1, Made(calls[i]) PROVE i \in 1 .. n - 2
    BY <1>2, <1>4, <2>1 DEF Making, Made
  <2>2. QED BY <1>n, <1>1, <1>2, <1>3, <1>5, <2>1 DEF IInv, CountsOK, Roomy
<1>9. CountsOK' BY <1>1, <1>5, <1>7, <1>8 DEF IInv, CountsOK
<1>10. ASSUME NEW i \in 1 .. n - 1 PROVE CalledRightly(i)' /\ FrameOK(i)'
  <2>1. FrameOK(i) /\ CalledRightly(i) /\ calls'[i] = calls[i]
    BY <1>n, <1>2, <1>3 DEF IInv, FramesOK, StackOK
  <2>2. Len(calls') >= 2 \/ calls[i].fn # "name"
    BY <1>2, <1>3, <1>4, <2>1 DEF CalledRightly, Making
  <2>3. CalledRightly(i)' BY <1>n, <1>1, <1>3, <2>2, LowerCalls
  <2>4. FrameOK(i)' BY <1>n, <1>1, <1>2, <1>3, <1>5, <2>1 DEF FrameOK, Sound, Absent
  <2>5. QED BY <2>3, <2>4
<1>11. StackOK' /\ FramesOK' BY <1>3, <1>10 DEF StackOK, FramesOK
<1>12. QED BY <1>6, <1>9, <1>11 DEF IInv

-----------------------------------------------------------------------------
(***************************************************************************)
(* Marking and sweeping.                                                   *)
(***************************************************************************)
\* What is reachable is the least closed set.
LEMMA ReachableIsClosed ==
    ASSUME HeapOK, NEW from \in SUBSET Addr
    PROVE  /\ from \subseteq Reachable(from) /\ Reachable(from) \subseteq Addr
           /\ \A a \in Reachable(from) \cap Allocated : Refs(heap[a]) \subseteq Reachable(from)
<1>1. from \subseteq Reachable(from) /\ Reachable(from) \subseteq Addr BY DEF Reachable
<1>2. ASSUME NEW a \in Reachable(from) \cap Allocated, NEW b \in Refs(heap[a])
      PROVE  b \in Reachable(from)
  <2>1. b \in Addr BY DEF HeapOK, Allocated
  <2>2. ASSUME NEW S \in SUBSET Addr, from \subseteq S, Closed(S) PROVE b \in S
    <3>1. a \in S BY <1>2, <2>2 DEF Reachable
    <3>2. QED BY <1>2, <2>2, <3>1 DEF Closed
  <2>3. QED BY <2>1, <2>2 DEF Reachable
<1>3. QED BY <1>1, <1>2

LEMMA ReachableIsLeast ==
    ASSUME NEW from, NEW S \in SUBSET Addr, from \subseteq S, Closed(S)
    PROVE  Reachable(from) \subseteq S
BY DEF Reachable

LEMMA MarkAndSweepStep == ASSUME IInv, MarkAndSweep PROVE IInv'
<1>n. PICK n : n = Len(calls) OBVIOUS
<1> DEFINE live == Reachable(roots \cup rooted)
           dead == Allocated \ live
<1>1. /\ In("klispC_fullgc") /\ calls # <<>> /\ Top.fn = "klispC_fullgc"
      /\ heap' = [a \in Addr |-> IF a \in dead THEN Free ELSE heap[a]]
      /\ hash' = [i \in DOMAIN hash |-> hash[i] \ dead]
      /\ nuse' = nuse - Uncounted(dead)
      /\ CheckSizes(nuse', "end")
      /\ UNCHANGED <<GCthreshold, roots, rooted>>
  BY DEF MarkAndSweep, In
<1>2. /\ n \in Nat \ {0} /\ calls \in Seq(Frames) /\ Top = calls[n] /\ Top \in Frames
      /\ CalledRightly(n) /\ FrameOK(n)
  BY <1>n, <1>1, TopOfStack
<1>3. roots \subseteq Allocated /\ rooted \subseteq Allocated /\ Allocated \subseteq Addr
  BY DEF IInv, RootsOK, Allocated
<1>4. /\ roots \cup rooted \subseteq live
      /\ \A a \in live \cap Allocated : Refs(heap[a]) \subseteq live
  BY <1>3, ReachableIsClosed DEF IInv
<1> HIDE DEF live
<1>5. /\ Allocated' = Allocated \cap live /\ \A a \in Allocated' : heap'[a] = heap[a]
  BY <1>1, <1>3 DEF Allocated
<1>6. Chained' = Chained \ dead BY <1>5 DEF Chained
<1>7. HeapOK'
  <2>1. heap' \in [Addr -> Objects \cup {Free}] BY <1>1 DEF IInv, HeapOK
  <2>2. ASSUME NEW a \in Allocated' PROVE Refs(heap'[a]) \subseteq Allocated' /\ Sound(heap[a])'
    <3>1. a \in Allocated \cap live /\ heap'[a] = heap[a] BY <1>5
    <3>2. Refs(heap[a]) \subseteq Allocated \cap live /\ Sound(heap[a])
      BY <1>4, <3>1 DEF IInv, HeapOK
    <3>3. heap[a].kind \in NameKinds => heap[a].ref \in Refs(heap[a])
      BY <1>3, <3>2, GCAssumption DEF Sound, Refs
    <3>4. QED BY <1>5, <3>1, <3>2, <3>3 DEF Sound
  <2>3. QED BY <2>1, <2>2 DEF HeapOK
<1>8. RootsOK' BY <1>1, <1>3, <1>4, <1>5 DEF RootsOK
<1>9. /\ size \in Nat /\ DOMAIN hash' = 0 .. size - 1 /\ size' = size /\ HashType'
  <2>1. size \in Nat /\ DOMAIN hash = 0 .. size - 1 /\ hash \in [0 .. size - 1 -> SUBSET Addr]
    BY DEF IInv, HashType
  <2>2. DOMAIN hash' = 0 .. size - 1 /\ hash' \in [0 .. size - 1 -> SUBSET Addr] BY <1>1, <2>1
  <2>3. size' = size BY <2>1, <2>2, SizeOfTable DEF size
  <2>4. QED BY <2>1, <2>2, <2>3 DEF IInv, HashType
<1>10. Places'
  <2>1. ASSUME NEW a \in Addr, NEW i \in 0 .. size - 1
        PROVE  a \in hash'[i] <=>
                 a \in Chained' /\ i = Bucket(heap'[a].kind, heap'[a].content, size)
    <3>1. a \in hash[i] <=> a \in Chained /\ i = Bucket(heap[a].kind, heap[a].content, size)
      BY DEF IInv, Places
    <3>2. hash'[i] = hash[i] \ dead BY <1>1, <1>9
    <3>3. a \in Chained' => heap'[a] = heap[a] BY <1>5 DEF Chained
    <3>4. QED BY <1>6, <3>1, <3>2, <3>3
  <2>2. QED BY <1>9, <2>1 DEF Places, Bucket
<1>11. Unique'
  <2>1. \A a \in Chained' : a \in Chained /\ heap'[a] = heap[a] BY <1>5, <1>6 DEF Chained
  <2>2. QED BY <2>1 DEF IInv, Unique
<1>12. nuse' = Cardinality(Chained') /\ nuse' \in Nat /\ nuse \in Nat /\ nuse' <= nuse
  <2>1. IsFiniteSet(Chained) /\ nuse = Cardinality(Chained)
    BY ChainedIsFinite DEF IInv, CountsOK
  <2>2. {a \in dead : Interned(heap[a])} = Chained \cap dead BY DEF Chained
  <2>3. Uncounted(dead) = Cardinality(Chained \cap dead) BY <2>2 DEF Uncounted
  <2>4. /\ Cardinality(Chained \ dead) = Cardinality(Chained) - Cardinality(Chained \cap dead)
        /\ IsFiniteSet(Chained \ dead) /\ IsFiniteSet(Chained \cap dead)
    BY <2>1, FS_Difference, FS_Intersection
  <2>5. /\ Cardinality(Chained) \in Nat /\ Cardinality(Chained \ dead) \in Nat
        /\ Cardinality(Chained \cap dead) \in Nat
    BY <2>1, <2>4, FS_CardinalityType
  <2>6. QED BY <1>1, <1>6, <2>1, <2>3, <2>4, <2>5
<1> HIDE DEF dead
<1>13. /\ calls' \in Seq(Frames) /\ Len(calls') \in {n, n + 1}
       /\ \A i \in 1 .. n - 1 : calls'[i] = calls[i]
       /\ \A i \in n .. Len(calls') : CalledRightly(i)'
       /\ calls'[n] = FullGC("end")
       /\ Len(calls') = n + 1 =>
            \E k \in Nat : calls'[n + 1] = Resize(k) /\ k >= MINSTRTABSIZE /\ k >= nuse'
  BY <1>n, <1>1, <1>12, CheckSizesCalls
<1>14. StackOK' /\ ((\E i \in 1 .. n - 1 : Made(calls[i]))
                       => \E i \in 1 .. Len(calls') - 1 : Made(calls'[i]))
  BY <1>n, <1>1, <1>13, TopStep
<1>15. CountsOK'
  <2>1. Roomy' BY <1>n, <1>9, <1>12, <1>14 DEF IInv, CountsOK, Roomy
  <2>2. QED BY <1>1, <1>12, <2>1 DEF IInv, CountsOK
<1>16. ASSUME NEW i \in 1 .. n - 1 PROVE FrameOK(i)'
  <2>1. FrameOK(i) /\ calls'[i] = calls[i] /\ i < Len(calls)
    BY <1>n, <1>2, <1>13 DEF IInv, FramesOK
  <2>2. ASSUME Making(calls[i])
        PROVE /\ Sound(calls[i].o)' /\ Refs(calls[i].o) \subseteq roots' \cup rooted'
              /\ Interned(calls[i].o) => Absent(calls[i].o.kind, calls[i].o.content)'
    <3>1. /\ Sound(calls[i].o) /\ Refs(calls[i].o) \subseteq roots \cup rooted
          /\ Interned(calls[i].o) => Absent(calls[i].o.kind, calls[i].o.content)
      BY <2>1, <2>2 DEF FrameOK
    <3>2. calls[i].o.kind \in NameKinds =>
            calls[i].o.ref \in Refs(calls[i].o) /\ calls[i].o.ref \in Allocated'
      BY <1>3, <1>4, <1>5, <3>1, GCAssumption DEF Sound, Refs
    <3>3. Sound(calls[i].o)' BY <1>5, <2>1, <3>1, <3>2 DEF Sound
    <3>4. \A a \in Chained' : a \in Chained /\ heap'[a] = heap[a] BY <1>5, <1>6 DEF Chained
    <3>5. QED BY <1>1, <2>1, <3>1, <3>3, <3>4 DEF Absent
  <2>3. Made(calls[i]) => /\ calls[i].made \in Allocated' /\ heap'[calls[i].made] = calls[i].o
                          /\ calls[i].made \in rooted'
    BY <1>1, <1>3, <1>4, <1>5, <2>1 DEF FrameOK
  <2>4. calls[i].fn = "name" =>
           /\ calls[i].si \in roots' \cup {None}
           /\ calls[i].si = None => Absent(calls[i].kind, calls[i].content)'
    <3>1. \A a \in Chained' : a \in Chained /\ heap'[a] = heap[a] BY <1>5, <1>6 DEF Chained
    <3>2. QED BY <1>1, <2>1, <3>1 DEF FrameOK, Absent
  <2>5. calls[i].fn = "klispS_resize" =>
           calls[i].newsize >= MINSTRTABSIZE /\ nuse' <= calls[i].newsize
    <3>1. calls[i] \in Frames BY <1>n, <1>2
    <3>2. calls[i].fn = "klispS_resize" => calls[i].newsize \in Nat BY <3>1, FrameKinds
    <3>3. QED BY <1>12, <2>1, <3>2 DEF FrameOK
  <2>6. QED BY <2>1, <2>2, <2>3, <2>4, <2>5 DEF FrameOK, Making, Made
<1>17. FrameOK(n)' BY <1>13 DEF FrameOK, FullGC, Making, Made
<1>18. ASSUME Len(calls') = n + 1 PROVE FrameOK(n + 1)'
  <2>1. PICK k \in Nat : calls'[n + 1] = Resize(k) /\ k >= MINSTRTABSIZE /\ k >= nuse'
    BY <1>13, <1>18
  <2>2. Resize(k).fn = "klispS_resize" /\ Resize(k).newsize = k BY DEF Resize
  <2>3. QED BY <1>12, <2>1, <2>2 DEF FrameOK, Making, Made
<1>19. FramesOK' BY <1>2, <1>13, <1>16, <1>17, <1>18 DEF FramesOK
<1>20. QED BY <1>7, <1>8, <1>9, <1>10, <1>11, <1>14, <1>15, <1>19 DEF IInv

-----------------------------------------------------------------------------
(***************************************************************************)
(* Constructors.                                                           *)
(***************************************************************************)
\* A constructor is called by the program, or by that of a name.
LEMMA OneCaller ==
    ASSUME IInv, In("new")
    PROVE  \/ Len(calls) = 1
           \/ /\ Len(calls) = 2 /\ calls[1].fn = "name" /\ calls[1] \in Frames /\ FrameOK(1)
              /\ Top.o = Object("string", calls[1].content, None, None)
<1>1. /\ Len(calls) \in Nat \ {0} /\ calls \in Seq(Frames) /\ Top = calls[Len(calls)]
      /\ CalledRightly(Len(calls)) /\ Top.fn = "new"
  BY TopOfStack DEF In
<1>2. CASE Len(calls) = 1 BY <1>2
<1>3. CASE Len(calls) # 1
  <2>1. /\ Len(calls) = 2 /\ calls[1].fn = "name"
        /\ Top.o = Object("string", calls[1].content, None, None)
    BY <1>1, <1>3 DEF CalledRightly
  <2>2. calls[1] \in Frames /\ FrameOK(1) BY <1>1, <2>1 DEF IInv, FramesOK
  <2>3. QED BY <2>1, <2>2
<1>4. QED BY <1>2, <1>3

LEMMA ReturnStep == ASSUME IInv, Return PROVE IInv'
<1> DEFINE v == Top.made
<1>1. /\ In("new") /\ calls # <<>> /\ Made(Top)
      /\ UNCHANGED <<heap, hash, nuse, GCthreshold>>
  BY DEF Return, In, Made
<1>2. /\ Len(calls) \in Nat \ {0} /\ calls \in Seq(Frames) /\ Top = calls[Len(calls)]
      /\ Top \in Frames /\ FrameOK(Len(calls))
  BY <1>1, TopOfStack
<1>3. v \in Allocated /\ heap[v] = Top.o BY <1>1, <1>2 DEF FrameOK
<1>4. roots \subseteq Allocated /\ rooted \subseteq Allocated /\ Allocated \subseteq Addr
  BY DEF IInv, RootsOK, Allocated
<1>5. TableOnly' /\ Allocated' = Allocated /\ Chained' = Chained /\ size' = size
  BY <1>1, TableUnchanged
<1>6. /\ Front(calls) \in Seq(Frames) /\ Len(Front(calls)) = Len(calls) - 1
      /\ \A i \in 1 .. Len(calls) - 1 : Front(calls)[i] = calls[i]
  BY <1>1, <1>2, PopFacts
<1>7. nuse <= size
  <2>1. ~ \E i \in 1 .. Len(calls) - 1 : Made(calls[i])
    BY <1>1, <1>2, OneCaller DEF Made
  <2>2. QED BY <2>1 DEF IInv, CountsOK, Roomy
<1>8. Roomy' BY <1>1, <1>5, <1>7 DEF Roomy
<1>9. CASE Len(calls) = 1
  <2>1. Front(calls) = <<>> BY <1>6, <1>9
  <2>2. calls' = <<>> /\ roots' = roots \cup {v} /\ rooted' = rooted \ {v}
    BY <2>1 DEF Return
  <2>3. StackOK' /\ FramesOK' BY <2>2 DEF StackOK, FramesOK
  <2>4. RootsOK' BY <1>3, <1>4, <1>5, <2>2 DEF RootsOK
  <2>5. QED BY <1>5, <1>8, <2>3, <2>4 DEF IInv, TableOnly, CountsOK
<1>10. CASE /\ Len(calls) = 2 /\ calls[1].fn = "name" /\ calls[1] \in Frames /\ FrameOK(1)
            /\ Top.o = Object("string", calls[1].content, None, None)
  <2>f. PICK f : f = calls[1] OBVIOUS
  <2>v. PICK w : w = v OBVIOUS
  <2>o. PICK o : o = Object(f.kind, f.content, w, f.si) OBVIOUS
  <2>1. Front(calls) # <<>> /\ Last(Front(calls)) = f /\ Front(Front(calls)) = <<>>
    <3>1. /\ Front(calls) \in Seq(Frames) /\ Len(Front(calls)) = 1
          /\ Front(calls)[1] = f /\ Front(calls) # <<>>
      BY <1>6, <1>10, <2>f
    <3>2. /\ Front(Front(calls)) \in Seq(Frames) /\ Len(Front(Front(calls))) = 0
          /\ Last(Front(calls)) = f
      BY <3>1, PopFacts
    <3>3. QED BY <3>1, <3>2
  <2>2. calls' = <<New(o)>> /\ rooted' = rooted \cup {w} /\ roots' = roots
    BY <2>1, <2>f, <2>v, <2>o DEF Return
  <2>3. /\ f.kind \in NameKinds /\ f.content \in Contents /\ f.si \in Addr \cup {None}
        /\ f.si \in roots \cup {None}
        /\ f.si = None => Absent(f.kind, f.content)
    BY <1>10, <2>f, FrameKinds DEF FrameOK
  <2>4. /\ heap[w].kind = "string" /\ heap[w].content = f.content
        /\ w \in Allocated /\ w \in Addr
    BY <1>3, <1>4, <1>10, <2>f, <2>v DEF Object
  <2>5. /\ o \in Objects /\ o.kind = f.kind /\ o.content = f.content /\ o.ref = w
        /\ o.si = f.si
    BY <2>3, <2>4, <2>o DEF Object, Objects
  <2>6. New(o) \in Frames /\ Making(New(o)) /\ New(o).o = o /\ New(o).fn = "new"
    BY <2>5, NewFrames DEF Making, New
  <2>7. Sound(o) /\ Refs(o) \subseteq roots' \cup rooted'
    <3>1. Sound(o) BY <2>3, <2>4, <2>5 DEF Sound
    <3>2. Refs(o) \subseteq roots' \cup rooted' BY <2>2, <2>3, <2>5 DEF Refs
    <3>3. QED BY <3>1, <3>2
  <2>8. Interned(o) => Absent(o.kind, o.content)
    BY <2>3, <2>5, GCAssumption DEF Interned
  <2>9. /\ Len(calls') = 1 /\ calls'[1] = New(o) /\ calls' \in Seq(Frames) BY <2>2, <2>6
  <2>10. StackOK' BY <2>6, <2>9 DEF StackOK, CalledRightly
  <2>11. FramesOK'
    <3>1. Sound(o)' /\ (Interned(o) => Absent(o.kind, o.content)')
      BY <1>1, <1>5, <2>7, <2>8 DEF Sound, Absent
    <3>2. QED BY <2>6, <2>7, <2>9, <3>1 DEF FramesOK, FrameOK, Making, Made
  <2>12. RootsOK' BY <1>4, <1>5, <2>2, <2>4 DEF RootsOK
  <2>13. QED BY <1>5, <1>8, <2>10, <2>11, <2>12 DEF IInv, TableOnly, CountsOK
<1>11. QED BY <1>1, <1>9, <1>10, OneCaller

LEMMA LinkStep == ASSUME IInv, Link PROVE IInv'
<1>n. PICK n : n = Len(calls) OBVIOUS
<1>o. PICK o : o = Top.o OBVIOUS
<1>1. PICK a \in Addr \ Allocated :
        /\ heap' = [heap EXCEPT ![a] = o]
        /\ IF Interned(o)
           THEN /\ hash' = [hash EXCEPT ![Bucket(o.kind, o.content, size)] = @ \cup {a}]
                /\ nuse' = nuse + 1
           ELSE UNCHANGED <<hash, nuse>>
        /\ calls' = Append(Front(calls), [Top EXCEPT !.made = a])
                      \o IF crowded(o) THEN <<Resize(2 * size)>> ELSE <<>>
        /\ rooted' = (rooted \ Refs(o)) \cup IF crowded(o) THEN {a} ELSE {}
  BY <1>o DEF Link
<1>2. In("new") /\ calls # <<>> /\ Making(Top) /\ UNCHANGED <<GCthreshold, roots>>
  BY DEF Link, Allocating, In, Making
<1>3. /\ n \in Nat \ {0} /\ calls \in Seq(Frames) /\ Top = calls[n] /\ Top \in Frames
      /\ CalledRightly(n) /\ FrameOK(n)
  BY <1>n, <1>2, TopOfStack
<1>4. /\ Top \in [fn : {"new"}, o : Objects, made : Addr \cup {None}, collected : BOOLEAN]
      /\ o \in Objects /\ o # Free
  BY <1>o, <1>2, <1>3, FrameKinds, FreeAssumption DEF Making
<1>5. /\ Sound(o) /\ Refs(o) \subseteq roots \cup rooted
      /\ Interned(o) => Absent(o.kind, o.content)
  BY <1>o, <1>2, <1>3 DEF FrameOK
<1>6. roots \subseteq Allocated /\ rooted \subseteq Allocated /\ Allocated \subseteq Addr
  BY DEF IInv, RootsOK, Allocated
<1>7. /\ Allocated' = Allocated \cup {a} /\ heap'[a] = o
      /\ \A b \in Allocated : heap'[b] = heap[b] /\ b # a
  <2>1. heap \in [Addr -> Objects \cup {Free}] BY DEF IInv, HeapOK
  <2>2. QED BY <1>1, <1>4, <2>1 DEF Allocated
<1>8. Chained' = Chained \cup (IF Interned(o) THEN {a} ELSE {}) /\ a \notin Chained
  BY <1>7 DEF Chained
<1>9. HeapOK'
  <2>1. heap' \in [Addr -> Objects \cup {Free}] BY <1>1, <1>4 DEF IInv, HeapOK
  <2>2. ASSUME NEW x, Sound(x) PROVE Sound(x)' BY <1>7, <2>2 DEF Sound
  <2>3. ASSUME NEW b \in Allocated'
        PROVE  Refs(heap'[b]) \subseteq Allocated' /\ Sound(heap[b])'
    <3>1. CASE b = a
      <4>1. Sound(o)' BY <1>5, <2>2
      <4>2. QED BY <1>5, <1>6, <1>7, <3>1, <4>1 DEF Sound
    <3>2. CASE b \in Allocated
      <4>1. Refs(heap[b]) \subseteq Allocated /\ Sound(heap[b]) BY <3>2 DEF IInv, HeapOK
      <4>2. heap'[b] = heap[b] BY <1>7, <3>2
      <4>3. QED BY <1>7, <3>2, <4>1, <4>2 DEF Sound
    <3>3. QED BY <1>7, <3>1, <3>2
  <2>4. QED BY <2>1, <2>3 DEF HeapOK
<1>10. RootsOK' BY <1>1, <1>2, <1>6, <1>7 DEF RootsOK
<1>11. size \in Nat /\ size >= MINSTRTABSIZE /\ MINSTRTABSIZE \in Nat \ {0}
       /\ hash \in [0 .. size - 1 -> SUBSET Addr]
  BY GCAssumption DEF IInv, HashType
<1>12. Interned(o) => /\ o.kind \in NameKinds \cup {"string"} /\ o.content \in Contents
                      /\ Bucket(o.kind, o.content, size) \in 0 .. size - 1
  BY <1>5, <1>11, BucketRange DEF Interned, Sound
<1>13. /\ hash' \in [0 .. size - 1 -> SUBSET Addr] /\ size' = size
       /\ \A i \in 0 .. size - 1 : hash'[i] =
            IF Interned(o) /\ i = Bucket(o.kind, o.content, size) THEN hash[i] \cup {a}
            ELSE hash[i]
  <2>1. /\ hash' \in [0 .. size - 1 -> SUBSET Addr]
        /\ \A i \in 0 .. size - 1 : hash'[i] =
             IF Interned(o) /\ i = Bucket(o.kind, o.content, size) THEN hash[i] \cup {a}
             ELSE hash[i]
    BY <1>1, <1>11, <1>12
  <2>2. size' = size BY <1>11, <2>1, SizeOfTable DEF size
  <2>3. QED BY <2>1, <2>2
<1>14. HashType' BY <1>11, <1>13 DEF HashType
<1>15. Places'
  <2>1. ASSUME NEW b \in Addr, NEW i \in 0 .. size - 1
        PROVE  b \in hash'[i] <=>
                 b \in Chained' /\ i = Bucket(heap'[b].kind, heap'[b].content, size)
    <3>1. b \in hash[i] <=> b \in Chained /\ i = Bucket(heap[b].kind, heap[b].content, size)
      BY DEF IInv, Places
    <3>2. CASE b = a BY <1>7, <1>8, <1>13, <3>1, <3>2
    <3>3. CASE b # a
      <4>1. b \in Chained => heap'[b] = heap[b] BY <1>7 DEF Chained
      <4>2. QED BY <1>8, <1>13, <3>1, <3>3, <4>1
    <3>4. QED BY <3>2, <3>3
  <2>2. QED BY <1>13, <2>1 DEF Places, Bucket
<1>16. Unique'
  <2>1. \A b \in Chained : heap'[b] = heap[b] /\ b # a BY <1>7 DEF Chained
  <2>2. QED BY <1>5, <1>7, <1>8, <2>1 DEF IInv, Unique, Absent
<1>17. nuse' = Cardinality(Chained') /\ nuse \in Nat
       /\ nuse' = IF Interned(o) THEN nuse + 1 ELSE nuse
  <2>1. IsFiniteSet(Chained) /\ nuse = Cardinality(Chained) /\ Cardinality(Chained) \in Nat
    BY ChainedIsFinite, FS_CardinalityType DEF IInv, CountsOK
  <2>2. Cardinality(Chained \cup {a}) = Cardinality(Chained) + 1 BY <1>8, <2>1, FS_AddElement
  <2>3. nuse' = IF Interned(o) THEN nuse + 1 ELSE nuse BY <1>1
  <2>4. QED BY <1>8, <2>1, <2>2, <2>3
<1>18. nuse <= size
  <2>1. ~ \E i \in 1 .. Len(calls) - 1 : Made(calls[i])
    BY <1>n, <1>2, <1>3, OneCaller DEF Made
  <2>2. QED BY <2>1 DEF IInv, CountsOK, Roomy
<1> DEFINE f == [Top EXCEPT !.made = a]
           g == Resize(2 * size)
<1>19. /\ f \in Frames /\ f.fn = "new" /\ f.o = o /\ f.made = a /\ Made(f) /\ ~Making(f)
  BY <1>o, <1>1, <1>4, GCAssumption DEF Frames, Made, Making
<1>20. /\ g \in Frames /\ g.fn = "klispS_resize" /\ g.newsize = 2 * size
       /\ g.newsize >= MINSTRTABSIZE /\ g.newsize >= nuse'
  BY <1>11, <1>17, <1>18, NewFrames DEF Resize
<1>21. calls' = Append(Front(calls), f) \o IF crowded(o) THEN <<g>> ELSE <<>> BY <1>1
<1> HIDE DEF f, g
<1>22. /\ calls' \in Seq(Frames) /\ calls'[n] = f
       /\ Len(calls') = IF crowded(o) THEN n + 1 ELSE n
       /\ \A i \in 1 .. n - 1 : calls'[i] = calls[i]
       /\ crowded(o) => calls'[n + 1] = g
  <2>1. CASE crowded(o)
    BY <1>n, <1>2, <1>3, <1>19, <1>20, <1>21, <2>1, GoOnAndCallFacts
  <2>2. CASE ~crowded(o)
    <3>1. calls' = Append(Front(calls), f) \o <<>> BY <1>21, <2>2
    <3>2. QED BY <1>n, <1>2, <1>3, <1>19, <3>1, <2>2, GoOnFacts
  <2>3. QED BY <2>1, <2>2
<1>23. CalledRightly(n)'
  BY <1>o, <1>2, <1>3, <1>19, <1>22 DEF CalledRightly, Making
<1>24. crowded(o) => CalledRightly(n + 1)'
  <2>1. n + 1 - 1 = n BY <1>3
  <2>2. QED BY <1>3, <1>19, <1>20, <1>22, <2>1 DEF CalledRightly
<1>25. StackOK'
  <2>1. \A i \in n .. Len(calls') : CalledRightly(i)' BY <1>3, <1>22, <1>23, <1>24
  <2>2. Len(calls') \in {n, n + 1} BY <1>22
  <2>3. QED BY <1>n, <1>2, <1>22, <2>1, <2>2, TopStep
<1>26. CountsOK'
  <2>1. CASE crowded(o)
    <3>1. n \in 1 .. Len(calls') - 1 /\ Made(calls'[n]) BY <1>3, <1>19, <1>22, <2>1
    <3>2. Roomy' BY <3>1 DEF Roomy, Made
    <3>3. QED BY <1>2, <1>17, <3>2 DEF IInv, CountsOK
  <2>2. CASE ~crowded(o)
    <3>1. nuse' <= size' BY <1>13, <1>17, <1>18, <1>11, <2>2 DEF crowded
    <3>2. QED BY <1>2, <1>17, <3>1 DEF IInv, CountsOK, Roomy
  <2>3. QED BY <2>1, <2>2
<1>27. FramesOK'
  <2>1. ASSUME NEW i \in 1 .. n - 1 PROVE FrameOK(i)'
    <3>1. /\ i = 1 /\ calls[1].fn = "name" /\ FrameOK(1) /\ o.kind = "string"
          /\ calls'[1] = calls[1] /\ calls[1].kind \in NameKinds
      <4>1. /\ n = 2 /\ calls[1].fn = "name" /\ calls[1] \in Frames /\ FrameOK(1)
            /\ o = Object("string", calls[1].content, None, None)
        BY <1>n, <1>o, <1>2, <1>3, OneCaller
      <4>2. i = 1 /\ calls'[1] = calls[1] BY <1>22, <4>1
      <4>3. calls[1].kind \in NameKinds BY <4>1, FrameKinds
      <4>4. o.kind = "string" BY <4>1 DEF Object
      <4>5. QED BY <4>1, <4>2, <4>3, <4>4
    <3>2. ASSUME calls[1].si = None PROVE Absent(calls[1].kind, calls[1].content)'
      <4>1. Absent(calls[1].kind, calls[1].content) BY <3>1, <3>2 DEF FrameOK
      <4>2. \A b \in Chained : heap'[b] = heap[b] BY <1>7 DEF Chained
      <4>3. calls[1].kind # "string" BY <3>1, GCAssumption
      <4>4. QED BY <1>7, <1>8, <3>1, <4>1, <4>2, <4>3 DEF Absent
    <3>3. QED BY <1>2, <3>1, <3>2 DEF FrameOK, Making, Made
  <2>2. FrameOK(n)'
    <3>1. n < Len(calls') => a \in rooted' BY <1>1, <1>22, <1>3
    <3>2. QED BY <1>7, <1>19, <1>22, <3>1 DEF FrameOK, Making, Made
  <2>3. crowded(o) => FrameOK(n + 1)' BY <1>20, <1>22 DEF FrameOK, Making, Made
  <2>4. QED BY <1>3, <1>22, <2>1, <2>2, <2>3 DEF FramesOK
<1>28. QED BY <1>9, <1>10, <1>14, <1>15, <1>16, <1>25, <1>26, <1>27 DEF IInv

-----------------------------------------------------------------------------
(***************************************************************************)
(* The theorems.                                                           *)
(***************************************************************************)
LEMMA InitOK == Init => IInv
<1> SUFFICES ASSUME Init PROVE IInv OBVIOUS
<1> USE DEF Init
<1>1. Allocated = {} /\ Chained = {} BY DEF Allocated, Chained
<1>2. MINSTRTABSIZE \in Nat \ {0} /\ gcpause \in Nat BY GCAssumption
<1>3. size = MINSTRTABSIZE
  <2>1. DOMAIN hash = 0 .. MINSTRTABSIZE - 1 BY <1>2
  <2>2. QED BY <1>2, <2>1, SizeOfTable DEF size
<1>4. HeapOK /\ RootsOK BY <1>1 DEF HeapOK, RootsOK
<1>5. StackOK /\ FramesOK BY DEF StackOK, FramesOK
<1>6. HashType /\ Places /\ Unique BY <1>1, <1>2, <1>3 DEF HashType, Places, Unique
<1>7. CountsOK BY <1>1, <1>2, <1>3, FS_EmptySet DEF CountsOK, Roomy
<1>8. QED BY <1>4, <1>5, <1>6, <1>7 DEF IInv

LEMMA StutterStep == IInv /\ UNCHANGED vars => IInv'
<1> SUFFICES ASSUME IInv, UNCHANGED vars PROVE IInv' OBVIOUS
<1>1. UNCHANGED <<heap, hash, nuse, GCthreshold, calls, roots, rooted>> BY DEF vars
<1>2. TableOnly' /\ Allocated' = Allocated /\ Chained' = Chained /\ size' = size
  BY <1>1, TableUnchanged
<1>3. StackOK' BY <1>1 DEF IInv, StackOK, CalledRightly, Making, Made
<1>4. FramesOK' BY <1>1, <1>2 DEF IInv, FramesOK, FrameOK, Making, Made, Sound, Absent
<1>5. Roomy' /\ RootsOK' BY <1>1, <1>2 DEF IInv, CountsOK, Roomy, RootsOK, Made
<1>6. QED BY <1>2, <1>3, <1>4, <1>5 DEF IInv, TableOnly, CountsOK

LEMMA Inductive == IInv /\ [Next]_vars => IInv'
<1> SUFFICES ASSUME IInv, [Next]_vars PROVE IInv' OBVIOUS
<1>1. ASSUME NEW a \in roots, Drop(a) \/ kcons(a) PROVE IInv' BY <1>1, DropStep, kconsStep
<1>2. ASSUME NEW c \in Contents, NewString(c) PROVE IInv' BY <1>2, NewStringStep
<1>3. ASSUME NEW kind \in NameKinds, NEW c \in Contents, NEW si \in roots \cup {None},
             NewName(kind, c, si)
      PROVE  IInv'
  BY <1>3, NewNameStep
<1>4. CASE Collect BY <1>4, CollectStep
<1>5. CASE CollectFirst BY <1>5, CollectFirstStep
<1>6. CASE Link BY <1>6, LinkStep
<1>7. CASE Return BY <1>7, ReturnStep
<1>8. CASE ResizeTable BY <1>8, ResizeTableStep
<1>9. CASE FinishSweep BY <1>9, FinishSweepStep
<1>10. CASE MarkAndSweep BY <1>10, MarkAndSweepStep
<1>11. CASE EndGC BY <1>11, EndGCStep
<1>12. CASE UNCHANGED vars BY <1>12, StutterStep
<1>13. QED
  BY <1>1, <1>2, <1>3, <1>4, <1>5, <1>6, <1>7, <1>8, <1>9, <1>10, <1>11, <1>12 DEF Next

LEMMA Invariance == Spec => []IInv
<1>1. QED BY InitOK, Inductive, PTL DEF Spec

\* No object that the program or a constructor under way still uses, or that such an
\* object refers to, is ever freed, and a name has its string: whatever collections an
\* allocation starts, and however deep they are nested.
THEOREM UseSafety == Spec => []NoDangling
<1>1. IInv => NoDangling
  <2> SUFFICES ASSUME IInv PROVE NoDangling OBVIOUS
  <2>1. roots \subseteq Allocated /\ rooted \subseteq Allocated /\ Allocated \subseteq Addr
    BY DEF IInv, RootsOK, Allocated
  <2>2. ASSUME NEW i \in DOMAIN calls
        PROVE  (CASE calls[i].fn = "new" -> (Refs(calls[i].o) \cup {calls[i].made}) \ {None}
                  [] calls[i].fn = "name" -> {calls[i].si} \ {None}
                  [] OTHER -> {}) \subseteq Allocated
    <3>1. i \in 1 .. Len(calls) /\ FrameOK(i) BY DEF IInv, StackOK, FramesOK
    <3>2. Making(calls[i]) => Refs(calls[i].o) \subseteq Allocated
      BY <2>1, <3>1 DEF FrameOK
    <3>3. Made(calls[i]) => calls[i].made \in Allocated /\ Refs(calls[i].o) \subseteq Allocated
      BY <3>1 DEF FrameOK, IInv, HeapOK
    <3>4. calls[i].fn = "name" => {calls[i].si} \ {None} \subseteq Allocated
      BY <2>1, <3>1 DEF FrameOK
    <3>5. QED BY <3>2, <3>3, <3>4 DEF Making, Made
  <2>3. InUse \subseteq Allocated BY <2>1, <2>2 DEF InUse
  <2>4. Closed(Allocated) BY DEF IInv, HeapOK, Closed
  <2>5. Reachable(InUse) \subseteq Allocated BY <2>1, <2>3, <2>4, ReachableIsLeast
  <2>6. \A a \in Allocated : Valid(a) BY DEF IInv, HeapOK, Sound, Valid, Allocated
  <2>7. QED BY <2>5, <2>6 DEF NoDangling
<1>2. QED BY <1>1, Invariance, PTL

\* The table has each interned object once and where a search looks for it, counts
\* them, and has a bucket for each once a constructor has returned, whatever the
\* insertions, collections and resizes nested in each other.
THEOREM TableSafety == Spec => []TableOK
<1>1. IInv => TableOK
  <2> SUFFICES ASSUME IInv PROVE TableOK OBVIOUS
  <2>1. roots \subseteq Addr /\ rooted \subseteq Addr /\ Chained \subseteq Addr
    BY DEF IInv, RootsOK, Allocated, Chained
  <2>2. nuse \in Nat /\ nuse = Cardinality(Chained)
    BY ChainedIsFinite, FS_CardinalityType DEF IInv, CountsOK
  <2>3. size \in Nat \ {0} /\ DOMAIN hash = 0 .. size - 1
        /\ \A i \in 0 .. size - 1 : hash[i] \subseteq Addr
    BY GCAssumption DEF IInv, HashType
  <2>4. TypeOK
    BY <2>1, <2>2 DEF TypeOK, IInv, HeapOK, HashType, StackOK, CountsOK
  <2>5. \A a \in Chained : /\ Bucket(heap[a].kind, heap[a].content, size) \in DOMAIN hash
                           /\ a \in hash[Bucket(heap[a].kind, heap[a].content, size)]
    <3>1. ASSUME NEW a \in Chained
          PROVE  Bucket(heap[a].kind, heap[a].content, size) \in 0 .. size - 1
      <4>1. heap[a].kind \in NameKinds \cup {"string"} /\ heap[a].content \in Contents
        BY DEF Chained, Allocated, Interned, IInv, HeapOK, Sound
      <4>2. QED BY <2>3, <4>1, BucketRange
    <3>2. QED BY <2>1, <2>3, <3>1 DEF IInv, Places
  <2>6. \A i, j \in DOMAIN hash : i # j => hash[i] \cap hash[j] = {}
    BY <2>3 DEF IInv, Places
  <2>7. UNION {hash[i] : i \in DOMAIN hash} = Chained
    <3>1. UNION {hash[i] : i \in DOMAIN hash} \subseteq Chained BY <2>3 DEF IInv, Places
    <3>2. QED BY <2>5, <3>1
  <2>8. Idle => nuse <= size BY DEF IInv, CountsOK, Roomy, Idle
  <2>9. QED BY <2>2, <2>4, <2>5, <2>6, <2>7, <2>8 DEF TableOK, IInv, Unique
<1>2. QED BY <1>1, Invariance, PTL

=============================================================================
