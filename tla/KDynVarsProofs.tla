--------------------------- MODULE KDynVarsProofs ---------------------------
(***************************************************************************)
(* Theorems of KContinuations and KDynVars: for any number of threads, no  *)
(* pass gets around a guard; and for one thread, the program finds in a    *)
(* keyed dynamic variable what the innermost call to b gave it.            *)
(***************************************************************************)
EXTENDS KDynVars, Lemmas

\* The key is shared: only one thread alone can rely on it.
OneThread == \A t, u \in Threads : t = u

Bindings == {NoBinding} \cup {Binding(v) : v \in Values}

PlainOps == {"user", "passes", "do_int_mark_error"}

Upto(c, n) == SubSeq(c, 1, n)

\* The guards of the program: sequences of clauses with a plain operative.
Own(guards) ==
    IsSeq(guards) /\ \A i \in DOMAIN guards : guards[i].op.fn \in PlainOps

BindingGuards(binding) == <<Clause(root_cont, SetPass(binding))>>

-----------------------------------------------------------------------------
(***************************************************************************)
(* A pass under way, from c to dst.                                        *)
(***************************************************************************)
\* b is on the way from a to dst, up to the common ancestor and down again.
OnPath(a, b, dst) ==
    /\ IsPrefix(b, dst) \/ IsPrefix(b, a)
    /\ \A i \in DOMAIN dst : IsPrefix(Upto(dst, i), a) => IsPrefix(Upto(dst, i), b)

\* c ends with the outer continuation of a binding.
AtBinding(c) == Len(c) > 1 /\ c[Len(c) - 1].fn = "do_unbind"

\* What the key holds when a pass to dst has come to c: at the outer
\* continuation of a binding, that of the extent the pass is going to.
Put(c, dst) ==
    IF AtBinding(c) /\ ~IsPrefix(c, dst) THEN c[Len(c) - 1].binding
    ELSE InnermostBinding(c)

\* An item of the list runs in an outer continuation; at a binding, it is the
\* one that sets the key.
Item(e, dst) ==
    /\ IsSeq(e.outer) /\ Len(e.outer) >= 1 /\ Is("outer", Last(e.outer))
    /\ IF AtBinding(e.outer) THEN e.op = SetPass(Put(e.outer, dst))
       ELSE e.op.fn \in PlainOps

\* The items lead from c to dst.
Leads(c, ls, dst) ==
    \A l \in DOMAIN ls :
       /\ Item(ls[l], dst)
       /\ OnPath(c, ls[l].outer, dst)
       /\ \A k \in 1 .. l - 1 : OnPath(ls[k].outer, ls[l].outer, dst)

\* Each exit guard on the way that selects dst has its interceptor in the list,
\* after those of the extents inside ...
ExitListed(c, ls, dst, i) ==
    \E j \in DOMAIN ls :
       /\ ls[j].op = select_interceptor(c[i].guards, dst)
       /\ ls[j].outer = Upto(c, i - 1)
       /\ \A k \in 1 .. j - 1 : IsPrefix(Upto(c, i), ls[k].outer)

Exits(c, dst) ==
    {i \in DOMAIN c : /\ Is("inner", c[i]) /\ ~IsPrefix(Upto(c, i), dst)
                      /\ select_interceptor(c[i].guards, dst) # Null}

\* ... and each entry guard whose first clause selects every source, before
\* those of the extents inside.
EntryListed(ls, dst, i) ==
    \E j \in DOMAIN ls :
       /\ ls[j].op = dst[i].guards[1].op
       /\ ls[j].outer = Upto(dst, i)
       /\ \A k \in 1 .. j - 1 : ~IsPrefix(Upto(dst, i), ls[k].outer)

Entries(c, dst) ==
    {i \in DOMAIN dst : /\ Is("outer", dst[i]) /\ ~IsPrefix(Upto(dst, i), c)
                        /\ dst[i].guards # <<>> /\ dst[i].guards[1].selector = root_cont}

Pending(c, ls, dst) ==
    /\ IsSeq(ls)
    /\ Leads(c, ls, dst)
    /\ \A i \in Exits(c, dst) : ExitListed(c, ls, dst, i)
    /\ \A i \in Entries(c, dst) : EntryListed(ls, dst, i)

-----------------------------------------------------------------------------
(***************************************************************************)
(* The continuations of a run: a set C closed under ancestors and under    *)
(* the destinations of passes under way.                                   *)
(***************************************************************************)
\* The interceptor that sets the key is about to run, or runs.
Setting(c) ==
    Len(c) > 2 /\ c[Len(c) - 2].fn = "do_unbind" /\ Last(c).fn = "do_interception"

\* The program may be in c: the calls to b in it have both their guards.
Whole(c) ==
    \A k \in DOMAIN c : c[k].fn = "do_unbind" =>
        k + 2 <= Len(c) /\ c[k + 2].fn # "do_interception"

\* Frame f may be the child of p.
Shape(p, f) ==
    /\ f.fn \notin {"do_root_exit", "do_set_pass", "NULL"}
    /\ ~Setting(p)
    /\ Last(p).fn = "do_unbind" =>
         f = Guarding("outer", f.id, BindingGuards(Last(p).bound))
    /\ AtBinding(p) =>
         \/ f.fn = "do_interception"
         \/ f = Guarding("inner", Last(p).id, BindingGuards(p[Len(p) - 1].binding))
    /\ f.fn = "do_unbind" =>
         /\ f.binding \in Bindings /\ f.bound \in Bindings
         /\ OneThread => f.binding = InnermostBinding(p)
    /\ Is("inner", f) => Is("outer", Last(p)) /\ f.id = Last(p).id
    /\ f.fn = "do_pass_value" /\ Last(p).fn # "do_unbind" /\ ~AtBinding(p) => Own(f.guards)

Aimed(C, c, ls, dst) == dst \in C /\ Whole(dst) /\ Pending(c, ls, dst)

FrameOK(C, p, f) ==
    /\ Shape(p, f)
    /\ f.fn = "do_interception" => Is("outer", Last(p)) /\ Aimed(C, p, f.ls, f.dst)

Good(C) ==
    \A c \in C :
       /\ IsSeq(c) /\ Len(c) >= 1 /\ c[1] = Frame("do_root_exit")
       /\ \A i \in 2 .. Len(c) : Upto(c, i - 1) \in C /\ FrameOK(C, Upto(c, i - 1), c[i])

-----------------------------------------------------------------------------
(***************************************************************************)
(* The inductive invariant.                                                *)
(***************************************************************************)
\* f is called below c: it ends the loop, starts the next interceptor of a pass,
\* sets the key on one, or is a frame or the program's code.
Fits(C, c, f) ==
    \/ f.fn = "NULL" /\ f = Null /\ c = <<>>
    \/ f.fn = "do_interception" /\ c \in C /\ Shape(c, f) /\ Aimed(C, c, f.ls, f.dst)
    \/ /\ f.fn = "do_set_pass" /\ f.binding \in Bindings
       /\ c \in C /\ Len(c) > 1 /\ Last(c).fn = "do_interception"
       /\ f.binding = Put(Front(c), Last(c).dst)
    \/ /\ f.fn \notin {"NULL", "do_interception", "do_set_pass"}
       /\ IsSeq(c) /\ Append(c, f) \in C

\* Then the key holds k.
KeyFits(k, c, f) ==
    /\ f.fn = "do_interception" => k = Put(c, f.dst)
    /\ f.fn \notin {"NULL", "do_interception", "do_set_pass"} =>
          k = InnermostBinding(Append(c, f))

CoveredBy(C) ==
    /\ Good(C)
    /\ root_cont \in C /\ error_cont \in C
    /\ \A c \in held : c \in C /\ Whole(c)
    /\ \A t \in Threads : Fits(C, curr_cont[t], next[t])

IInv ==
    /\ made \in 0 .. MaxExtents /\ key \in Bindings
    /\ curr_cont = [t \in Threads |-> curr_cont[t]]
    /\ next = [t \in Threads |-> next[t]]
    /\ OneThread => \A t \in Threads : KeyFits(key, curr_cont[t], next[t])
    /\ \E C : CoveredBy(C)

-----------------------------------------------------------------------------
(***************************************************************************)
(* Prefixes.                                                               *)
(***************************************************************************)
LEMMA SameSeq ==
    ASSUME NEW a, NEW b, IsSeq(a), IsSeq(b), Len(a) = Len(b),
           \A i \in 1 .. Len(a) : a[i] = b[i]
    PROVE  a = b
<1>1. Len(a) \in Nat /\ a = [i \in 1 .. Len(a) |-> a[i]] BY IsSeqFacts
<1>2. b = [i \in 1 .. Len(a) |-> b[i]] BY IsSeqFacts
<1>3. QED BY <1>1, <1>2

LEMMA UptoFacts ==
    ASSUME NEW c, IsSeq(c), NEW n \in 0 .. Len(c)
    PROVE  /\ IsSeq(Upto(c, n)) /\ Len(Upto(c, n)) = n
           /\ \A i \in 1 .. n : Upto(c, n)[i] = c[i]
<1> DEFINE u == Upto(c, n)
<1>1. Len(c) \in Nat BY IsSeqFacts
<1>2. u = [i \in 1 .. n |-> c[i]] BY <1>1 DEF Upto
<1>3. DOMAIN u = 1 .. n /\ u = [i \in 1 .. n |-> u[i]] BY <1>2
<1>4. IsSeq(u) /\ Len(u) = n BY <1>1, <1>3, FunctionIsSeq
<1>5. QED BY <1>2, <1>4

\* Being a prefix, index by index.
LEMMA PrefixFacts ==
    ASSUME NEW a, NEW b, IsSeq(a), IsSeq(b)
    PROVE  IsPrefix(a, b) <=> /\ Len(a) <= Len(b)
                              /\ \A i \in 1 .. Len(a) : a[i] = b[i]
<1>1. Len(a) \in Nat /\ Len(b) \in Nat BY IsSeqFacts
<1>2. Upto(a, Len(a)) = a /\ Len(a) \in 0 .. Len(a)
  <2>1. Len(a) \in 0 .. Len(a) BY <1>1
  <2>2. QED BY <1>1, <2>1, UptoFacts, SameSeq
<1>3. CASE Len(a) <= Len(b)
  <2>1. Len(a) \in 0 .. Len(b) BY <1>1, <1>3
  <2>2. /\ IsSeq(Upto(b, Len(a))) /\ Len(Upto(b, Len(a))) = Len(a)
        /\ \A i \in 1 .. Len(a) : Upto(b, Len(a))[i] = b[i]
    BY <2>1, UptoFacts
  <2>3. IsPrefix(a, b) <=> a = Upto(b, Len(a)) BY <1>2, <1>3 DEF IsPrefix, Upto
  <2>4. a = Upto(b, Len(a)) <=> \A i \in 1 .. Len(a) : a[i] = b[i] BY <2>2, SameSeq
  <2>5. QED BY <1>3, <2>3, <2>4
<1>4. CASE ~(Len(a) <= Len(b)) BY <1>4 DEF IsPrefix
<1>5. QED BY <1>3, <1>4

\* c and d have the first n in common.
Agree(c, d, n) == n <= Len(d) /\ \A i \in 1 .. n : c[i] = d[i]

LEMMA UptoPrefix ==
    ASSUME NEW c, NEW d, IsSeq(c), IsSeq(d), NEW n \in 0 .. Len(c)
    PROVE  IsPrefix(Upto(c, n), d) <=> Agree(c, d, n)
<1>1. /\ IsSeq(Upto(c, n)) /\ Len(Upto(c, n)) = n
      /\ \A i \in 1 .. n : Upto(c, n)[i] = c[i]
  BY UptoFacts
<1>2. QED BY <1>1, PrefixFacts DEF Agree

LEMMA UptoAll == ASSUME NEW c, IsSeq(c) PROVE Upto(c, Len(c)) = c
<1>1. Len(c) \in Nat BY IsSeqFacts
<1>2. Len(c) \in 0 .. Len(c) BY <1>1
<1>3. QED BY <1>2, UptoFacts, SameSeq

LEMMA UptoUpto ==
    ASSUME NEW c, IsSeq(c), NEW n \in 0 .. Len(c), NEW m \in 0 .. n
    PROVE  Upto(Upto(c, n), m) = Upto(c, m)
<1>1. PICK u : u = Upto(c, n) OBVIOUS
<1>2. IsSeq(u) /\ Len(u) = n /\ \A i \in 1 .. n : u[i] = c[i] BY <1>1, UptoFacts
<1>3. Len(c) \in Nat BY IsSeqFacts
<1>4. m \in 0 .. Len(c) /\ m \in 0 .. Len(u) BY <1>2, <1>3
<1>5. /\ IsSeq(Upto(u, m)) /\ Len(Upto(u, m)) = m
      /\ \A i \in 1 .. m : Upto(u, m)[i] = u[i]
  BY <1>2, <1>4, UptoFacts
<1>6. /\ IsSeq(Upto(c, m)) /\ Len(Upto(c, m)) = m
      /\ \A i \in 1 .. m : Upto(c, m)[i] = c[i]
  BY <1>4, UptoFacts
<1>7. \A i \in 1 .. m : Upto(u, m)[i] = Upto(c, m)[i] BY <1>2, <1>5, <1>6
<1>8. Upto(u, m) = Upto(c, m) BY <1>5, <1>6, <1>7, SameSeq
<1>9. QED BY <1>1, <1>8

LEMMA PrefixIsUpto ==
    ASSUME NEW a, NEW b, IsSeq(a), IsSeq(b), IsPrefix(a, b)
    PROVE  Len(a) \in 0 .. Len(b) /\ a = Upto(b, Len(a))
<1>1. Len(a) \in Nat /\ Len(b) \in Nat BY IsSeqFacts
<1>2. Len(a) <= Len(b) /\ \A i \in 1 .. Len(a) : a[i] = b[i] BY PrefixFacts
<1>3. Len(a) \in 0 .. Len(b) BY <1>1, <1>2
<1>4. QED BY <1>2, <1>3, UptoFacts, SameSeq

\* A continuation is its parent and its own frame.
LEMMA LastFacts ==
    ASSUME NEW c, IsSeq(c), Len(c) >= 1
    PROVE  /\ Last(c) = c[Len(c)] /\ Front(c) = Upto(c, Len(c) - 1)
           /\ IsSeq(Front(c)) /\ Len(Front(c)) = Len(c) - 1
           /\ \A i \in 1 .. Len(c) - 1 : Front(c)[i] = c[i]
           /\ Append(Front(c), Last(c)) = c
<1>1. Len(c) \in Nat /\ c # <<>> BY IsSeqFacts
<1>2. /\ IsSeq(Front(c)) /\ Len(Front(c)) = Len(c) - 1
      /\ \A i \in 1 .. Len(c) - 1 : Front(c)[i] = c[i]
  BY <1>1, FrontFacts
<1>3. Last(c) = c[Len(c)] BY DEF Last
<1>4. Front(c) = Upto(c, Len(c) - 1)
  <2>1. PICK n : n = Len(c) - 1 OBVIOUS
  <2>2. n \in 0 .. Len(c) BY <1>1, <2>1
  <2>3. /\ IsSeq(Upto(c, n)) /\ Len(Upto(c, n)) = n
        /\ \A i \in 1 .. n : Upto(c, n)[i] = c[i]
    BY <2>2, UptoFacts
  <2>4. \A i \in 1 .. n : Upto(c, n)[i] = Front(c)[i] BY <1>2, <2>1, <2>3
  <2>5. Front(c) = Upto(c, n) BY <1>2, <2>1, <2>3, <2>4, SameSeq
  <2>6. QED BY <2>1, <2>5
<1>5. Append(Front(c), Last(c)) = c
  <2>1. PICK p : p = Front(c) OBVIOUS
  <2>2. PICK f : f = Last(c) OBVIOUS
  <2>3. PICK d : d = Append(p, f) OBVIOUS
  <2>4. /\ IsSeq(d) /\ Len(d) = Len(p) + 1
        /\ \A i \in 1 .. Len(p) : d[i] = p[i]
        /\ d[Len(p) + 1] = f
    BY <1>2, <2>1, <2>3, AppendFacts
  <2>5. Len(d) = Len(c) BY <1>1, <1>2, <2>1, <2>4
  <2>6. ASSUME NEW i \in 1 .. Len(d) PROVE d[i] = c[i]
    <3>1. CASE i = Len(c) BY <1>1, <1>2, <1>3, <2>1, <2>2, <2>4, <3>1
    <3>2. CASE i # Len(c)
      <4>1. i \in 1 .. Len(c) - 1 BY <1>1, <2>5, <3>2
      <4>2. QED BY <1>2, <2>1, <2>4, <4>1
    <3>3. QED BY <3>1, <3>2
  <2>7. d = c BY <2>4, <2>5, <2>6, SameSeq
  <2>8. QED BY <2>1, <2>2, <2>3, <2>7
<1>6. QED BY <1>2, <1>3, <1>4, <1>5

IsChild(d, c, f) == d = Append(c, f)

LEMMA ChildFacts ==
    ASSUME NEW c, IsSeq(c), NEW f, NEW d, IsChild(d, c, f)
    PROVE  /\ IsSeq(d) /\ Len(d) = Len(c) + 1 /\ Len(c) \in Nat
           /\ \A i \in 1 .. Len(c) : d[i] = c[i]
           /\ d[Len(d)] = f /\ Last(d) = f /\ Front(d) = c
           /\ \A i \in 0 .. Len(c) : Upto(d, i) = Upto(c, i)
<1>1. /\ IsSeq(d) /\ Len(d) = Len(c) + 1
      /\ \A i \in 1 .. Len(c) : d[i] = c[i]
      /\ d[Len(c) + 1] = f
  BY AppendFacts DEF IsChild
<1>2. Len(c) \in Nat BY IsSeqFacts
<1>3. d[Len(d)] = f BY <1>1
<1>4. /\ Last(d) = d[Len(d)] /\ IsSeq(Front(d)) /\ Len(Front(d)) = Len(c)
      /\ \A i \in 1 .. Len(c) : Front(d)[i] = d[i]
  <2>1. Len(d) >= 1 /\ Len(d) - 1 = Len(c) BY <1>1, <1>2
  <2>2. /\ Last(d) = d[Len(d)] /\ IsSeq(Front(d)) /\ Len(Front(d)) = Len(d) - 1
        /\ \A i \in 1 .. Len(d) - 1 : Front(d)[i] = d[i]
    BY <1>1, <2>1, LastFacts
  <2>3. QED BY <2>1, <2>2
<1>5. Front(d) = c BY <1>1, <1>4, SameSeq
<1>6. ASSUME NEW i \in 0 .. Len(c) PROVE Upto(d, i) = Upto(c, i)
  <2>1. i \in 0 .. Len(d) BY <1>1, <1>2
  <2>2. /\ IsSeq(Upto(d, i)) /\ Len(Upto(d, i)) = i
        /\ \A n \in 1 .. i : Upto(d, i)[n] = d[n]
    BY <1>1, <2>1, UptoFacts
  <2>3. /\ IsSeq(Upto(c, i)) /\ Len(Upto(c, i)) = i
        /\ \A n \in 1 .. i : Upto(c, i)[n] = c[n]
    BY UptoFacts
  <2>4. \A n \in 1 .. i : Upto(d, i)[n] = Upto(c, i)[n] BY <1>1, <1>2, <2>2, <2>3
  <2>5. QED BY <2>2, <2>3, <2>4, SameSeq
<1>7. QED BY <1>1, <1>2, <1>3, <1>4, <1>5, <1>6

-----------------------------------------------------------------------------
(***************************************************************************)
(* Selection.                                                              *)
(***************************************************************************)
LEMMA LeastIsMin ==
    ASSUME NEW T \in SUBSET Nat, NEW m \in T, \A k \in T : m <= k
    PROVE  Min(T) = m
<1>1. \E x \in T : \A y \in T : x =< y OBVIOUS
<1>2. PICK x : x = CHOOSE z \in T : \A y \in T : z =< y OBVIOUS
<1>3. x \in T /\ \A y \in T : x =< y BY <1>1, <1>2
<1>4. x = m BY <1>3
<1>5. QED BY <1>2, <1>4 DEF Min

LEMMA GreatestIsMax ==
    ASSUME NEW T \in SUBSET Nat, NEW m \in T, \A k \in T : k <= m
    PROVE  Max(T) = m
<1>1. \E x \in T : \A y \in T : x >= y OBVIOUS
<1>2. PICK x : x = CHOOSE z \in T : \A y \in T : z >= y OBVIOUS
<1>3. x \in T /\ \A y \in T : x >= y BY <1>1, <1>2
<1>4. x = m BY <1>3
<1>5. QED BY <1>2, <1>4 DEF Max

\* The selected clause is the first that selects.
LEMMA SelectedFacts ==
    ASSUME NEW guards, IsSeq(guards), NEW cont, NEW g \in DOMAIN guards,
           Selected(guards, cont, g)
    PROVE  select_interceptor(guards, cont) = guards[g].op
<1> DEFINE hits == {i \in DOMAIN guards : IsPrefix(guards[i].selector, cont)}
<1>1. DOMAIN guards = 1 .. Len(guards) /\ Len(guards) \in Nat BY IsSeqFacts
<1>2. g \in hits /\ hits \in SUBSET Nat BY <1>1 DEF Selected
<1>3. \A i \in hits : g <= i BY <1>1 DEF Selected
<1>4. Min(hits) = g
  <2> HIDE DEF hits
  <2>1. QED BY <1>2, <1>3, LeastIsMin
<1>5. hits # {} BY <1>2
<1>6. select_interceptor(guards, cont) = IF hits = {} THEN Null ELSE guards[Min(hits)].op
  BY DEF select_interceptor
<1> HIDE DEF hits
<1>7. QED BY <1>4, <1>5, <1>6

LEMMA SelectsFacts ==
    ASSUME NEW guards, IsSeq(guards), NEW cont
    PROVE  \/ select_interceptor(guards, cont) = Null
           \/ \E g \in DOMAIN guards : select_interceptor(guards, cont) = guards[g].op
<1> DEFINE hits == {i \in DOMAIN guards : IsPrefix(guards[i].selector, cont)}
<1>1. DOMAIN guards = 1 .. Len(guards) /\ Len(guards) \in Nat BY IsSeqFacts
<1>2. hits \in SUBSET Nat /\ hits \subseteq DOMAIN guards BY <1>1
<1>3. select_interceptor(guards, cont) = IF hits = {} THEN Null ELSE guards[Min(hits)].op
  BY DEF select_interceptor
<1> HIDE DEF hits
<1>4. hits # {} => Min(hits) \in hits BY <1>2, MinInSet
<1>5. QED BY <1>2, <1>3, <1>4

\* The loop over a continuation and its ancestors, with the marked ones in M
\* and those that select in S.
Walk(f, N, M, S) ==
    f = [n \in 0 .. N |-> IF n = 0 \/ n \in M THEN <<>>
                          ELSE IF n \in S THEN Append(f[n-1], n) ELSE f[n-1]]

LEMMA WalkExists ==
    ASSUME NEW M, NEW S, NEW N \in Nat
    PROVE  \E f : Walk(f, N, M, S)
<1> DEFINE T == {n \in Nat : \E f : Walk(f, n, M, S)}
<1>1. 0 \in T
  <2>1. PICK f : f = [n \in 0 .. 0 |-> <<>>] OBVIOUS
  <2>2. f = [n \in 0 .. 0 |-> IF n = 0 \/ n \in M THEN <<>>
                              ELSE IF n \in S THEN Append(f[n-1], n) ELSE f[n-1]]
    BY <2>1
  <2>3. QED BY <2>2 DEF Walk
<1>2. ASSUME NEW n \in Nat, n \in T PROVE n + 1 \in T
  <2>1. PICK g : Walk(g, n, M, S) BY <1>2
  <2>2. PICK x : x = IF n + 1 \in M THEN <<>>
                     ELSE IF n + 1 \in S THEN Append(g[n], n + 1) ELSE g[n]
    OBVIOUS
  <2>3. PICK f : f = [m \in 0 .. n + 1 |-> IF m = n + 1 THEN x ELSE g[m]] OBVIOUS
  <2>4. ASSUME NEW m \in 0 .. n + 1
        PROVE  f[m] = IF m = 0 \/ m \in M THEN <<>>
                      ELSE IF m \in S THEN Append(f[m-1], m) ELSE f[m-1]
    <3>1. CASE m = n + 1
      <4>1. f[m] = x /\ m # 0 /\ m - 1 = n /\ f[n] = g[n] BY <2>3, <3>1
      <4>2. QED BY <2>2, <3>1, <4>1
    <3>2. CASE m # n + 1
      <4>1. m \in 0 .. n /\ f[m] = g[m] BY <2>3, <3>2
      <4>2. m # 0 => f[m-1] = g[m-1] BY <2>3, <4>1
      <4>3. g[m] = IF m = 0 \/ m \in M THEN <<>>
                   ELSE IF m \in S THEN Append(g[m-1], m) ELSE g[m-1]
        BY <2>1, <4>1 DEF Walk
      <4>4. QED BY <4>1, <4>2, <4>3
    <3>3. QED BY <3>1, <3>2
  <2>5. f = [m \in 0 .. n + 1 |-> f[m]] BY <2>3
  <2>6. f = [m \in 0 .. n + 1 |-> IF m = 0 \/ m \in M THEN <<>>
                                  ELSE IF m \in S THEN Append(f[m-1], m) ELSE f[m-1]]
    BY <2>4, <2>5
  <2>7. QED BY <2>6 DEF Walk
<1> HIDE DEF T
<1>3. Nat \subseteq T BY <1>1, <1>2, NatSetInduction, Zenon
<1>4. QED BY <1>3 DEF T

\* s lists the members of X up to n, in ascending order.
Lists(s, X, n) ==
    /\ IsSeq(s)
    /\ \A k \in DOMAIN s : s[k] \in X /\ s[k] \in 1 .. n
    /\ \A k, l \in DOMAIN s : k < l => s[k] < s[l]
    /\ \A m \in X : m \in 1 .. n => \E k \in DOMAIN s : s[k] = m

LEMMA ListsNone == ASSUME NEW X, NEW n, X \cap 1 .. n = {} PROVE Lists(<<>>, X, n)
<1>1. IsSeq(<<>>) /\ DOMAIN <<>> = {} BY DEF IsSeq
<1>2. QED BY <1>1 DEF Lists

LEMMA ListsMore ==
    ASSUME NEW s, NEW X, NEW n \in Nat, Lists(s, X, n)
    PROVE  IF n + 1 \in X THEN Lists(Append(s, n + 1), X, n + 1) ELSE Lists(s, X, n + 1)
<1>1. CASE n + 1 \in X
  <2>1. PICK t : t = Append(s, n + 1) OBVIOUS
  <2>2. IsSeq(s) /\ DOMAIN s = 1 .. Len(s) /\ Len(s) \in Nat BY IsSeqFacts DEF Lists
  <2>3. /\ IsSeq(t) /\ Len(t) = Len(s) + 1 /\ t[Len(s) + 1] = n + 1
        /\ \A i \in 1 .. Len(s) : t[i] = s[i]
    BY <2>1, <2>2, AppendFacts
  <2>4. DOMAIN t = 1 .. Len(s) + 1 BY <2>3, IsSeqFacts
  <2>5. \A k \in DOMAIN t : t[k] \in X /\ t[k] \in 1 .. n + 1
    BY <1>1, <2>2, <2>3, <2>4 DEF Lists
  <2>6. ASSUME NEW k \in DOMAIN t, NEW l \in DOMAIN t, k < l PROVE t[k] < t[l]
    <3>1. k \in 1 .. Len(s) /\ t[k] = s[k] /\ s[k] \in 1 .. n
      BY <2>2, <2>3, <2>4, <2>6 DEF Lists
    <3>2. CASE l = Len(s) + 1 BY <2>3, <3>1, <3>2
    <3>3. CASE l # Len(s) + 1
      <4>1. l \in 1 .. Len(s) /\ t[l] = s[l] BY <2>2, <2>3, <2>4, <3>3
      <4>2. s[k] < s[l] BY <2>2, <2>6, <3>1, <4>1 DEF Lists
      <4>3. QED BY <3>1, <4>1, <4>2
    <3>4. QED BY <3>2, <3>3
  <2>7. ASSUME NEW m \in X, m \in 1 .. n + 1 PROVE \E k \in DOMAIN t : t[k] = m
    <3>1. CASE m = n + 1 BY <2>2, <2>3, <2>4, <3>1
    <3>2. CASE m # n + 1
      <4>1. m \in 1 .. n BY <2>7, <3>2
      <4>2. PICK k \in DOMAIN s : s[k] = m BY <4>1 DEF Lists
      <4>3. QED BY <2>2, <2>3, <2>4, <4>2
    <3>3. QED BY <3>1, <3>2
  <2>8. Lists(t, X, n + 1) BY <2>3, <2>5, <2>6, <2>7 DEF Lists
  <2>9. QED BY <1>1, <2>1, <2>8
<1>2. CASE n + 1 \notin X
  <2>1. \A m \in X : m \in 1 .. n + 1 => m \in 1 .. n BY <1>2
  <2>2. \A m \in 1 .. n : m \in 1 .. n + 1 OBVIOUS
  <2>3. Lists(s, X, n + 1) BY <2>1, <2>2 DEF Lists
  <2>4. QED BY <1>2, <2>3
<1>3. QED BY <1>1, <1>2

LEMMA WalkLists ==
    ASSUME NEW M, NEW S, NEW N \in Nat, NEW f, Walk(f, N, M, S),
           \A m \in 1 .. N, n \in 1 .. N : n \in M /\ m <= n => m \in M
    PROVE  Lists(f[N], S \ M, N)
<1> DEFINE X == S \ M
           T == {n \in Nat : n <= N => Lists(f[n], X, n)}
<1>1. 0 \in T
  <2>1. f[0] = <<>> BY DEF Walk
  <2>2. X \cap 1 .. 0 = {} OBVIOUS
  <2>3. QED BY <2>1, <2>2, ListsNone
<1>2. ASSUME NEW n \in Nat, n \in T PROVE n + 1 \in T
  <2>1. SUFFICES ASSUME n + 1 <= N PROVE Lists(f[n + 1], X, n + 1) OBVIOUS
  <2>2. Lists(f[n], X, n) BY <1>2, <2>1
  <2>3. PICK k : k = n + 1 OBVIOUS
  <2>4. k \in 0 .. N /\ k # 0 /\ k - 1 = n BY <2>1, <2>3
  <2>5. f[k] = IF k \in M THEN <<>> ELSE IF k \in S THEN Append(f[n], k) ELSE f[n]
    BY <2>4 DEF Walk
  <2>6. CASE k \in M
    <3>1. k \in 1 .. N /\ \A m \in 1 .. k : m \in 1 .. N /\ m <= k BY <2>4
    <3>2. \A m \in 1 .. k : m \in M BY <2>6, <3>1
    <3>3. X \cap 1 .. k = {} BY <3>2
    <3>4. f[k] = <<>> BY <2>5, <2>6
    <3>5. QED BY <2>3, <3>3, <3>4, ListsNone
  <2>7. CASE k \notin M
    <3> HIDE DEF T
    <3>1. IF k \in X THEN Lists(Append(f[n], k), X, k) ELSE Lists(f[n], X, k)
      <4> HIDE DEF X
      <4>1. QED BY <2>2, <2>3, ListsMore
    <3>2. k \in X <=> k \in S BY <2>7
    <3>3. QED BY <2>3, <2>5, <2>7, <3>1, <3>2
  <2>8. QED BY <2>6, <2>7
<1> HIDE DEF T
<1>3. Nat \subseteq T BY <1>1, <1>2, NatSetInduction, Zenon
<1>4. N \in T BY <1>3
<1>5. QED BY <1>4 DEF T

Chosen(side, cont, other) ==
    {n \in 1 .. Len(cont) : /\ ~IsPrefix(Upto(cont, n), other)
                            /\ Is(side, cont[n])
                            /\ select_interceptor(cont[n].guards, other) # Null}

LEMMA SelectingLists ==
    ASSUME NEW side, NEW cont, IsSeq(cont), NEW other, IsSeq(other)
    PROVE  Lists(Selecting(side, cont, other), Chosen(side, cont, other), Len(cont))
<1>1. PICK N : N = Len(cont) OBVIOUS
<1>2. N \in Nat BY <1>1, IsSeqFacts
<1> DEFINE M == {n \in 1 .. N : IsPrefix(Upto(cont, n), other)}
           S == {n \in 1 .. N : /\ Is(side, cont[n])
                                /\ select_interceptor(cont[n].guards, other) # Null}
           F(g) == [n \in 0 .. Len(cont) |->
                      IF n = 0 \/ IsPrefix(SubSeq(cont, 1, n), other) THEN <<>>
                      ELSE IF Is(side, cont[n]) /\ select_interceptor(cont[n].guards, other) # Null
                           THEN Append(g[n-1], n)
                           ELSE g[n-1]]
           G(g) == [n \in 0 .. N |-> IF n = 0 \/ n \in M THEN <<>>
                                     ELSE IF n \in S THEN Append(g[n-1], n) ELSE g[n-1]]
<1>3. ASSUME NEW g PROVE F(g) = G(g)
  <2>1. \A n \in 0 .. N : n # 0 =>
           /\ n \in M <=> IsPrefix(SubSeq(cont, 1, n), other)
           /\ n \in S <=> Is(side, cont[n]) /\ select_interceptor(cont[n].guards, other) # Null
    BY <1>2 DEF Upto
  <2>2. \A n \in 0 .. N : F(g)[n] = G(g)[n] BY <1>1, <2>1
  <2>3. QED BY <1>1, <2>2
<1>4. S \ M = Chosen(side, cont, other) BY <1>1 DEF Chosen
<1>5. \A m \in 1 .. N, n \in 1 .. N : n \in M /\ m <= n => m \in M
  <2>1. ASSUME NEW m \in 1 .. N, NEW n \in M, m <= n PROVE m \in M
    <3>1. n \in 0 .. Len(cont) /\ m \in 0 .. Len(cont) /\ m \in 1 .. n BY <1>1, <1>2, <2>1
    <3>2. Agree(cont, other, n) BY <3>1, UptoPrefix
    <3>3. Len(other) \in Nat BY IsSeqFacts
    <3>4. Agree(cont, other, m) BY <1>2, <3>1, <3>2, <3>3 DEF Agree
    <3>5. IsPrefix(Upto(cont, m), other) BY <3>1, <3>4, UptoPrefix
    <3>6. QED BY <3>5
  <2>2. QED BY <2>1
<1>6. \A g : Walk(g, N, M, S) <=> g = G(g) BY DEF Walk
<1>7. Selecting(side, cont, other) = (CHOOSE g : g = F(g))[Len(cont)] BY DEF Selecting
<1> HIDE DEF F, G, M, S
<1>8. \E g : g = F(g)
  <2>1. \E g : Walk(g, N, M, S) BY <1>2, WalkExists
  <2>2. QED BY <1>3, <1>6, <2>1
<1>9. PICK h : h = CHOOSE g : g = F(g) OBVIOUS
<1>10. h = F(h) BY <1>8, <1>9
<1>11. Walk(h, N, M, S) BY <1>3, <1>6, <1>10
<1>12. Lists(h[N], S \ M, N) BY <1>2, <1>5, <1>11, WalkLists
<1>13. QED BY <1>1, <1>4, <1>7, <1>9, <1>12

-----------------------------------------------------------------------------
(***************************************************************************)
(* The frames of continuations in C.                                       *)
(***************************************************************************)
LEMMA UptoEnds ==
    ASSUME NEW c, IsSeq(c), NEW n \in 1 .. Len(c), NEW p, p = Upto(c, n)
    PROVE  /\ IsSeq(p) /\ Len(p) = n /\ \A i \in 1 .. n : p[i] = c[i]
           /\ Last(p) = c[n]
           /\ AtBinding(p) <=> n > 1 /\ c[n-1].fn = "do_unbind"
           /\ n > 1 => p[n-1] = c[n-1]
           /\ Setting(p) <=> /\ n > 2 /\ c[n-2].fn = "do_unbind"
                             /\ c[n].fn = "do_interception"
<1>1. Len(c) \in Nat BY IsSeqFacts
<1>2. n \in 0 .. Len(c) BY <1>1
<1>3. IsSeq(p) /\ Len(p) = n /\ \A i \in 1 .. n : p[i] = c[i] BY <1>2, UptoFacts
<1>4. Last(p) = c[n] BY <1>1, <1>3 DEF Last
<1>5. n > 1 => n - 1 \in 1 .. n /\ p[n-1] = c[n-1] BY <1>1, <1>3
<1>6. n > 2 => n - 2 \in 1 .. n /\ p[n-2] = c[n-2] BY <1>1, <1>3
<1>7. AtBinding(p) <=> n > 1 /\ c[n-1].fn = "do_unbind" BY <1>3, <1>5 DEF AtBinding
<1>8. Setting(p) <=> n > 2 /\ c[n-2].fn = "do_unbind" /\ c[n].fn = "do_interception"
  BY <1>3, <1>4, <1>6 DEF Setting
<1>9. QED BY <1>3, <1>4, <1>5, <1>7, <1>8

LEMMA InGood ==
    ASSUME NEW C, Good(C), NEW c \in C
    PROVE  /\ IsSeq(c) /\ Len(c) \in Nat /\ Len(c) >= 1 /\ c # <<>>
           /\ DOMAIN c = 1 .. Len(c)
           /\ c[1] = Frame("do_root_exit") /\ c[1].fn = "do_root_exit"
           /\ \A n \in 1 .. Len(c) : Upto(c, n) \in C
           /\ IsPrefix(root_cont, c)
<1>1. IsSeq(c) /\ Len(c) >= 1 /\ c[1] = Frame("do_root_exit") BY DEF Good
<1>2. Len(c) \in Nat /\ DOMAIN c = 1 .. Len(c) BY <1>1, IsSeqFacts
<1>3. c # <<>> BY <1>1
<1>4. c[1].fn = "do_root_exit" BY <1>1 DEF Frame
<1>5. ASSUME NEW n \in 1 .. Len(c) PROVE Upto(c, n) \in C
  <2>1. CASE n = Len(c) BY <1>1, <2>1, UptoAll
  <2>2. CASE n # Len(c)
    <3>1. PICK i : i = n + 1 OBVIOUS
    <3>2. i \in 2 .. Len(c) /\ i - 1 = n
      <4>1. Len(c) \in Nat BY <1>2
      <4>2. n < Len(c) BY <2>2, <4>1
      <4>3. QED BY <3>1, <4>1, <4>2
    <3>3. Upto(c, i - 1) \in C BY <3>2 DEF Good
    <3>4. QED BY <3>2, <3>3
  <2>3. QED BY <2>1, <2>2
<1>6. IsPrefix(root_cont, c)
  <2>1. IsSeq(root_cont) /\ Len(root_cont) = 1 /\ root_cont[1] = Frame("do_root_exit")
    <3>1. PICK f : f = Frame("do_root_exit") OBVIOUS
    <3>2. PICK r : r = <<f>> OBVIOUS
    <3>3. DOMAIN r = 1 .. 1 /\ r = [i \in 1 .. 1 |-> r[i]] /\ r[1] = f BY <3>2
    <3>4. IsSeq(r) /\ Len(r) = 1 BY <3>3, FunctionIsSeq
    <3>5. QED BY <3>1, <3>2, <3>3, <3>4 DEF root_cont
  <2>2. \A i \in 1 .. 1 : root_cont[i] = c[i] BY <1>1, <2>1
  <2>3. QED BY <1>1, <2>1, <2>2, PrefixFacts
<1>7. QED BY <1>1, <1>2, <1>3, <1>4, <1>5, <1>6

\* What the shape of frame i of c says of its neighbours.
LEMMA FrameFacts ==
    ASSUME NEW C, Good(C), NEW c \in C, NEW i \in 2 .. Len(c)
    PROVE  /\ c[i].fn \notin {"do_root_exit", "do_set_pass", "NULL"}
           /\ i > 3 /\ c[i-3].fn = "do_unbind" => c[i-1].fn # "do_interception"
           /\ c[i-1].fn = "do_unbind" =>
                c[i] = Guarding("outer", c[i].id, BindingGuards(c[i-1].bound))
           /\ i > 2 /\ c[i-2].fn = "do_unbind" =>
                \/ c[i].fn = "do_interception"
                \/ c[i] = Guarding("inner", c[i-1].id, BindingGuards(c[i-2].binding))
           /\ c[i].fn = "do_unbind" =>
                /\ c[i].binding \in Bindings /\ c[i].bound \in Bindings
                /\ OneThread => c[i].binding = InnermostBinding(Upto(c, i - 1))
           /\ Is("inner", c[i]) => Is("outer", c[i-1]) /\ c[i].id = c[i-1].id
           /\ /\ c[i].fn = "do_pass_value" /\ c[i-1].fn # "do_unbind"
              /\ ~(i > 2 /\ c[i-2].fn = "do_unbind")
              => Own(c[i].guards)
           /\ c[i].fn = "do_interception" =>
                Is("outer", c[i-1]) /\ Aimed(C, Upto(c, i - 1), c[i].ls, c[i].dst)
<1>1. Len(c) \in Nat /\ IsSeq(c) BY InGood
<1>2. PICK n : n = i - 1 OBVIOUS
<1>3. n \in 1 .. Len(c) /\ n - 1 = i - 2 /\ n - 2 = i - 3 /\ n - 1 \in Int BY <1>1, <1>2
<1>4. PICK p : p = Upto(c, n) OBVIOUS
<1>5. FrameOK(C, p, c[i]) BY <1>2, <1>4 DEF Good
<1>6. /\ IsSeq(p) /\ Len(p) = n
      /\ Last(p) = c[n]
      /\ AtBinding(p) <=> n > 1 /\ c[n-1].fn = "do_unbind"
      /\ n > 1 => p[n-1] = c[n-1]
      /\ Setting(p) <=> n > 2 /\ c[n-2].fn = "do_unbind" /\ c[n].fn = "do_interception"
  BY <1>1, <1>3, <1>4, UptoEnds
<1>7. n > 1 <=> i > 2 BY <1>2
<1>8. n > 2 <=> i > 3 BY <1>2
<1> PICK f : f = c[i] OBVIOUS
<1>9. Shape(p, f) /\ (f.fn = "do_interception" => Is("outer", Last(p)) /\ Aimed(C, p, f.ls, f.dst))
  BY <1>5 DEF FrameOK
<1>10. /\ f.fn \notin {"do_root_exit", "do_set_pass", "NULL"}
       /\ ~Setting(p)
       /\ Last(p).fn = "do_unbind" =>
            f = Guarding("outer", f.id, BindingGuards(Last(p).bound))
       /\ f.fn = "do_unbind" =>
            /\ f.binding \in Bindings /\ f.bound \in Bindings
            /\ OneThread => f.binding = InnermostBinding(p)
       /\ Is("inner", f) => Is("outer", Last(p)) /\ f.id = Last(p).id
       /\ f.fn = "do_pass_value" /\ Last(p).fn # "do_unbind" /\ ~AtBinding(p) => Own(f.guards)
  BY <1>9 DEF Shape
<1>11. AtBinding(p) =>
         f.fn = "do_interception"
         \/ f = Guarding("inner", Last(p).id, BindingGuards(p[n - 1].binding))
  BY <1>6, <1>9 DEF Shape
<1>12. i > 2 /\ c[i-2].fn = "do_unbind" =>
                \/ c[i].fn = "do_interception"
                \/ c[i] = Guarding("inner", c[i-1].id, BindingGuards(c[i-2].binding))
  BY <1>2, <1>3, <1>6, <1>7, <1>11
<1>13. i > 3 /\ c[i-3].fn = "do_unbind" => c[i-1].fn # "do_interception"
  BY <1>2, <1>3, <1>6, <1>8, <1>10
<1>14. /\ c[i].fn = "do_pass_value" /\ c[i-1].fn # "do_unbind"
       /\ ~(i > 2 /\ c[i-2].fn = "do_unbind")
       => Own(c[i].guards)
  BY <1>2, <1>3, <1>6, <1>7, <1>10
<1>15. Upto(c, i - 1) = p /\ Last(p) = c[i-1] BY <1>2, <1>4, <1>6
<1>16. QED BY <1>9, <1>10, <1>12, <1>13, <1>14, <1>15

\* The guards of a binding have one clause, which selects everything.
LEMMA BindingGuardsFacts ==
    ASSUME NEW b
    PROVE  /\ IsSeq(BindingGuards(b)) /\ DOMAIN BindingGuards(b) = {1}
           /\ BindingGuards(b) # <<>>
           /\ BindingGuards(b)[1].selector = root_cont
           /\ BindingGuards(b)[1].op = SetPass(b)
           /\ SetPass(b).fn = "do_set_pass" /\ SetPass(b).binding = b
<1>1. PICK q : q = Clause(root_cont, SetPass(b)) OBVIOUS
<1>2. PICK r : r = <<q>> OBVIOUS
<1>3. DOMAIN r = 1 .. 1 /\ r = [i \in 1 .. 1 |-> r[i]] /\ r[1] = q /\ r # <<>> BY <1>2
<1>4. IsSeq(r) /\ DOMAIN r = {1}
  <2>1. IsSeq(r) BY <1>3, FunctionIsSeq
  <2>2. 1 .. 1 = {1} OBVIOUS
  <2>3. QED BY <1>3, <2>1, <2>2
<1>5. q.selector = root_cont /\ q.op = SetPass(b) BY <1>1 DEF Clause
<1>6. BindingGuards(b) = r BY <1>1, <1>2 DEF BindingGuards
<1>7. SetPass(b).fn = "do_set_pass" /\ SetPass(b).binding = b BY DEF SetPass
<1>8. QED BY <1>3, <1>4, <1>5, <1>6, <1>7

LEMMA BindingSelects ==
    ASSUME NEW b, NEW x, IsPrefix(root_cont, x)
    PROVE  select_interceptor(BindingGuards(b), x) = SetPass(b)
<1>1. PICK g : g = BindingGuards(b) OBVIOUS
<1>2. IsSeq(g) /\ DOMAIN g = {1} /\ g[1].selector = root_cont /\ g[1].op = SetPass(b)
  BY <1>1, BindingGuardsFacts
<1>3. Selected(g, x, 1) BY <1>2 DEF Selected
<1>4. select_interceptor(g, x) = g[1].op BY <1>2, <1>3, SelectedFacts
<1>5. QED BY <1>1, <1>2, <1>4

\* Whatever a guard frame selects is an operative.
LEMMA GuardFacts ==
    ASSUME NEW C, Good(C), NEW c \in C, NEW i \in 1 .. Len(c), c[i].fn = "do_pass_value"
    PROVE  /\ i \in 2 .. Len(c) /\ IsSeq(c[i].guards)
           /\ \A g \in DOMAIN c[i].guards : c[i].guards[g].op # Null
<1>1. i # 1 BY InGood
<1>2. i \in 2 .. Len(c) /\ Len(c) \in Nat BY <1>1, InGood
<1>3. /\ c[i-1].fn = "do_unbind" =>
           c[i] = Guarding("outer", c[i].id, BindingGuards(c[i-1].bound))
      /\ i > 2 /\ c[i-2].fn = "do_unbind" =>
           \/ c[i].fn = "do_interception"
           \/ c[i] = Guarding("inner", c[i-1].id, BindingGuards(c[i-2].binding))
      /\ /\ c[i].fn = "do_pass_value" /\ c[i-1].fn # "do_unbind"
         /\ ~(i > 2 /\ c[i-2].fn = "do_unbind")
         => Own(c[i].guards)
  BY <1>2, FrameFacts
<1>4. (\E b : c[i].guards = BindingGuards(b)) \/ Own(c[i].guards)
  <2>1. CASE c[i-1].fn = "do_unbind" BY <1>3, <2>1 DEF Guarding
  <2>2. CASE c[i-1].fn # "do_unbind" /\ i > 2 /\ c[i-2].fn = "do_unbind"
    <3>1. c[i] = Guarding("inner", c[i-1].id, BindingGuards(c[i-2].binding)) BY <1>3, <2>2
    <3>2. QED BY <3>1 DEF Guarding
  <2>3. CASE c[i-1].fn # "do_unbind" /\ ~(i > 2 /\ c[i-2].fn = "do_unbind") BY <1>3, <2>3
  <2>4. QED BY <2>1, <2>2, <2>3
<1>5. PICK q : q = c[i].guards OBVIOUS
<1>6. CASE \E b : q = BindingGuards(b)
  <2>1. PICK b : q = BindingGuards(b) BY <1>6
  <2>2. IsSeq(q) /\ DOMAIN q = {1} /\ q[1].op.fn = "do_set_pass" BY <2>1, BindingGuardsFacts
  <2>3. q[1].op # Null BY <2>2 DEF Null
  <2>4. QED BY <1>2, <1>5, <2>2, <2>3
<1>7. CASE Own(q)
  <2>1. IsSeq(q) /\ \A g \in DOMAIN q : q[g].op.fn \in PlainOps BY <1>7 DEF Own
  <2>2. \A g \in DOMAIN q : q[g].op # Null BY <2>1 DEF PlainOps, Null
  <2>3. QED BY <1>2, <1>5, <2>1, <2>2
<1>8. QED BY <1>4, <1>5, <1>6, <1>7

-----------------------------------------------------------------------------
(***************************************************************************)
(* The innermost call to b.                                                *)
(***************************************************************************)
Unbinds(c, k) == k \in 1 .. Len(c) /\ c[k].fn = "do_unbind"

LEMMA InnermostIs ==
    ASSUME NEW c, IsSeq(c), NEW k, Unbinds(c, k), \A m : Unbinds(c, m) => m <= k
    PROVE  InnermostBinding(c) = c[k].bound
<1> DEFINE calls == {i \in DOMAIN c : c[i].fn = "do_unbind"}
<1>1. Len(c) \in Nat /\ DOMAIN c = 1 .. Len(c) BY IsSeqFacts
<1>2. k \in calls /\ calls \in SUBSET Nat BY <1>1 DEF Unbinds
<1>3. \A m \in calls : m <= k BY <1>1 DEF Unbinds
<1>4. InnermostBinding(c) = IF calls = {} THEN NoBinding ELSE c[Max(calls)].bound
  BY DEF InnermostBinding
<1> HIDE DEF calls
<1>5. Max(calls) = k BY <1>2, <1>3, GreatestIsMax
<1>6. QED BY <1>2, <1>4, <1>5

LEMMA SameCalls ==
    ASSUME NEW c, NEW d, IsSeq(c), IsSeq(d),
           \A k : Unbinds(c, k) <=> Unbinds(d, k),
           \A k : Unbinds(c, k) => c[k] = d[k]
    PROVE  InnermostBinding(c) = InnermostBinding(d)
<1> DEFINE calls(x) == {i \in DOMAIN x : x[i].fn = "do_unbind"}
<1>1. /\ Len(c) \in Nat /\ DOMAIN c = 1 .. Len(c)
      /\ Len(d) \in Nat /\ DOMAIN d = 1 .. Len(d)
  BY IsSeqFacts
<1>2. \A k : k \in calls(c) <=> Unbinds(c, k) BY <1>1 DEF Unbinds
<1>3. \A k : k \in calls(d) <=> Unbinds(d, k) BY <1>1 DEF Unbinds
<1>4. InnermostBinding(c) = IF calls(c) = {} THEN NoBinding ELSE c[Max(calls(c))].bound
  BY DEF InnermostBinding
<1>5. InnermostBinding(d) = IF calls(d) = {} THEN NoBinding ELSE d[Max(calls(d))].bound
  BY DEF InnermostBinding
<1>6. calls(c) \in SUBSET (0 .. Len(c)) BY <1>1
<1> HIDE DEF calls
<1>7. PICK T : T = calls(c) OBVIOUS
<1>8. T = calls(d) BY <1>2, <1>3, <1>7
<1>9. CASE T = {} BY <1>4, <1>5, <1>7, <1>8, <1>9
<1>10. CASE T # {}
  <2>1. Max(T) \in T BY <1>1, <1>6, <1>7, <1>10, MaxInSet
  <2>2. c[Max(T)] = d[Max(T)] BY <1>2, <1>7, <2>1
  <2>3. QED BY <1>4, <1>5, <1>7, <1>8, <2>2
<1>11. QED BY <1>9, <1>10

\* A frame that is not of a call to b leaves the innermost one.
LEMMA SameInnermost ==
    ASSUME NEW c, IsSeq(c), NEW f, f.fn # "do_unbind"
    PROVE  InnermostBinding(Append(c, f)) = InnermostBinding(c)
<1>1. PICK d : d = Append(c, f) OBVIOUS
<1>2. /\ IsSeq(d) /\ Len(d) = Len(c) + 1 /\ Len(c) \in Nat /\ d[Len(d)] = f
      /\ \A i \in 1 .. Len(c) : d[i] = c[i]
  <2>1. /\ IsSeq(d) /\ Len(d) = Len(c) + 1 /\ d[Len(c) + 1] = f
        /\ \A i \in 1 .. Len(c) : d[i] = c[i]
    BY <1>1, AppendFacts
  <2>2. Len(c) \in Nat BY IsSeqFacts
  <2>3. QED BY <2>1, <2>2
<1>3. ASSUME NEW k PROVE Unbinds(d, k) <=> Unbinds(c, k)
  <2>1. Unbinds(d, k) => k # Len(d) BY <1>2 DEF Unbinds
  <2>2. k \in 1 .. Len(d) <=> k \in 1 .. Len(c) \/ k = Len(d) BY <1>2
  <2>3. QED BY <1>2, <2>1, <2>2 DEF Unbinds
<1>4. \A k : Unbinds(d, k) => d[k] = c[k]
  <2>1. \A k : Unbinds(c, k) => d[k] = c[k] BY <1>2 DEF Unbinds
  <2>2. QED BY <1>3, <2>1
<1>5. InnermostBinding(d) = InnermostBinding(c) BY <1>2, <1>3, <1>4, SameCalls
<1>6. QED BY <1>1, <1>5

-----------------------------------------------------------------------------
(***************************************************************************)
(* The list of interceptions.                                              *)
(***************************************************************************)
IsConcat(u, s, t) == u = s \o t

LEMMA ConcatFacts ==
    ASSUME NEW s, NEW t, IsSeq(s), IsSeq(t), NEW u, IsConcat(u, s, t)
    PROVE  /\ IsSeq(u) /\ Len(u) = Len(s) + Len(t) /\ Len(s) \in Nat /\ Len(t) \in Nat
           /\ \A i \in 1 .. Len(s) : u[i] = s[i]
           /\ \A i \in 1 .. Len(t) : u[Len(s) + i] = t[i]
<1>1. PICK S : S = Range(s) \cup Range(t) OBVIOUS
<1>2. s \in Seq(S) /\ t \in Seq(S)
  <2>1. Range(s) \subseteq S /\ Range(t) \subseteq S BY <1>1
  <2>2. s \in Seq(Range(s)) /\ t \in Seq(Range(t)) BY DEF IsSeq
  <2>3. QED BY <2>1, <2>2, SeqMonotonic
<1>3. Len(s) \in Nat /\ Len(t) \in Nat BY <1>2
<1>4. u \in Seq(S) /\ Len(u) = Len(s) + Len(t) BY <1>2 DEF IsConcat
<1>5. \A i \in 1 .. Len(s) : u[i] = s[i] BY <1>2 DEF IsConcat
<1>6. \A i \in 1 .. Len(t) : u[Len(s) + i] = t[i] BY <1>2, <1>3 DEF IsConcat
<1>7. DOMAIN u = 1 .. Len(u) /\ u = [i \in 1 .. Len(u) |-> u[i]] /\ Len(u) \in Nat
  <2>1. u \in Seq(S) BY <1>4
  <2>2. QED BY <2>1, LenProperties
<1>8. IsSeq(u) BY <1>7, FunctionIsSeq
<1>9. QED BY <1>3, <1>4, <1>5, <1>6, <1>8

\* The list is made of n exits at positions a of src, from the inside, and then
\* of m entries at positions b of dst, from the outside.
ListOf(ls, src, dst, a, n, b, m) ==
    /\ n \in Nat /\ m \in Nat /\ IsSeq(ls) /\ Len(ls) = n + m
    /\ \A j \in 1 .. n :
         /\ a[j] \in Chosen("inner", src, dst)
         /\ ls[j].op = select_interceptor(src[a[j]].guards, dst)
         /\ ls[j].outer = Upto(src, a[j] - 1)
         /\ \A k \in 1 .. j - 1 : a[k] > a[j]
    /\ \A i \in Chosen("inner", src, dst) : \E j \in 1 .. n : a[j] = i
    /\ \A j \in 1 .. m :
         /\ b[j] \in Chosen("outer", dst, src)
         /\ ls[n + j].op = select_interceptor(dst[b[j]].guards, src)
         /\ ls[n + j].outer = Upto(dst, b[j])
         /\ \A k \in 1 .. j - 1 : b[k] < b[j]
    /\ \A i \in Chosen("outer", dst, src) : \E j \in 1 .. m : b[j] = i

LEMMA ListFacts ==
    ASSUME NEW src, NEW dst, IsSeq(src), IsSeq(dst)
    PROVE  \E a, n, b, m : ListOf(create_interception_list(src, dst), src, dst, a, n, b, m)
<1>1. PICK S : S = Selecting("inner", src, dst) OBVIOUS
<1>2. PICK E : E = Selecting("outer", dst, src) OBVIOUS
<1>3. Lists(S, Chosen("inner", src, dst), Len(src)) BY <1>1, SelectingLists
<1>4. Lists(E, Chosen("outer", dst, src), Len(dst)) BY <1>2, SelectingLists
<1>5. PICK n, m : n = Len(S) /\ m = Len(E) OBVIOUS
<1>6. n \in Nat /\ DOMAIN S = 1 .. n BY <1>3, <1>5, IsSeqFacts DEF Lists
<1>7. m \in Nat /\ DOMAIN E = 1 .. m BY <1>4, <1>5, IsSeqFacts DEF Lists
<1>8. PICK a : a = [i \in 1 .. n |-> S[(n - i) + 1]] OBVIOUS
<1>9. Reverse(S) = a BY <1>5, <1>8 DEF Reverse
<1>10. PICK x : x = [j \in 1 .. n |->
           [op    |-> select_interceptor(src[a[j]].guards, dst),
            outer |-> SubSeq(src, 1, a[j] - 1)]]
  OBVIOUS
<1>11. PICK y : y = [j \in 1 .. m |->
           [op    |-> select_interceptor(dst[E[j]].guards, src),
            outer |-> SubSeq(dst, 1, E[j])]]
  OBVIOUS
<1>12. PICK ls : ls = x \o y OBVIOUS
<1>13. create_interception_list(src, dst) = ls
  <2>1. DOMAIN a = 1 .. n BY <1>8
  <2>2. QED BY <1>1, <1>2, <1>7, <1>9, <1>10, <1>11, <1>12, <2>1 DEF create_interception_list
<1>14. IsSeq(x) /\ Len(x) = n
  <2>1. DOMAIN x = 1 .. n /\ x = [i \in 1 .. n |-> x[i]] BY <1>10
  <2>2. QED BY <1>6, <2>1, FunctionIsSeq
<1>15. IsSeq(y) /\ Len(y) = m
  <2>1. DOMAIN y = 1 .. m /\ y = [i \in 1 .. m |-> y[i]] BY <1>11
  <2>2. QED BY <1>7, <2>1, FunctionIsSeq
<1>16. /\ IsSeq(ls) /\ Len(ls) = n + m
       /\ \A i \in 1 .. n : ls[i] = x[i]
       /\ \A i \in 1 .. m : ls[n + i] = y[i]
  <2>1. /\ IsSeq(ls) /\ Len(ls) = Len(x) + Len(y)
        /\ \A i \in 1 .. Len(x) : ls[i] = x[i]
        /\ \A i \in 1 .. Len(y) : ls[Len(x) + i] = y[i]
    <3>1. IsSeq(x) /\ IsSeq(y) BY <1>14, <1>15
    <3>2. IsConcat(ls, x, y) BY <1>12 DEF IsConcat
    <3>3. QED BY <3>1, <3>2, ConcatFacts
  <2>2. QED BY <1>14, <1>15, <2>1
<1>17. ASSUME NEW j \in 1 .. n
       PROVE  /\ a[j] \in Chosen("inner", src, dst)
              /\ ls[j].op = select_interceptor(src[a[j]].guards, dst)
              /\ ls[j].outer = Upto(src, a[j] - 1)
              /\ \A k \in 1 .. j - 1 : a[k] > a[j]
  <2>1. ls[j].op = select_interceptor(src[a[j]].guards, dst)
    BY <1>10, <1>16
  <2>2. ls[j].outer = Upto(src, a[j] - 1) BY <1>10, <1>16 DEF Upto
  <2>3. (n - j) + 1 \in 1 .. n /\ a[j] = S[(n - j) + 1] BY <1>6, <1>8
  <2>4. a[j] \in Chosen("inner", src, dst) /\ a[j] \in 1 .. Len(src)
    BY <1>3, <1>6, <2>3 DEF Lists
  <2>5. ASSUME NEW k \in 1 .. j - 1 PROVE a[k] > a[j]
    <3>1. k \in 1 .. n /\ (n - k) + 1 \in 1 .. n /\ (n - j) + 1 < (n - k) + 1 BY <1>6
    <3>2. a[k] = S[(n - k) + 1] BY <1>8, <3>1
    <3>3. S[(n - j) + 1] < S[(n - k) + 1] BY <1>3, <1>6, <2>3, <3>1 DEF Lists
    <3>4. S[(n - k) + 1] \in 1 .. Len(src) BY <1>3, <1>6, <3>1 DEF Lists
    <3>5. QED BY <2>3, <2>4, <3>2, <3>3, <3>4
  <2>6. QED BY <2>1, <2>2, <2>4, <2>5
<1>18. ASSUME NEW i \in Chosen("inner", src, dst) PROVE \E j \in 1 .. n : a[j] = i
  <2>1. i \in 1 .. Len(src) BY DEF Chosen
  <2>2. PICK k \in 1 .. n : S[k] = i BY <1>3, <1>6, <2>1 DEF Lists
  <2>3. PICK j : j = (n - k) + 1 OBVIOUS
  <2>4. j \in 1 .. n /\ (n - j) + 1 = k BY <1>6, <2>3
  <2>5. QED BY <1>8, <2>2, <2>4
<1>19. ASSUME NEW j \in 1 .. m
       PROVE  /\ E[j] \in Chosen("outer", dst, src)
              /\ ls[n + j].op = select_interceptor(dst[E[j]].guards, src)
              /\ ls[n + j].outer = Upto(dst, E[j])
              /\ \A k \in 1 .. j - 1 : E[k] < E[j]
  <2>1. ls[n + j].op = select_interceptor(dst[E[j]].guards, src) BY <1>11, <1>16
  <2>2. ls[n + j].outer = Upto(dst, E[j]) BY <1>11, <1>16 DEF Upto
  <2>3. E[j] \in Chosen("outer", dst, src) BY <1>4, <1>7 DEF Lists
  <2>4. ASSUME NEW k \in 1 .. j - 1 PROVE E[k] < E[j]
    <3>1. k \in 1 .. m /\ k < j BY <1>7
    <3>2. QED BY <1>4, <1>7, <3>1 DEF Lists
  <2>5. QED BY <2>1, <2>2, <2>3, <2>4
<1>20. ASSUME NEW i \in Chosen("outer", dst, src) PROVE \E j \in 1 .. m : E[j] = i
  <2>1. i \in 1 .. Len(dst) BY DEF Chosen
  <2>2. QED BY <1>4, <1>7, <2>1 DEF Lists
<1>21. ListOf(ls, src, dst, a, n, E, m)
  BY <1>6, <1>7, <1>16, <1>17, <1>18, <1>19, <1>20 DEF ListOf
<1>22. QED BY <1>13, <1>21

LEMMA ExitOnPath ==
    ASSUME NEW src, NEW dst, IsSeq(src), IsSeq(dst), NEW i \in 1 .. Len(src),
           ~IsPrefix(Upto(src, i), dst), NEW x \in i - 1 .. Len(src)
    PROVE  OnPath(Upto(src, x), Upto(src, i - 1), dst)
<1>1. Len(src) \in Nat /\ Len(dst) \in Nat /\ DOMAIN dst = 1 .. Len(dst) BY IsSeqFacts
<1>2. PICK h : h = i - 1 OBVIOUS
<1>3. h \in 0 .. Len(src) /\ x \in 0 .. Len(src) /\ h <= x /\ i \in 0 .. Len(src)
  BY <1>1, <1>2
<1>4. ~Agree(src, dst, i) BY <1>3, UptoPrefix
<1>5. PICK u, w : u = Upto(src, x) /\ w = Upto(src, h) OBVIOUS
<1>6. /\ IsSeq(u) /\ Len(u) = x /\ \A k \in 1 .. x : u[k] = src[k]
      /\ IsSeq(w) /\ Len(w) = h /\ \A k \in 1 .. h : w[k] = src[k]
  BY <1>3, <1>5, UptoFacts
<1>7. IsPrefix(w, u)
  <2>1. \A k \in 1 .. h : w[k] = u[k] BY <1>1, <1>3, <1>6
  <2>2. QED BY <1>3, <1>6, <2>1, PrefixFacts
<1>8. ASSUME NEW n \in DOMAIN dst, IsPrefix(Upto(dst, n), u)
      PROVE  IsPrefix(Upto(dst, n), w)
  <2>1. n \in 0 .. Len(dst) /\ n \in 1 .. Len(dst) BY <1>1
  <2>2. Agree(dst, u, n) BY <1>6, <1>8, <2>1, UptoPrefix
  <2>3. n <= x /\ \A k \in 1 .. n : dst[k] = src[k] BY <1>3, <1>6, <2>2 DEF Agree
  <2>4. n <= h
    <3>1. SUFFICES ASSUME i <= n PROVE FALSE BY <1>1, <1>2, <2>1
    <3>2. Agree(src, dst, i) BY <1>1, <2>1, <2>3, <3>1 DEF Agree
    <3>3. QED BY <1>4, <3>2
  <2>5. \A k \in 1 .. n : w[k] = dst[k] BY <1>3, <1>6, <2>1, <2>3, <2>4
  <2>6. Agree(dst, w, n) BY <1>6, <2>4, <2>5 DEF Agree
  <2>7. QED BY <1>6, <2>1, <2>6, UptoPrefix
<1>9. OnPath(u, w, dst) BY <1>7, <1>8 DEF OnPath
<1>10. QED BY <1>2, <1>5, <1>9

LEMMA EntryOnPath ==
    ASSUME NEW src, NEW dst, IsSeq(src), IsSeq(dst), NEW b \in 1 .. Len(dst),
           NEW u, IsSeq(u), ~IsPrefix(Upto(dst, b), u)
    PROVE  OnPath(u, Upto(dst, b), dst)
<1>1. Len(dst) \in Nat /\ DOMAIN dst = 1 .. Len(dst) BY IsSeqFacts
<1>2. b \in 0 .. Len(dst) BY <1>1
<1>3. ~Agree(dst, u, b) BY <1>2, UptoPrefix
<1>4. PICK w : w = Upto(dst, b) OBVIOUS
<1>5. IsSeq(w) /\ Len(w) = b /\ \A k \in 1 .. b : w[k] = dst[k] BY <1>2, <1>4, UptoFacts
<1>6. IsPrefix(w, dst) BY <1>1, <1>2, <1>5, PrefixFacts
<1>7. ASSUME NEW n \in DOMAIN dst, IsPrefix(Upto(dst, n), u)
      PROVE  IsPrefix(Upto(dst, n), w)
  <2>1. n \in 0 .. Len(dst) /\ n \in 1 .. Len(dst) BY <1>1
  <2>2. Agree(dst, u, n) BY <1>7, <2>1, UptoPrefix
  <2>3. n < b
    <3>1. SUFFICES ASSUME b <= n PROVE FALSE BY <1>1, <2>1
    <3>2. Len(u) \in Nat BY IsSeqFacts
    <3>3. Agree(dst, u, b) BY <1>1, <2>1, <2>2, <3>1, <3>2 DEF Agree
    <3>4. QED BY <1>3, <3>3
  <2>4. Agree(dst, w, n) BY <1>1, <1>5, <2>1, <2>3 DEF Agree
  <2>5. QED BY <1>5, <2>1, <2>4, UptoPrefix
<1>8. OnPath(u, w, dst) BY <1>6, <1>7 DEF OnPath
<1>9. QED BY <1>4, <1>8

\* What an exit guard selects is an item.
LEMMA ExitItem ==
    ASSUME NEW C, Good(C), NEW src \in C, NEW dst \in C, Whole(dst),
           NEW i \in Chosen("inner", src, dst), NEW e,
           e.op = select_interceptor(src[i].guards, dst), e.outer = Upto(src, i - 1)
    PROVE  Item(e, dst)
<1>1. /\ i \in 1 .. Len(src) /\ ~IsPrefix(Upto(src, i), dst)
      /\ src[i].fn = "do_pass_value" /\ src[i].side = "inner" /\ Is("inner", src[i])
      /\ select_interceptor(src[i].guards, dst) # Null
  BY DEF Chosen, Is
<1>2. IsSeq(src) /\ Len(src) \in Nat /\ IsSeq(dst) /\ Len(dst) \in Nat /\ IsPrefix(root_cont, dst)
  BY InGood
<1>3. i \in 2 .. Len(src) /\ IsSeq(src[i].guards) BY <1>1, GuardFacts
<1>4. PICK h : h = i - 1 OBVIOUS
<1>5. h \in 1 .. Len(src) /\ h - 1 = i - 2 BY <1>2, <1>3, <1>4
<1>6. PICK w : w = Upto(src, h) OBVIOUS
<1>7. /\ IsSeq(w) /\ Len(w) = h /\ Last(w) = src[h] /\ \A k \in 1 .. h : w[k] = src[k]
      /\ AtBinding(w) <=> h > 1 /\ src[h-1].fn = "do_unbind"
      /\ h > 1 => w[h-1] = src[h-1]
  BY <1>2, <1>5, <1>6, UptoEnds
<1>8. /\ i > 2 /\ src[i-2].fn = "do_unbind" =>
           \/ src[i].fn = "do_interception"
           \/ src[i] = Guarding("inner", src[i-1].id, BindingGuards(src[i-2].binding))
      /\ Is("outer", src[i-1])
      /\ /\ src[i].fn = "do_pass_value" /\ src[i-1].fn # "do_unbind"
         /\ ~(i > 2 /\ src[i-2].fn = "do_unbind")
         => Own(src[i].guards)
  BY <1>1, <1>3, FrameFacts
<1>9. h > 1 <=> i > 2 BY <1>2, <1>3, <1>4
<1>10. Is("outer", Last(w)) BY <1>4, <1>7, <1>8
<1>11. CASE AtBinding(w)
  <2>1. h > 1 /\ i > 2 /\ src[i-2].fn = "do_unbind" /\ src[h-1] = src[i-2]
    BY <1>5, <1>7, <1>9, <1>11
  <2>2. src[i] = Guarding("inner", src[h].id, BindingGuards(src[i-2].binding))
    BY <1>1, <1>4, <1>8, <2>1
  <2>3. PICK bd : bd = src[i-2].binding OBVIOUS
  <2>4. src[i].guards = BindingGuards(bd) BY <2>2, <2>3 DEF Guarding
  <2>5. e.op = SetPass(bd) BY <1>2, <2>4, BindingSelects
  <2>6. ~IsPrefix(w, dst)
    <3>1. SUFFICES ASSUME IsPrefix(w, dst) PROVE FALSE OBVIOUS
    <3>2. h <= Len(dst) /\ \A k \in 1 .. h : w[k] = dst[k] BY <1>2, <1>7, <3>1, PrefixFacts
    <3>3. \A k \in 1 .. h : dst[k] = src[k] BY <1>7, <3>2
    <3>4. i - 2 \in 1 .. h /\ h \in 1 .. h /\ i - 2 \in 1 .. Len(dst) BY <1>4, <1>5, <2>1, <3>2
    <3>5. dst[i-2] = src[i-2] /\ dst[h] = src[h] BY <3>3, <3>4
    <3>6. i \in 2 .. Len(dst) /\ dst[i].fn # "do_interception"
      <4>1. DOMAIN dst = 1 .. Len(dst) BY <1>2, IsSeqFacts
      <4>2. (i - 2) + 2 <= Len(dst) /\ dst[(i - 2) + 2].fn # "do_interception"
        BY <2>1, <3>4, <3>5, <4>1 DEF Whole
      <4>3. (i - 2) + 2 = i BY <1>3
      <4>4. QED BY <1>2, <1>3, <4>2, <4>3
    <3>7. dst[i] = Guarding("inner", dst[i-1].id, BindingGuards(dst[i-2].binding))
      BY <2>1, <3>5, <3>6, FrameFacts
    <3>8. dst[i] = src[i] BY <1>4, <2>2, <3>5, <3>7
    <3>9. \A k \in 1 .. i : src[k] = dst[k]
      <4>1. \A k \in 1 .. i : k \in 1 .. h \/ k = i BY <1>2, <1>3, <1>4
      <4>2. QED BY <3>3, <3>8, <4>1
    <3>10. Agree(src, dst, i) BY <3>6, <3>9 DEF Agree
    <3>11. i \in 0 .. Len(src) BY <1>2, <1>3
    <3>12. QED BY <1>1, <1>2, <3>10, <3>11, UptoPrefix
  <2>7. Put(w, dst) = bd BY <1>7, <1>11, <2>1, <2>3, <2>6 DEF Put
  <2>8. QED BY <1>4, <1>5, <1>6, <1>7, <1>10, <1>11, <2>5, <2>7 DEF Item
<1>12. CASE ~AtBinding(w)
  <2>1. ~(i > 2 /\ src[i-2].fn = "do_unbind") BY <1>5, <1>7, <1>9, <1>12
  <2>2. src[i-1].fn # "do_unbind" BY <1>8 DEF Is
  <2>3. Own(src[i].guards) BY <1>1, <1>8, <2>1, <2>2
  <2>4. PICK q : q = src[i].guards OBVIOUS
  <2>5. PICK g \in DOMAIN q : select_interceptor(q, dst) = q[g].op
    BY <1>1, <1>3, <2>4, SelectsFacts
  <2>6. q[g].op.fn \in PlainOps BY <2>3, <2>4 DEF Own
  <2>7. e.op.fn \in PlainOps BY <2>4, <2>5, <2>6
  <2>8. QED BY <1>4, <1>5, <1>6, <1>7, <1>10, <1>12, <2>7 DEF Item
<1>13. QED BY <1>11, <1>12

\* What an entry guard selects is an item.
LEMMA EntryItem ==
    ASSUME NEW C, Good(C), NEW src \in C, NEW dst \in C,
           NEW i \in Chosen("outer", dst, src), NEW e,
           e.op = select_interceptor(dst[i].guards, src), e.outer = Upto(dst, i)
    PROVE  Item(e, dst)
<1>1. /\ i \in 1 .. Len(dst) /\ dst[i].fn = "do_pass_value" /\ dst[i].side = "outer"
      /\ select_interceptor(dst[i].guards, src) # Null
  BY DEF Chosen, Is
<1>2. IsSeq(dst) /\ Len(dst) \in Nat /\ IsPrefix(root_cont, src) BY InGood
<1>3. i \in 2 .. Len(dst) /\ IsSeq(dst[i].guards) BY <1>1, GuardFacts
<1>4. PICK w : w = Upto(dst, i) OBVIOUS
<1>5. /\ IsSeq(w) /\ Len(w) = i /\ Last(w) = dst[i] /\ \A k \in 1 .. i : w[k] = dst[k]
      /\ AtBinding(w) <=> i > 1 /\ dst[i-1].fn = "do_unbind"
  BY <1>1, <1>2, <1>4, UptoEnds
<1>6. /\ dst[i-1].fn = "do_unbind" =>
           dst[i] = Guarding("outer", dst[i].id, BindingGuards(dst[i-1].bound))
      /\ i > 2 /\ dst[i-2].fn = "do_unbind" =>
           \/ dst[i].fn = "do_interception"
           \/ dst[i] = Guarding("inner", dst[i-1].id, BindingGuards(dst[i-2].binding))
      /\ /\ dst[i].fn = "do_pass_value" /\ dst[i-1].fn # "do_unbind"
         /\ ~(i > 2 /\ dst[i-2].fn = "do_unbind")
         => Own(dst[i].guards)
  BY <1>3, FrameFacts
<1>7. Is("outer", Last(w)) BY <1>1, <1>5 DEF Is
<1>8. IsPrefix(w, dst) BY <1>1, <1>2, <1>5, PrefixFacts
<1>9. CASE AtBinding(w)
  <2>1. i > 1 /\ dst[i-1].fn = "do_unbind" BY <1>5, <1>9
  <2>2. PICK bd : bd = dst[i-1].bound OBVIOUS
  <2>3. dst[i].guards = BindingGuards(bd) BY <1>6, <2>1, <2>2 DEF Guarding
  <2>4. e.op = SetPass(bd) BY <1>2, <2>3, BindingSelects
  <2>5. PICK k : k = i - 1 OBVIOUS
  <2>6. k \in 1 .. i /\ w[k] = dst[i-1] BY <1>2, <1>3, <1>5, <2>5
  <2>7. Unbinds(w, k) BY <1>5, <2>1, <2>6 DEF Unbinds
  <2>8. w[i].fn # "do_unbind" BY <1>1, <1>5
  <2>9. \A m : Unbinds(w, m) => m <= k
    <3>1. \A m \in 1 .. i : m # i => m <= k BY <1>2, <1>3, <2>5
    <3>2. QED BY <1>5, <2>8, <3>1 DEF Unbinds
  <2>10. InnermostBinding(w) = bd BY <1>5, <2>2, <2>6, <2>7, <2>9, InnermostIs
  <2>11. Put(w, dst) = bd BY <1>8, <2>10 DEF Put
  <2>12. QED BY <1>1, <1>4, <1>5, <1>7, <1>9, <2>4, <2>11 DEF Item
<1>10. CASE ~AtBinding(w)
  <2>1. dst[i-1].fn # "do_unbind" BY <1>3, <1>5, <1>10
  <2>2. ~(i > 2 /\ dst[i-2].fn = "do_unbind")
    <3>1. SUFFICES ASSUME i > 2 /\ dst[i-2].fn = "do_unbind" PROVE FALSE OBVIOUS
    <3>2. dst[i] = Guarding("inner", dst[i-1].id, BindingGuards(dst[i-2].binding))
      BY <1>1, <1>6, <3>1
    <3>3. dst[i].side = "inner" BY <3>2 DEF Guarding
    <3>4. QED BY <1>1, <3>3
  <2>3. Own(dst[i].guards) BY <1>1, <1>6, <2>1, <2>2
  <2>4. PICK q : q = dst[i].guards OBVIOUS
  <2>5. PICK g \in DOMAIN q : select_interceptor(q, src) = q[g].op
    BY <1>1, <1>3, <2>4, SelectsFacts
  <2>6. q[g].op.fn \in PlainOps BY <2>3, <2>4 DEF Own
  <2>7. e.op.fn \in PlainOps BY <2>4, <2>5, <2>6
  <2>8. QED BY <1>1, <1>4, <1>5, <1>7, <1>10, <2>7 DEF Item
<1>11. QED BY <1>9, <1>10

\* The list leads from src to dst, and has all the guards on the way.
LEMMA PendingAtFirst ==
    ASSUME NEW C, Good(C), NEW src \in C, NEW dst \in C, Whole(dst)
    PROVE  Pending(src, create_interception_list(src, dst), dst)
<1>1. /\ IsSeq(src) /\ Len(src) \in Nat /\ DOMAIN src = 1 .. Len(src)
      /\ IsSeq(dst) /\ Len(dst) \in Nat /\ DOMAIN dst = 1 .. Len(dst)
      /\ IsPrefix(root_cont, src)
  BY InGood
<1>2. PICK ls : ls = create_interception_list(src, dst) OBVIOUS
<1>3. PICK a, n, b, m : ListOf(ls, src, dst, a, n, b, m) BY <1>1, <1>2, ListFacts
<1>4. n \in Nat /\ m \in Nat /\ IsSeq(ls) /\ Len(ls) = n + m /\ DOMAIN ls = 1 .. n + m
  BY <1>3, IsSeqFacts DEF ListOf
<1>5. ASSUME NEW j \in 1 .. n
      PROVE  /\ a[j] \in Chosen("inner", src, dst) /\ a[j] \in 1 .. Len(src)
             /\ ~IsPrefix(Upto(src, a[j]), dst)
             /\ ls[j].op = select_interceptor(src[a[j]].guards, dst)
             /\ ls[j].outer = Upto(src, a[j] - 1)
             /\ \A k \in 1 .. j - 1 : a[k] > a[j]
  BY <1>3 DEF ListOf, Chosen
<1>6. ASSUME NEW j \in 1 .. m
      PROVE  /\ b[j] \in Chosen("outer", dst, src) /\ b[j] \in 1 .. Len(dst)
             /\ ~IsPrefix(Upto(dst, b[j]), src)
             /\ ls[n + j].op = select_interceptor(dst[b[j]].guards, src)
             /\ ls[n + j].outer = Upto(dst, b[j])
             /\ \A k \in 1 .. j - 1 : b[k] < b[j]
  BY <1>3 DEF ListOf, Chosen
<1>7. ASSUME NEW j \in 1 .. m, NEW k \in 1 .. n + j - 1
      PROVE  IsSeq(ls[k].outer) /\ ~IsPrefix(Upto(dst, b[j]), ls[k].outer)
  <2>1. PICK i : i = b[j] OBVIOUS
  <2>2. i \in 1 .. Len(dst) /\ i \in 0 .. Len(dst) /\ ~IsPrefix(Upto(dst, i), src)
    BY <1>1, <1>6, <2>1
  <2>3. CASE k \in 1 .. n
    <3>1. PICK x : x = a[k] - 1 OBVIOUS
    <3>2. x \in 0 .. Len(src) /\ ls[k].outer = Upto(src, x) BY <1>1, <1>5, <2>3, <3>1
    <3>3. PICK u : u = Upto(src, x) OBVIOUS
    <3>4. IsSeq(u) /\ Len(u) = x /\ \A p \in 1 .. x : u[p] = src[p] BY <1>1, <3>2, <3>3, UptoFacts
    <3>5. ~Agree(dst, src, i) BY <1>1, <2>2, UptoPrefix
    <3>6. ~Agree(dst, u, i) BY <1>1, <2>2, <3>2, <3>4, <3>5 DEF Agree
    <3>7. ~IsPrefix(Upto(dst, i), u) BY <1>1, <2>2, <3>4, <3>6, UptoPrefix
    <3>8. QED BY <2>1, <3>2, <3>3, <3>4, <3>7
  <2>4. CASE k \notin 1 .. n
    <3>1. PICK y : y = k - n OBVIOUS
    <3>2. y \in 1 .. m /\ y \in 1 .. j - 1 /\ k = n + y BY <1>4, <2>4, <3>1
    <3>3. b[y] < i /\ b[y] \in 1 .. Len(dst) /\ ls[k].outer = Upto(dst, b[y])
      BY <1>6, <2>1, <3>2
    <3>4. PICK z : z = b[y] OBVIOUS
    <3>5. z \in 0 .. Len(dst) /\ z < i BY <1>1, <3>3, <3>4
    <3>6. PICK u : u = Upto(dst, z) OBVIOUS
    <3>7. IsSeq(u) /\ Len(u) = z BY <1>1, <3>5, <3>6, UptoFacts
    <3>8. ~Agree(dst, u, i) BY <1>1, <2>2, <3>5, <3>7 DEF Agree
    <3>9. ~IsPrefix(Upto(dst, i), u) BY <1>1, <2>2, <3>7, <3>8, UptoPrefix
    <3>10. QED BY <2>1, <3>3, <3>4, <3>6, <3>7, <3>9
  <2>5. QED BY <2>3, <2>4
<1>8. ASSUME NEW l \in DOMAIN ls
      PROVE  /\ Item(ls[l], dst)
             /\ OnPath(src, ls[l].outer, dst)
             /\ \A k \in 1 .. l - 1 : OnPath(ls[k].outer, ls[l].outer, dst)
  <2>1. CASE l \in 1 .. n
    <3>1. PICK i : i = a[l] OBVIOUS
    <3>2. /\ i \in Chosen("inner", src, dst) /\ i \in 1 .. Len(src)
          /\ ~IsPrefix(Upto(src, i), dst)
          /\ ls[l].op = select_interceptor(src[i].guards, dst)
          /\ ls[l].outer = Upto(src, i - 1)
      BY <1>5, <2>1, <3>1
    <3>3. Item(ls[l], dst) BY <3>2, ExitItem
    <3>4. OnPath(src, ls[l].outer, dst)
      <4>1. PICK x : x = Len(src) OBVIOUS
      <4>2. x \in i - 1 .. Len(src) /\ Upto(src, x) = src BY <1>1, <3>2, <4>1, UptoAll
      <4>3. OnPath(Upto(src, x), Upto(src, i - 1), dst) BY <1>1, <3>2, <4>2, ExitOnPath
      <4>4. QED BY <3>2, <4>2, <4>3
    <3>5. ASSUME NEW k \in 1 .. l - 1 PROVE OnPath(ls[k].outer, ls[l].outer, dst)
      <4>1. k \in 1 .. n BY <1>4, <2>1
      <4>2. PICK x : x = a[k] - 1 OBVIOUS
      <4>3. a[k] > i BY <1>5, <2>1, <3>1
      <4>4. a[k] \in 1 .. Len(src) /\ ls[k].outer = Upto(src, x) BY <1>5, <4>1, <4>2
      <4>5. x \in i - 1 .. Len(src) BY <1>1, <3>2, <4>2, <4>3, <4>4
      <4>6. OnPath(Upto(src, x), Upto(src, i - 1), dst) BY <1>1, <3>2, <4>5, ExitOnPath
      <4>7. QED BY <3>2, <4>4, <4>6
    <3>6. QED BY <3>3, <3>4, <3>5
  <2>2. CASE l \notin 1 .. n
    <3>1. PICK j : j = l - n OBVIOUS
    <3>2. j \in 1 .. m /\ l = n + j BY <1>4, <2>2, <3>1
    <3>3. PICK i : i = b[j] OBVIOUS
    <3>4. /\ i \in Chosen("outer", dst, src) /\ i \in 1 .. Len(dst)
          /\ ~IsPrefix(Upto(dst, i), src)
          /\ ls[l].op = select_interceptor(dst[i].guards, src)
          /\ ls[l].outer = Upto(dst, i)
      BY <1>6, <3>2, <3>3
    <3>5. Item(ls[l], dst) BY <3>4, EntryItem
    <3>6. OnPath(src, ls[l].outer, dst) BY <1>1, <3>4, EntryOnPath
    <3>7. ASSUME NEW k \in 1 .. l - 1 PROVE OnPath(ls[k].outer, ls[l].outer, dst)
      <4>1. k \in 1 .. n + j - 1 BY <1>4, <3>2
      <4>2. IsSeq(ls[k].outer) /\ ~IsPrefix(Upto(dst, i), ls[k].outer)
        BY <1>7, <3>2, <3>3, <4>1
      <4>3. QED BY <1>1, <3>4, <4>2, EntryOnPath
    <3>8. QED BY <3>5, <3>6, <3>7
  <2>3. QED BY <2>1, <2>2
<1>9. ASSUME NEW i \in Exits(src, dst) PROVE ExitListed(src, ls, dst, i)
  <2>1. i \in Chosen("inner", src, dst) BY <1>1 DEF Exits, Chosen
  <2>2. PICK j \in 1 .. n : a[j] = i BY <1>3, <2>1 DEF ListOf
  <2>3. /\ j \in DOMAIN ls
        /\ ls[j].op = select_interceptor(src[i].guards, dst)
        /\ ls[j].outer = Upto(src, i - 1)
    BY <1>4, <1>5, <2>2
  <2>4. ASSUME NEW k \in 1 .. j - 1 PROVE IsPrefix(Upto(src, i), ls[k].outer)
    <3>1. k \in 1 .. n BY <1>4
    <3>2. PICK x : x = a[k] - 1 OBVIOUS
    <3>3. a[k] > i BY <1>5, <2>2
    <3>4. a[k] \in 1 .. Len(src) /\ ls[k].outer = Upto(src, x) BY <1>5, <3>1, <3>2
    <3>5. i \in 1 .. Len(src) BY <2>1 DEF Chosen
    <3>6. x \in 0 .. Len(src) /\ i <= x /\ i \in 0 .. Len(src) BY <1>1, <3>2, <3>3, <3>4, <3>5
    <3>7. PICK u : u = Upto(src, x) OBVIOUS
    <3>8. IsSeq(u) /\ Len(u) = x /\ \A p \in 1 .. x : u[p] = src[p] BY <1>1, <3>6, <3>7, UptoFacts
    <3>9. Agree(src, u, i) BY <1>1, <3>6, <3>8 DEF Agree
    <3>10. IsPrefix(Upto(src, i), u) BY <1>1, <3>6, <3>8, <3>9, UptoPrefix
    <3>11. QED BY <3>4, <3>7, <3>10
  <2>5. QED BY <2>3, <2>4 DEF ExitListed
<1>10. ASSUME NEW i \in Entries(src, dst) PROVE EntryListed(ls, dst, i)
  <2>1. /\ i \in 1 .. Len(dst) /\ dst[i].fn = "do_pass_value" /\ Is("outer", dst[i])
        /\ ~IsPrefix(Upto(dst, i), src)
        /\ dst[i].guards # <<>> /\ dst[i].guards[1].selector = root_cont
    BY <1>1 DEF Entries, Is
  <2>2. PICK q : q = dst[i].guards OBVIOUS
  <2>3. IsSeq(q) /\ \A g \in DOMAIN q : q[g].op # Null BY <2>1, <2>2, GuardFacts
  <2>4. 1 \in DOMAIN q
    <3>1. DOMAIN q = 1 .. Len(q) /\ Len(q) \in Nat BY <2>3, IsSeqFacts
    <3>2. Len(q) # 0
      <4>1. q \in Seq(Range(q)) BY <2>3 DEF IsSeq
      <4>2. QED BY <2>1, <2>2, <4>1, EmptySeq
    <3>3. QED BY <3>1, <3>2
  <2>5. Selected(q, src, 1) BY <1>1, <2>1, <2>2 DEF Selected
  <2>6. select_interceptor(q, src) = q[1].op /\ q[1].op # Null
    BY <2>3, <2>4, <2>5, SelectedFacts
  <2>7. i \in Chosen("outer", dst, src) BY <2>1, <2>2, <2>6 DEF Chosen
  <2>8. PICK j \in 1 .. m : b[j] = i BY <1>3, <2>7 DEF ListOf
  <2>9. PICK l : l = n + j OBVIOUS
  <2>10. l \in DOMAIN ls /\ ls[l].op = dst[i].guards[1].op /\ ls[l].outer = Upto(dst, i)
    BY <1>4, <1>6, <2>2, <2>6, <2>8, <2>9
  <2>11. \A k \in 1 .. l - 1 : ~IsPrefix(Upto(dst, i), ls[k].outer)
    <3>1. \A k \in 1 .. l - 1 : k \in 1 .. n + j - 1 BY <1>4, <2>9
    <3>2. QED BY <1>7, <2>8, <3>1
  <2>12. QED BY <2>10, <2>11 DEF EntryListed
<1>11. Leads(src, ls, dst) BY <1>8 DEF Leads
<1>12. QED BY <1>2, <1>4, <1>9, <1>10, <1>11 DEF Pending

\* Once the first interceptor runs, the rest leads on from there.
LEMMA PendingNext ==
    ASSUME NEW c, NEW dst, IsSeq(c), IsSeq(dst), NEW ls, Pending(c, ls, dst), ls # <<>>
    PROVE  /\ Head(ls) = ls[1] /\ 1 \in DOMAIN ls
           /\ Item(ls[1], dst) /\ OnPath(c, ls[1].outer, dst)
           /\ Pending(ls[1].outer, Tail(ls), dst)
<1>1. IsSeq(ls) /\ DOMAIN ls = 1 .. Len(ls) /\ Len(ls) \in Nat BY IsSeqFacts DEF Pending
<1>2. ls \in Seq(Range(ls)) BY <1>1 DEF IsSeq
<1>3. Len(ls) >= 1 BY <1>2, EmptySeq
<1>4. Head(ls) = ls[1] /\ 1 \in DOMAIN ls BY <1>1, <1>2, <1>3
<1>5. PICK t : t = Tail(ls) OBVIOUS
<1>6. IsSeq(t) /\ DOMAIN t = 1 .. Len(ls) - 1 /\ \A j \in DOMAIN t : t[j] = ls[j + 1]
  <2>1. PICK S : S = Range(ls) OBVIOUS
  <2>2. ls \in Seq(S) BY <1>2, <2>1
  <2>3. t \in Seq(S) /\ Len(t) = Len(ls) - 1 BY <1>3, <1>5, <2>2
  <2>4. \A j \in 1 .. Len(ls) - 1 : t[j] = ls[j + 1] BY <1>3, <1>5, <2>2
  <2>5. DOMAIN t = 1 .. Len(t) /\ t = [i \in 1 .. Len(t) |-> t[i]] /\ Len(t) \in Nat
    BY <2>3, LenProperties
  <2>6. IsSeq(t) BY <2>5, FunctionIsSeq
  <2>7. QED BY <2>3, <2>4, <2>5, <2>6
<1>7. PICK w : w = ls[1].outer OBVIOUS
<1>8. Item(ls[1], dst) /\ OnPath(c, w, dst) BY <1>4, <1>7 DEF Pending, Leads
<1>9. IsSeq(w) /\ Len(w) \in Nat /\ DOMAIN w = 1 .. Len(w)
  BY <1>7, <1>8, IsSeqFacts DEF Item
<1>10. Len(c) \in Nat /\ Len(dst) \in Nat /\ DOMAIN c = 1 .. Len(c) /\ DOMAIN dst = 1 .. Len(dst)
  BY IsSeqFacts
<1>11. ASSUME NEW l \in DOMAIN t
       PROVE  /\ Item(t[l], dst)
              /\ OnPath(w, t[l].outer, dst)
              /\ \A k \in 1 .. l - 1 : OnPath(t[k].outer, t[l].outer, dst)
  <2>1. PICK h : h = l + 1 OBVIOUS
  <2>2. h \in DOMAIN ls /\ t[l] = ls[h] /\ 1 \in 1 .. h - 1 BY <1>1, <1>6, <2>1
  <2>3. /\ Item(ls[h], dst)
        /\ \A k \in 1 .. h - 1 : OnPath(ls[k].outer, ls[h].outer, dst)
    BY <2>2 DEF Pending, Leads
  <2>4. OnPath(w, t[l].outer, dst) BY <1>7, <2>2, <2>3
  <2>5. ASSUME NEW k \in 1 .. l - 1 PROVE OnPath(t[k].outer, t[l].outer, dst)
    <3>1. k \in DOMAIN t /\ k + 1 \in 1 .. h - 1 BY <1>1, <1>6, <2>1
    <3>2. t[k] = ls[k + 1] BY <1>6, <3>1
    <3>3. QED BY <2>2, <2>3, <3>1, <3>2
  <2>6. QED BY <2>2, <2>3, <2>4, <2>5
<1>12. ASSUME NEW i \in Exits(w, dst) PROVE ExitListed(w, t, dst, i)
  <2>1. /\ i \in 1 .. Len(w) /\ Is("inner", w[i]) /\ ~IsPrefix(Upto(w, i), dst)
        /\ select_interceptor(w[i].guards, dst) # Null
    BY <1>9 DEF Exits
  <2>2. i \in 0 .. Len(w) BY <1>9, <2>1
  <2>3. ~Agree(w, dst, i) BY <1>9, <2>1, <2>2, UptoPrefix
  <2>4. ~IsPrefix(w, dst)
    <3>1. SUFFICES ASSUME IsPrefix(w, dst) PROVE FALSE OBVIOUS
    <3>2. Len(w) <= Len(dst) /\ \A k \in 1 .. Len(w) : w[k] = dst[k]
      BY <1>9, <3>1, PrefixFacts
    <3>3. Agree(w, dst, i) BY <1>9, <1>10, <2>1, <3>2 DEF Agree
    <3>4. QED BY <2>3, <3>3
  <2>5. IsPrefix(w, c) BY <1>8, <2>4 DEF OnPath
  <2>6. Len(w) \in 0 .. Len(c) /\ w = Upto(c, Len(w)) BY <1>9, <2>5, PrefixIsUpto
  <2>7. PICK n : n = Len(w) OBVIOUS
  <2>8. n \in 0 .. Len(c) /\ w = Upto(c, n) /\ i \in 0 .. n /\ i - 1 \in 0 .. n
        /\ i \in 1 .. Len(c) /\ i - 1 \in 0 .. Len(c)
    BY <1>9, <1>10, <2>1, <2>6, <2>7
  <2>9. Upto(w, i) = Upto(c, i) /\ Upto(w, i - 1) = Upto(c, i - 1) BY <2>8, UptoUpto
  <2>10. w[i] = c[i] BY <2>1, <2>7, <2>8, UptoFacts
  <2>11. i \in Exits(c, dst) BY <1>10, <2>1, <2>8, <2>9, <2>10 DEF Exits
  <2>12. PICK j \in DOMAIN ls :
           /\ ls[j].op = select_interceptor(c[i].guards, dst)
           /\ ls[j].outer = Upto(c, i - 1)
           /\ \A k \in 1 .. j - 1 : IsPrefix(Upto(c, i), ls[k].outer)
    BY <2>11 DEF Pending, ExitListed
  <2>13. j # 1
    <3>1. SUFFICES ASSUME j = 1 PROVE FALSE OBVIOUS
    <3>2. w = Upto(c, i - 1) BY <1>7, <2>12, <3>1
    <3>3. PICK h : h = i - 1 OBVIOUS
    <3>4. Len(Upto(c, h)) = h BY <2>8, <3>3, UptoFacts
    <3>5. Len(w) = h BY <3>2, <3>3, <3>4
    <3>6. QED BY <1>9, <2>1, <3>3, <3>5
  <2>14. PICK g : g = j - 1 OBVIOUS
  <2>15. g \in DOMAIN t /\ t[g] = ls[j] BY <1>1, <1>6, <2>13, <2>14
  <2>16. \A k \in 1 .. g - 1 : IsPrefix(Upto(w, i), t[k].outer)
    <3>1. ASSUME NEW k \in 1 .. g - 1 PROVE IsPrefix(Upto(w, i), t[k].outer)
      <4>1. k \in DOMAIN t /\ k + 1 \in 1 .. j - 1 BY <1>1, <1>6, <2>14, <2>15
      <4>2. t[k] = ls[k + 1] BY <1>6, <4>1
      <4>3. QED BY <2>9, <2>12, <4>1, <4>2
    <3>2. QED BY <3>1
  <2>17. QED BY <2>9, <2>10, <2>12, <2>15, <2>16 DEF ExitListed
<1>13. ASSUME NEW i \in Entries(w, dst) PROVE EntryListed(t, dst, i)
  <2>1. i \in DOMAIN dst /\ ~IsPrefix(Upto(dst, i), w) BY DEF Entries
  <2>2. ~IsPrefix(Upto(dst, i), c) BY <1>8, <2>1 DEF OnPath
  <2>3. i \in Entries(c, dst) BY <2>2 DEF Entries
  <2>4. PICK j \in DOMAIN ls :
          /\ ls[j].op = dst[i].guards[1].op
          /\ ls[j].outer = Upto(dst, i)
          /\ \A k \in 1 .. j - 1 : ~IsPrefix(Upto(dst, i), ls[k].outer)
    BY <2>3 DEF Pending, EntryListed
  <2>5. j # 1
    <3>1. SUFFICES ASSUME j = 1 PROVE FALSE OBVIOUS
    <3>2. w = Upto(dst, i) BY <1>7, <2>4, <3>1
    <3>3. IsPrefix(w, w) BY <1>9, PrefixFacts
    <3>4. QED BY <2>1, <3>2, <3>3
  <2>6. PICK g : g = j - 1 OBVIOUS
  <2>7. g \in DOMAIN t /\ t[g] = ls[j] BY <1>1, <1>6, <2>5, <2>6
  <2>8. ASSUME NEW k \in 1 .. g - 1 PROVE ~IsPrefix(Upto(dst, i), t[k].outer)
    <3>1. k \in DOMAIN t /\ k + 1 \in 1 .. j - 1 BY <1>1, <1>6, <2>6, <2>7
    <3>2. t[k] = ls[k + 1] BY <1>6, <3>1
    <3>3. QED BY <2>4, <3>1, <3>2
  <2>9. QED BY <2>4, <2>7, <2>8 DEF EntryListed
<1>14. Leads(w, t, dst) BY <1>11 DEF Leads
<1>15. Pending(w, t, dst) BY <1>6, <1>12, <1>13, <1>14 DEF Pending
<1>16. QED BY <1>4, <1>5, <1>7, <1>8, <1>15

-----------------------------------------------------------------------------
(***************************************************************************)
(* New continuations.                                                      *)
(***************************************************************************)
LEMMA GrowAll ==
    ASSUME NEW C, Good(C), NEW S,
           \A d \in S : \E c \in C : \E f : IsChild(d, c, f) /\ FrameOK(C, c, f)
    PROVE  Good(C \cup S)
<1> DEFINE D == C \cup S
<1>1. ASSUME NEW p, NEW f, FrameOK(C, p, f) PROVE FrameOK(D, p, f)
  BY <1>1 DEF FrameOK, Aimed
<1>2. C \subseteq D OBVIOUS
<1>3. ASSUME NEW d \in D
      PROVE  /\ IsSeq(d) /\ Len(d) >= 1 /\ d[1] = Frame("do_root_exit")
             /\ \A i \in 2 .. Len(d) : Upto(d, i - 1) \in D /\ FrameOK(D, Upto(d, i - 1), d[i])
  <2>1. CASE d \in C
    <3>1. /\ IsSeq(d) /\ Len(d) >= 1 /\ d[1] = Frame("do_root_exit")
          /\ \A i \in 2 .. Len(d) : Upto(d, i - 1) \in C /\ FrameOK(C, Upto(d, i - 1), d[i])
      BY <2>1 DEF Good
    <3> HIDE DEF D
    <3>2. QED BY <1>1, <1>2, <3>1
  <2>2. CASE d \notin C
    <3>1. PICK c \in C : \E f : IsChild(d, c, f) /\ FrameOK(C, c, f) BY <2>2
    <3>2. PICK f : IsChild(d, c, f) /\ FrameOK(C, c, f) BY <3>1
    <3> HIDE DEF D
    <3>3. IsSeq(c) /\ Len(c) >= 1 /\ c[1] = Frame("do_root_exit") BY DEF Good
    <3>4. /\ IsSeq(d) /\ Len(d) = Len(c) + 1 /\ Len(c) \in Nat
          /\ \A i \in 1 .. Len(c) : d[i] = c[i]
          /\ d[Len(d)] = f
          /\ \A i \in 0 .. Len(c) : Upto(d, i) = Upto(c, i)
      BY <3>3, <3>2, ChildFacts
    <3>5. d[1] = c[1] BY <3>3, <3>4
    <3>6. ASSUME NEW i \in 2 .. Len(d)
          PROVE  Upto(d, i - 1) \in D /\ FrameOK(D, Upto(d, i - 1), d[i])
      <4>1. PICK h : h = i - 1 OBVIOUS
      <4>2. h \in 0 .. Len(c) /\ i = h + 1 BY <3>4, <4>1
      <4>3. Upto(d, h) = Upto(c, h) BY <3>4, <4>2
      <4>4. CASE i = Len(d)
        <5>1. h = Len(c) BY <3>4, <4>1, <4>4
        <5>2. Upto(d, h) = c BY <3>3, <4>3, <5>1, UptoAll
        <5>3. d[i] = f BY <3>4, <4>4
        <5>4. Upto(d, h) \in D /\ FrameOK(D, Upto(d, h), d[i])
          BY <1>1, <1>2, <3>2, <5>2, <5>3
        <5>5. QED BY <4>1, <5>4
      <4>5. CASE i # Len(d)
        <5>1. i \in 2 .. Len(c) /\ d[i] = c[i] BY <3>4, <4>5
        <5>2. Upto(c, i - 1) \in C /\ FrameOK(C, Upto(c, i - 1), c[i]) BY <5>1 DEF Good
        <5>3. Upto(d, i - 1) = Upto(c, i - 1) BY <4>1, <4>3
        <5>4. QED BY <1>1, <1>2, <5>1, <5>2, <5>3
      <4>6. QED BY <4>4, <4>5
    <3>7. QED BY <3>3, <3>4, <3>5, <3>6
  <2>3. QED BY <2>1, <2>2
<1> HIDE DEF D
<1>4. Good(D) BY <1>3 DEF Good
<1>5. QED BY <1>4 DEF D

LEMMA Grow ==
    ASSUME NEW C, Good(C), NEW c \in C, NEW f, FrameOK(C, c, f), NEW d, IsChild(d, c, f)
    PROVE  Good(C \cup {d})
<1>1. \A x \in {d} : \E b \in C : \E g : IsChild(x, b, g) /\ FrameOK(C, b, g) OBVIOUS
<1>2. PICK S : S = {d} OBVIOUS
<1>3. Good(C \cup S) BY <1>1, <1>2, GrowAll
<1>4. QED BY <1>2, <1>3

\* Neither inside a call to b being set up nor at an interceptor of one.
Steady(c) == Last(c).fn # "do_unbind" /\ ~AtBinding(c) /\ ~Setting(c)

LEMMA SteadyIsWhole ==
    ASSUME NEW C, Good(C), NEW c \in C, Steady(c)
    PROVE  Whole(c)
<1>1. IsSeq(c) /\ Len(c) >= 1 /\ DOMAIN c = 1 .. Len(c) BY InGood
<1> Len(c) \in Nat BY InGood
<1>2. SUFFICES ASSUME NEW k \in 1 .. Len(c), c[k].fn = "do_unbind"
               PROVE  k + 2 <= Len(c) /\ c[k + 2].fn # "do_interception"
  BY <1>1 DEF Whole
<1>3. Last(c) = c[Len(c)] BY DEF Last
<1>4. k # Len(c) BY <1>2, <1>3 DEF Steady
<1>5. k # Len(c) - 1
  <2>1. SUFFICES ASSUME k = Len(c) - 1 PROVE FALSE OBVIOUS
  <2>2. Len(c) > 1 BY <1>1, <1>2, <2>1
  <2>3. QED BY <1>2, <2>1, <2>2 DEF Steady, AtBinding
<1>6. k + 2 <= Len(c) BY <1>4, <1>5
<1>7. c[k + 2].fn # "do_interception"
  <2>1. CASE k + 2 = Len(c)
    <3>1. Len(c) > 2 /\ Len(c) - 2 = k BY <2>1
    <3>2. QED BY <1>2, <1>3, <2>1, <3>1 DEF Steady, Setting
  <2>2. CASE k + 2 # Len(c)
    <3>1. PICK i : i = k + 3 OBVIOUS
    <3>2. i \in 2 .. Len(c) /\ i > 3 /\ i - 3 = k /\ i - 1 = k + 2 BY <1>6, <2>2, <3>1
    <3>3. i > 3 /\ c[i-3].fn = "do_unbind" => c[i-1].fn # "do_interception"
      BY <3>2, FrameFacts
    <3>4. QED BY <1>2, <3>2, <3>3
  <2>3. QED BY <2>1, <2>2
<1>8. QED BY <1>6, <1>7

LEMMA WholeIsSteady ==
    ASSUME NEW c, IsSeq(c), Len(c) >= 1, Whole(c)
    PROVE  Steady(c)
<1>1. Len(c) \in Nat /\ DOMAIN c = 1 .. Len(c) BY IsSeqFacts
<1>2. \A k \in 1 .. Len(c) : c[k].fn = "do_unbind" =>
          k + 2 <= Len(c) /\ c[k + 2].fn # "do_interception"
  BY <1>1 DEF Whole
<1>3. Last(c) = c[Len(c)] BY DEF Last
<1>4. Last(c).fn # "do_unbind" BY <1>1, <1>2, <1>3
<1>5. ~AtBinding(c)
  <2>1. PICK k : k = Len(c) - 1 OBVIOUS
  <2>2. Len(c) > 1 => k \in 1 .. Len(c) /\ ~(k + 2 <= Len(c)) BY <1>1, <2>1
  <2>3. QED BY <1>2, <2>1, <2>2 DEF AtBinding
<1>6. ~Setting(c)
  <2>1. PICK k : k = Len(c) - 2 OBVIOUS
  <2>2. Len(c) > 2 => k \in 1 .. Len(c) /\ k + 2 = Len(c) BY <1>1, <2>1
  <2>3. QED BY <1>2, <1>3, <2>1, <2>2 DEF Setting
<1>7. QED BY <1>4, <1>5, <1>6 DEF Steady

\* Where the program's code, or an interceptor, may run.
LEMMA ShapeSteady ==
    ASSUME NEW c, NEW f, Shape(c, f), f.fn # "do_pass_value", f.fn # "do_interception"
    PROVE  Steady(c)
<1>1. Last(c).fn # "do_unbind"
  <2>1. SUFFICES ASSUME Last(c).fn = "do_unbind" PROVE FALSE OBVIOUS
  <2>2. f = Guarding("outer", f.id, BindingGuards(Last(c).bound)) BY <2>1 DEF Shape
  <2>3. f.fn = "do_pass_value" BY <2>2 DEF Guarding
  <2>4. QED BY <2>3
<1>2. ~AtBinding(c)
  <2>1. SUFFICES ASSUME AtBinding(c) PROVE FALSE OBVIOUS
  <2>2. PICK x, b : f = Guarding("inner", x, BindingGuards(b)) BY <2>1 DEF Shape
  <2>3. f.fn = "do_pass_value" BY <2>2 DEF Guarding
  <2>4. QED BY <2>3
<1>3. QED BY <1>1, <1>2 DEF Shape, Steady

LEMMA SteadyShape ==
    ASSUME NEW c, NEW f, Steady(c),
           f.fn \in PlainOps \cup {"do_int_mark_root", "do_error_exit"}
    PROVE  Shape(c, f) /\ \A C : FrameOK(C, c, f)
<1>1. f.fn \notin {"do_root_exit", "do_set_pass", "NULL", "do_unbind", "do_pass_value",
                   "do_interception"}
  BY DEF PlainOps
<1>2. Shape(c, f) BY <1>1 DEF Shape, Steady, Is
<1>3. QED BY <1>1, <1>2 DEF FrameOK

\* The two frames of a guarded extent.
LEMMA GuardedFacts ==
    ASSUME NEW c, IsSeq(c), NEW id, NEW entry, NEW exit,
           NEW o, o = Guarding("outer", id, entry), NEW n, n = Guarding("inner", id, exit),
           NEW d, d = Guarded(c, id, entry, exit), NEW x, IsChild(x, c, o)
    PROVE  IsChild(d, x, n)
<1>1. PICK y : IsChild(y, x, n) BY DEF IsChild
<1>2. /\ IsSeq(x) /\ Len(x) = Len(c) + 1 /\ Len(c) \in Nat /\ x[Len(x)] = o
      /\ \A i \in 1 .. Len(c) : x[i] = c[i]
  BY ChildFacts
<1>3. /\ IsSeq(y) /\ Len(y) = Len(x) + 1 /\ y[Len(y)] = n
      /\ \A i \in 1 .. Len(x) : y[i] = x[i]
  BY <1>1, <1>2, ChildFacts
<1>4. PICK u : u = <<o, n>> OBVIOUS
<1>5. DOMAIN u = 1 .. 2 /\ u = [i \in 1 .. 2 |-> u[i]] /\ u[1] = o /\ u[2] = n BY <1>4
<1>6. IsSeq(u) /\ Len(u) = 2 BY <1>5, FunctionIsSeq
<1>7. IsConcat(d, c, u) BY <1>4 DEF Guarded, IsConcat
<1>8. /\ IsSeq(d) /\ Len(d) = Len(c) + Len(u)
      /\ \A i \in 1 .. Len(c) : d[i] = c[i]
      /\ \A i \in 1 .. Len(u) : d[Len(c) + i] = u[i]
  <2>1. IsSeq(c) /\ IsSeq(u) BY <1>6
  <2>2. QED BY <1>7, <2>1, ConcatFacts
<1>9. d[Len(c) + 1] = o /\ d[Len(c) + 2] = n
  <2>1. 1 \in 1 .. Len(u) /\ 2 \in 1 .. Len(u) BY <1>6
  <2>2. QED BY <1>5, <1>8, <2>1
<1>10. Len(d) = Len(y) BY <1>2, <1>3, <1>6, <1>8
<1>11. ASSUME NEW i \in 1 .. Len(d) PROVE d[i] = y[i]
  <2>1. i \in 1 .. Len(c) \/ i = Len(c) + 1 \/ i = Len(c) + 2 BY <1>2, <1>6, <1>8
  <2>2. CASE i \in 1 .. Len(c) BY <1>2, <1>3, <1>8, <2>2
  <2>3. CASE i = Len(c) + 1 BY <1>2, <1>3, <1>9, <2>3
  <2>4. CASE i = Len(c) + 2 BY <1>2, <1>3, <1>9, <2>4
  <2>5. QED BY <2>1, <2>2, <2>3, <2>4
<1>12. d = y BY <1>3, <1>8, <1>10, <1>11, SameSeq
<1>13. QED BY <1>1, <1>12 DEF IsChild

\* The two frames of a guarded extent of the program.
LEMMA GrowGuarded ==
    ASSUME NEW C, Good(C), NEW c \in C, Steady(c), NEW id, NEW entry, NEW exit,
           Own(entry), Own(exit), NEW d, d = Guarded(c, id, entry, exit)
    PROVE  \E D : /\ Good(D) /\ C \subseteq D /\ d \in D
                  /\ IsSeq(d) /\ Len(d) = Len(c) + 2 /\ Steady(d) /\ Whole(d)
                  /\ Len(c) \in Nat /\ \A i \in 1 .. Len(c) : d[i] = c[i]
                  /\ d[Len(c) + 1] = Guarding("outer", id, entry)
                  /\ d[Len(c) + 2] = Guarding("inner", id, exit)
<1>1. IsSeq(c) /\ Len(c) \in Nat /\ Len(c) >= 1 BY InGood
<1>2. PICK o, n : o = Guarding("outer", id, entry) /\ n = Guarding("inner", id, exit) OBVIOUS
<1>3. /\ o.fn = "do_pass_value" /\ o.side = "outer" /\ o.id = id /\ o.guards = entry
      /\ n.fn = "do_pass_value" /\ n.side = "inner" /\ n.id = id /\ n.guards = exit
  BY <1>2 DEF Guarding
<1>4. PICK x : IsChild(x, c, o) BY DEF IsChild
<1>5. PICK y : IsChild(y, x, n) BY DEF IsChild
<1>6. /\ IsSeq(x) /\ Len(x) = Len(c) + 1 /\ \A i \in 1 .. Len(c) : x[i] = c[i]
      /\ x[Len(x)] = o /\ Last(x) = o
  BY <1>1, <1>4, ChildFacts
<1>7. /\ IsSeq(y) /\ Len(y) = Len(x) + 1 /\ \A i \in 1 .. Len(x) : y[i] = x[i]
      /\ y[Len(y)] = n /\ Last(y) = n
  BY <1>5, <1>6, ChildFacts
<1>8. d = y
  <2>1. IsChild(d, x, n) BY <1>1, <1>2, <1>4, GuardedFacts
  <2>2. QED BY <1>5, <2>1 DEF IsChild
<1>9. FrameOK(C, c, o) BY <1>3 DEF FrameOK, Shape, Steady, Is
<1>10. PICK D : D = C \cup {x} OBVIOUS
<1>11. Good(D) /\ x \in D BY <1>4, <1>9, <1>10, Grow
<1>12. Len(x) > 1 /\ x[Len(x) - 1] = Last(c)
  <2>1. Last(c) = c[Len(c)] BY DEF Last
  <2>2. QED BY <1>1, <1>6, <2>1
<1>13. ~AtBinding(x) /\ Last(x).fn # "do_unbind" /\ ~Setting(x)
  BY <1>3, <1>6, <1>12 DEF AtBinding, Setting, Steady
<1>14. FrameOK(D, x, n) BY <1>3, <1>6, <1>13 DEF FrameOK, Shape, Is
<1>15. PICK E : E = D \cup {y} OBVIOUS
<1>16. Good(E) /\ y \in E BY <1>5, <1>11, <1>14, <1>15, Grow
<1>17. Len(y) > 1 /\ y[Len(y) - 1] = o BY <1>1, <1>6, <1>7
<1>18. Steady(y) BY <1>3, <1>7, <1>17 DEF AtBinding, Setting, Steady
<1>19. Whole(y) BY <1>16, <1>18, SteadyIsWhole
<1>20. \A i \in 1 .. Len(c) : y[i] = c[i] BY <1>1, <1>6, <1>7
<1>21. y[Len(c) + 1] = o /\ y[Len(c) + 2] = n BY <1>1, <1>6, <1>7
<1>22. Len(y) = Len(c) + 2 BY <1>1, <1>6, <1>7
<1>23. QED BY <1>1, <1>2, <1>7, <1>8, <1>10, <1>15, <1>16, <1>18, <1>19, <1>20, <1>21, <1>22

-----------------------------------------------------------------------------
(***************************************************************************)
(* The key during a pass.                                                  *)
(***************************************************************************)
\* If no guard of a binding on the way from c to w is still to be called, the
\* key already has what the program is to find in w.
LEMMA KeyAtEnd ==
    ASSUME OneThread, NEW C, Good(C), NEW c \in C, NEW dst \in C, NEW w \in C,
           Last(c).fn # "do_unbind", ~Setting(c), Whole(w), OnPath(c, w, dst),
           \A i \in 3 .. Len(c) :
              c[i-2].fn = "do_unbind" /\ Is("inner", c[i]) /\ ~IsPrefix(Upto(c, i), dst)
                 => IsPrefix(Upto(c, i), w),
           \A i \in 2 .. Len(dst) :
              dst[i-1].fn = "do_unbind" /\ ~IsPrefix(Upto(dst, i), c)
                 => ~IsPrefix(Upto(dst, i), w)
    PROVE  Put(c, dst) = InnermostBinding(w)
<1>1. IsSeq(c) /\ Len(c) \in Nat /\ Len(c) >= 1 /\ c[1].fn = "do_root_exit" BY InGood
<1>2. IsSeq(dst) /\ Len(dst) \in Nat BY InGood
<1>3. IsSeq(w) /\ Len(w) \in Nat BY InGood
<1>4. DOMAIN dst = 1 .. Len(dst) /\ DOMAIN w = 1 .. Len(w) BY InGood
<1>5. Last(c) = c[Len(c)] BY DEF Last
<1>6. IsPrefix(w, dst) \/ IsPrefix(w, c) BY DEF OnPath
<1>7. ASSUME NEW k, Unbinds(w, k)
      PROVE  k \in 1 .. Len(w) /\ k + 2 <= Len(w) /\ k + 1 <= Len(c)
             /\ \A j \in 1 .. k + 1 : c[j] = w[j]
  <2>1. k \in 1 .. Len(w) /\ k + 2 <= Len(w) BY <1>4, <1>7 DEF Unbinds, Whole
  <2>2. CASE IsPrefix(w, c)
    <3>1. Len(w) <= Len(c) /\ \A j \in 1 .. Len(w) : w[j] = c[j]
      BY <1>1, <1>3, <2>2, PrefixFacts
    <3>2. QED BY <1>1, <1>3, <2>1, <3>1
  <2>3. CASE ~IsPrefix(w, c)
    <3>1. Len(w) <= Len(dst) /\ \A j \in 1 .. Len(w) : w[j] = dst[j]
      BY <1>2, <1>3, <1>6, <2>3, PrefixFacts
    <3>2. PICK i : i = k + 1 OBVIOUS
    <3>3. i \in 2 .. Len(dst) /\ i \in 0 .. Len(dst) /\ i - 1 = k /\ i <= Len(w)
      BY <1>2, <1>3, <2>1, <3>1, <3>2
    <3>4. dst[i-1].fn = "do_unbind" BY <1>7, <2>1, <3>1, <3>3 DEF Unbinds
    <3>5. Agree(dst, w, i) BY <1>3, <3>1, <3>3 DEF Agree
    <3>6. IsPrefix(Upto(dst, i), w) BY <1>2, <1>3, <3>3, <3>5, UptoPrefix
    <3>7. IsPrefix(Upto(dst, i), c) BY <3>3, <3>4, <3>6
    <3>8. Agree(dst, c, i) BY <1>1, <1>2, <3>3, <3>7, UptoPrefix
    <3>9. QED BY <1>3, <2>1, <3>1, <3>2, <3>3, <3>8 DEF Agree
  <2>4. QED BY <2>2, <2>3
<1>8. ASSUME NEW k, Unbinds(c, k), k + 2 <= Len(c)
      PROVE  Unbinds(w, k) /\ c[k] = w[k]
  <2>1. k \in 1 .. Len(c) /\ c[k].fn = "do_unbind" BY <1>8 DEF Unbinds
  <2>2. PICK i : i = k + 2 OBVIOUS
  <2>3. i \in 3 .. Len(c) /\ i \in 2 .. Len(c) /\ i \in 0 .. Len(c) /\ i - 2 = k /\ i > 2
    BY <1>1, <1>8, <2>1, <2>2
  <2>4. c[i].fn # "do_interception"
    <3>1. CASE i = Len(c)
      <4>1. Len(c) > 2 /\ Len(c) - 2 = k BY <2>3, <3>1
      <4>2. QED BY <1>5, <2>1, <3>1, <4>1 DEF Setting
    <3>2. CASE i # Len(c)
      <4>1. PICK n : n = i + 1 OBVIOUS
      <4>2. n \in 2 .. Len(c) /\ n > 3 /\ n - 3 = k /\ n - 1 = i BY <1>1, <2>2, <2>3, <3>2, <4>1
      <4>3. n > 3 /\ c[n-3].fn = "do_unbind" => c[n-1].fn # "do_interception"
        BY <4>2, FrameFacts
      <4>4. QED BY <2>1, <4>2, <4>3
    <3>3. QED BY <3>1, <3>2
  <2>5. i > 2 /\ c[i-2].fn = "do_unbind" =>
           \/ c[i].fn = "do_interception"
           \/ c[i] = Guarding("inner", c[i-1].id, BindingGuards(c[i-2].binding))
    BY <2>3, FrameFacts
  <2>6. c[i-2].fn = "do_unbind" BY <2>1, <2>3
  <2>7. Is("inner", c[i]) BY <2>3, <2>4, <2>5, <2>6 DEF Guarding, Is
  <2>8. IsPrefix(Upto(c, i), w) \/ IsPrefix(Upto(c, i), dst) BY <2>3, <2>6, <2>7
  <2>9. CASE IsPrefix(Upto(c, i), w)
    <3>1. Agree(c, w, i) BY <1>1, <1>3, <2>3, <2>9, UptoPrefix
    <3>2. QED BY <1>3, <2>1, <2>2, <2>3, <3>1 DEF Agree, Unbinds
  <2>10. CASE IsPrefix(Upto(c, i), dst)
    <3>1. Agree(c, dst, i) BY <1>1, <1>2, <2>3, <2>10, UptoPrefix
    <3>2. Agree(dst, c, i) /\ i \in 0 .. Len(dst) /\ i \in DOMAIN dst
      BY <1>1, <1>2, <1>4, <2>3, <3>1 DEF Agree
    <3>3. IsPrefix(Upto(dst, i), c) BY <1>1, <1>2, <3>2, UptoPrefix
    <3>4. IsPrefix(Upto(dst, i), w) BY <3>2, <3>3 DEF OnPath
    <3>5. Agree(dst, w, i) BY <1>2, <1>3, <3>2, <3>4, UptoPrefix
    <3>6. QED BY <1>3, <2>1, <2>2, <2>3, <3>1, <3>5 DEF Agree, Unbinds
  <2>11. QED BY <2>8, <2>9, <2>10
<1>9. ASSUME NEW k PROVE Unbinds(w, k) => Unbinds(c, k) /\ c[k] = w[k]
  <2>1. SUFFICES ASSUME Unbinds(w, k) PROVE Unbinds(c, k) /\ c[k] = w[k] OBVIOUS
  <2>2. k \in 1 .. Len(w) /\ k + 1 <= Len(c) /\ k \in 1 .. k + 1 /\ c[k] = w[k]
    <3>1. k \in 1 .. Len(w) /\ k + 1 <= Len(c) /\ \A j \in 1 .. k + 1 : c[j] = w[j]
      BY <1>7, <2>1
    <3>2. k \in 1 .. k + 1 BY <3>1
    <3>3. QED BY <3>1, <3>2
  <2>3. QED BY <1>1, <2>1, <2>2 DEF Unbinds
<1>10. ASSUME NEW k PROVE Unbinds(c, k) => k \in 1 .. Len(c) /\ k <= Len(c) - 1
  <2>1. Unbinds(c, k) => k \in 1 .. Len(c) /\ k # Len(c) BY <1>5 DEF Unbinds
  <2>2. QED BY <1>1, <2>1
<1>11. CASE ~AtBinding(c)
  <2>1. ASSUME NEW k, Unbinds(c, k) PROVE k + 2 <= Len(c)
    <3>1. k \in 1 .. Len(c) /\ k <= Len(c) - 1 BY <1>10, <2>1
    <3>2. SUFFICES ASSUME k = Len(c) - 1 PROVE FALSE BY <1>1, <3>1
    <3>3. Len(c) > 1 /\ c[Len(c) - 1].fn = "do_unbind" BY <1>1, <2>1, <3>1, <3>2 DEF Unbinds
    <3>4. QED BY <1>11, <3>3 DEF AtBinding
  <2>2. \A k : Unbinds(c, k) => Unbinds(w, k) /\ c[k] = w[k] BY <1>8, <2>1
  <2>3. InnermostBinding(c) = InnermostBinding(w) BY <1>1, <1>3, <1>9, <2>2, SameCalls
  <2>4. QED BY <1>11, <2>3 DEF Put
<1>12. CASE AtBinding(c)
  <2>1. PICK k0 : k0 = Len(c) - 1 OBVIOUS
  <2>2. k0 \in 1 .. Len(c) /\ c[k0].fn = "do_unbind" BY <1>1, <1>12, <2>1 DEF AtBinding
  <2>3. ASSUME NEW k, Unbinds(c, k), k # k0 PROVE k < k0 /\ Unbinds(w, k) /\ c[k] = w[k]
    <3>1. k \in 1 .. Len(c) /\ k <= Len(c) - 1 BY <1>10, <2>3
    <3>2. k < k0 /\ k + 2 <= Len(c) BY <1>1, <2>1, <2>3, <3>1
    <3>3. QED BY <1>8, <2>3, <3>2
  <2>4. CASE IsPrefix(c, dst)
    <3>1. Len(c) <= Len(dst) /\ \A j \in 1 .. Len(c) : c[j] = dst[j]
      BY <1>1, <1>2, <2>4, PrefixFacts
    <3>2. PICK n : n = Len(c) OBVIOUS
    <3>3. n \in DOMAIN dst /\ n \in 0 .. Len(dst) BY <1>1, <1>2, <1>4, <3>1, <3>2
    <3>4. Agree(dst, c, n) BY <3>1, <3>2 DEF Agree
    <3>5. IsPrefix(Upto(dst, n), c) BY <1>1, <1>2, <3>3, <3>4, UptoPrefix
    <3>6. IsPrefix(Upto(dst, n), w) BY <3>3, <3>5 DEF OnPath
    <3>7. Agree(dst, w, n) BY <1>2, <1>3, <3>3, <3>6, UptoPrefix
    <3>8. Unbinds(w, k0) /\ c[k0] = w[k0]
      BY <1>1, <1>3, <2>1, <2>2, <3>1, <3>2, <3>7 DEF Agree, Unbinds
    <3>9. \A k : Unbinds(c, k) => Unbinds(w, k) /\ c[k] = w[k] BY <2>3, <3>8
    <3>10. InnermostBinding(c) = InnermostBinding(w) BY <1>1, <1>3, <1>9, <3>9, SameCalls
    <3>11. QED BY <2>4, <3>10 DEF Put
  <2>5. CASE ~IsPrefix(c, dst)
    <3>1. k0 # 1 BY <1>1, <2>2
    <3>2. PICK h : h = k0 - 1 OBVIOUS
    <3>3. k0 \in 2 .. Len(c) /\ h \in 1 .. Len(c) /\ h \in 0 .. Len(c) BY <1>1, <2>2, <3>1, <3>2
    <3>4. c[k0].binding = InnermostBinding(Upto(c, k0 - 1)) BY <2>2, <3>3, FrameFacts
    <3>5. PICK p : p = Upto(c, h) OBVIOUS
    <3>6. IsSeq(p) /\ Len(p) = h /\ \A i \in 1 .. h : p[i] = c[i] BY <1>1, <3>3, <3>5, UptoFacts
    <3>7. Put(c, dst) = InnermostBinding(p)
      BY <1>12, <2>1, <2>5, <3>2, <3>4, <3>5 DEF Put
    <3>8. ASSUME NEW k PROVE Unbinds(p, k) <=> Unbinds(c, k) /\ k < k0
      <4>1. Unbinds(c, k) => k \in 1 .. Len(c) BY DEF Unbinds
      <4>2. k \in 1 .. h <=> k \in 1 .. Len(c) /\ k < k0 BY <1>1, <3>2, <3>3
      <4>3. QED BY <3>6, <4>1, <4>2 DEF Unbinds
    <3>9. ASSUME NEW k, Unbinds(p, k) PROVE Unbinds(w, k) /\ p[k] = w[k]
      <4>1. Unbinds(c, k) /\ k < k0 BY <3>8, <3>9
      <4>2. k # k0 BY <2>2, <4>1
      <4>3. Unbinds(w, k) /\ c[k] = w[k] BY <2>3, <4>1, <4>2
      <4>4. p[k] = c[k] BY <3>6, <3>9 DEF Unbinds
      <4>5. QED BY <4>3, <4>4
    <3>10. ASSUME NEW k, Unbinds(w, k) PROVE Unbinds(p, k)
      <4>1. Unbinds(c, k) BY <1>9, <3>10
      <4>2. k # k0
        <5>1. SUFFICES ASSUME k = k0 PROVE FALSE OBVIOUS
        <5>2. k + 2 <= Len(w) /\ \A j \in 1 .. k + 1 : c[j] = w[j] BY <1>7, <3>10
        <5>3. Len(c) < Len(w) /\ \A j \in 1 .. Len(c) : c[j] = w[j]
          BY <1>1, <1>3, <2>1, <5>1, <5>2
        <5>4. ~IsPrefix(w, c) BY <1>1, <1>3, <5>3, PrefixFacts
        <5>5. Len(w) <= Len(dst) /\ \A j \in 1 .. Len(w) : w[j] = dst[j]
          BY <1>2, <1>3, <1>6, <5>4, PrefixFacts
        <5>6. Len(c) <= Len(dst) /\ \A j \in 1 .. Len(c) : c[j] = dst[j]
          BY <1>1, <1>2, <1>3, <5>3, <5>5
        <5>7. IsPrefix(c, dst) BY <1>1, <1>2, <5>6, PrefixFacts
        <5>8. QED BY <2>5, <5>7
      <4>3. QED BY <2>3, <3>8, <4>1, <4>2
    <3>11. InnermostBinding(p) = InnermostBinding(w) BY <1>3, <3>6, <3>9, <3>10, SameCalls
    <3>12. QED BY <3>7, <3>11
  <2>6. QED BY <2>4, <2>5
<1>13. QED BY <1>11, <1>12

-----------------------------------------------------------------------------
(***************************************************************************)
(* Where a step leads.                                                     *)
(***************************************************************************)
LEMMA FitsMore ==
    ASSUME NEW C, NEW D, C \subseteq D, NEW c, NEW f, Fits(C, c, f)
    PROVE  Fits(D, c, f)
BY DEF Fits, Aimed

LEMMA InnermostType ==
    ASSUME NEW C, Good(C), NEW c \in C
    PROVE  InnermostBinding(c) \in Bindings
<1> DEFINE calls == {i \in DOMAIN c : c[i].fn = "do_unbind"}
<1>1. Len(c) \in Nat /\ DOMAIN c = 1 .. Len(c) /\ c[1].fn = "do_root_exit" BY InGood
<1>2. InnermostBinding(c) = IF calls = {} THEN NoBinding ELSE c[Max(calls)].bound
  BY DEF InnermostBinding
<1>3. calls \in SUBSET (0 .. Len(c)) BY <1>1
<1>4. \A i \in calls : i \in 2 .. Len(c) /\ c[i].fn = "do_unbind" BY <1>1
<1> HIDE DEF calls
<1>5. CASE calls = {} BY <1>2, <1>5 DEF Bindings
<1>6. CASE calls # {}
  <2>1. PICK k : k = Max(calls) OBVIOUS
  <2>2. k \in calls BY <1>1, <1>3, <1>6, <2>1, MaxInSet
  <2>3. k \in 2 .. Len(c) /\ c[k].fn = "do_unbind" BY <1>4, <2>2
  <2>4. c[k].bound \in Bindings BY <2>3, FrameFacts
  <2>5. QED BY <1>2, <1>6, <2>1, <2>4
<1>7. QED BY <1>5, <1>6

\* A value goes to continuation c.
LEMMA Landing ==
    ASSUME NEW C, Good(C), NEW c \in C, ~Setting(c)
    PROVE  /\ Fits(C, Front(c), Last(c))
           /\ KeyFits(InnermostBinding(c), Front(c), Last(c))
<1>1. IsSeq(c) /\ Len(c) \in Nat /\ Len(c) >= 1 /\ c[1].fn = "do_root_exit" BY InGood
<1>2. PICK p, f : p = Front(c) /\ f = Last(c) OBVIOUS
<1>3. /\ f = c[Len(c)] /\ p = Upto(c, Len(c) - 1)
      /\ IsSeq(p) /\ Len(p) = Len(c) - 1
      /\ \A i \in 1 .. Len(c) - 1 : p[i] = c[i]
      /\ Append(p, f) = c
  BY <1>1, <1>2, LastFacts
<1>4. CASE Len(c) = 1
  <2>1. f.fn = "do_root_exit" BY <1>1, <1>3, <1>4
  <2>2. Fits(C, p, f) BY <1>3, <2>1 DEF Fits
  <2>3. KeyFits(InnermostBinding(c), p, f) BY <1>3, <2>1 DEF KeyFits
  <2>4. QED BY <1>2, <2>2, <2>3
<1>5. CASE Len(c) # 1
  <2>1. PICK n : n = Len(c) OBVIOUS
  <2>2. n \in 2 .. Len(c) BY <1>1, <1>5, <2>1
  <2>3. Upto(c, n - 1) \in C /\ FrameOK(C, Upto(c, n - 1), c[n]) BY <2>2 DEF Good
  <2>4. p \in C /\ FrameOK(C, p, f) BY <1>3, <2>1, <2>3
  <2>5. f.fn \notin {"do_root_exit", "do_set_pass", "NULL"} BY <2>4 DEF FrameOK, Shape
  <2>6. Fits(C, p, f) BY <1>3, <2>4, <2>5 DEF Fits, FrameOK
  <2>7. f.fn = "do_interception" => ~AtBinding(p)
    <3>1. SUFFICES ASSUME f.fn = "do_interception", AtBinding(p) PROVE FALSE OBVIOUS
    <3>2. Len(p) > 1 /\ p[Len(p) - 1].fn = "do_unbind" BY <3>1 DEF AtBinding
    <3>3. Len(c) > 2 /\ c[Len(c) - 2].fn = "do_unbind" BY <1>1, <1>3, <3>2
    <3>4. QED BY <1>2, <3>1, <3>3 DEF Setting
  <2>8. KeyFits(InnermostBinding(c), p, f)
    <3>1. CASE f.fn = "do_interception"
      <4>1. InnermostBinding(Append(p, f)) = InnermostBinding(p)
        BY <1>3, <3>1, SameInnermost
      <4>2. InnermostBinding(c) = InnermostBinding(p) BY <1>3, <4>1
      <4>3. QED BY <2>7, <3>1, <4>2 DEF KeyFits, Put
    <3>2. CASE f.fn # "do_interception" BY <1>3, <3>2 DEF KeyFits
    <3>3. QED BY <3>1, <3>2
  <2>9. QED BY <1>2, <2>6, <2>8
<1>6. QED BY <1>4, <1>5

\* The guards of a binding on the way are in the list.
LEMMA BindingExit ==
    ASSUME NEW C, Good(C), NEW c \in C, NEW dst \in C, NEW i \in 3 .. Len(c),
           c[i-2].fn = "do_unbind", Is("inner", c[i]), ~IsPrefix(Upto(c, i), dst)
    PROVE  i \in Exits(c, dst) /\ AtBinding(Upto(c, i - 1))
<1>1. Len(c) \in Nat /\ IsSeq(c) /\ DOMAIN c = 1 .. Len(c) /\ IsPrefix(root_cont, dst) BY InGood
<1>2. i \in 2 .. Len(c) /\ i > 2 /\ i \in 1 .. Len(c) BY <1>1
<1>3. i > 2 /\ c[i-2].fn = "do_unbind" =>
         \/ c[i].fn = "do_interception"
         \/ c[i] = Guarding("inner", c[i-1].id, BindingGuards(c[i-2].binding))
  BY <1>2, FrameFacts
<1>4. c[i].fn = "do_pass_value" BY DEF Is
<1>5. PICK bd : bd = c[i-2].binding OBVIOUS
<1>6. c[i].guards = BindingGuards(bd) BY <1>2, <1>3, <1>4, <1>5 DEF Guarding
<1>7. select_interceptor(c[i].guards, dst) = SetPass(bd) BY <1>1, <1>6, BindingSelects
<1>8. select_interceptor(c[i].guards, dst) # Null BY <1>7 DEF SetPass, Null
<1>9. i \in Exits(c, dst) BY <1>1, <1>2, <1>8 DEF Exits
<1>10. PICK h : h = i - 1 OBVIOUS
<1>11. h \in 1 .. Len(c) /\ h > 1 /\ h - 1 = i - 2 BY <1>1, <1>10
<1>12. PICK p : p = Upto(c, h) OBVIOUS
<1>13. AtBinding(p) <=> h > 1 /\ c[h-1].fn = "do_unbind" BY <1>1, <1>11, <1>12, UptoEnds
<1>14. AtBinding(p) BY <1>11, <1>13
<1>15. QED BY <1>9, <1>10, <1>12, <1>14

LEMMA BindingEntry ==
    ASSUME NEW C, Good(C), NEW c \in C, NEW dst \in C, NEW i \in 2 .. Len(dst),
           dst[i-1].fn = "do_unbind", ~IsPrefix(Upto(dst, i), c)
    PROVE  i \in Entries(c, dst) /\ AtBinding(Upto(dst, i))
<1>1. Len(dst) \in Nat /\ IsSeq(dst) /\ DOMAIN dst = 1 .. Len(dst) BY InGood
<1>2. i \in 1 .. Len(dst) /\ i > 1 BY <1>1
<1>3. dst[i] = Guarding("outer", dst[i].id, BindingGuards(dst[i-1].bound)) BY FrameFacts
<1>4. PICK bd : bd = dst[i-1].bound OBVIOUS
<1>5. Is("outer", dst[i]) /\ dst[i].guards = BindingGuards(bd) BY <1>3, <1>4 DEF Guarding, Is
<1>6. dst[i].guards # <<>> /\ dst[i].guards[1].selector = root_cont
  BY <1>5, BindingGuardsFacts
<1>7. i \in Entries(c, dst) BY <1>1, <1>2, <1>5, <1>6 DEF Entries
<1>8. PICK p : p = Upto(dst, i) OBVIOUS
<1>9. AtBinding(p) <=> i > 1 /\ dst[i-1].fn = "do_unbind" BY <1>1, <1>2, <1>8, UptoEnds
<1>10. QED BY <1>2, <1>7, <1>8, <1>9

\* A frame below which an interception runs, or is about to.
LEMMA ShapeReady ==
    ASSUME NEW c, NEW f, Shape(c, f), f.fn = "do_interception"
    PROVE  Last(c).fn # "do_unbind" /\ ~Setting(c)
<1>1. Last(c).fn # "do_unbind"
  <2>1. SUFFICES ASSUME Last(c).fn = "do_unbind" PROVE FALSE OBVIOUS
  <2>2. f = Guarding("outer", f.id, BindingGuards(Last(c).bound)) BY <2>1 DEF Shape
  <2>3. f.fn = "do_pass_value" BY <2>2 DEF Guarding
  <2>4. QED BY <2>3
<1>2. QED BY <1>1 DEF Shape

\* With no interceptor left to call, the pass ends with the right key.
LEMMA NoneLeft ==
    ASSUME OneThread, NEW C, Good(C), NEW c \in C, Last(c).fn # "do_unbind", ~Setting(c),
           NEW dst, Aimed(C, c, <<>>, dst)
    PROVE  Put(c, dst) = InnermostBinding(dst)
<1>1. dst \in C /\ Whole(dst) /\ Pending(c, <<>>, dst) BY DEF Aimed
<1>2. IsSeq(dst) BY <1>1, InGood
<1>3. DOMAIN <<>> = {} OBVIOUS
<1>4. IsPrefix(dst, dst) BY <1>2, PrefixFacts
<1>5. Len(dst) \in Nat /\ DOMAIN dst = 1 .. Len(dst) BY <1>1, InGood
<1>6. ASSUME NEW i \in DOMAIN dst PROVE IsPrefix(Upto(dst, i), dst)
  <2>1. i \in 0 .. Len(dst) BY <1>5
  <2>2. Agree(dst, dst, i) BY <1>5, <2>1 DEF Agree
  <2>3. QED BY <1>2, <2>1, <2>2, UptoPrefix
<1>7. OnPath(c, dst, dst) BY <1>4, <1>6 DEF OnPath
<1>8. ASSUME NEW i \in 3 .. Len(c), c[i-2].fn = "do_unbind", Is("inner", c[i]),
             ~IsPrefix(Upto(c, i), dst)
      PROVE  FALSE
  <2>1. i \in Exits(c, dst) BY <1>1, <1>8, BindingExit
  <2>2. QED BY <1>1, <1>3, <2>1 DEF Pending, ExitListed
<1>9. ASSUME NEW i \in 2 .. Len(dst), dst[i-1].fn = "do_unbind",
             ~IsPrefix(Upto(dst, i), c)
      PROVE  FALSE
  <2>1. i \in Entries(c, dst) BY <1>1, <1>9, BindingEntry
  <2>2. QED BY <1>1, <1>3, <2>1 DEF Pending, EntryListed
<1>10. QED BY <1>1, <1>7, <1>8, <1>9, KeyAtEnd

\* An interceptor of the program finds the right key.
LEMMA PlainNext ==
    ASSUME OneThread, NEW C, Good(C), NEW c \in C, Last(c).fn # "do_unbind", ~Setting(c),
           NEW dst \in C, NEW ls, Pending(c, ls, dst), 1 \in DOMAIN ls,
           NEW w \in C, w = ls[1].outer, ~AtBinding(w), Whole(w), OnPath(c, w, dst)
    PROVE  Put(c, dst) = InnermostBinding(w)
<1>0. IsSeq(ls) /\ DOMAIN ls = 1 .. Len(ls) /\ Len(ls) \in Nat BY IsSeqFacts DEF Pending
<1>1. ASSUME NEW i \in 3 .. Len(c), c[i-2].fn = "do_unbind", Is("inner", c[i]),
             ~IsPrefix(Upto(c, i), dst)
      PROVE  IsPrefix(Upto(c, i), w)
  <2>1. i \in Exits(c, dst) /\ AtBinding(Upto(c, i - 1)) BY <1>1, BindingExit
  <2>2. PICK j \in DOMAIN ls :
           /\ ls[j].outer = Upto(c, i - 1)
           /\ \A k \in 1 .. j - 1 : IsPrefix(Upto(c, i), ls[k].outer)
    BY <2>1 DEF Pending, ExitListed
  <2>3. j # 1 BY <2>1, <2>2
  <2>4. 1 \in 1 .. j - 1 BY <1>0, <2>3
  <2>5. QED BY <2>2, <2>4
<1>2. ASSUME NEW i \in 2 .. Len(dst), dst[i-1].fn = "do_unbind",
             ~IsPrefix(Upto(dst, i), c)
      PROVE  ~IsPrefix(Upto(dst, i), w)
  <2>1. i \in Entries(c, dst) /\ AtBinding(Upto(dst, i)) BY <1>2, BindingEntry
  <2>2. PICK j \in DOMAIN ls :
           /\ ls[j].outer = Upto(dst, i)
           /\ \A k \in 1 .. j - 1 : ~IsPrefix(Upto(dst, i), ls[k].outer)
    BY <2>1 DEF Pending, EntryListed
  <2>3. j # 1 BY <2>1, <2>2
  <2>4. 1 \in 1 .. j - 1 BY <1>0, <2>3
  <2>5. QED BY <2>2, <2>4
<1>3. QED BY <1>1, <1>2, KeyAtEnd

\* A pass starts in c, where the program's code runs.
LEMMA PassStarts ==
    ASSUME NEW C, Good(C), NEW c \in C, Steady(c), NEW dst \in C, Whole(dst),
           NEW ls, ls = create_interception_list(c, dst)
    PROVE  /\ Pending(c, ls, dst)
           /\ Fits(C, c, Interception(ls, dst))
           /\ KeyFits(InnermostBinding(c), c, Interception(ls, dst))
           /\ OneThread /\ ls = <<>> => InnermostBinding(c) = InnermostBinding(dst)
<1>1. Pending(c, ls, dst) BY PendingAtFirst
<1>2. PICK f : f = Interception(ls, dst) OBVIOUS
<1>3. f.fn = "do_interception" /\ f.ls = ls /\ f.dst = dst BY <1>2 DEF Interception
<1>4. Shape(c, f) BY <1>3 DEF Shape, Steady, Is
<1>5. Aimed(C, c, ls, dst) BY <1>1 DEF Aimed
<1>6. Fits(C, c, f) BY <1>3, <1>4, <1>5 DEF Fits
<1>7. Put(c, dst) = InnermostBinding(c) BY DEF Put, Steady
<1>8. KeyFits(InnermostBinding(c), c, f) BY <1>3, <1>7 DEF KeyFits
<1>9. ASSUME OneThread, ls = <<>> PROVE InnermostBinding(c) = InnermostBinding(dst)
  <2>1. Aimed(C, c, <<>>, dst) BY <1>5, <1>9
  <2>2. Last(c).fn # "do_unbind" /\ ~Setting(c) BY DEF Steady
  <2>3. Put(c, dst) = InnermostBinding(dst) BY <1>9, <2>1, <2>2, NoneLeft
  <2>4. QED BY <1>7, <2>3
<1>10. QED BY <1>1, <1>2, <1>6, <1>8, <1>9

\* The next interceptor of a pass is called.
LEMMA PassGoesOn ==
    ASSUME NEW C, Good(C), NEW c \in C, Last(c).fn # "do_unbind", ~Setting(c),
           NEW dst, NEW ls, Aimed(C, c, ls, dst), ls # <<>>,
           NEW d, IsChild(d, Head(ls).outer, Interception(Tail(ls), dst)), NEW op, op = Head(ls).op
    PROVE  \E D : /\ Good(D) /\ C \subseteq D /\ Fits(D, d, op)
                  /\ OneThread => KeyFits(Put(c, dst), d, op)
<1>1. dst \in C /\ Whole(dst) /\ Pending(c, ls, dst) BY DEF Aimed
<1>2. IsSeq(c) /\ IsSeq(dst) BY <1>1, InGood
<1>3. /\ Head(ls) = ls[1] /\ 1 \in DOMAIN ls
      /\ Item(ls[1], dst) /\ OnPath(c, ls[1].outer, dst)
      /\ Pending(ls[1].outer, Tail(ls), dst)
  BY <1>1, <1>2, PendingNext
<1>4. PICK w : w = ls[1].outer OBVIOUS
<1>5. PICK g : g = Interception(Tail(ls), dst) OBVIOUS
<1>6. g.fn = "do_interception" /\ g.ls = Tail(ls) /\ g.dst = dst BY <1>5 DEF Interception
<1>7. /\ IsSeq(w) /\ Len(w) >= 1 /\ Is("outer", Last(w))
      /\ IF AtBinding(w) THEN op = SetPass(Put(w, dst)) ELSE op.fn \in PlainOps
  BY <1>3, <1>4 DEF Item
<1>8. w \in C
  <2>1. PICK b : b \in C /\ IsPrefix(w, b) BY <1>1, <1>3, <1>4 DEF OnPath
  <2>2. IsSeq(b) /\ Len(b) \in Nat /\ \A n \in 1 .. Len(b) : Upto(b, n) \in C BY <2>1, InGood
  <2>3. Len(w) \in 0 .. Len(b) /\ w = Upto(b, Len(w)) BY <1>7, <2>1, <2>2, PrefixIsUpto
  <2>4. Len(w) \in 1 .. Len(b) BY <1>7, <2>2, <2>3
  <2>5. QED BY <2>2, <2>3, <2>4
<1>9. Last(w).fn # "do_unbind" /\ ~Setting(w) BY <1>7 DEF Is, Setting
<1>10. FrameOK(C, w, g)
  <2>1. Shape(w, g) BY <1>6, <1>9 DEF Shape, Is
  <2>2. Aimed(C, w, g.ls, g.dst) BY <1>1, <1>3, <1>4, <1>6 DEF Aimed
  <2>3. QED BY <1>7, <2>1, <2>2 DEF FrameOK
<1>11. IsChild(d, w, g) BY <1>3, <1>4, <1>5
<1>12. PICK D : D = C \cup {d} OBVIOUS
<1>13. Good(D) /\ d \in D /\ C \subseteq D BY <1>8, <1>10, <1>11, <1>12, Grow
<1>14. /\ IsSeq(d) /\ Len(d) = Len(w) + 1 /\ Len(w) \in Nat
       /\ \A i \in 1 .. Len(w) : d[i] = w[i]
       /\ d[Len(d)] = g /\ Last(d) = g /\ Front(d) = w
  BY <1>7, <1>11, ChildFacts
<1>15. CASE AtBinding(w)
  <2>1. PICK bd : bd = Put(w, dst) OBVIOUS
  <2>2. op = SetPass(bd) BY <1>7, <1>15, <2>1
  <2>3. op.fn = "do_set_pass" /\ op.binding = bd BY <2>2 DEF SetPass
  <2>4. bd \in Bindings
    <3>1. InnermostBinding(w) \in Bindings BY <1>8, InnermostType
    <3>2. w[Len(w) - 1].binding \in Bindings
      <4>1. PICK k : k = Len(w) - 1 OBVIOUS
      <4>2. Len(w) > 1 /\ w[k].fn = "do_unbind" BY <1>15, <4>1 DEF AtBinding
      <4>3. w[1].fn = "do_root_exit" BY <1>8, InGood
      <4>4. k # 1 BY <4>2, <4>3
      <4>5. k \in 2 .. Len(w) BY <1>14, <4>1, <4>2, <4>4
      <4>6. w[k].binding \in Bindings BY <1>8, <4>2, <4>5, FrameFacts
      <4>7. QED BY <4>1, <4>6
    <3>3. QED BY <2>1, <3>1, <3>2 DEF Put
  <2>5. Fits(D, d, op) BY <1>6, <1>7, <1>13, <1>14, <2>1, <2>3, <2>4 DEF Fits
  <2>6. KeyFits(Put(c, dst), d, op) BY <2>3 DEF KeyFits
  <2>7. QED BY <1>13, <2>5, <2>6
<1>16. CASE ~AtBinding(w)
  <2>1. op.fn \in PlainOps BY <1>7, <1>16
  <2>2. Steady(d)
    <3>1. Len(d) - 1 \in 1 .. Len(w) /\ d[Len(d) - 1] = Last(w) BY <1>7, <1>14 DEF Last
    <3>2. ~AtBinding(d) BY <1>9, <3>1 DEF AtBinding
    <3>3. ~Setting(d)
      <4>1. Len(d) > 2 => Len(w) > 1 /\ d[Len(d) - 2] = w[Len(w) - 1] BY <1>14
      <4>2. QED BY <1>16, <4>1 DEF AtBinding, Setting
    <3>4. QED BY <1>6, <1>14, <3>2, <3>3 DEF Steady
  <2>3. FrameOK(D, d, op) BY <2>1, <2>2, SteadyShape
  <2>4. PICK x : IsChild(x, d, op) BY DEF IsChild
  <2>5. PICK E : E = D \cup {x} OBVIOUS
  <2>6. Good(E) /\ x \in E /\ C \subseteq E BY <1>13, <2>3, <2>4, <2>5, Grow
  <2>7. op.fn \notin {"NULL", "do_interception", "do_set_pass", "do_unbind"}
    BY <2>1 DEF PlainOps
  <2>8. Fits(E, d, op) BY <1>14, <2>4, <2>6, <2>7 DEF Fits, IsChild
  <2>9. ASSUME OneThread PROVE KeyFits(Put(c, dst), d, op)
    <3>1. Steady(w) BY <1>9, <1>16 DEF Steady
    <3>2. Whole(w) BY <1>8, <3>1, SteadyIsWhole
    <3>3. Put(c, dst) = InnermostBinding(w)
      BY <1>1, <1>3, <1>4, <1>8, <1>16, <2>9, <3>2, PlainNext
    <3>4. InnermostBinding(d) = InnermostBinding(w)
      BY <1>6, <1>7, <1>11, SameInnermost DEF IsChild
    <3>5. InnermostBinding(Append(d, op)) = InnermostBinding(d)
      BY <1>14, <2>7, SameInnermost
    <3>6. QED BY <2>7, <3>3, <3>4, <3>5 DEF KeyFits
  <2>10. QED BY <2>6, <2>8, <2>9
<1>17. QED BY <1>15, <1>16

-----------------------------------------------------------------------------
(***************************************************************************)
(* What runs next, by its kind.                                            *)
(***************************************************************************)
LEMMA CalledFrame ==
    ASSUME NEW C, Good(C), NEW c, NEW f, Fits(C, c, f),
           f.fn \notin {"NULL", "do_interception", "do_set_pass"}
    PROVE  /\ IsSeq(c) /\ Append(c, f) \in C
           /\ IF f.fn = "do_root_exit" THEN c = <<>> ELSE c \in C /\ FrameOK(C, c, f)
<1>1. IsSeq(c) /\ Append(c, f) \in C BY DEF Fits
<1>2. Len(c) \in Nat BY <1>1, IsSeqFacts
<1>3. PICK d : IsChild(d, c, f) BY DEF IsChild
<1>4. d \in C BY <1>1, <1>3 DEF IsChild
<1>5. /\ IsSeq(d) /\ Len(d) = Len(c) + 1 /\ d[Len(d)] = f
      /\ \A i \in 0 .. Len(c) : Upto(d, i) = Upto(c, i)
  BY <1>1, <1>3, ChildFacts
<1>6. CASE Len(c) = 0
  <2>1. c = <<>> BY <1>1, <1>6, SameSeq, FunctionIsSeq
  <2>2. f = Frame("do_root_exit") BY <1>4, <1>5, <1>6, InGood
  <2>3. f.fn = "do_root_exit" BY <2>2 DEF Frame
  <2>4. QED BY <1>1, <2>1, <2>3
<1>7. CASE Len(c) # 0
  <2>1. PICK n : n = Len(d) OBVIOUS
  <2>2. n \in 2 .. Len(d) /\ n - 1 = Len(c) BY <1>2, <1>5, <1>7, <2>1
  <2>3. Upto(d, n - 1) \in C /\ FrameOK(C, Upto(d, n - 1), d[n]) BY <1>4, <2>2 DEF Good
  <2>4. Len(c) \in 0 .. Len(c) BY <1>2
  <2>5. Upto(d, n - 1) = c BY <1>1, <1>5, <2>2, <2>4, UptoAll
  <2>6. c \in C /\ FrameOK(C, c, f) BY <1>5, <2>1, <2>3, <2>5
  <2>7. f.fn # "do_root_exit" BY <2>6 DEF FrameOK, Shape
  <2>8. QED BY <1>1, <2>6, <2>7
<1>8. QED BY <1>6, <1>7

\* The program's code runs.
LEMMA Running ==
    ASSUME NEW C, Good(C), NEW c, Fits(C, c, User), NEW k
    PROVE  /\ c \in C /\ Steady(c) /\ Whole(c)
           /\ KeyFits(k, c, User) <=> k = InnermostBinding(c)
<1>1. PICK f : f = User OBVIOUS
<1>2. f.fn = "user" BY <1>1 DEF User
<1>3. IsSeq(c) /\ c \in C /\ FrameOK(C, c, f) BY <1>1, <1>2, CalledFrame
<1>4. Shape(c, f) BY <1>3 DEF FrameOK
<1>5. Steady(c) BY <1>2, <1>4, ShapeSteady
<1>6. Whole(c) BY <1>3, <1>5, SteadyIsWhole
<1>7. InnermostBinding(Append(c, f)) = InnermostBinding(c) BY <1>2, <1>3, SameInnermost
<1>8. KeyFits(k, c, f) <=> k = InnermostBinding(c) BY <1>2, <1>7 DEF KeyFits
<1>9. QED BY <1>1, <1>3, <1>5, <1>6, <1>8

\* A value goes up to the current continuation.
LEMMA Returning ==
    ASSUME NEW C, Good(C), NEW c, NEW f, Fits(C, c, f),
           f.fn \notin {"NULL", "do_root_exit", "do_interception", "do_set_pass"}, NEW k,
           OneThread => IF f.fn = "do_unbind" THEN k = f.binding ELSE KeyFits(k, c, f)
    PROVE  /\ c \in C /\ ~Setting(c)
           /\ Fits(C, Front(c), Last(c))
           /\ OneThread => KeyFits(k, Front(c), Last(c))
<1>1. IsSeq(c) /\ c \in C /\ FrameOK(C, c, f) BY CalledFrame
<1>2. Shape(c, f) /\ ~Setting(c) BY <1>1 DEF FrameOK, Shape
<1>3. Fits(C, Front(c), Last(c)) /\ KeyFits(InnermostBinding(c), Front(c), Last(c))
  BY <1>1, <1>2, Landing
<1>4. ASSUME OneThread PROVE k = InnermostBinding(c)
  <2>1. CASE f.fn = "do_unbind" BY <1>2, <1>4, <2>1 DEF Shape
  <2>2. CASE f.fn # "do_unbind"
    <3>1. k = InnermostBinding(Append(c, f)) BY <1>4, <2>2 DEF KeyFits
    <3>2. QED BY <1>1, <2>2, <3>1, SameInnermost
  <2>3. QED BY <2>1, <2>2
<1>5. QED BY <1>1, <1>2, <1>3, <1>4

\* The interceptor of a binding sets the key and returns into the pass.
LEMMA Resuming ==
    ASSUME NEW C, Good(C), NEW c, NEW f, Fits(C, c, f), f.fn = "do_set_pass"
    PROVE  /\ f.binding \in Bindings /\ c \in C
           /\ Fits(C, Front(c), Last(c)) /\ KeyFits(f.binding, Front(c), Last(c))
<1>1. /\ f.binding \in Bindings /\ c \in C /\ Len(c) > 1
      /\ Last(c).fn = "do_interception" /\ f.binding = Put(Front(c), Last(c).dst)
  BY DEF Fits
<1>2. IsSeq(c) /\ Len(c) \in Nat BY <1>1, InGood
<1>3. PICK p, g : p = Front(c) /\ g = Last(c) OBVIOUS
<1>4. g = c[Len(c)] /\ p = Upto(c, Len(c) - 1) BY <1>1, <1>2, <1>3, LastFacts
<1>5. PICK n : n = Len(c) OBVIOUS
<1>6. n \in 2 .. Len(c) BY <1>1, <1>2, <1>5
<1>7. Upto(c, n - 1) \in C /\ FrameOK(C, Upto(c, n - 1), c[n]) BY <1>1, <1>6 DEF Good
<1>8. p \in C /\ FrameOK(C, p, g) BY <1>4, <1>5, <1>7
<1>9. Fits(C, p, g) BY <1>1, <1>3, <1>8 DEF Fits, FrameOK
<1>10. KeyFits(f.binding, p, g) BY <1>1, <1>3 DEF KeyFits
<1>11. QED BY <1>1, <1>3, <1>9, <1>10

-----------------------------------------------------------------------------
(***************************************************************************)
(* The invariant after a step of one thread.                               *)
(***************************************************************************)
LEMMA Moves ==
    ASSUME IInv, NEW C, CoveredBy(C), NEW D, Good(D), C \subseteq D,
           NEW t \in Threads, NEW c, NEW f, Fits(D, c, f),
           curr_cont' = [curr_cont EXCEPT ![t] = c], next' = [next EXCEPT ![t] = f],
           \A h \in held' : h \in D /\ Whole(h),
           made' \in 0 .. MaxExtents, key' \in Bindings, OneThread => KeyFits(key', c, f)
    PROVE  IInv'
<1>1. /\ curr_cont = [u \in Threads |-> curr_cont[u]]
      /\ next = [u \in Threads |-> next[u]]
  BY DEF IInv
<1>2. /\ curr_cont'[t] = c /\ next'[t] = f
      /\ \A u \in Threads : u # t => curr_cont'[u] = curr_cont[u] /\ next'[u] = next[u]
      /\ curr_cont' = [u \in Threads |-> curr_cont'[u]]
      /\ next' = [u \in Threads |-> next'[u]]
  BY <1>1
<1>3. /\ root_cont \in C /\ error_cont \in C
      /\ \A u \in Threads : Fits(C, curr_cont[u], next[u])
  BY DEF CoveredBy
<1>4. ASSUME NEW u \in Threads PROVE Fits(D, curr_cont'[u], next'[u])
  <2>1. CASE u = t BY <1>2, <2>1
  <2>2. CASE u # t
    <3>1. PICK d, g : d = curr_cont[u] /\ g = next[u] OBVIOUS
    <3>2. Fits(C, d, g) BY <1>3, <3>1
    <3>3. Fits(D, d, g) BY <3>2, FitsMore
    <3>4. QED BY <1>2, <2>2, <3>1, <3>3
  <2>3. QED BY <2>1, <2>2
<1>5. CoveredBy(D)' BY <1>3, <1>4 DEF CoveredBy
<1>6. ASSUME OneThread, NEW u \in Threads PROVE KeyFits(key', curr_cont'[u], next'[u])
  <2>1. u = t BY <1>6 DEF OneThread
  <2>2. QED BY <1>2, <1>6, <2>1
<1>7. QED BY <1>2, <1>5, <1>6 DEF IInv

-----------------------------------------------------------------------------
(***************************************************************************)
(* How a step moves thread t.                                              *)
(***************************************************************************)
Stays(t) == curr_cont'[t] = curr_cont[t]

\* It passes a value up ...
Pops(t) ==
    /\ IsSeq(curr_cont[t]) /\ Len(curr_cont[t]) >= 1
    /\ curr_cont'[t] = Front(curr_cont[t])
    /\ Destination(t) = curr_cont[t]

\* ... or goes down, into guards that are new, ...
Pushes(t) ==
    /\ IsSeq(curr_cont[t]) /\ IsSeq(curr_cont'[t])
    /\ IsPrefix(curr_cont[t], curr_cont'[t])
    /\ \A i \in DOMAIN curr_cont'[t] :
          i > Len(curr_cont[t]) /\ Is("outer", curr_cont'[t][i])
            => curr_cont'[t][i].id = made + 1

\* ... or takes what is left of a pass to its next interceptor, or to its end.
Takes(C, t, ls, dst) ==
    /\ Good(C) /\ curr_cont[t] \in C /\ dst \in C
    /\ Pending(curr_cont[t], ls, dst)
    /\ Destination(t) = dst
    /\ IF ls = <<>> THEN curr_cont'[t] = Front(dst)
       ELSE /\ next'[t] = ls[1].op
            /\ curr_cont'[t] = Append(ls[1].outer, Interception(Tail(ls), dst))

Moved(t) ==
    Stays(t) \/ Pops(t) \/ Pushes(t) \/ \E C : \E ls : \E dst : Takes(C, t, ls, dst)

Kept(t) == IInv' /\ \A u \in Threads : IF u = t THEN Moved(u) ELSE Stays(u)

Goes(t, c, f) ==
    /\ curr_cont' = [curr_cont EXCEPT ![t] = c] /\ next' = [next EXCEPT ![t] = f]

LEMMA Going ==
    ASSUME IInv, NEW t \in Threads, NEW c, NEW f, Goes(t, c, f)
    PROVE  /\ curr_cont'[t] = c /\ next'[t] = f
           /\ \A u \in Threads : u # t => Stays(u)
BY DEF IInv, Goes, Stays

\* A step that leaves the thread where it is.
LEMMA StaysHere ==
    ASSUME IInv, NEW t \in Threads, UNCHANGED curr_cont,
           NEW f, next' = [next EXCEPT ![t] = f]
    PROVE  Goes(t, curr_cont[t], f) /\ \A u \in Threads : Stays(u)
BY DEF IInv, Goes, Stays

LEMMA InUse ==
    ASSUME IInv, NEW C, CoveredBy(C), NEW t \in Threads
    PROVE  /\ Good(C) /\ root_cont \in C /\ error_cont \in C
           /\ Fits(C, curr_cont[t], next[t])
           /\ OneThread => KeyFits(key, curr_cont[t], next[t])
           /\ \A h \in held : h \in C /\ Whole(h)
           /\ made \in 0 .. MaxExtents /\ key \in Bindings
BY DEF IInv, CoveredBy

LEMMA ReturnKeeps ==
    ASSUME IInv, NEW t \in Threads, Return(t), UNCHANGED key
    PROVE  Kept(t)
<1>1. PICK C : CoveredBy(C) BY DEF IInv
<1>2. PICK c, f : c = curr_cont[t] /\ f = next[t] OBVIOUS
<1>3. /\ Good(C) /\ Fits(C, c, f) /\ (OneThread => KeyFits(key, c, f))
      /\ \A h \in held : h \in C /\ Whole(h)
      /\ made \in 0 .. MaxExtents /\ key \in Bindings
  BY <1>1, <1>2, InUse
<1>4. f.fn \notin {"NULL", "do_root_exit", "do_interception", "do_set_pass", "do_unbind"}
  BY <1>2 DEF Return
<1>5. PICK k : k = key OBVIOUS
<1>6. PICK d, g : d = Front(c) /\ g = Last(c) OBVIOUS
<1>7. c \in C /\ ~Setting(c) /\ Fits(C, d, g) /\ (OneThread => KeyFits(k, d, g))
  BY <1>3, <1>4, <1>5, <1>6, Returning
<1>8. Goes(t, d, g) BY <1>2, <1>6 DEF Return, apply_cc, Goes
<1>9. UNCHANGED <<held, made>> BY DEF Return
<1>10. IInv' BY <1>1, <1>3, <1>5, <1>7, <1>8, <1>9, Moves DEF Goes
<1>11. curr_cont'[t] = d /\ next'[t] = g /\ \A u \in Threads : u # t => Stays(u)
  BY <1>8, Going
<1>12. IsSeq(c) /\ Len(c) >= 1 BY <1>3, <1>7, InGood
<1>13. Append(d, g) = c BY <1>6, <1>12, LastFacts
<1>14. Destination(t) = c BY <1>2, <1>4, <1>11, <1>13 DEF Destination
<1>15. Pops(t) BY <1>2, <1>6, <1>11, <1>12, <1>14 DEF Pops
<1>16. QED BY <1>10, <1>11, <1>15 DEF Kept, Moved

LEMMA RootExitKeeps ==
    ASSUME IInv, NEW t \in Threads, RootExit(t), UNCHANGED key
    PROVE  Kept(t)
<1>1. PICK C : CoveredBy(C) BY DEF IInv
<1>2. PICK c, f : c = curr_cont[t] /\ f = next[t] OBVIOUS
<1>3. /\ Good(C) /\ Fits(C, c, f)
      /\ \A h \in held : h \in C /\ Whole(h)
      /\ made \in 0 .. MaxExtents /\ key \in Bindings
  BY <1>1, <1>2, InUse
<1>4. f.fn = "do_root_exit" BY <1>2 DEF RootExit
<1>5. c = <<>> BY <1>3, <1>4, CalledFrame
<1>6. PICK n : n = Null OBVIOUS
<1>7. n.fn = "NULL" BY <1>6 DEF Null
<1>8. Fits(C, c, n) /\ KeyFits(key, c, n) BY <1>5, <1>6, <1>7 DEF Fits, KeyFits
<1>9. Goes(t, c, n) /\ \A u \in Threads : Stays(u)
  BY <1>2, <1>6, StaysHere DEF RootExit
<1>10. UNCHANGED <<held, made>> BY DEF RootExit
<1>11. IInv' BY <1>1, <1>3, <1>8, <1>9, <1>10, Moves DEF Goes
<1>12. QED BY <1>9, <1>11 DEF Kept, Moved

LEMMA PutBindingKeeps ==
    ASSUME IInv, NEW t \in Threads, PutBinding(t)
    PROVE  Kept(t)
<1>1. PICK C : CoveredBy(C) BY DEF IInv
<1>2. PICK c, f : c = curr_cont[t] /\ f = next[t] OBVIOUS
<1>3. /\ Good(C) /\ Fits(C, c, f)
      /\ \A h \in held : h \in C /\ Whole(h)
      /\ made \in 0 .. MaxExtents
  BY <1>1, <1>2, InUse
<1>4. f.fn \in {"do_unbind", "do_set_pass"} BY <1>2 DEF PutBinding
<1>5. PICK k : k = f.binding OBVIOUS
<1>6. PICK d, g : d = Front(c) /\ g = Last(c) OBVIOUS
<1>7. c \in C /\ Fits(C, d, g) /\ (OneThread => KeyFits(k, d, g)) /\ k \in Bindings
  <2>1. CASE f.fn = "do_unbind"
    <3>1. c \in C /\ Fits(C, d, g) /\ (OneThread => KeyFits(k, d, g))
      BY <1>3, <1>5, <1>6, <2>1, Returning
    <3>2. FrameOK(C, c, f) BY <1>3, <2>1, CalledFrame
    <3>3. k \in Bindings BY <1>5, <2>1, <3>2 DEF FrameOK, Shape
    <3>4. QED BY <3>1, <3>3
  <2>2. CASE f.fn = "do_set_pass" BY <1>3, <1>5, <1>6, <2>2, Resuming
  <2>3. QED BY <1>4, <2>1, <2>2
<1>8. Goes(t, d, g) BY <1>2, <1>6 DEF PutBinding, apply_cc, Goes
<1>9. UNCHANGED <<held, made>> /\ key' = k BY <1>2, <1>5 DEF PutBinding
<1>10. IInv' BY <1>1, <1>3, <1>7, <1>8, <1>9, Moves DEF Goes
<1>11. curr_cont'[t] = d /\ next'[t] = g /\ \A u \in Threads : u # t => Stays(u)
  BY <1>8, Going
<1>12. IsSeq(c) /\ Len(c) >= 1 BY <1>3, <1>7, InGood
<1>13. Append(d, g) = c BY <1>6, <1>12, LastFacts
<1>14. Destination(t) = c BY <1>2, <1>4, <1>11, <1>13 DEF Destination
<1>15. Pops(t) BY <1>2, <1>6, <1>11, <1>12, <1>14 DEF Pops
<1>16. QED BY <1>10, <1>11, <1>15 DEF Kept, Moved

LEMMA DoInterceptionKeeps ==
    ASSUME IInv, NEW t \in Threads, DoInterception(t), UNCHANGED key
    PROVE  Kept(t)
<1>1. PICK C : CoveredBy(C) BY DEF IInv
<1>2. PICK c, f : c = curr_cont[t] /\ f = next[t] OBVIOUS
<1>3. /\ Good(C) /\ Fits(C, c, f) /\ (OneThread => KeyFits(key, c, f))
      /\ \A h \in held : h \in C /\ Whole(h)
      /\ made \in 0 .. MaxExtents /\ key \in Bindings
  BY <1>1, <1>2, InUse
<1>4. f.fn = "do_interception" BY <1>2 DEF DoInterception
<1>5. PICK ls, dst : ls = f.ls /\ dst = f.dst OBVIOUS
<1>6. c \in C /\ Shape(c, f) /\ Aimed(C, c, ls, dst) BY <1>3, <1>4, <1>5 DEF Fits
<1>7. dst \in C /\ Whole(dst) /\ Pending(c, ls, dst) BY <1>6 DEF Aimed
<1>8. Last(c).fn # "do_unbind" /\ ~Setting(c) BY <1>4, <1>6, ShapeReady
<1>9. PICK k : k = key OBVIOUS
<1>10. OneThread => k = Put(c, dst) BY <1>3, <1>4, <1>5, <1>9 DEF KeyFits
<1>11. UNCHANGED <<held, made, key>> BY DEF DoInterception
<1>12. Destination(t) = dst BY <1>2, <1>4, <1>5 DEF Destination
<1>13. CASE ls = <<>>
  <2>1. IsSeq(dst) /\ Len(dst) >= 1 BY <1>3, <1>7, InGood
  <2>2. ~Setting(dst) BY <1>7, <2>1, WholeIsSteady DEF Steady
  <2>3. PICK d, g : d = Front(dst) /\ g = Last(dst) OBVIOUS
  <2>4. Fits(C, d, g) /\ KeyFits(InnermostBinding(dst), d, g)
    BY <1>3, <1>7, <2>2, <2>3, Landing
  <2>5. ASSUME OneThread PROVE KeyFits(k, d, g)
    <3>1. Aimed(C, c, <<>>, dst) BY <1>6, <1>13
    <3>2. Put(c, dst) = InnermostBinding(dst) BY <1>3, <1>6, <1>8, <2>5, <3>1, NoneLeft
    <3>3. QED BY <1>10, <2>4, <2>5, <3>2
  <2>6. Goes(t, d, g) BY <1>2, <1>5, <1>13, <2>3 DEF DoInterception, apply_cc, Goes
  <2>7. IInv' BY <1>1, <1>3, <1>9, <1>11, <2>4, <2>5, <2>6, Moves DEF Goes
  <2>8. curr_cont'[t] = d /\ \A u \in Threads : u # t => Stays(u) BY <2>6, Going
  <2>9. Takes(C, t, ls, dst)
    BY <1>2, <1>3, <1>6, <1>7, <1>12, <1>13, <2>3, <2>8 DEF Takes
  <2>10. QED BY <2>7, <2>8, <2>9 DEF Kept, Moved
<1>14. CASE ls # <<>>
  <2>1. PICK d, op : /\ d = Append(Head(ls).outer, Interception(Tail(ls), dst))
                     /\ op = Head(ls).op
    OBVIOUS
  <2>2. IsChild(d, Head(ls).outer, Interception(Tail(ls), dst)) BY <2>1 DEF IsChild
  <2>3. PICK D : /\ Good(D) /\ C \subseteq D /\ Fits(D, d, op)
                 /\ OneThread => KeyFits(Put(c, dst), d, op)
    BY <1>3, <1>6, <1>8, <1>14, <2>1, <2>2, PassGoesOn
  <2>4. Goes(t, d, op) BY <1>2, <1>5, <1>14, <2>1 DEF DoInterception, Goes
  <2>5. \A h \in held : h \in D /\ Whole(h) BY <1>3, <2>3
  <2>6. OneThread => KeyFits(k, d, op) BY <1>10, <2>3
  <2>7. IInv' BY <1>1, <1>3, <1>9, <1>11, <2>3, <2>4, <2>5, <2>6, Moves DEF Goes
  <2>8. curr_cont'[t] = d /\ next'[t] = op /\ \A u \in Threads : u # t => Stays(u)
    BY <2>4, Going
  <2>9. Head(ls) = ls[1] OBVIOUS
  <2>10. Takes(C, t, ls, dst)
    BY <1>2, <1>3, <1>6, <1>7, <1>12, <1>14, <2>1, <2>8, <2>9 DEF Takes
  <2>11. QED BY <2>7, <2>8, <2>10 DEF Kept, Moved
<1>15. QED BY <1>13, <1>14

\* The program calls continuation dst.
LEMMA PassKeeps ==
    ASSUME IInv, NEW C, CoveredBy(C), NEW t \in Threads, Runs(t),
           NEW dst \in C, Whole(dst), kcall_cont(t, dst), UNCHANGED <<held, made, key>>
    PROVE  Kept(t)
<1>1. PICK c, ls : c = curr_cont[t] /\ ls = create_interception_list(c, dst) OBVIOUS
<1>2. /\ Good(C) /\ Fits(C, c, User) /\ (OneThread => KeyFits(key, c, User))
      /\ \A h \in held : h \in C /\ Whole(h)
      /\ made \in 0 .. MaxExtents /\ key \in Bindings
  BY <1>1, InUse DEF Runs
<1>3. PICK k : k = key OBVIOUS
<1>4. c \in C /\ Steady(c) /\ Whole(c) /\ (OneThread => k = InnermostBinding(c))
  BY <1>2, <1>3, Running
<1>5. PICK n : n = Interception(ls, dst) OBVIOUS
<1>6. /\ Pending(c, ls, dst) /\ Fits(C, c, n) /\ KeyFits(InnermostBinding(c), c, n)
      /\ OneThread /\ ls = <<>> => InnermostBinding(c) = InnermostBinding(dst)
  BY <1>1, <1>2, <1>4, <1>5, PassStarts
<1>7. CASE ls = <<>>
  <2>1. IsSeq(dst) /\ Len(dst) >= 1 BY <1>2, InGood
  <2>2. ~Setting(dst) BY <2>1, WholeIsSteady DEF Steady
  <2>3. PICK d, g : d = Front(dst) /\ g = Last(dst) OBVIOUS
  <2>4. Fits(C, d, g) /\ KeyFits(InnermostBinding(dst), d, g) BY <1>2, <2>2, <2>3, Landing
  <2>5. OneThread => KeyFits(k, d, g) BY <1>4, <1>6, <1>7, <2>4
  <2>6. Goes(t, d, g) BY <1>1, <1>7, <2>3 DEF kcall_cont, apply_cc, Goes
  <2>7. IInv' BY <1>2, <1>3, <2>4, <2>5, <2>6, Moves DEF Goes
  <2>8. curr_cont'[t] = d /\ next'[t] = g /\ \A u \in Threads : u # t => Stays(u)
    BY <2>6, Going
  <2>9. Append(d, g) = dst BY <2>1, <2>3, LastFacts
  <2>10. next[t].fn # "do_interception" BY DEF Runs, User
  <2>11. Destination(t) = dst BY <2>8, <2>9, <2>10 DEF Destination
  <2>12. Takes(C, t, ls, dst) BY <1>1, <1>2, <1>4, <1>6, <1>7, <2>3, <2>8, <2>11 DEF Takes
  <2>13. QED BY <2>7, <2>8, <2>12 DEF Kept, Moved
<1>8. CASE ls # <<>>
  <2>1. Goes(t, c, n) /\ \A u \in Threads : Stays(u)
    BY <1>1, <1>5, <1>8, StaysHere DEF kcall_cont
  <2>2. OneThread => KeyFits(k, c, n) BY <1>4, <1>6
  <2>3. IInv' BY <1>2, <1>3, <1>6, <2>1, <2>2, Moves DEF Goes
  <2>4. QED BY <2>1, <2>3 DEF Kept, Moved
<1>9. QED BY <1>7, <1>8

-----------------------------------------------------------------------------
(***************************************************************************)
(* What the program does in its own continuation.                          *)
(***************************************************************************)
\* Its code goes on in continuation d.
LEMMA GoesOn ==
    ASSUME NEW C, Good(C), NEW d \in C, Steady(d)
    PROVE  \E D : /\ Good(D) /\ C \subseteq D /\ Append(d, User) \in D /\ Fits(D, d, User)
                  /\ \A k : k = InnermostBinding(d) => KeyFits(k, d, User)
<1>1. PICK f, x : f = User /\ x = Append(d, f) OBVIOUS
<1>2. f.fn = "user" BY <1>1 DEF User
<1>3. FrameOK(C, d, f) BY <1>2, SteadyShape DEF PlainOps
<1>4. IsChild(x, d, f) BY <1>1 DEF IsChild
<1>5. PICK D : D = C \cup {x} OBVIOUS
<1>6. Good(D) BY <1>3, <1>4, <1>5, Grow
<1>7. IsSeq(d) BY InGood
<1>8. Fits(D, d, f) BY <1>1, <1>2, <1>5, <1>7 DEF Fits
<1>9. Fits(D, d, User) BY <1>1, <1>8
<1>10. ASSUME NEW k, k = InnermostBinding(d) PROVE KeyFits(k, d, User)
  BY <1>6, <1>9, <1>10, Running
<1>11. QED BY <1>1, <1>5, <1>6, <1>9, <1>10

\* What a continuation extended with the program's code is.
LEMMA Extended ==
    ASSUME NEW C, Good(C), NEW c \in C, Steady(c), NEW d, IsChild(d, c, User)
    PROVE  /\ IsSeq(c) /\ IsSeq(d) /\ Len(d) = Len(c) + 1 /\ Len(c) \in Nat
           /\ IsPrefix(c, d) /\ d[Len(d)].fn = "user"
           /\ Steady(d) /\ InnermostBinding(d) = InnermostBinding(c)
<1>1. PICK f : f = User OBVIOUS
<1>2. f.fn = "user" BY <1>1 DEF User
<1>3. IsSeq(c) /\ Len(c) >= 1 BY InGood
<1>4. /\ IsSeq(d) /\ Len(d) = Len(c) + 1 /\ Len(c) \in Nat
      /\ \A i \in 1 .. Len(c) : d[i] = c[i]
      /\ d[Len(d)] = f /\ Last(d) = f
  BY <1>1, <1>3, ChildFacts
<1>5. IsPrefix(c, d)
  <2>1. Len(c) <= Len(d) /\ \A i \in 1 .. Len(c) : c[i] = d[i] BY <1>4
  <2>2. QED BY <1>3, <1>4, <2>1, PrefixFacts
<1>6. Len(d) > 1 /\ d[Len(d) - 1] = Last(c) BY <1>3, <1>4 DEF Last
<1>7. Steady(d) BY <1>2, <1>4, <1>6 DEF Steady, AtBinding, Setting
<1>8. InnermostBinding(d) = InnermostBinding(c)
  BY <1>1, <1>2, <1>3, SameInnermost DEF IsChild
<1>9. QED BY <1>1, <1>2, <1>3, <1>4, <1>5, <1>7, <1>8

LEMMA CallCombinerKeeps ==
    ASSUME IInv, NEW t \in Threads, CallCombiner(t), UNCHANGED key
    PROVE  Kept(t)
<1>1. PICK C : CoveredBy(C) BY DEF IInv
<1>2. PICK c : c = curr_cont[t] OBVIOUS
<1>3. /\ Good(C) /\ Fits(C, c, User) /\ (OneThread => KeyFits(key, c, User))
      /\ \A h \in held : h \in C /\ Whole(h)
      /\ made \in 0 .. MaxExtents /\ key \in Bindings
  BY <1>1, <1>2, InUse DEF CallCombiner, Runs
<1>4. PICK k : k = key OBVIOUS
<1>5. c \in C /\ Steady(c) /\ (OneThread => k = InnermostBinding(c))
  BY <1>3, <1>4, Running
<1>6. PICK d : d = Append(c, User) OBVIOUS
<1>7. IsChild(d, c, User) BY <1>6 DEF IsChild
<1>8. /\ IsSeq(c) /\ IsSeq(d) /\ Len(d) = Len(c) + 1 /\ Len(c) \in Nat
      /\ IsPrefix(c, d) /\ d[Len(d)].fn = "user"
      /\ Steady(d) /\ InnermostBinding(d) = InnermostBinding(c)
  BY <1>3, <1>5, <1>7, Extended
<1>9. PICK D : Good(D) /\ C \subseteq D /\ d \in D BY <1>3, <1>5, <1>6, GoesOn
<1>10. PICK E : /\ Good(E) /\ D \subseteq E /\ Fits(E, d, User)
                /\ \A b : b = InnermostBinding(d) => KeyFits(b, d, User)
  BY <1>8, <1>9, GoesOn
<1>11. PICK f : f = User OBVIOUS
<1>12. Goes(t, d, f) BY <1>2, <1>6, <1>11 DEF CallCombiner, Runs, Goes, IInv
<1>13. UNCHANGED <<held, made>> BY DEF CallCombiner
<1>14. C \subseteq E /\ Fits(E, d, f) /\ (OneThread => KeyFits(k, d, f))
  BY <1>5, <1>8, <1>9, <1>10, <1>11
<1>15. IInv' BY <1>1, <1>3, <1>4, <1>10, <1>12, <1>13, <1>14, Moves DEF Goes
<1>16. curr_cont'[t] = d /\ \A u \in Threads : u # t => Stays(u) BY <1>12, Going
<1>17. ASSUME NEW i \in DOMAIN d, i > Len(c) PROVE ~Is("outer", d[i])
  <2>1. i = Len(d) BY <1>8, <1>17, IsSeqFacts
  <2>2. QED BY <1>8, <2>1 DEF Is
<1>18. Pushes(t) BY <1>2, <1>8, <1>16, <1>17 DEF Pushes
<1>19. QED BY <1>15, <1>16, <1>18 DEF Kept, Moved

\* The program's code goes on where it is.
LEMMA GoesOnHere ==
    ASSUME IInv, NEW C, CoveredBy(C), NEW D, Good(D), C \subseteq D, NEW t \in Threads,
           Runs(t), \A h \in held' : h \in D /\ Whole(h), made' \in 0 .. MaxExtents,
           UNCHANGED <<curr_cont, next, key>>
    PROVE  Kept(t)
<1>1. PICK c, f : c = curr_cont[t] /\ f = next[t] OBVIOUS
<1>2. /\ Fits(C, c, f) /\ (OneThread => KeyFits(key, c, f)) /\ key \in Bindings
  BY <1>1, InUse
<1>3. Fits(D, c, f) BY <1>2, FitsMore
<1>4. next' = [next EXCEPT ![t] = f] BY <1>1 DEF IInv
<1>5. Goes(t, c, f) /\ \A u \in Threads : Stays(u) BY <1>1, <1>4, StaysHere
<1>6. PICK k : k = key OBVIOUS
<1>7. IInv' BY <1>2, <1>3, <1>5, <1>6, Moves DEF Goes
<1>8. QED BY <1>5, <1>7 DEF Kept, Moved

LEMMA WholeKnown ==
    ASSUME IInv, NEW C, CoveredBy(C), NEW cont \in Known
    PROVE  cont \in C /\ Whole(cont) /\ Steady(cont)
<1>1. /\ Good(C) /\ root_cont \in C /\ error_cont \in C
      /\ \A h \in held : h \in C /\ Whole(h)
  BY DEF CoveredBy
<1>2. root_cont = <<Frame("do_root_exit")>> BY DEF root_cont
<1>3. Whole(root_cont)
  <2>1. PICK r, f : r = root_cont /\ f = Frame("do_root_exit") OBVIOUS
  <2>2. f.fn = "do_root_exit" BY <2>1 DEF Frame
  <2>3. DOMAIN r = {1} /\ r[1] = f BY <1>2, <2>1
  <2>4. QED BY <2>1, <2>2, <2>3 DEF Whole
<1>4. Whole(error_cont)
  <2>1. PICK r, e, f : r = root_cont /\ e = error_cont /\ f = Frame("do_error_exit") OBVIOUS
  <2>2. f.fn = "do_error_exit" BY <2>1 DEF Frame
  <2>3. IsChild(e, r, f) BY <2>1 DEF error_cont, IsChild
  <2>4. IsSeq(r) /\ Len(r) = 1 /\ r[1].fn = "do_root_exit"
    <3>1. IsSeq(r) /\ r[1].fn = "do_root_exit" BY <1>1, <2>1, InGood
    <3>2. Len(r) = 1 BY <1>2, <2>1
    <3>3. QED BY <3>1, <3>2
  <2>5. IsSeq(e) /\ Len(e) = 2 /\ e[1] = r[1] /\ e[2] = f
    <3>1. /\ IsSeq(e) /\ Len(e) = Len(r) + 1 /\ \A i \in 1 .. Len(r) : e[i] = r[i]
          /\ e[Len(e)] = f
      <4>1. IsSeq(r) BY <2>4
      <4>2. QED BY ONLY <2>3, <4>1, ChildFacts
    <3>2. 1 \in 1 .. Len(r) BY <2>4
    <3>3. QED BY <2>4, <3>1, <3>2
  <2>6. DOMAIN e = 1 .. 2 BY <2>5, IsSeqFacts
  <2>7. \A k \in 1 .. 2 : k = 1 \/ k = 2 OBVIOUS
  <2>8. \A k \in DOMAIN e : e[k].fn # "do_unbind" BY <2>2, <2>4, <2>5, <2>6, <2>7
  <2>9. QED BY <2>1, <2>8 DEF Whole
<1>5. cont \in C /\ Whole(cont) BY <1>1, <1>3, <1>4 DEF Known
<1>6. IsSeq(cont) /\ Len(cont) >= 1 BY <1>1, <1>5, InGood
<1>7. QED BY <1>5, <1>6, WholeIsSteady

\* The ends of the passes under way that the program runs in.
LEMMA WholeDivert ==
    ASSUME IInv, NEW C, CoveredBy(C), NEW t \in Threads, Runs(t), NEW dst \in Divert(t)
    PROVE  dst \in C /\ Whole(dst)
<1>1. PICK c : c = curr_cont[t] OBVIOUS
<1>2. Good(C) /\ Fits(C, c, User) BY <1>1, InUse DEF Runs
<1>3. c \in C /\ Whole(c) BY <1>2, Running
<1>4. /\ IsSeq(c) /\ Len(c) \in Nat /\ Len(c) >= 1 /\ DOMAIN c = 1 .. Len(c)
      /\ c[1].fn = "do_root_exit" /\ \A n \in 1 .. Len(c) : Upto(c, n) \in C
  BY <1>2, <1>3, InGood
<1>5. PICK i \in DOMAIN c : c[i].fn = "do_interception" /\ dst = Upto(c, i - 1)
  BY <1>1 DEF Divert, Upto
<1>6. i \in 2 .. Len(c) BY <1>4, <1>5
<1>7. PICK h : h = i - 1 OBVIOUS
<1>8. h \in 1 .. Len(c) /\ h \in 1 .. Len(c) - 1 /\ i = h + 1 BY <1>4, <1>6, <1>7
<1>9. dst \in C /\ FrameOK(C, dst, c[i]) BY <1>2, <1>3, <1>5, <1>6 DEF Good
<1>10. Last(dst).fn # "do_unbind" /\ ~Setting(dst)
  <2>1. PICK f : f = c[i] OBVIOUS
  <2>2. Shape(dst, f) /\ f.fn = "do_interception" BY <1>5, <1>9, <2>1 DEF FrameOK
  <2>3. QED BY <2>2, ShapeReady
<1>11. ~AtBinding(dst)
  <2>1. SUFFICES ASSUME AtBinding(dst) PROVE FALSE OBVIOUS
  <2>2. dst = Upto(c, h) BY <1>5, <1>7
  <2>3. h > 1 /\ c[h-1].fn = "do_unbind" BY <1>4, <1>8, <2>1, <2>2, UptoEnds
  <2>4. PICK k : k = h - 1 OBVIOUS
  <2>5. k \in DOMAIN c /\ c[k].fn = "do_unbind" /\ k + 2 = i BY <1>4, <1>8, <2>3, <2>4
  <2>6. c[k + 2].fn # "do_interception" BY <1>3, <2>5 DEF Whole
  <2>7. QED BY <1>5, <2>5, <2>6
<1>12. Whole(dst) BY <1>2, <1>9, <1>10, <1>11, SteadyIsWhole DEF Steady
<1>13. QED BY <1>9, <1>12

LEMMA ApplyContinuationKeeps ==
    ASSUME IInv, NEW t \in Threads, ApplyContinuation(t), UNCHANGED key
    PROVE  Kept(t)
<1>1. PICK C : CoveredBy(C) BY DEF IInv
<1>2. Runs(t) /\ UNCHANGED <<held, made>> BY DEF ApplyContinuation
<1>3. PICK dst \in Known \cup Divert(t) : kcall_cont(t, dst) BY DEF ApplyContinuation
<1>4. dst \in C /\ Whole(dst) BY <1>1, <1>2, <1>3, WholeKnown, WholeDivert
<1>5. QED BY <1>1, <1>2, <1>3, <1>4, PassKeeps

LEMMA AccessKeeps ==
    ASSUME IInv, NEW t \in Threads, Access(t)
    PROVE  Kept(t)
<1>1. PICK C : CoveredBy(C) BY DEF IInv
<1>2. Runs(t) /\ UNCHANGED <<held, made, key>> /\ kcall_cont(t, error_cont) BY DEF Access
<1>3. error_cont \in C /\ Whole(error_cont)
  <2>1. error_cont \in Known BY DEF Known
  <2>2. QED BY <1>1, <2>1, WholeKnown
<1>4. QED BY <1>1, <1>2, <1>3, PassKeeps

LEMMA CallCCKeeps ==
    ASSUME IInv, NEW t \in Threads, CallCC(t), UNCHANGED key
    PROVE  Kept(t)
<1>1. PICK C : CoveredBy(C) BY DEF IInv
<1>2. PICK c : c = curr_cont[t] OBVIOUS
<1>3. /\ Good(C) /\ Fits(C, c, User) /\ \A h \in held : h \in C /\ Whole(h)
      /\ made \in 0 .. MaxExtents
  BY <1>1, <1>2, InUse DEF CallCC, Runs
<1>4. c \in C /\ Whole(c) BY <1>3, Running
<1>5. Runs(t) /\ held' = held \cup {c} /\ UNCHANGED <<curr_cont, next, made>>
  BY <1>2 DEF CallCC, Hold
<1>6. \A h \in held' : h \in C /\ Whole(h) BY <1>3, <1>4, <1>5
<1>7. QED BY <1>1, <1>3, <1>5, <1>6, GoesOnHere

LEMMA ExtendContinuationKeeps ==
    ASSUME IInv, NEW t \in Threads, ExtendContinuation(t), UNCHANGED key
    PROVE  Kept(t)
<1>1. PICK C : CoveredBy(C) BY DEF IInv
<1>2. PICK cont \in Known : Hold(Append(cont, User)) BY DEF ExtendContinuation
<1>3. PICK d : d = Append(cont, User) OBVIOUS
<1>4. /\ Runs(t) /\ held' = held \cup {d} /\ UNCHANGED <<curr_cont, next, made>>
  BY <1>2, <1>3 DEF ExtendContinuation, Hold
<1>5. Good(C) /\ (\A h \in held : h \in C /\ Whole(h)) /\ made \in 0 .. MaxExtents
  BY <1>1, InUse
<1>6. cont \in C /\ Steady(cont) BY <1>1, WholeKnown
<1>7. PICK D : Good(D) /\ C \subseteq D /\ d \in D BY <1>3, <1>5, <1>6, GoesOn
<1>8. Steady(d) BY <1>3, <1>5, <1>6, Extended DEF IsChild
<1>9. Whole(d) BY <1>7, <1>8, SteadyIsWhole
<1>10. \A h \in held' : h \in D /\ Whole(h) BY <1>4, <1>5, <1>7, <1>9
<1>11. QED BY <1>1, <1>4, <1>5, <1>7, <1>10, GoesOnHere

-----------------------------------------------------------------------------
(***************************************************************************)
(* New guards.                                                             *)
(***************************************************************************)
LEMMA OwnGuardLists ==
    ASSUME NEW guards \in GuardLists
    PROVE  Own(guards)
<1>1. PICK u, p : u = User /\ p = Passes OBVIOUS
<1>2. u.fn = "user" /\ p.fn = "passes" BY <1>1 DEF User, Passes
<1>3. ASSUME NEW x PROVE Clause(x, u).op = u /\ Clause(x, p).op = p BY DEF Clause
<1>4. Own(<<>>)
  <2>1. PICK e : e = <<>> OBVIOUS
  <2>2. DOMAIN e = 1 .. 0 /\ e = [i \in 1 .. 0 |-> e[i]] BY <2>1
  <2>3. IsSeq(e) BY <2>2, FunctionIsSeq
  <2>4. QED BY <2>1, <2>2, <2>3 DEF Own
<1>5. ASSUME NEW x PROVE Own(<<Clause(x, u)>>)
  <2>1. PICK q : q = Clause(x, u) OBVIOUS
  <2>2. PICK e : e = <<q>> OBVIOUS
  <2>3. DOMAIN e = 1 .. 1 /\ e = [i \in 1 .. 1 |-> e[i]] /\ e[1] = q BY <2>2
  <2>4. IsSeq(e) BY <2>3, FunctionIsSeq
  <2>5. ASSUME NEW i \in DOMAIN e PROVE e[i].op = u
    <3>1. i = 1 BY <2>3
    <3>2. QED BY <1>3, <2>1, <2>3, <3>1
  <2>6. QED BY <1>2, <2>1, <2>2, <2>4, <2>5 DEF Own, PlainOps
<1>6. ASSUME NEW x, NEW y PROVE Own(<<Clause(x, p), Clause(y, u)>>)
  <2>1. PICK q, r : q = Clause(x, p) /\ r = Clause(y, u) OBVIOUS
  <2>2. PICK e : e = <<q, r>> OBVIOUS
  <2>3. DOMAIN e = 1 .. 2 /\ e = [i \in 1 .. 2 |-> e[i]] /\ e[1] = q /\ e[2] = r BY <2>2
  <2>4. IsSeq(e) BY <2>3, FunctionIsSeq
  <2>5. ASSUME NEW i \in DOMAIN e PROVE e[i].op = u \/ e[i].op = p
    <3>1. i = 1 \/ i = 2 BY <2>3
    <3>2. QED BY <1>3, <2>1, <2>3, <3>1
  <2>6. QED BY <1>2, <2>1, <2>2, <2>4, <2>5 DEF Own, PlainOps
<1>7. \/ guards = <<>> \/ \E x : guards = <<Clause(x, u)>>
      \/ \E x, y : guards = <<Clause(x, p), Clause(y, u)>>
  BY <1>1 DEF GuardLists
<1>8. QED BY <1>4, <1>5, <1>6, <1>7

LEMMA GuardContinuationKeeps ==
    ASSUME IInv, NEW t \in Threads, GuardContinuation(t), UNCHANGED key
    PROVE  Kept(t)
<1>1. PICK C : CoveredBy(C) BY DEF IInv
<1>2. PICK id : id = made' OBVIOUS
<1>3. PICK cont \in Known, entry \in GuardLists, exit \in GuardLists :
          Hold(Guarded(cont, id, entry, exit))
  BY <1>2 DEF GuardContinuation
<1>4. PICK d : d = Guarded(cont, id, entry, exit) OBVIOUS
<1>5. /\ Runs(t) /\ held' = held \cup {d} /\ UNCHANGED <<curr_cont, next>>
      /\ made < MaxExtents /\ made' = made + 1
  BY <1>3, <1>4 DEF GuardContinuation, Hold
<1>6. Good(C) /\ (\A h \in held : h \in C /\ Whole(h)) /\ made \in 0 .. MaxExtents
  BY <1>1, InUse
<1>7. made' \in 0 .. MaxExtents BY <1>5, <1>6, ContinuationsAssumption
<1>8. cont \in C /\ Steady(cont) BY <1>1, WholeKnown
<1>9. Own(entry) /\ Own(exit) BY OwnGuardLists
<1>10. PICK D : Good(D) /\ C \subseteq D /\ d \in D /\ Whole(d)
  BY <1>4, <1>6, <1>8, <1>9, GrowGuarded
<1>11. \A h \in held' : h \in D /\ Whole(h) BY <1>5, <1>6, <1>10
<1>12. QED BY <1>1, <1>5, <1>7, <1>10, <1>11, GoesOnHere

LEMMA GuardDynamicExtentKeeps ==
    ASSUME IInv, NEW t \in Threads, GuardDynamicExtent(t), UNCHANGED key
    PROVE  Kept(t)
<1>1. PICK C : CoveredBy(C) BY DEF IInv
<1>2. PICK c, id : c = curr_cont[t] /\ id = made' OBVIOUS
<1>3. /\ Good(C) /\ Fits(C, c, User) /\ (OneThread => KeyFits(key, c, User))
      /\ \A h \in held : h \in C /\ Whole(h)
      /\ made \in 0 .. MaxExtents /\ key \in Bindings
  BY <1>1, <1>2, InUse DEF GuardDynamicExtent, Runs
<1>4. PICK k : k = key OBVIOUS
<1>5. c \in C /\ Steady(c) /\ (OneThread => k = InnermostBinding(c))
  BY <1>3, <1>4, Running
<1>6. PICK entry \in GuardLists, exit \in GuardLists :
          curr_cont' = [curr_cont EXCEPT ![t] = Guarded(c, id, entry, exit)]
  BY <1>2 DEF GuardDynamicExtent
<1>7. PICK d : d = Guarded(c, id, entry, exit) OBVIOUS
<1>8. Own(entry) /\ Own(exit) BY OwnGuardLists
<1>9. PICK D : /\ Good(D) /\ C \subseteq D /\ d \in D
               /\ IsSeq(d) /\ Len(d) = Len(c) + 2 /\ Steady(d)
               /\ Len(c) \in Nat /\ \A i \in 1 .. Len(c) : d[i] = c[i]
               /\ d[Len(c) + 1] = Guarding("outer", id, entry)
               /\ d[Len(c) + 2] = Guarding("inner", id, exit)
  BY <1>3, <1>5, <1>7, <1>8, GrowGuarded
<1>10. PICK o, n : o = d[Len(c) + 1] /\ n = d[Len(c) + 2] OBVIOUS
<1>11. o.fn = "do_pass_value" /\ o.id = id /\ n.fn = "do_pass_value" /\ n.side = "inner"
  BY <1>9, <1>10 DEF Guarding
<1>12. IsSeq(c) BY <1>3, <1>5, InGood
<1>13. InnermostBinding(d) = InnermostBinding(c)
  <2>1. ASSUME NEW m PROVE Unbinds(c, m) <=> Unbinds(d, m)
    <3>1. m \in 1 .. Len(d) <=> m \in 1 .. Len(c) \/ m = Len(c) + 1 \/ m = Len(c) + 2
      BY <1>9
    <3>2. QED BY <1>9, <1>10, <1>11, <3>1 DEF Unbinds
  <2>2. \A m : Unbinds(c, m) => c[m] = d[m] BY <1>9 DEF Unbinds
  <2>3. QED BY <1>9, <1>12, <2>1, <2>2, SameCalls
<1>14. PICK E : /\ Good(E) /\ D \subseteq E /\ Fits(E, d, User)
                /\ \A b : b = InnermostBinding(d) => KeyFits(b, d, User)
  BY <1>9, GoesOn
<1>15. PICK f : f = User OBVIOUS
<1>16. Goes(t, d, f) BY <1>6, <1>7, <1>15 DEF GuardDynamicExtent, Runs, Goes, IInv
<1>17. UNCHANGED held /\ made' \in 0 .. MaxExtents /\ id = made + 1
  BY <1>2, <1>3, ContinuationsAssumption DEF GuardDynamicExtent
<1>18. C \subseteq E /\ Fits(E, d, f) /\ (OneThread => KeyFits(k, d, f))
  BY <1>5, <1>9, <1>13, <1>14, <1>15
<1>19. UNCHANGED key OBVIOUS
<1>20. IInv' BY <1>1, <1>3, <1>4, <1>14, <1>16, <1>17, <1>18, <1>19, Moves DEF Goes
<1>21. curr_cont'[t] = d /\ \A u \in Threads : u # t => Stays(u) BY <1>16, Going
<1>22. IsPrefix(c, d)
  <2>1. Len(c) <= Len(d) /\ \A i \in 1 .. Len(c) : c[i] = d[i] BY <1>9
  <2>2. QED BY <1>9, <1>12, <2>1, PrefixFacts
<1>23. ASSUME NEW i \in DOMAIN d, i > Len(c), Is("outer", d[i]) PROVE d[i].id = id
  <2>1. i = Len(c) + 1 \/ i = Len(c) + 2 BY <1>9, <1>23, IsSeqFacts
  <2>2. QED BY <1>10, <1>11, <1>23, <2>1 DEF Is
<1>24. Pushes(t) BY <1>2, <1>9, <1>12, <1>17, <1>21, <1>22, <1>23 DEF Pushes
<1>25. QED BY <1>20, <1>21, <1>24 DEF Kept, Moved

\* The applicative b: three frames, and the key holds what they bind.
LEMMA BindKeeps ==
    ASSUME IInv, NEW t \in Threads, Bind(t)
    PROVE  Kept(t)
<1>1. PICK C : CoveredBy(C) BY DEF IInv
<1>2. PICK c, id, old : c = curr_cont[t] /\ id = made' /\ old = key OBVIOUS
<1>3. /\ Good(C) /\ Fits(C, c, User) /\ (OneThread => KeyFits(old, c, User))
      /\ \A h \in held : h \in C /\ Whole(h)
      /\ made \in 0 .. MaxExtents /\ old \in Bindings
  BY <1>1, <1>2, InUse DEF Bind, Runs
<1>4. c \in C /\ Steady(c) /\ (OneThread => old = InnermostBinding(c)) BY <1>3, Running
<1>5. PICK v \in Values :
         /\ key' = Binding(v)
         /\ curr_cont' = [curr_cont EXCEPT ![t] =
                            make_bind_continuation(c, id, old, Binding(v))]
  BY <1>2 DEF Bind
<1>6. PICK new : new = Binding(v) OBVIOUS
<1>7. new \in Bindings BY <1>6 DEF Bindings
<1>8. PICK f : f = Unbind(old, new) OBVIOUS
<1>9. f.fn = "do_unbind" /\ f.binding = old /\ f.bound = new BY <1>8 DEF Unbind
<1>10. PICK o, n : /\ o = Guarding("outer", id, BindingGuards(new))
                   /\ n = Guarding("inner", id, BindingGuards(old))
  OBVIOUS
<1>11. /\ o.fn = "do_pass_value" /\ o.side = "outer" /\ o.id = id
       /\ n.fn = "do_pass_value" /\ n.side = "inner" /\ n.id = id
  BY <1>10 DEF Guarding
<1>12. PICK x : IsChild(x, c, f) BY DEF IsChild
<1>13. PICK y : IsChild(y, x, o) BY DEF IsChild
<1>14. PICK z : IsChild(z, y, n) BY DEF IsChild
<1>15. IsSeq(c) /\ Len(c) \in Nat /\ Len(c) >= 1 BY <1>3, <1>4, InGood
<1>16. /\ IsSeq(x) /\ Len(x) = Len(c) + 1 /\ x[Len(x)] = f /\ Last(x) = f
       /\ \A i \in 1 .. Len(c) : x[i] = c[i]
  BY <1>12, <1>15, ChildFacts
<1>17. /\ IsSeq(y) /\ Len(y) = Len(x) + 1 /\ y[Len(y)] = o /\ Last(y) = o
       /\ \A i \in 1 .. Len(x) : y[i] = x[i]
  BY <1>13, <1>16, ChildFacts
<1>18. /\ IsSeq(z) /\ Len(z) = Len(y) + 1 /\ z[Len(z)] = n /\ Last(z) = n
       /\ \A i \in 1 .. Len(y) : z[i] = y[i]
  BY <1>14, <1>17, ChildFacts
<1>19. make_bind_continuation(c, id, old, new) = z
  <2>1. PICK d : d = Guarded(x, id, BindingGuards(new), BindingGuards(old)) OBVIOUS
  <2>2. make_bind_continuation(c, id, old, new) = d
    BY <1>8, <1>12, <2>1 DEF make_bind_continuation, BindingGuards, IsChild
  <2>3. IsChild(d, y, n) BY <1>10, <1>13, <1>16, <2>1, GuardedFacts
  <2>4. QED BY <1>14, <2>2, <2>3 DEF IsChild
<1>20. FrameOK(C, c, f) BY <1>3, <1>4, <1>7, <1>9 DEF FrameOK, Shape, Steady, Is
<1>21. PICK D : D = C \cup {x} OBVIOUS
<1>22. Good(D) /\ x \in D BY <1>3, <1>4, <1>12, <1>20, <1>21, Grow
<1>23. FrameOK(D, x, o)
  <2>1. ~Setting(x) /\ ~AtBinding(x)
    <3>1. Len(x) > 1 /\ x[Len(x) - 1] = Last(c) BY <1>15, <1>16 DEF Last
    <3>2. QED BY <1>4, <1>9, <1>16, <3>1 DEF Setting, AtBinding, Steady
  <2>2. o = Guarding("outer", o.id, BindingGuards(Last(x).bound)) BY <1>9, <1>10, <1>11, <1>16
  <2>3. QED BY <1>9, <1>11, <1>16, <2>1, <2>2 DEF FrameOK, Shape, Is
<1>24. PICK E : E = D \cup {y} OBVIOUS
<1>25. Good(E) /\ y \in E BY <1>13, <1>22, <1>23, <1>24, Grow
<1>26. Len(y) > 1 /\ y[Len(y) - 1] = f BY <1>15, <1>16, <1>17
<1>27. FrameOK(E, y, n)
  <2>1. ~Setting(y) BY <1>11, <1>17 DEF Setting
  <2>2. n = Guarding("inner", Last(y).id, BindingGuards(y[Len(y) - 1].binding))
    BY <1>9, <1>10, <1>11, <1>17, <1>26
  <2>3. AtBinding(y) BY <1>9, <1>26 DEF AtBinding
  <2>4. QED BY <1>11, <1>17, <2>1, <2>2, <2>3 DEF FrameOK, Shape, Is
<1>28. PICK F : F = E \cup {z} OBVIOUS
<1>29. Good(F) /\ z \in F BY <1>14, <1>25, <1>27, <1>28, Grow
<1>30. Len(z) > 1 /\ z[Len(z) - 1] = o BY <1>15, <1>16, <1>17, <1>18
<1>31. Steady(z) BY <1>11, <1>18, <1>30 DEF AtBinding, Setting, Steady
<1>32. /\ Len(z) = Len(c) + 3
       /\ z[Len(c) + 1] = f /\ z[Len(c) + 2] = o /\ z[Len(c) + 3] = n
       /\ \A i \in 1 .. Len(c) : z[i] = c[i]
  BY <1>15, <1>16, <1>17, <1>18
<1>33. InnermostBinding(z) = new
  <2>1. PICK k : k = Len(c) + 1 OBVIOUS
  <2>2. Unbinds(z, k) BY <1>9, <1>15, <1>32, <2>1 DEF Unbinds
  <2>3. ASSUME NEW m, Unbinds(z, m) PROVE m <= k
    <3>1. m \in 1 .. Len(z) /\ z[m].fn = "do_unbind" BY <2>3 DEF Unbinds
    <3>2. m # Len(c) + 2 /\ m # Len(c) + 3 BY <1>11, <1>32, <3>1
    <3>3. QED BY <1>15, <1>32, <2>1, <3>1, <3>2
  <2>4. InnermostBinding(z) = z[k].bound BY <1>18, <2>2, <2>3, InnermostIs
  <2>5. QED BY <1>9, <1>32, <2>1, <2>4
<1>34. PICK G : /\ Good(G) /\ F \subseteq G /\ Fits(G, z, User)
                /\ \A b : b = InnermostBinding(z) => KeyFits(b, z, User)
  BY <1>29, <1>31, GoesOn
<1>35. PICK g : g = User OBVIOUS
<1>36. Goes(t, z, g) BY <1>5, <1>6, <1>19, <1>35 DEF Bind, Runs, Goes, IInv
<1>37. UNCHANGED held /\ made' \in 0 .. MaxExtents /\ id = made + 1
  BY <1>2, <1>3, ContinuationsAssumption DEF Bind
<1>38. key' = new BY <1>5, <1>6
<1>39. C \subseteq G /\ Fits(G, z, g) /\ (OneThread => KeyFits(new, z, g))
  BY <1>21, <1>24, <1>28, <1>33, <1>34, <1>35
<1>40. \A h \in held : h \in G /\ Whole(h) BY <1>3, <1>39
<1>41. IInv' BY <1>1, <1>7, <1>34, <1>36, <1>37, <1>38, <1>39, <1>40, Moves DEF Goes
<1>42. curr_cont'[t] = z /\ \A u \in Threads : u # t => Stays(u) BY <1>36, Going
<1>43. IsPrefix(c, z)
  <2>1. Len(c) <= Len(z) /\ \A i \in 1 .. Len(c) : c[i] = z[i] BY <1>15, <1>32
  <2>2. QED BY <1>15, <1>18, <2>1, PrefixFacts
<1>44. ASSUME NEW i \in DOMAIN z, i > Len(c), Is("outer", z[i]) PROVE z[i].id = id
  <2>1. DOMAIN z = 1 .. Len(z) BY <1>18, IsSeqFacts
  <2>2. i = Len(c) + 1 \/ i = Len(c) + 2 \/ i = Len(c) + 3 BY <1>15, <1>32, <1>44, <2>1
  <2>3. QED BY <1>9, <1>11, <1>32, <1>44, <2>2 DEF Is
<1>45. Pushes(t) BY <1>2, <1>15, <1>18, <1>37, <1>42, <1>43, <1>44 DEF Pushes
<1>46. QED BY <1>41, <1>42, <1>45 DEF Kept, Moved

-----------------------------------------------------------------------------
(***************************************************************************)
(* Every step.                                                             *)
(***************************************************************************)
LEMMA StepKeeps ==
    ASSUME IInv, NEW t \in Threads, DStep(t)
    PROVE  Kept(t)
<1>1. CASE Step(t) /\ UNCHANGED key
  BY <1>1, ReturnKeeps, RootExitKeeps, DoInterceptionKeeps, CallCombinerKeeps, CallCCKeeps,
     ExtendContinuationKeeps, GuardContinuationKeeps, GuardDynamicExtentKeeps,
     ApplyContinuationKeeps
  DEF Step
<1>2. CASE Bind(t) BY <1>2, BindKeeps
<1>3. CASE Access(t) BY <1>3, AccessKeeps
<1>4. CASE PutBinding(t) BY <1>4, PutBindingKeeps
<1>5. QED BY <1>1, <1>2, <1>3, <1>4 DEF DStep

LEMMA NextKeeps ==
    ASSUME IInv, [DNext]_vars
    PROVE  IInv' /\ \A u \in Threads : Moved(u)
<1>1. CASE DNext
  <2>1. PICK t \in Threads : DStep(t) BY <1>1 DEF DNext
  <2>2. Kept(t) BY <2>1, StepKeeps
  <2>3. QED BY <2>2 DEF Kept, Moved
<1>2. CASE UNCHANGED vars
  <2>1. IInv' BY <1>2 DEF IInv, CoveredBy, vars, contVars
  <2>2. \A u \in Threads : Stays(u) BY <1>2 DEF Stays, vars, contVars
  <2>3. QED BY <2>1, <2>2 DEF Moved
<1>3. QED BY <1>1, <1>2

-----------------------------------------------------------------------------
(***************************************************************************)
(* The start.                                                              *)
(***************************************************************************)
LEMMA RootGood == Good({root_cont})
<1>1. PICK r : r = root_cont OBVIOUS
<1>2. DOMAIN r = 1 .. 1 /\ r = [i \in 1 .. 1 |-> r[i]] /\ r[1] = Frame("do_root_exit")
  BY <1>1 DEF root_cont
<1>3. IsSeq(r) /\ Len(r) = 1 BY <1>2, FunctionIsSeq
<1>4. 2 .. Len(r) = {} BY <1>3
<1>5. ASSUME NEW c \in {r}
      PROVE  /\ IsSeq(c) /\ Len(c) >= 1 /\ c[1] = Frame("do_root_exit")
             /\ \A i \in 2 .. Len(c) : Upto(c, i - 1) \in {r} /\ FrameOK({r}, Upto(c, i - 1), c[i])
  <2>1. c = r OBVIOUS
  <2>2. QED BY ONLY <1>2, <1>3, <1>4, <2>1
<1>6. Good({r}) BY <1>5 DEF Good
<1>7. QED BY <1>1, <1>6

\* The continuations of the threads, one set of them for each frame.
LEMMA StartGood ==
    \E C : /\ Good(C) /\ root_cont \in C /\ error_cont \in C
           /\ \A t \in Threads : /\ Append(Base(t), User) \in C /\ IsSeq(Base(t))
                                 /\ InnermostBinding(Append(Base(t), User)) = NoBinding
<1>1. PICK r, f, g, u : /\ r = root_cont /\ f = Frame("do_error_exit")
                        /\ g = Frame("do_int_mark_root") /\ u = User
  OBVIOUS
<1>2. f.fn = "do_error_exit" /\ g.fn = "do_int_mark_root" /\ u.fn = "user"
  BY <1>1 DEF Frame, User
<1>3. Good({r}) BY <1>1, RootGood
<1>4. IsSeq(r) /\ Len(r) = 1 /\ r[1].fn = "do_root_exit"
  <2>1. IsSeq(r) /\ r[1].fn = "do_root_exit" BY <1>3, InGood
  <2>2. Len(r) = 1 BY <1>1 DEF root_cont
  <2>3. QED BY <2>1, <2>2
<1>5. Steady(r) BY <1>4 DEF Steady, AtBinding, Setting, Last
<1>6. IsChild(error_cont, r, f) BY <1>1 DEF error_cont, IsChild
<1>7. FrameOK({r}, r, f) BY <1>2, <1>5, SteadyShape
<1>8. PICK C1 : C1 = {r} \cup {error_cont} OBVIOUS
<1>9. Good(C1) /\ r \in C1 /\ error_cont \in C1 BY <1>3, <1>6, <1>7, <1>8, Grow
<1>10. PICK x : x = <<Clause(error_cont, MarkError)>> OBVIOUS
<1>11. Own(x) /\ Own(<<>>)
  <2>1. PICK q : q = Clause(error_cont, MarkError) OBVIOUS
  <2>2. q.op.fn = "do_int_mark_error" BY <2>1 DEF Clause, MarkError
  <2>3. DOMAIN x = 1 .. 1 /\ x = [i \in 1 .. 1 |-> x[i]] /\ x[1] = q BY <1>10, <2>1
  <2>4. IsSeq(x) BY <2>3, FunctionIsSeq
  <2>5. \A i \in DOMAIN x : i = 1 BY <2>3
  <2>6. \A i \in DOMAIN x : x[i].op.fn = "do_int_mark_error" BY <2>2, <2>3, <2>5
  <2>7. Own(x) BY <2>4, <2>6 DEF Own, PlainOps
  <2>8. <<>> \in GuardLists BY DEF GuardLists
  <2>9. QED BY <2>7, <2>8, OwnGuardLists
<1> DEFINE o(t) == Guarding("outer", t, <<>>)
           n(t) == Guarding("inner", t, x)
           c1(t) == Append(r, o(t))
           c2(t) == Append(c1(t), n(t))
           c3(t) == Append(c2(t), g)
           c4(t) == Append(c3(t), u)
<1>12. ASSUME NEW t
       PROVE  /\ o(t).fn = "do_pass_value" /\ o(t).side = "outer" /\ o(t).id = t
              /\ o(t).guards = <<>>
              /\ n(t).fn = "do_pass_value" /\ n(t).side = "inner" /\ n(t).id = t
              /\ n(t).guards = x
  BY DEF Guarding
<1>13. ASSUME NEW t
       PROVE  /\ IsChild(c1(t), r, o(t)) /\ IsChild(c2(t), c1(t), n(t))
              /\ IsChild(c3(t), c2(t), g) /\ IsChild(c4(t), c3(t), u)
  BY DEF IsChild
<1> HIDE DEF o, n, c1, c2, c3, c4
<1>14. ASSUME NEW t
       PROVE  /\ FrameOK(C1, r, o(t))
              /\ \A D : FrameOK(D, c1(t), n(t))
              /\ \A D : FrameOK(D, c2(t), g)
              /\ \A D : FrameOK(D, c3(t), u)
              /\ IsSeq(c1(t)) /\ IsSeq(c2(t)) /\ IsSeq(c3(t))
  <2>1. PICK a, b, p, q, z : a = o(t) /\ b = n(t) /\ p = c1(t) /\ q = c2(t) /\ z = c3(t)
    OBVIOUS
  <2>2. /\ a.fn = "do_pass_value" /\ a.side = "outer" /\ a.id = t /\ a.guards = <<>>
        /\ b.fn = "do_pass_value" /\ b.side = "inner" /\ b.id = t /\ b.guards = x
    BY <1>12, <2>1
  <2>3. IsChild(p, r, a) /\ IsChild(q, p, b) /\ IsChild(z, q, g) BY <1>13, <2>1
  <2>4. IsSeq(r) BY <1>4
  <2>5. IsSeq(p) /\ Len(p) = 2 /\ Last(p) = a /\ p[1] = r[1]
    <3>1. /\ IsSeq(p) /\ Len(p) = Len(r) + 1 /\ Last(p) = a
          /\ \A i \in 1 .. Len(r) : p[i] = r[i]
      BY <2>3, <2>4, ChildFacts
    <3>2. 1 \in 1 .. Len(r) BY <1>4
    <3>3. QED BY <1>4, <3>1, <3>2
  <2>6. IsSeq(p) BY <2>5
  <2>7. IsSeq(q) /\ Len(q) = 3 /\ Last(q) = b /\ q[1] = p[1] /\ q[2] = a
    <3>1. /\ IsSeq(q) /\ Len(q) = Len(p) + 1 /\ Last(q) = b
          /\ \A i \in 1 .. Len(p) : q[i] = p[i]
      BY <2>3, <2>6, ChildFacts
    <3>2. 1 \in 1 .. Len(p) /\ 2 \in 1 .. Len(p) BY <2>5
    <3>3. p[2] = a BY <2>5 DEF Last
    <3>4. QED BY <2>5, <3>1, <3>2, <3>3
  <2>8. IsSeq(q) BY <2>7
  <2>9. IsSeq(z) /\ Len(z) = 4 /\ Last(z) = g /\ z[2] = a /\ z[3] = b
    <3>1. /\ IsSeq(z) /\ Len(z) = Len(q) + 1 /\ Last(z) = g
          /\ \A i \in 1 .. Len(q) : z[i] = q[i]
      BY <2>3, <2>8, ChildFacts
    <3>2. 2 \in 1 .. Len(q) /\ 3 \in 1 .. Len(q) BY <2>7
    <3>3. q[3] = b BY <2>7 DEF Last
    <3>4. QED BY <2>7, <3>1, <3>2, <3>3
  <2>10. FrameOK(C1, r, a) BY <1>5, <1>11, <2>2 DEF FrameOK, Shape, Steady, Is
  <2>11. ~AtBinding(p) /\ ~Setting(p) /\ Last(p).fn # "do_unbind"
    BY <1>4, <2>2, <2>5 DEF AtBinding, Setting
  <2>12. \A D : FrameOK(D, p, b) BY <1>11, <2>2, <2>5, <2>11 DEF FrameOK, Shape, Is
  <2>13. Steady(q) BY <2>2, <2>7 DEF Steady, AtBinding, Setting
  <2>14. \A D : FrameOK(D, q, g) BY <1>2, <2>13, SteadyShape
  <2>15. Steady(z) BY <1>2, <2>2, <2>9 DEF Steady, AtBinding, Setting
  <2>16. \A D : FrameOK(D, z, u) BY <1>2, <2>15, SteadyShape DEF PlainOps
  <2>17. QED BY <2>1, <2>5, <2>7, <2>9, <2>10, <2>12, <2>14, <2>16
<1>15. PICK h1, h2, h3, h4 :
         /\ h1 = [t \in Threads |-> c1(t)] /\ h2 = [t \in Threads |-> c2(t)]
         /\ h3 = [t \in Threads |-> c3(t)] /\ h4 = [t \in Threads |-> c4(t)]
  OBVIOUS
<1>16. \A t \in Threads : h1[t] = c1(t) /\ h2[t] = c2(t) /\ h3[t] = c3(t) /\ h4[t] = c4(t)
  BY <1>15
<1>17. PICK S1, S2, S3, S4 :
         /\ S1 = {h1[t] : t \in Threads} /\ S2 = {h2[t] : t \in Threads}
         /\ S3 = {h3[t] : t \in Threads} /\ S4 = {h4[t] : t \in Threads}
  OBVIOUS
<1>18. Good(C1 \cup S1)
  <2>1. Good(C1) BY <1>9
  <2>2. ASSUME NEW d \in S1 PROVE \E c \in C1 : \E e : IsChild(d, c, e) /\ FrameOK(C1, c, e)
    <3>1. PICK t \in Threads : d = c1(t) BY <1>16, <1>17
    <3>2. r \in C1 BY <1>9
    <3>3. IsChild(d, r, o(t)) /\ FrameOK(C1, r, o(t)) BY <1>13, <1>14, <3>1
    <3>4. QED BY <3>2, <3>3
  <2>3. QED BY <2>1, <2>2, GrowAll
<1>19. PICK C2 : C2 = C1 \cup S1 OBVIOUS
<1>20. Good(C2 \cup S2)
  <2>1. Good(C2) BY <1>18, <1>19
  <2>2. ASSUME NEW d \in S2 PROVE \E c \in C2 : \E e : IsChild(d, c, e) /\ FrameOK(C2, c, e)
    <3>1. PICK t \in Threads : d = c2(t) BY <1>16, <1>17
    <3>2. c1(t) \in C2 BY <1>16, <1>17, <1>19
    <3>3. IsChild(d, c1(t), n(t)) /\ FrameOK(C2, c1(t), n(t)) BY <1>13, <1>14, <3>1
    <3>4. QED BY <3>2, <3>3
  <2>3. QED BY <2>1, <2>2, GrowAll
<1>21. PICK C3 : C3 = C2 \cup S2 OBVIOUS
<1>22. Good(C3 \cup S3)
  <2>1. Good(C3) BY <1>20, <1>21
  <2>2. ASSUME NEW d \in S3 PROVE \E c \in C3 : \E e : IsChild(d, c, e) /\ FrameOK(C3, c, e)
    <3>1. PICK t \in Threads : d = c3(t) BY <1>16, <1>17
    <3>2. c2(t) \in C3 BY <1>16, <1>17, <1>21
    <3>3. IsChild(d, c2(t), g) /\ FrameOK(C3, c2(t), g) BY <1>13, <1>14, <3>1
    <3>4. QED BY <3>2, <3>3
  <2>3. QED BY <2>1, <2>2, GrowAll
<1>23. PICK C4 : C4 = C3 \cup S3 OBVIOUS
<1>24. Good(C4 \cup S4)
  <2>1. Good(C4) BY <1>22, <1>23
  <2>2. ASSUME NEW d \in S4 PROVE \E c \in C4 : \E e : IsChild(d, c, e) /\ FrameOK(C4, c, e)
    <3>1. PICK t \in Threads : d = c4(t) BY <1>16, <1>17
    <3>2. c3(t) \in C4 BY <1>16, <1>17, <1>23
    <3>3. IsChild(d, c3(t), u) /\ FrameOK(C4, c3(t), u) BY <1>13, <1>14, <3>1
    <3>4. QED BY <3>2, <3>3
  <2>3. QED BY <2>1, <2>2, GrowAll
<1>25. PICK C5 : C5 = C4 \cup S4 OBVIOUS
<1>26. r \in C5 /\ error_cont \in C5 BY <1>9, <1>19, <1>21, <1>23, <1>25
<1>27. ASSUME NEW t \in Threads
       PROVE  /\ Base(t) = c3(t) /\ Append(Base(t), User) \in C5 /\ IsSeq(Base(t))
              /\ InnermostBinding(Append(Base(t), User)) = NoBinding
  <2>1. PICK a, b, p, q, z, y : /\ a = o(t) /\ b = n(t) /\ p = c1(t) /\ q = c2(t)
                                /\ z = c3(t) /\ y = c4(t)
    OBVIOUS
  <2>2. IsChild(p, r, a) /\ IsChild(q, p, b) /\ IsChild(z, q, g) /\ IsChild(y, z, u)
    BY <1>13, <2>1
  <2>3. a = Guarding("outer", t, <<>>) /\ b = Guarding("inner", t, x) BY <2>1 DEF o, n
  <2>4. IsSeq(p) /\ IsSeq(q) /\ IsSeq(z) BY <1>14, <2>1
  <2>5. Base(t) = z
    <3>1. PICK d : d = Guarded(r, t, <<>>, x) OBVIOUS
    <3>2. IsChild(d, p, b) BY <1>4, <2>2, <2>3, <3>1, GuardedFacts
    <3>3. Base(t) = Append(d, g) BY <1>1, <1>10, <3>1 DEF Base
    <3>4. QED BY <2>2, <3>2, <3>3 DEF IsChild
  <2>6. Append(Base(t), User) = y BY <1>1, <2>2, <2>5 DEF IsChild
  <2>7. y \in C5 BY <1>16, <1>17, <1>25, <2>1
  <2>8. a.fn # "do_unbind" /\ b.fn # "do_unbind" BY <1>12, <2>1
  <2>9. InnermostBinding(y) = InnermostBinding(r)
    <3>1. InnermostBinding(y) = InnermostBinding(z) BY <1>2, <2>2, <2>4, SameInnermost DEF IsChild
    <3>2. InnermostBinding(z) = InnermostBinding(q) BY <1>2, <2>2, <2>4, SameInnermost DEF IsChild
    <3>3. InnermostBinding(q) = InnermostBinding(p) BY <2>2, <2>4, <2>8, SameInnermost DEF IsChild
    <3>4. InnermostBinding(p) = InnermostBinding(r) BY <1>4, <2>2, <2>8, SameInnermost DEF IsChild
    <3>5. QED BY <3>1, <3>2, <3>3, <3>4
  <2>10. InnermostBinding(r) = NoBinding
    <3>1. DOMAIN r = {1} BY <1>1 DEF root_cont
    <3>2. {i \in DOMAIN r : r[i].fn = "do_unbind"} = {} BY <1>4, <3>1
    <3>3. QED BY <3>2 DEF InnermostBinding
  <2>11. QED BY <2>1, <2>4, <2>5, <2>6, <2>7, <2>9, <2>10
<1>28. QED BY <1>1, <1>24, <1>25, <1>26, <1>27

LEMMA StartOK == DInit => IInv
<1>1. SUFFICES ASSUME DInit PROVE IInv OBVIOUS
<1>2. PICK C : /\ Good(C) /\ root_cont \in C /\ error_cont \in C
               /\ \A t \in Threads :
                    /\ Append(Base(t), User) \in C /\ IsSeq(Base(t))
                    /\ InnermostBinding(Append(Base(t), User)) = NoBinding
  BY StartGood
<1>3. /\ curr_cont = [t \in Threads |-> Base(t)] /\ next = [t \in Threads |-> User]
      /\ held = {} /\ made = 0 /\ key = NoBinding
  BY <1>1 DEF DInit, Init
<1>4. PICK u : u = User OBVIOUS
<1>5. u.fn = "user" BY <1>4 DEF User
<1>6. ASSUME NEW t \in Threads PROVE Fits(C, Base(t), u) /\ KeyFits(NoBinding, Base(t), u)
  BY <1>2, <1>4, <1>5 DEF Fits, KeyFits
<1>7. CoveredBy(C) BY <1>2, <1>3, <1>4, <1>6 DEF CoveredBy
<1>8. \A t \in Threads : KeyFits(key, curr_cont[t], next[t]) BY <1>3, <1>4, <1>6
<1>9. made \in 0 .. MaxExtents BY <1>3, ContinuationsAssumption
<1>10. QED BY <1>3, <1>7, <1>8, <1>9 DEF IInv, Bindings

LEMMA Inductive == DSpec => []IInv
<1>1. IInv /\ [DNext]_vars => IInv' BY NextKeeps
<1>2. QED BY <1>1, StartOK, PTL DEF DSpec

-----------------------------------------------------------------------------
(***************************************************************************)
(* The properties, from the ways a thread may move.                        *)
(***************************************************************************)
LEMMA PrefixSelf ==
    ASSUME NEW c, IsSeq(c)
    PROVE  IsPrefix(c, c)
<1>1. Len(c) <= Len(c) BY IsSeqFacts
<1>2. QED BY <1>1, PrefixFacts

LEMMA PrefixTrans ==
    ASSUME NEW a, NEW b, NEW c, IsSeq(a), IsSeq(b), IsSeq(c), IsPrefix(a, b), IsPrefix(b, c)
    PROVE  IsPrefix(a, c)
<1>1. Len(a) \in Nat /\ Len(b) \in Nat /\ Len(c) \in Nat BY IsSeqFacts
<1>2. Len(a) <= Len(b) /\ \A i \in 1 .. Len(a) : a[i] = b[i] BY PrefixFacts
<1>3. Len(b) <= Len(c) /\ \A i \in 1 .. Len(b) : b[i] = c[i] BY PrefixFacts
<1>4. Len(a) <= Len(c) /\ \A i \in 1 .. Len(a) : a[i] = c[i] BY <1>1, <1>2, <1>3
<1>5. QED BY <1>4, PrefixFacts

LEMMA FrontPrefix ==
    ASSUME NEW c, IsSeq(c), Len(c) >= 1
    PROVE  IsSeq(Front(c)) /\ IsPrefix(Front(c), c)
<1>1. Len(c) \in Nat BY IsSeqFacts
<1>2. PICK p : p = Front(c) OBVIOUS
<1>3. IsSeq(p) /\ Len(p) = Len(c) - 1 /\ \A i \in 1 .. Len(c) - 1 : p[i] = c[i]
  BY <1>2, LastFacts
<1>4. Len(p) <= Len(c) /\ \A i \in 1 .. Len(p) : p[i] = c[i] BY <1>1, <1>3
<1>5. QED BY <1>2, <1>3, <1>4, PrefixFacts

LEMMA UptoIsPrefix ==
    ASSUME NEW c, IsSeq(c), NEW n \in 0 .. Len(c)
    PROVE  IsSeq(Upto(c, n)) /\ IsPrefix(Upto(c, n), c)
<1>1. Len(c) \in Nat BY IsSeqFacts
<1>2. PICK p : p = Upto(c, n) OBVIOUS
<1>3. IsSeq(p) /\ Len(p) = n /\ \A i \in 1 .. n : p[i] = c[i] BY <1>2, UptoFacts
<1>4. Len(p) <= Len(c) /\ \A i \in 1 .. Len(p) : p[i] = c[i] BY <1>1, <1>3
<1>5. QED BY <1>2, <1>3, <1>4, PrefixFacts

LEMMA ChildPrefix ==
    ASSUME NEW c, IsSeq(c), NEW f, NEW d, IsChild(d, c, f)
    PROVE  IsSeq(d) /\ IsPrefix(c, d)
<1>1. IsSeq(d) /\ Len(d) = Len(c) + 1 /\ Len(c) \in Nat /\ \A i \in 1 .. Len(c) : d[i] = c[i]
  BY ChildFacts
<1>2. Len(c) <= Len(d) /\ \A i \in 1 .. Len(c) : c[i] = d[i] BY <1>1
<1>3. QED BY <1>1, <1>2, PrefixFacts

\* Where a pass that goes on leads.
LEMMA TakesFirst ==
    ASSUME NEW C, NEW t, NEW ls, NEW dst, Takes(C, t, ls, dst), ls # <<>>
    PROVE  LET w == ls[1].outer
           IN  /\ 1 \in DOMAIN ls /\ IsSeq(w) /\ OnPath(curr_cont[t], w, dst)
               /\ next'[t] = ls[1].op
               /\ IsChild(curr_cont'[t], w, Interception(Tail(ls), dst))
<1>1. PICK c : c = curr_cont[t] OBVIOUS
<1>2. Good(C) /\ c \in C /\ dst \in C /\ Pending(c, ls, dst) BY <1>1 DEF Takes
<1>3. IsSeq(c) /\ IsSeq(dst) BY <1>2, InGood
<1>4. 1 \in DOMAIN ls /\ Item(ls[1], dst) /\ OnPath(c, ls[1].outer, dst)
  BY <1>2, <1>3, PendingNext
<1>5. QED BY <1>1, <1>4 DEF Item, Takes, IsChild

\* A thread leaves an extent only by a pass.
LEMMA LeavesTakes ==
    ASSUME NEW t, Moved(t), NEW p, IsSeq(p), Leaves(t, p)
    PROVE  \E C : \E ls : \E dst : Takes(C, t, ls, dst)
<1>1. ~Stays(t) BY DEF Stays, Leaves
<1>2. ~Pops(t) BY DEF Pops, Leaves
<1>3. ~Pushes(t)
  <2>1. SUFFICES ASSUME Pushes(t) PROVE FALSE OBVIOUS
  <2>2. PICK c, d : c = curr_cont[t] /\ d = curr_cont'[t] OBVIOUS
  <2>3. IsSeq(c) /\ IsSeq(d) /\ IsPrefix(c, d) /\ IsPrefix(p, c) BY <2>1, <2>2 DEF Pushes, Leaves
  <2>4. IsPrefix(p, d) BY <2>3, PrefixTrans
  <2>5. QED BY <2>2, <2>4 DEF Leaves
<1>4. QED BY <1>1, <1>2, <1>3 DEF Moved

LEMMA ExitStep ==
    ASSUME NEW t, Moved(t), IsSeq(curr_cont[t])
    PROVE  ExitGuarded(t)
<1>1. PICK c, d, n : c = curr_cont[t] /\ d = curr_cont'[t] /\ n = next'[t] OBVIOUS
<1>2. IsSeq(c) BY <1>1
<1>3. SUFFICES ASSUME NEW i \in DOMAIN c, NEW p, p = Upto(c, i),
                      Is("inner", p[i]), Leaves(t, p),
                      NEW g \in DOMAIN p[i].guards, Selected(p[i].guards, Destination(t), g)
               PROVE  Intercepted(t, Front(p), p[i].guards[g].op)
  BY <1>1 DEF ExitGuarded, Upto
<1>4. Len(c) \in Nat /\ DOMAIN c = 1 .. Len(c) BY <1>2, IsSeqFacts
<1>5. i \in 1 .. Len(c) BY <1>4
<1>6. IsSeq(p) /\ Len(p) = i /\ \A k \in 1 .. i : p[k] = c[k] BY <1>2, <1>3, <1>5, UptoEnds
<1>7. p[i] = c[i] BY <1>5, <1>6
<1>8. PICK C, ls, dst : Takes(C, t, ls, dst) BY <1>3, <1>6, LeavesTakes
<1>9. Good(C) /\ c \in C /\ dst \in C /\ Pending(c, ls, dst) /\ Destination(t) = dst
  BY <1>1, <1>8 DEF Takes
<1>10. c[i].fn = "do_pass_value" BY <1>3, <1>7 DEF Is
<1>11. /\ i \in 2 .. Len(c) /\ IsSeq(c[i].guards)
       /\ \A k \in DOMAIN c[i].guards : c[i].guards[k].op # Null
  BY <1>5, <1>9, <1>10, GuardFacts
<1>12. PICK gs : gs = c[i].guards OBVIOUS
<1>13. select_interceptor(gs, dst) = gs[g].op
  BY <1>3, <1>7, <1>9, <1>11, <1>12, SelectedFacts
<1>14. i \in Exits(c, dst)
  BY <1>3, <1>7, <1>9, <1>11, <1>12, <1>13 DEF Exits, Leaves
<1>15. PICK j \in DOMAIN ls :
          /\ ls[j].op = select_interceptor(gs, dst)
          /\ ls[j].outer = Upto(c, i - 1)
          /\ \A k \in 1 .. j - 1 : IsPrefix(Upto(c, i), ls[k].outer)
  BY <1>9, <1>12, <1>14 DEF Pending, ExitListed
<1>16. ls # <<>> BY <1>15
<1>17. PICK w, m : w = ls[1].outer /\ m = Interception(Tail(ls), dst) OBVIOUS
<1>18. IsSeq(w) /\ n = ls[1].op /\ IsChild(d, w, m) BY <1>1, <1>8, <1>16, <1>17, TakesFirst
<1>19. IsSeq(d) /\ IsPrefix(w, d) BY <1>18, ChildPrefix
<1>20. j = 1
  <2>1. SUFFICES ASSUME j # 1 PROVE FALSE OBVIOUS
  <2>2. IsSeq(ls) /\ DOMAIN ls = 1 .. Len(ls) /\ Len(ls) \in Nat
    BY <1>9, IsSeqFacts DEF Pending
  <2>3. 1 \in 1 .. j - 1 BY <2>1, <2>2
  <2>4. IsPrefix(p, w) BY <1>3, <1>15, <1>17, <2>3
  <2>5. IsPrefix(p, d) BY <1>6, <1>18, <1>19, <2>4, PrefixTrans
  <2>6. QED BY <1>1, <1>3, <2>5 DEF Leaves
<1>21. w = Front(p)
  <2>1. PICK h : h = i - 1 OBVIOUS
  <2>2. h \in 0 .. i /\ i \in 0 .. Len(c) /\ Len(p) - 1 = h BY <1>5, <1>6, <2>1
  <2>3. Len(p) >= 1 BY <1>5, <1>6
  <2>4. Front(p) = Upto(p, Len(p) - 1) BY <1>6, <2>3, LastFacts
  <2>5. Upto(p, h) = Upto(c, h) BY <1>2, <1>3, <2>2, UptoUpto
  <2>6. QED BY <1>15, <1>17, <1>20, <2>1, <2>2, <2>4, <2>5
<1>22. Len(d) = Len(w) + 1 BY <1>18, ChildFacts
<1>23. n = p[i].guards[g].op BY <1>7, <1>12, <1>13, <1>15, <1>18, <1>20
<1>24. QED BY <1>1, <1>19, <1>21, <1>22, <1>23 DEF Intercepted

LEMMA EntryStep ==
    ASSUME NEW t \in Threads, made \in Nat, Moved(t)
    PROVE  EntryGuarded(t)
<1>1. PICK c, d, n : c = curr_cont[t] /\ d = curr_cont'[t] /\ n = next'[t] OBVIOUS
<1>2. SUFFICES ASSUME NEW i \in DOMAIN d, NEW p, p = Upto(d, i),
                      Is("outer", p[i]), Enters(t, p), p[i].guards # <<>>,
                      p[i].guards[1].selector = root_cont
               PROVE  Intercepted(t, p, p[i].guards[1].op)
  BY <1>1 DEF EntryGuarded, Upto
<1>3. IsPrefix(p, d) /\ ~IsPrefix(p, c) BY <1>1, <1>2 DEF Enters
<1>4. ~Stays(t) BY <1>1, <1>3 DEF Stays
<1>5. ~Pops(t)
  <2>1. SUFFICES ASSUME Pops(t) PROVE FALSE OBVIOUS
  <2>2. IsSeq(c) /\ Len(c) >= 1 /\ d = Front(c) BY <1>1, <2>1 DEF Pops
  <2>3. IsSeq(d) /\ IsPrefix(d, c) BY <2>2, FrontPrefix
  <2>4. i \in 0 .. Len(d) BY <2>3, IsSeqFacts
  <2>5. IsSeq(p) BY <1>2, <2>3, <2>4, UptoFacts
  <2>6. IsPrefix(p, c) BY <1>3, <2>2, <2>3, <2>5, PrefixTrans
  <2>7. QED BY <1>3, <2>6
<1>6. ~Pushes(t)
  <2>1. SUFFICES ASSUME Pushes(t) PROVE FALSE OBVIOUS
  <2>2. /\ IsSeq(c) /\ IsSeq(d) /\ IsPrefix(c, d)
        /\ i > Len(c) /\ Is("outer", d[i]) => d[i].id = made + 1
    BY <1>1, <2>1 DEF Pushes
  <2>3. Len(c) \in Nat /\ Len(d) \in Nat /\ DOMAIN d = 1 .. Len(d) BY <2>2, IsSeqFacts
  <2>4. i \in 1 .. Len(d) BY <2>3
  <2>5. IsSeq(p) /\ Len(p) = i /\ \A k \in 1 .. i : p[k] = d[k] BY <1>2, <2>2, <2>4, UptoEnds
  <2>6. p[i] = d[i] BY <2>4, <2>5
  <2>7. CASE i > Len(c)
    <3>1. p[Len(p)].id = made + 1 BY <1>2, <2>2, <2>5, <2>6, <2>7
    <3>2. made + 1 \in Threads \cup 0 .. made BY <1>2, <3>1 DEF Enters
    <3>3. PICK m : m = made + 1 OBVIOUS
    <3>4. m \in Nat /\ m \notin 0 .. made BY <3>3
    <3>5. m \in Threads \cap Nat BY <3>2, <3>3, <3>4
    <3>6. QED BY <3>5, ContinuationsAssumption
  <2>8. CASE ~(i > Len(c))
    <3>1. i <= Len(c) BY <2>3, <2>4, <2>8
    <3>2. Len(c) <= Len(d) /\ \A k \in 1 .. Len(c) : c[k] = d[k] BY <2>2, PrefixFacts
    <3>3. Len(p) <= Len(c) /\ \A k \in 1 .. Len(p) : p[k] = c[k]
      BY <2>3, <2>4, <2>5, <3>1, <3>2
    <3>4. IsPrefix(p, c) BY <2>2, <2>5, <3>3, PrefixFacts
    <3>5. QED BY <1>3, <3>4
  <2>9. QED BY <2>7, <2>8
<1>7. PICK C, ls, dst : Takes(C, t, ls, dst) BY <1>4, <1>5, <1>6 DEF Moved
<1>8. Good(C) /\ c \in C /\ dst \in C /\ Pending(c, ls, dst) BY <1>1, <1>7 DEF Takes
<1>9. IsSeq(c) /\ IsSeq(dst) /\ Len(dst) \in Nat /\ Len(dst) >= 1 /\ DOMAIN dst = 1 .. Len(dst)
  BY <1>8, InGood
\* Where p is an ancestor of the destination, the list has its interceptor.
<1>10. ASSUME i \in 1 .. Len(dst), p = Upto(dst, i)
       PROVE  \E j \in DOMAIN ls :
                 /\ ls[j].op = p[i].guards[1].op
                 /\ ls[j].outer = p
                 /\ \A k \in 1 .. j - 1 : ~IsPrefix(p, ls[k].outer)
  <2>1. \A k \in 1 .. i : p[k] = dst[k] BY <1>9, <1>10, UptoEnds
  <2>2. i \in 1 .. i BY <1>10
  <2>3. p[i] = dst[i] BY <2>1, <2>2
  <2>4. i \in Entries(c, dst) BY <1>2, <1>3, <1>9, <1>10, <2>3 DEF Entries
  <2>5. EntryListed(ls, dst, i) BY <1>8, <2>4 DEF Pending
  <2>6. QED BY <1>10, <2>3, <2>5 DEF EntryListed
<1>11. ls # <<>>
  <2>1. SUFFICES ASSUME ls = <<>> PROVE FALSE OBVIOUS
  <2>2. d = Front(dst) BY <1>1, <1>7, <2>1 DEF Takes
  <2>3. d = Upto(dst, Len(dst) - 1) /\ IsSeq(d) /\ Len(d) = Len(dst) - 1
    BY <1>9, <2>2, LastFacts
  <2>4. PICK h : h = Len(dst) - 1 OBVIOUS
  <2>5. h \in 0 .. Len(dst) BY <1>9, <2>4
  <2>6. i \in 1 .. h BY <2>3, <2>4, IsSeqFacts
  <2>7. i \in 0 .. h /\ i \in 1 .. Len(dst) BY <1>9, <2>4, <2>6
  <2>8. d = Upto(dst, h) BY <2>3, <2>4
  <2>9. Upto(d, i) = Upto(dst, i) BY <1>9, <2>5, <2>7, <2>8, UptoUpto
  <2>10. \E j : j \in DOMAIN ls BY <1>2, <1>10, <2>7, <2>9
  <2>11. QED BY <2>1, <2>10
<1>12. PICK w, m : w = ls[1].outer /\ m = Interception(Tail(ls), dst) OBVIOUS
<1>13. /\ IsSeq(w) /\ OnPath(c, w, dst) /\ n = ls[1].op /\ IsChild(d, w, m)
  BY <1>1, <1>7, <1>11, <1>12, TakesFirst
<1>14. /\ IsSeq(d) /\ Len(d) = Len(w) + 1 /\ Len(w) \in Nat /\ d[Len(d)] = m
       /\ \A k \in 0 .. Len(w) : Upto(d, k) = Upto(w, k)
  BY <1>13, ChildFacts
<1>15. IsPrefix(w, d) BY <1>13, ChildPrefix
<1>16. i \in 1 .. Len(w)
  <2>1. i \in 1 .. Len(d) BY <1>14, IsSeqFacts
  <2>2. \A k \in 1 .. i : p[k] = d[k] BY <1>2, <1>14, <2>1, UptoEnds
  <2>3. i \in 1 .. i BY <2>1
  <2>4. p[i] = d[i] BY <2>2, <2>3
  <2>5. m.fn = "do_interception" BY <1>12 DEF Interception
  <2>6. i # Len(d) BY <1>2, <1>14, <2>4, <2>5 DEF Is
  <2>7. QED BY <1>14, <2>1, <2>6
<1>17. i \in 0 .. Len(w) BY <1>16
<1>18. p = Upto(w, i) /\ IsSeq(p) /\ IsPrefix(p, w)
  <2>1. p = Upto(w, i) BY <1>2, <1>14, <1>17
  <2>2. QED BY <1>13, <1>17, <2>1, UptoIsPrefix
<1>19. ~IsPrefix(w, c) BY <1>3, <1>9, <1>13, <1>18, PrefixTrans
<1>20. IsPrefix(w, dst) BY <1>13, <1>19 DEF OnPath
<1>21. Len(w) \in 0 .. Len(dst) /\ w = Upto(dst, Len(w)) BY <1>9, <1>13, <1>20, PrefixIsUpto
<1>22. i \in 1 .. Len(dst) BY <1>9, <1>16, <1>21
<1>23. p = Upto(dst, i)
  <2>1. PICK h : h = Len(w) OBVIOUS
  <2>2. h \in 0 .. Len(dst) /\ i \in 0 .. h /\ w = Upto(dst, h) BY <1>17, <1>21, <2>1
  <2>3. Upto(Upto(dst, h), i) = Upto(dst, i) BY <1>9, <2>2, UptoUpto
  <2>4. QED BY <1>18, <2>2, <2>3
<1>24. PICK j \in DOMAIN ls :
          /\ ls[j].op = p[i].guards[1].op
          /\ ls[j].outer = p
          /\ \A k \in 1 .. j - 1 : ~IsPrefix(p, ls[k].outer)
  BY <1>10, <1>22, <1>23
<1>25. j = 1
  <2>1. SUFFICES ASSUME j # 1 PROVE FALSE OBVIOUS
  <2>2. IsSeq(ls) /\ DOMAIN ls = 1 .. Len(ls) /\ Len(ls) \in Nat
    BY <1>8, IsSeqFacts DEF Pending
  <2>3. 1 \in 1 .. j - 1 BY <2>1, <2>2
  <2>4. ~IsPrefix(p, w) BY <1>12, <1>24, <2>3
  <2>5. QED BY <1>18, <2>4
<1>26. n = p[i].guards[1].op /\ w = p BY <1>12, <1>13, <1>24, <1>25
<1>27. QED BY <1>1, <1>14, <1>15, <1>26 DEF Intercepted

LEMMA WellFormedInGood ==
    ASSUME NEW C, Good(C), NEW c \in C
    PROVE  WellFormed(c)
<1>1. /\ IsPrefix(root_cont, c) /\ DOMAIN c = 1 .. Len(c) /\ Len(c) \in Nat
      /\ c[1].fn = "do_root_exit"
  BY InGood
<1>2. ASSUME NEW i \in DOMAIN c, Is("inner", c[i])
      PROVE  Is("outer", c[i-1]) /\ c[i].id = c[i-1].id
  <2>1. i # 1 BY <1>1, <1>2 DEF Is
  <2>2. i \in 2 .. Len(c) BY <1>1, <2>1
  <2>3. QED BY <1>2, <2>2, FrameFacts
<1>3. QED BY <1>1, <1>2 DEF WellFormed

\* A pass under way below continuation i of c is well formed.
LEMMA PendingInGood ==
    ASSUME NEW C, Good(C), NEW c \in C, NEW i \in DOMAIN c, c[i].fn = "do_interception"
    PROVE  /\ WellFormed(c[i].dst) /\ \A e \in Range(c[i].ls) : WellFormed(e.outer)
           /\ Is("outer", c[i-1])
<1>1. /\ IsSeq(c) /\ DOMAIN c = 1 .. Len(c) /\ Len(c) \in Nat /\ c[1].fn = "do_root_exit"
      /\ \A k \in 1 .. Len(c) : Upto(c, k) \in C
  BY InGood
<1>2. i # 1 BY <1>1
<1>3. i \in 2 .. Len(c) BY <1>1, <1>2
<1>4. PICK h : h = i - 1 OBVIOUS
<1>5. h \in 1 .. Len(c) BY <1>1, <1>3, <1>4
<1>6. PICK p, ls, dst : p = Upto(c, h) /\ ls = c[i].ls /\ dst = c[i].dst OBVIOUS
<1>7. p \in C /\ FrameOK(C, p, c[i]) BY <1>3, <1>4, <1>6 DEF Good
<1>8. Is("outer", Last(p)) /\ Aimed(C, p, ls, dst) BY <1>6, <1>7 DEF FrameOK
<1>9. Last(p) = c[h] BY <1>1, <1>5, <1>6, UptoEnds
<1>10. dst \in C /\ Pending(p, ls, dst) BY <1>8 DEF Aimed
<1>11. ASSUME NEW e \in Range(ls) PROVE WellFormed(e.outer)
  <2>1. PICK l \in DOMAIN ls : e = ls[l] BY DEF Range
  <2>2. Item(ls[l], dst) /\ OnPath(p, ls[l].outer, dst) BY <1>10 DEF Pending, Leads
  <2>3. PICK w : w = ls[l].outer OBVIOUS
  <2>4. IsSeq(w) /\ Len(w) >= 1 BY <2>2, <2>3 DEF Item
  <2>5. PICK b : b \in C /\ IsPrefix(w, b) BY <1>7, <1>10, <2>2, <2>3 DEF OnPath
  <2>6. IsSeq(b) /\ Len(b) \in Nat /\ \A n \in 1 .. Len(b) : Upto(b, n) \in C BY <2>5, InGood
  <2>7. Len(w) \in 0 .. Len(b) /\ w = Upto(b, Len(w)) BY <2>4, <2>5, <2>6, PrefixIsUpto
  <2>8. Len(w) \in 1 .. Len(b) BY <2>4, <2>6, <2>7
  <2>9. w \in C BY <2>6, <2>7, <2>8
  <2>10. WellFormed(w) BY <2>9, WellFormedInGood
  <2>11. QED BY <2>1, <2>3, <2>10
<1>12. WellFormed(dst) BY <1>10, WellFormedInGood
<1>13. QED BY <1>4, <1>6, <1>8, <1>9, <1>11, <1>12

LEMMA RunningIn ==
    ASSUME NEW C, Good(C), NEW c, NEW f, Fits(C, c, f)
    PROVE  \/ f = Null /\ c = <<>>
           \/ f.fn = "do_root_exit" /\ c = <<>>
           \/ c \in C
<1>1. CASE f.fn \notin {"NULL", "do_interception", "do_set_pass"} BY <1>1, CalledFrame
<1>2. CASE f.fn \in {"NULL", "do_interception", "do_set_pass"} BY <1>2 DEF Fits
<1>3. QED BY <1>1, <1>2

LEMMA TypeFacts ==
    ASSUME IInv
    PROVE  KeyTypeOK /\ \A t \in Threads : IsSeq(curr_cont[t])
<1>1. PICK C : CoveredBy(C) BY DEF IInv
<1>2. /\ Good(C) /\ \A h \in held : h \in C
      /\ \A t \in Threads : Fits(C, curr_cont[t], next[t])
  BY <1>1 DEF CoveredBy
<1>3. \A h \in held : WellFormed(h) BY <1>2, WellFormedInGood
<1>4. ASSUME NEW t \in Threads
      PROVE  \/ next[t] = Null /\ curr_cont[t] = <<>>
             \/ next[t].fn = "do_root_exit" /\ curr_cont[t] = <<>>
             \/ curr_cont[t] \in C
  <2>1. PICK c, f : c = curr_cont[t] /\ f = next[t] OBVIOUS
  <2>2. Fits(C, c, f) BY <1>2, <2>1
  <2>3. QED BY <1>2, <2>1, <2>2, RunningIn
<1>5. ASSUME NEW c \in C
      PROVE  /\ WellFormed(c)
             /\ \A i \in DOMAIN c :
                  c[i].fn = "do_interception" =>
                    /\ WellFormed(c[i].dst) /\ \A e \in Range(c[i].ls) : WellFormed(e.outer)
                    /\ Is("outer", c[i-1])
  BY <1>2, WellFormedInGood, PendingInGood
<1>6. TypeOK
  <2>1. made \in 0 .. MaxExtents BY DEF IInv
  <2>2. QED BY <1>3, <1>4, <1>5, <2>1 DEF TypeOK
<1>7. KeyTypeOK BY <1>6 DEF KeyTypeOK, IInv, Bindings
<1>8. IsSeq(<<>>)
  <2>1. PICK e : e = <<>> OBVIOUS
  <2>2. DOMAIN e = 1 .. 0 /\ e = [i \in 1 .. 0 |-> e[i]] BY <2>1
  <2>3. QED BY <2>1, <2>2, FunctionIsSeq
<1>9. ASSUME NEW t \in Threads PROVE IsSeq(curr_cont[t]) BY <1>2, <1>4, <1>8, InGood
<1>10. QED BY <1>7, <1>9

LEMMA KeyFollows ==
    ASSUME IInv, OneThread, NEW t \in Threads, Runs(t)
    PROVE  key = InnermostBinding(curr_cont[t])
<1>1. PICK C : CoveredBy(C) BY DEF IInv
<1>2. PICK c, k : c = curr_cont[t] /\ k = key OBVIOUS
<1>3. Good(C) /\ Fits(C, c, User) /\ KeyFits(k, c, User) BY <1>1, <1>2, InUse DEF Runs
<1>4. QED BY <1>2, <1>3, Running

-----------------------------------------------------------------------------
(***************************************************************************)
(* The theorems.                                                           *)
(***************************************************************************)
\* For any number of threads and whatever the program guards, captures and
\* diverts, the continuations are well formed and every pass under way runs its
\* interceptors in the outer continuation of the guard that asked for them.
THEOREM ContinuationTypes == DSpec => []KeyTypeOK
<1>1. IInv => KeyTypeOK BY TypeFacts
<1>2. QED BY <1>1, Inductive, PTL

\* For any number of threads no step, and so no sequence of interceptors of
\* nested passes, takes a thread out of a guarded extent but by a normal return
\* or by a call of the interceptor that the exit guards select for the destination.
THEOREM ExitSafety == DSpec => ExitsIntercepted
<1>1. IInv /\ [DNext]_vars => [\A t \in Threads : ExitGuarded(t)]_contVars
  <2>1. SUFFICES ASSUME IInv, [DNext]_vars PROVE \A t \in Threads : ExitGuarded(t) OBVIOUS
  <2>2. QED BY <2>1, NextKeeps, TypeFacts, ExitStep
<1>2. QED BY <1>1, Inductive, PTL DEF DSpec, ExitsIntercepted

\* Nor into one that guards all its entries, but by a call of its interceptor.
THEOREM EntrySafety == DSpec => EntriesIntercepted
<1>1. IInv /\ [DNext]_vars => [\A t \in Threads : EntryGuarded(t)]_contVars
  <2>1. SUFFICES ASSUME IInv, [DNext]_vars PROVE \A t \in Threads : EntryGuarded(t) OBVIOUS
  <2>2. made \in Nat BY <2>1, ContinuationsAssumption DEF IInv
  <2>3. QED BY <2>1, <2>2, NextKeeps, EntryStep
<1>2. QED BY <1>1, Inductive, PTL DEF DSpec, EntriesIntercepted

\* In a program of one thread, whatever it captures, guards, diverts and enters
\* again, code that runs finds in the variable what the innermost call to b
\* around it bound.
THEOREM BindingSafety == ASSUME OneThread PROVE DSpec => []InnermostExtentRules
<1>1. IInv => InnermostExtentRules BY TypeFacts, KeyFollows DEF InnermostExtentRules
<1>2. QED BY <1>1, Inductive, PTL

=============================================================================
