-------------------------------- MODULE Lemmas --------------------------------
(***************************************************************************)
(* What the proofs of several modules rest on and the library does not     *)
(* have: a set of numbers has a least element; sequences of whatever they  *)
(* hold; and depth-first search, by recursion and with a stack.            *)
(***************************************************************************)
EXTENDS Integers, Sequences, SequencesExt, FiniteSetsExt, FiniteSetTheorems,
        SequenceTheorems, WellFoundedInduction, TLAPS

LEMMA LeastNat ==
    ASSUME NEW T \in SUBSET Nat, T # {}
    PROVE  \E n \in T : \A m \in T : n <= m
<1> DEFINE R == OpToRel(<, Nat)
<1>1. IsWellFoundedOn(R, Nat) BY NatLessThanWellFounded
<1> HIDE DEF R
<1>2. PICK n \in T : \A m \in T : <<m, n>> \notin R BY <1>1, WFMin
<1>3. \A m \in T : ~ (m < n) BY <1>2 DEF R, OpToRel
<1>4. QED BY <1>3

LEMMA NatSetInduction ==
    ASSUME NEW S, 0 \in S, \A n \in Nat : n \in S => n + 1 \in S
    PROVE  Nat \subseteq S
<1>1. SUFFICES ASSUME Nat \ S # {} PROVE FALSE OBVIOUS
<1>2. PICK n \in Nat \ S : \A m \in Nat \ S : n <= m BY <1>1, LeastNat
<1>3. n # 0 BY <1>2
<1>4. n - 1 \in Nat /\ n - 1 \notin Nat \ S BY <1>2, <1>3
<1>5. (n - 1) + 1 \in S BY <1>4
<1>6. QED BY <1>5, <1>2

LEMMA StrongInduction ==
    ASSUME NEW S, \A n \in Nat : (\A m \in Nat : m < n => m \in S) => n \in S
    PROVE  Nat \subseteq S
<1>1. SUFFICES ASSUME Nat \ S # {} PROVE FALSE OBVIOUS
<1>2. PICK n \in Nat \ S : \A m \in Nat \ S : n <= m BY <1>1, LeastNat
<1>3. \A m \in Nat : m < n => m \in S
  <2>1. SUFFICES ASSUME NEW m \in Nat, m < n, m \notin S PROVE FALSE OBVIOUS
  <2>2. n <= m BY <1>2, <2>1
  <2>3. QED BY <1>2, <2>1, <2>2
<1>4. QED BY <1>2, <1>3

LEMMA MinInSet ==
    ASSUME NEW T \in SUBSET Nat, T # {}
    PROVE  Min(T) \in T
<1>1. \E n \in T : \A m \in T : n <= m BY LeastNat
<1>2. QED BY <1>1 DEF Min

LEMMA MaxInSet ==
    ASSUME NEW n \in Nat, NEW T \in SUBSET (0 .. n), T # {}
    PROVE  Max(T) \in T
<1> DEFINE U == {n - m : m \in T}
<1>1. U \in SUBSET Nat /\ U # {}
  <2>1. \A m \in T : n - m \in Nat OBVIOUS
  <2>2. PICK m \in T : TRUE OBVIOUS
  <2>3. n - m \in U OBVIOUS
  <2>4. QED BY <2>1, <2>3
<1>2. PICK u \in U : \A v \in U : u <= v BY <1>1, LeastNat
<1>3. PICK m \in T : u = n - m BY <1>2
<1>4. \A k \in T : n - k \in U OBVIOUS
<1>5. \A k \in T : m >= k BY <1>2, <1>3, <1>4
<1>6. QED BY <1>5 DEF Max

-----------------------------------------------------------------------------
(***************************************************************************)
(* Sequences.                                                              *)
(***************************************************************************)
\* A sequence, of whatever it holds.
IsSeq(s) == s \in Seq(Range(s))

\* A function on 1 .. n is a sequence of its values.
LEMMA FunctionIsSeq ==
    ASSUME NEW s, NEW n \in Nat, DOMAIN s = 1 .. n, s = [i \in 1 .. n |-> s[i]]
    PROVE  IsSeq(s) /\ Len(s) = n
<1>1. s \in [1 .. n -> Range(s)] BY DEF Range
<1>2. QED BY <1>1 DEF IsSeq

LEMMA IsSeqFacts ==
    ASSUME NEW s, IsSeq(s)
    PROVE  Len(s) \in Nat /\ DOMAIN s = 1 .. Len(s) /\ s = [i \in 1 .. Len(s) |-> s[i]]
BY DEF IsSeq

LEMMA AppendFacts ==
    ASSUME NEW s, IsSeq(s), NEW x
    PROVE  /\ IsSeq(Append(s, x)) /\ Len(Append(s, x)) = Len(s) + 1
           /\ \A i \in 1 .. Len(s) : Append(s, x)[i] = s[i]
           /\ Append(s, x)[Len(s) + 1] = x
<1> DEFINE S == Range(s) \cup {x}
           t == Append(s, x)
<1>1. s \in Seq(S) /\ x \in S
  <2>1. Range(s) \subseteq S OBVIOUS
  <2>2. QED BY <2>1 DEF IsSeq
<1> HIDE DEF S
<1>2. /\ t \in Seq(S) /\ Len(t) = Len(s) + 1
      /\ \A i \in 1 .. Len(s) : t[i] = s[i]
      /\ t[Len(s) + 1] = x
  BY <1>1
<1> HIDE DEF t
<1>3. DOMAIN t = 1 .. Len(t) /\ t = [i \in 1 .. Len(t) |-> t[i]] /\ Len(t) \in Nat
  BY <1>2
<1>4. IsSeq(t) BY <1>3, FunctionIsSeq
<1>5. QED BY <1>2, <1>4 DEF t

LEMMA FrontFacts ==
    ASSUME NEW s, IsSeq(s), s # <<>>
    PROVE  /\ IsSeq(Front(s)) /\ Len(s) >= 1 /\ Len(Front(s)) = Len(s) - 1
           /\ \A i \in 1 .. Len(s) - 1 : Front(s)[i] = s[i]
<1> DEFINE t == Front(s)
<1>1. Len(s) >= 1 /\ s \in Seq(Range(s)) BY DEF IsSeq
<1>2. /\ t = [i \in 1 .. Len(s) - 1 |-> s[i]] /\ Len(s) - 1 \in Nat
  BY <1>1 DEF Front
<1>3. DOMAIN t = 1 .. Len(s) - 1 /\ t = [i \in 1 .. Len(s) - 1 |-> t[i]] BY <1>2
<1>4. IsSeq(t) /\ Len(t) = Len(s) - 1 BY <1>2, <1>3, FunctionIsSeq
<1>5. QED BY <1>1, <1>2, <1>4

\* A sequence is its first element and the rest.
LEMMA TopAndRest ==
    ASSUME NEW D, NEW s \in Seq(D), s # <<>>
    PROVE  /\ s[1] \in D /\ Tail(s) \in Seq(D) /\ s = <<s[1]>> \o Tail(s)
           /\ Len(s) \in Nat /\ Len(s) >= 1 /\ Len(Tail(s)) = Len(s) - 1
<1>1. Len(s) \in Nat /\ Len(s) >= 1 BY EmptySeq
<1>2. s[1] \in D /\ Head(s) = s[1] BY <1>1
<1>3. Tail(s) \in Seq(D) /\ Len(Tail(s)) = Len(s) - 1 BY <1>1
<1>4. <<Head(s)>> \o Tail(s) = s BY <1>1
<1>5. QED BY <1>1, <1>2, <1>3, <1>4

LEMMA TwoIsBoth == ASSUME NEW p, NEW q PROVE <<p>> \o <<q>> = <<p, q>>
<1>1. PICK D : D = {p, q} OBVIOUS
<1>2. PICK u, v, w : u = <<p>> /\ v = <<q>> /\ w = <<p, q>> OBVIOUS
<1>3. /\ u \in Seq(D) /\ v \in Seq(D) /\ w \in Seq(D) /\ Len(u) = 1 /\ Len(v) = 1 /\ Len(w) = 2
      /\ u[1] = p /\ v[1] = q /\ w[1] = p /\ w[2] = q
  BY <1>1, <1>2
<1>4. /\ u \o v \in Seq(D) /\ Len(u \o v) = 2
      /\ \A i \in 1 .. 2 : (u \o v)[i] = IF i <= 1 THEN u[i] ELSE v[i - 1]
  BY <1>3, ConcatProperties
<1>5. (u \o v)[1] = w[1] /\ (u \o v)[2] = w[2] BY <1>3, <1>4
<1>6. ASSUME NEW i \in 1 .. 2 PROVE (u \o v)[i] = w[i]
  <2>1. i = 1 \/ i = 2 OBVIOUS
  <2>2. QED BY <1>5, <2>1
<1>7. u \o v = w BY <1>3, <1>4, <1>6, SeqEqual
<1>8. QED BY <1>2, <1>7

LEMMA RangeOfNone == Range(<<>>) = {}
BY DEF Range

LEMMA RangeOfOne == ASSUME NEW a PROVE Range(<<a>>) = {a}
BY DEF Range

LEMMA RangeOfTwo == ASSUME NEW a, NEW b PROVE Range(<<a, b>>) = {a, b}
BY DEF Range

LEMMA FlattenNone == FlattenSeq(<<>>) = <<>>
BY DEF FlattenSeq

LEMMA FlattenOne == ASSUME NEW a PROVE FlattenSeq(<<a>>) = a
<1> DEFINE s == <<a>>
<1>1. Len(s) = 1 /\ s[1] = a OBVIOUS
<1> HIDE DEF s
<1> DEFINE F(g) == [i \in 1 .. Len(s) |-> IF i = 1 THEN s[i] ELSE g[i - 1] \o s[i]]
<1>2. \E g : g = F(g)
  <2>1. PICK g : g = [i \in 1 .. 1 |-> a] OBVIOUS
  <2>2. \A i \in 1 .. 1 : F(g)[i] = a /\ i = 1 BY <1>1
  <2>3. g = F(g) BY <1>1, <2>1, <2>2
  <2>4. QED BY <2>3
<1>3. PICK c : c = CHOOSE g : g = F(g) OBVIOUS
<1>4. c = F(c) BY <1>2, <1>3
<1>5. c[1] = a BY <1>1, <1>4
<1>6. FlattenSeq(s) = c[Len(s)] BY <1>1, <1>3 DEF FlattenSeq
<1>7. QED BY <1>1, <1>5, <1>6 DEF s

LEMMA FlattenTwo == ASSUME NEW a, NEW b PROVE FlattenSeq(<<a, b>>) = a \o b
<1> DEFINE s == <<a, b>>
<1>1. Len(s) = 2 /\ s[1] = a /\ s[2] = b OBVIOUS
<1> HIDE DEF s
<1> DEFINE F(g) == [i \in 1 .. Len(s) |-> IF i = 1 THEN s[i] ELSE g[i - 1] \o s[i]]
<1>2. \E g : g = F(g)
  <2>1. PICK g : g = [i \in 1 .. 2 |-> IF i = 1 THEN a ELSE a \o b] OBVIOUS
  <2>2. g[1] = a /\ g[2] = a \o b BY <2>1
  <2>3. \A i \in 1 .. 2 : F(g)[i] = g[i]
    <3>1. F(g)[1] = a BY <1>1
    <3>2. F(g)[2] = g[1] \o b BY <1>1
    <3>3. \A i \in 1 .. 2 : i = 1 \/ i = 2 OBVIOUS
    <3>4. QED BY <2>2, <3>1, <3>2, <3>3
  <2>4. g = F(g) BY <1>1, <2>1, <2>3
  <2>5. QED BY <2>4
<1>3. PICK c : c = CHOOSE g : g = F(g) OBVIOUS
<1>4. c = F(c) BY <1>2, <1>3
<1>5. c[1] = a BY <1>1, <1>4
<1>6. c[2] = c[1] \o b
  <2>1. 2 \in 1 .. Len(s) /\ 2 # 1 /\ 2 - 1 = 1 BY <1>1
  <2>2. c[2] = c[2 - 1] \o s[2] BY <1>4, <2>1
  <2>3. QED BY <1>1, <2>1, <2>2
<1>7. FlattenSeq(s) = c[Len(s)] BY <1>1, <1>3 DEF FlattenSeq
<1>8. QED BY <1>1, <1>5, <1>6, <1>7 DEF s

-----------------------------------------------------------------------------
(***************************************************************************)
(* Depth-first search of an acyclic graph: nodes 1 .. N, where P[a] is     *)
(* what is searched after a, older nodes all, and W is what is looked for. *)
(* The recursive search exists; every search with a stack finds what it    *)
(* does; and so does a search of marked nodes only, from each node to the  *)
(* nearest ones.  Zero is no node.                                         *)
(***************************************************************************)
Older(N, P) == \A a \in 1 .. N : P[a] \in Seq(1 .. a - 1)

\* The first of a sequence of nodes from which something is found.
FirstOf(f, s) ==
    LET with == {i \in DOMAIN s : f[s[i]] # 0}
    IN  IF with = {} THEN 0 ELSE f[s[Min(with)]]

\* The search by recursion, and with a stack.
IsFound(f, N, P, W) == f = [a \in 1 .. N |-> IF a \in W THEN a ELSE FirstOf(f, P[a])]

IsSearch(h, N, P, W) ==
    h = [stack \in Seq(1 .. N) |->
            IF stack = <<>> THEN 0
            ELSE IF stack[1] \in W THEN stack[1]
            ELSE h[P[stack[1]] \o Tail(stack)]]

LEMMA FirstOfNone ==
    ASSUME NEW f, NEW s, \A i \in DOMAIN s : f[s[i]] = 0
    PROVE  FirstOf(f, s) = 0
BY DEF FirstOf

LEMMA FirstOfAt ==
    ASSUME NEW f, NEW D, NEW s \in Seq(D), NEW i \in 1 .. Len(s), f[s[i]] # 0,
           \A j \in 1 .. i - 1 : f[s[j]] = 0
    PROVE  FirstOf(f, s) = f[s[i]]
<1> DEFINE with == {k \in DOMAIN s : f[s[k]] # 0}
<1>1. Len(s) \in Nat /\ DOMAIN s = 1 .. Len(s) OBVIOUS
<1>2. with \in SUBSET Nat /\ with # {} /\ i \in with BY <1>1
<1>3. \E k \in with : \A m \in with : k <= m BY <1>2, LeastNat
<1>4. Min(with) \in with /\ \A m \in with : Min(with) <= m BY <1>3 DEF Min
<1>5. Min(with) \in Nat /\ Min(with) <= i /\ Min(with) >= 1 BY <1>1, <1>2, <1>4
<1>6. Min(with) = i
  <2>1. SUFFICES ASSUME Min(with) # i PROVE FALSE OBVIOUS
  <2>2. Min(with) \in 1 .. i - 1 BY <1>5, <2>1
  <2>3. QED BY <1>4, <2>2
<1>7. FirstOf(f, s) = f[s[Min(with)]] BY <1>2 DEF FirstOf
<1>8. QED BY <1>6, <1>7

\* One of the two is the case.
LEMMA FirstOfCases ==
    ASSUME NEW f, NEW D, NEW s \in Seq(D)
    PROVE  \/ \A i \in 1 .. Len(s) : f[s[i]] = 0
           \/ \E i \in 1 .. Len(s) : /\ f[s[i]] # 0
                                     /\ \A j \in 1 .. i - 1 : f[s[j]] = 0
<1>1. SUFFICES ASSUME NEW k \in 1 .. Len(s), f[s[k]] # 0
               PROVE  \E i \in 1 .. Len(s) : /\ f[s[i]] # 0
                                             /\ \A j \in 1 .. i - 1 : f[s[j]] = 0
  OBVIOUS
<1> DEFINE with == {i \in 1 .. Len(s) : f[s[i]] # 0}
<1>2. with \in SUBSET Nat /\ with # {} /\ Len(s) \in Nat BY <1>1
<1>3. PICK i \in with : \A m \in with : i <= m BY <1>2, LeastNat
<1>4. \A j \in 1 .. i - 1 : j \in 1 .. Len(s) /\ ~(i <= j) BY <1>2, <1>3
<1>5. QED BY <1>3, <1>4

LEMMA FirstOfEmpty == \A f : FirstOf(f, <<>>) = 0
BY FirstOfNone

LEMMA FirstOfOne == ASSUME NEW f, NEW a PROVE FirstOf(f, <<a>>) = f[a]
<1>1. PICK s : s = <<a>> OBVIOUS
<1>2. s \in Seq({a}) /\ Len(s) = 1 /\ s[1] = a /\ DOMAIN s = 1 .. 1 BY <1>1
<1>3. CASE f[a] = 0 BY <1>1, <1>2, <1>3, FirstOfNone
<1>4. CASE f[a] # 0
  <2>1. 1 \in 1 .. Len(s) /\ f[s[1]] # 0 /\ \A j \in 1 .. 1 - 1 : f[s[j]] = 0
    BY <1>2, <1>4
  <2>2. FirstOf(f, s) = f[s[1]] BY <1>2, <2>1, FirstOfAt
  <2>3. QED BY <1>1, <1>2, <2>2
<1>5. QED BY <1>3, <1>4

LEMMA SameFirst ==
    ASSUME NEW f, NEW g, NEW D, NEW s \in Seq(D), \A i \in DOMAIN s : f[s[i]] = g[s[i]]
    PROVE  FirstOf(f, s) = FirstOf(g, s)
<1>1. DOMAIN s = 1 .. Len(s) /\ Len(s) \in Nat OBVIOUS
<1>2. CASE \A i \in 1 .. Len(s) : f[s[i]] = 0
  <2>1. \A i \in DOMAIN s : g[s[i]] = 0 BY <1>1, <1>2
  <2>2. QED BY <1>1, <1>2, <2>1, FirstOfNone
<1>3. ASSUME NEW i \in 1 .. Len(s), f[s[i]] # 0, \A j \in 1 .. i - 1 : f[s[j]] = 0
      PROVE  FirstOf(f, s) = FirstOf(g, s)
  <2>1. \A j \in 1 .. i - 1 : j \in DOMAIN s BY <1>1
  <2>2. g[s[i]] = f[s[i]] /\ \A j \in 1 .. i - 1 : g[s[j]] = 0 BY <1>1, <1>3, <2>1
  <2>3. FirstOf(f, s) = f[s[i]] BY <1>3, FirstOfAt
  <2>4. FirstOf(g, s) = g[s[i]] BY <1>3, <2>2, FirstOfAt
  <2>5. QED BY <2>2, <2>3, <2>4
<1>4. QED BY <1>2, <1>3, FirstOfCases

\* A sequence is searched before what comes after it.
LEMMA FirstOfBoth ==
    ASSUME NEW f, NEW D, NEW s \in Seq(D), NEW t \in Seq(D)
    PROVE  FirstOf(f, s \o t) = IF FirstOf(f, s) # 0 THEN FirstOf(f, s) ELSE FirstOf(f, t)
<1>0. PICK u : u = s \o t OBVIOUS
<1>1. /\ u \in Seq(D) /\ Len(u) = Len(s) + Len(t)
      /\ \A i \in 1 .. Len(u) : u[i] = IF i <= Len(s) THEN s[i] ELSE t[i - Len(s)]
  BY <1>0, ConcatProperties
<1>2. Len(s) \in Nat /\ Len(t) \in Nat /\ DOMAIN u = 1 .. Len(u)
      /\ DOMAIN s = 1 .. Len(s) /\ DOMAIN t = 1 .. Len(t)
  BY <1>1
<1>3. \A i \in 1 .. Len(s) : i \in 1 .. Len(u) /\ u[i] = s[i] BY <1>1, <1>2
<1>4. ASSUME NEW i \in 1 .. Len(t) PROVE Len(s) + i \in 1 .. Len(u) /\ u[Len(s) + i] = t[i]
  <2>1. Len(s) + i \in 1 .. Len(u) /\ ~(Len(s) + i <= Len(s)) /\ (Len(s) + i) - Len(s) = i
    BY <1>1, <1>2
  <2>2. QED BY <1>1, <2>1
<1> u \in Seq(D) BY <1>1
<1>5. CASE \E i \in 1 .. Len(s) : f[s[i]] # 0 /\ \A j \in 1 .. i - 1 : f[s[j]] = 0
  <2>1. PICK i \in 1 .. Len(s) : f[s[i]] # 0 /\ \A j \in 1 .. i - 1 : f[s[j]] = 0
    BY <1>5
  <2>2. FirstOf(f, s) = f[s[i]] BY <2>1, FirstOfAt
  <2>3. \A j \in 1 .. i - 1 : j \in 1 .. Len(s) BY <1>2
  <2>4. i \in 1 .. Len(u) /\ f[u[i]] # 0 /\ \A j \in 1 .. i - 1 : f[u[j]] = 0
    BY <1>3, <2>1, <2>3
  <2>5. FirstOf(f, u) = f[u[i]] BY <2>4, FirstOfAt
  <2>6. QED BY <1>3, <2>1, <2>2, <2>5, <1>0
<1>6. CASE \A i \in 1 .. Len(s) : f[s[i]] = 0
  <2>1. FirstOf(f, s) = 0 BY <1>2, <1>6, FirstOfNone
  <2>2. CASE \A i \in 1 .. Len(t) : f[t[i]] = 0
    <3>1. FirstOf(f, t) = 0 BY <1>2, <2>2, FirstOfNone
    <3>2. ASSUME NEW i \in 1 .. Len(u) PROVE f[u[i]] = 0
      <4>1. CASE i <= Len(s) BY <1>1, <1>2, <1>6, <4>1
      <4>2. CASE ~(i <= Len(s))
        <5>1. i - Len(s) \in 1 .. Len(t) BY <1>1, <1>2, <4>2
        <5>2. QED BY <1>1, <2>2, <4>2, <5>1
      <4>3. QED BY <4>1, <4>2
    <3>3. FirstOf(f, u) = 0 BY <1>2, <3>2, FirstOfNone
    <3>4. QED BY <1>0, <2>1, <3>1, <3>3
  <2>3. CASE \E i \in 1 .. Len(t) : f[t[i]] # 0 /\ \A j \in 1 .. i - 1 : f[t[j]] = 0
    <3>1. PICK i \in 1 .. Len(t) : f[t[i]] # 0 /\ \A j \in 1 .. i - 1 : f[t[j]] = 0
      BY <2>3
    <3>2. FirstOf(f, t) = f[t[i]] BY <3>1, FirstOfAt
    <3>3. PICK k \in 1 .. Len(u) : k = Len(s) + i BY <1>4
    <3>4. u[k] = t[i] BY <1>4, <3>3
    <3>5. ASSUME NEW j \in 1 .. k - 1 PROVE f[u[j]] = 0
      <4>1. CASE j <= Len(s) BY <1>2, <1>3, <1>6, <4>1
      <4>2. CASE ~(j <= Len(s))
        <5>1. j - Len(s) \in 1 .. i - 1 /\ j \in 1 .. Len(u) BY <1>1, <1>2, <3>3, <4>2
        <5>2. u[j] = t[j - Len(s)] BY <1>1, <4>2, <5>1
        <5>3. QED BY <3>1, <5>1, <5>2
      <4>3. QED BY <4>1, <4>2
    <3>6. f[u[k]] # 0 BY <3>1, <3>4
    <3>7. FirstOf(f, u) = f[u[k]] BY <3>3, <3>5, <3>6, FirstOfAt, SMTT(60)
    <3>8. QED BY <1>0, <2>1, <3>2, <3>4, <3>7
  <2>4. QED BY <2>2, <2>3, FirstOfCases
<1>7. QED BY <1>5, <1>6, FirstOfCases

-----------------------------------------------------------------------------
\* The recursive search exists, node by node.
LEMMA FoundExists ==
    ASSUME NEW N \in Nat, NEW P, NEW W, Older(N, P)
    PROVE  \E f : IsFound(f, N, P, W)
<1> DEFINE S == {n \in Nat : n <= N => \E f : IsFound(f, n, P, W)}
<1>1. 0 \in S
  <2>1. PICK f : f = [a \in 1 .. 0 |-> IF a \in W THEN a ELSE FirstOf(<<>>, P[a])] OBVIOUS
  <2>2. f = [a \in 1 .. 0 |-> IF a \in W THEN a ELSE FirstOf(f, P[a])]
    <3>1. 1 .. 0 = {} OBVIOUS
    <3>2. QED BY <2>1, <3>1
  <2>3. QED BY <2>2 DEF IsFound
<1>2. ASSUME NEW n \in Nat, n \in S PROVE n + 1 \in S
  <2>1. SUFFICES ASSUME n + 1 <= N PROVE \E f : IsFound(f, n + 1, P, W) OBVIOUS
  <2>2. PICK g : IsFound(g, n, P, W) BY <1>2, <2>1
  <2>3. PICK f : f = [a \in 1 .. n + 1 |-> IF a \in 1 .. n THEN g[a]
                                           ELSE IF a \in W THEN a ELSE FirstOf(g, P[a])]
    OBVIOUS
  <2>4. \A a \in 1 .. n : f[a] = g[a] BY <2>3
  <2>5. ASSUME NEW a \in 1 .. n + 1 PROVE FirstOf(f, P[a]) = FirstOf(g, P[a])
    <3>1. P[a] \in Seq(1 .. a - 1) BY <2>1 DEF Older
    <3>2. \A i \in DOMAIN P[a] : P[a][i] \in 1 .. n BY <3>1
    <3>3. \A i \in DOMAIN P[a] : f[P[a][i]] = g[P[a][i]] BY <2>4, <3>2
    <3>4. QED BY <3>1, <3>3, SameFirst
  <2>6. ASSUME NEW a \in 1 .. n + 1
        PROVE  f[a] = IF a \in W THEN a ELSE FirstOf(f, P[a])
    <3>1. CASE a \in 1 .. n BY <2>2, <2>4, <2>5, <3>1 DEF IsFound
    <3>2. CASE a \notin 1 .. n BY <2>3, <2>5, <3>2
    <3>3. QED BY <3>1, <3>2
  <2>7. f = [a \in 1 .. n + 1 |-> f[a]] BY <2>3
  <2>8. f = [a \in 1 .. n + 1 |-> IF a \in W THEN a ELSE FirstOf(f, P[a])] BY <2>6, <2>7
  <2>9. QED BY <2>8 DEF IsFound
<1> HIDE DEF S
<1>3. Nat \subseteq S BY <1>1, <1>2, NatSetInduction, Zenon
<1>4. QED BY <1>3 DEF S

\* The search with a stack, as what is found from its nodes, is one.
LEMMA SearchExists ==
    ASSUME NEW N \in Nat, NEW P, NEW W \in SUBSET (1 .. N), Older(N, P)
    PROVE  \E h : IsSearch(h, N, P, W)
<1>1. PICK f : IsFound(f, N, P, W) BY FoundExists
<1>2. PICK h : h = [stack \in Seq(1 .. N) |-> FirstOf(f, stack)] OBVIOUS
<1>3. ASSUME NEW stack \in Seq(1 .. N), stack # <<>>
      PROVE  h[stack] = IF stack[1] \in W THEN stack[1] ELSE h[P[stack[1]] \o Tail(stack)]
  <2>1. PICK a, r : a = stack[1] /\ r = Tail(stack) OBVIOUS
  <2>2. a \in 1 .. N /\ r \in Seq(1 .. N) /\ stack = <<a>> \o r BY <1>3, <2>1, TopAndRest
  <2>3. <<a>> \in Seq(1 .. N) /\ P[a] \in Seq(1 .. a - 1) BY <2>2 DEF Older
  <2>4. P[a] \in Seq(1 .. N)
    <3>1. 1 .. a - 1 \subseteq 1 .. N BY <2>2
    <3>2. QED BY <2>3, <3>1, SeqMonotonic
  <2>5. h[stack] = IF f[a] # 0 THEN f[a] ELSE FirstOf(f, r)
    <3>1. FirstOf(f, <<a>> \o r)
            = IF FirstOf(f, <<a>>) # 0 THEN FirstOf(f, <<a>>) ELSE FirstOf(f, r)
      <4>1. PICK u : u = <<a>> OBVIOUS
      <4>2. u \in Seq(1 .. N) /\ r \in Seq(1 .. N) BY <2>2, <2>3, <4>1
      <4>3. FirstOf(f, u \o r) = IF FirstOf(f, u) # 0 THEN FirstOf(f, u) ELSE FirstOf(f, r)
        BY <4>2, FirstOfBoth
      <4>4. QED BY <4>1, <4>3
    <3>2. FirstOf(f, <<a>>) = f[a] BY FirstOfOne
    <3>3. h[stack] = FirstOf(f, <<a>> \o r) BY <1>2, <2>2
    <3>4. QED BY <3>1, <3>2, <3>3
  <2>6. f[a] = IF a \in W THEN a ELSE FirstOf(f, P[a]) BY <1>1, <2>2 DEF IsFound
  <2>7. CASE a \in W BY <2>1, <2>2, <2>5, <2>6, <2>7
  <2>8. CASE a \notin W
    <3>1. P[a] \o r \in Seq(1 .. N) BY <2>2, <2>4
    <3>2. h[P[a] \o r] = FirstOf(f, P[a] \o r) BY <1>2, <3>1
    <3>3. FirstOf(f, P[a] \o r)
            = IF FirstOf(f, P[a]) # 0 THEN FirstOf(f, P[a]) ELSE FirstOf(f, r)
      BY <2>2, <2>4, FirstOfBoth
    <3>4. QED BY <2>1, <2>5, <2>6, <2>8, <3>2, <3>3
  <2>9. QED BY <2>7, <2>8
<1>4. <<>> \in Seq(1 .. N) /\ h[<<>>] = 0 BY <1>2, FirstOfEmpty
<1>5. h = [stack \in Seq(1 .. N) |-> h[stack]] BY <1>2
<1>6. h = [stack \in Seq(1 .. N) |->
              IF stack = <<>> THEN 0
              ELSE IF stack[1] \in W THEN stack[1]
              ELSE h[P[stack[1]] \o Tail(stack)]]
  <2>1. \A stack \in Seq(1 .. N) :
           h[stack] = IF stack = <<>> THEN 0
                      ELSE IF stack[1] \in W THEN stack[1]
                      ELSE h[P[stack[1]] \o Tail(stack)]
    BY <1>3, <1>4
  <2>2. QED BY <1>5, <2>1
<1>7. QED BY <1>6 DEF IsSearch

\* With s on top of the stack, all from s is searched before the rest.
Through(h, f, N, s) ==
    \A t \in Seq(1 .. N) :
        h[s \o t] = IF FirstOf(f, s) # 0 THEN FirstOf(f, s) ELSE h[t]

LEMMA Associative ==
    ASSUME NEW D, NEW r \in Seq(D), NEW s \in Seq(D), NEW t \in Seq(D),
           NEW rs, rs = r \o s, NEW st, st = s \o t
    PROVE  rs \o t = r \o st
<1>1. rs \in Seq(D) /\ Len(rs) = Len(r) + Len(s) OBVIOUS
<1>2. st \in Seq(D) /\ Len(st) = Len(s) + Len(t) OBVIOUS
<1>3. PICK x : x = rs \o t OBVIOUS
<1>4. PICK y : y = r \o st OBVIOUS
<1>5. x \in Seq(D) /\ Len(x) = Len(r) + Len(s) + Len(t) BY <1>1, <1>3
<1>6. y \in Seq(D) /\ Len(y) = Len(r) + Len(s) + Len(t) BY <1>2, <1>4
<1>7. ASSUME NEW i \in 1 .. Len(x) PROVE x[i] = y[i]
  <2>1. CASE i <= Len(r) BY <1>1, <1>2, <1>3, <1>4, <1>5, <2>1
  <2>2. CASE i > Len(r) /\ i <= Len(r) + Len(s) BY <1>1, <1>2, <1>3, <1>4, <1>5, <2>2
  <2>3. CASE i > Len(r) + Len(s) BY <1>1, <1>2, <1>3, <1>4, <1>5, <2>3
  <2>4. QED BY <1>5, <2>1, <2>2, <2>3
<1>8. x = y BY <1>5, <1>6, <1>7, SeqEqual
<1>9. QED BY <1>3, <1>4, <1>8

LEMMA ThroughBoth ==
    ASSUME NEW N \in Nat, NEW h, NEW f, NEW r \in Seq(1 .. N), NEW s \in Seq(1 .. N),
           Through(h, f, N, r), Through(h, f, N, s)
    PROVE  Through(h, f, N, r \o s)
<1>1. FirstOf(f, r \o s) = IF FirstOf(f, r) # 0 THEN FirstOf(f, r) ELSE FirstOf(f, s)
  BY FirstOfBoth
<1>2. ASSUME NEW t \in Seq(1 .. N)
      PROVE  h[(r \o s) \o t] = IF FirstOf(f, r \o s) # 0 THEN FirstOf(f, r \o s) ELSE h[t]
  <2>1. (r \o s) \o t = r \o (s \o t)
    <3>1. PICK D : D = 1 .. N OBVIOUS
    <3>2. PICK rs : rs = r \o s OBVIOUS
    <3>3. PICK st : st = s \o t OBVIOUS
    <3>4. r \in Seq(D) /\ s \in Seq(D) /\ t \in Seq(D) BY <3>1
    <3>5. rs \o t = r \o st BY ONLY <3>2, <3>3, <3>4, Associative
    <3>6. QED BY <3>2, <3>3, <3>5
  <2> s \o t \in Seq(1 .. N) OBVIOUS
  <2>2. h[r \o (s \o t)] = IF FirstOf(f, r) # 0 THEN FirstOf(f, r) ELSE h[s \o t]
    BY <2>1 DEF Through
  <2>3. h[s \o t] = IF FirstOf(f, s) # 0 THEN FirstOf(f, s) ELSE h[t] BY DEF Through
  <2>4. QED BY <1>1, <2>1, <2>2, <2>3
<1>3. QED BY <1>2 DEF Through

LEMMA ThroughAll ==
    ASSUME NEW N \in Nat, NEW h, NEW f, NEW D \in SUBSET (1 .. N),
           \A m \in D : Through(h, f, N, <<m>>)
    PROVE  \A s \in Seq(D) : Through(h, f, N, s)
<1> DEFINE S == {k \in Nat : \A s \in Seq(D) : Len(s) = k => Through(h, f, N, s)}
<1>0. Seq(D) \subseteq Seq(1 .. N) BY SeqMonotonic
<1>1. 0 \in S
  <2>1. ASSUME NEW s \in Seq(D), Len(s) = 0 PROVE Through(h, f, N, s)
    <3>1. s = <<>> BY <2>1, EmptySeq
    <3>2. \A t \in Seq(1 .. N) : <<>> \o t = t OBVIOUS
    <3>3. QED BY <3>1, <3>2, FirstOfEmpty DEF Through
  <2>2. QED BY <2>1
<1>2. ASSUME NEW k \in Nat, k \in S PROVE k + 1 \in S
  <2>1. ASSUME NEW s \in Seq(D), Len(s) = k + 1 PROVE Through(h, f, N, s)
    <3>1. s # <<>> BY <2>1
    <3>2. PICK a, r : a = s[1] /\ r = Tail(s) OBVIOUS
    <3>3. a \in D /\ r \in Seq(D) /\ s = <<a>> \o r /\ Len(r) = k
      BY <2>1, <3>1, <3>2, TopAndRest
    <3>4. Through(h, f, N, <<a>>) /\ Through(h, f, N, r) BY <1>2, <3>3
    <3>5. <<a>> \in Seq(1 .. N) /\ r \in Seq(1 .. N) BY <1>0, <3>3
    <3>6. QED BY <3>3, <3>4, <3>5, ThroughBoth
  <2>2. QED BY <2>1
<1> HIDE DEF S
<1>3. Nat \subseteq S BY <1>1, <1>2, NatSetInduction, Zenon
<1>4. \A s \in Seq(D) : Len(s) \in Nat OBVIOUS
<1>5. QED BY <1>3, <1>4 DEF S

\* A search with a stack finds the first of what is found from it.
Agrees(h, f, N) == \A s \in Seq(1 .. N) : h[s] = FirstOf(f, s)

\* Whatever function the search with a stack is, it finds what the recursive one does.
LEMMA SearchIsFirst ==
    ASSUME NEW N \in Nat, NEW P, NEW W \in SUBSET (1 .. N), Older(N, P),
           NEW f, IsFound(f, N, P, W), NEW h, IsSearch(h, N, P, W)
    PROVE  Agrees(h, f, N)
<1> DEFINE S == {n \in Nat : n \in 1 .. N => Through(h, f, N, <<n>>)}
<1>1. ASSUME NEW n \in Nat, \A m \in Nat : m < n => m \in S PROVE n \in S
  <2>1. SUFFICES ASSUME n \in 1 .. N PROVE Through(h, f, N, <<n>>) OBVIOUS
  <2>2. P[n] \in Seq(1 .. n - 1) /\ 1 .. n - 1 \in SUBSET (1 .. N) BY <2>1 DEF Older
  <2>3. ASSUME NEW m \in 1 .. n - 1 PROVE Through(h, f, N, <<m>>)
    <3>1. m \in Nat /\ m < n /\ m \in 1 .. N BY <2>1
    <3>2. m \in S BY <1>1, <3>1
    <3>3. QED BY <3>1, <3>2
  <2>4. Through(h, f, N, P[n]) BY <2>2, <2>3, ThroughAll
  <2>5. P[n] \in Seq(1 .. N) BY <2>2, SeqMonotonic
  <2>6. f[n] = IF n \in W THEN n ELSE FirstOf(f, P[n]) BY <2>1 DEF IsFound
  <2>7. ASSUME NEW t \in Seq(1 .. N)
        PROVE  h[<<n>> \o t] = IF f[n] # 0 THEN f[n] ELSE h[t]
    <3>1. PICK s : s = <<n>> \o t OBVIOUS
    <3>2. s \in Seq(1 .. N) /\ s # <<>> /\ s[1] = n /\ Tail(s) = t BY <2>1, <3>1
    <3>3. h[s] = IF n \in W THEN n ELSE h[P[n] \o t] BY <3>2 DEF IsSearch
    <3>4. h[P[n] \o t] = IF FirstOf(f, P[n]) # 0 THEN FirstOf(f, P[n]) ELSE h[t]
      BY <2>4 DEF Through
    <3>5. n # 0 BY <2>1
    <3>6. QED BY <2>6, <3>1, <3>3, <3>4, <3>5
  <2>8. FirstOf(f, <<n>>) = f[n] BY FirstOfOne
  <2>9. QED BY <2>7, <2>8 DEF Through
<1> HIDE DEF S
<1>2. Nat \subseteq S BY <1>1, StrongInduction, Zenon
<1>3. ASSUME NEW m \in 1 .. N PROVE Through(h, f, N, <<m>>)
  <2>1. m \in S BY <1>2
  <2>2. QED BY <2>1 DEF S
<1>4. ASSUME NEW s \in Seq(1 .. N) PROVE h[s] = FirstOf(f, s)
  <2>1. Through(h, f, N, s) BY <1>3, ThroughAll
  <2>2. <<>> \in Seq(1 .. N) /\ s \o <<>> = s BY ConcatEmptySeq
  <2>3. h[<<>>] = 0 BY <2>2 DEF IsSearch
  <2>4. h[s] = IF FirstOf(f, s) # 0 THEN FirstOf(f, s) ELSE h[<<>>]
    BY <2>1, <2>2 DEF Through
  <2>5. QED BY <2>3, <2>4
<1>5. QED BY <1>4 DEF Agrees

\* Searching marked ancestors only: each node has, instead of its parents, the nearest
\* marked nodes of each; where there are several parents none is marked itself.
Nearest(N, P, K, X) ==
    \A a \in 1 .. N :
        \/ P[a] = <<>> /\ K[a] = <<>>
        \/ \E p \in 1 .. a - 1 : P[a] = <<p>> /\ K[a] = IF p \in X THEN <<p>> ELSE K[p]
        \/ \E p, q \in 1 .. a - 1 : /\ P[a] = <<p, q>> /\ K[a] = K[p] \o K[q]
                                    /\ p \notin X /\ q \notin X

\* From a node as much is found as from itself, if marked, or its nearest marked ones.
AgreesNearest(f, g, N, K, X) ==
    \A a \in 1 .. N : f[a] = FirstOf(g, IF a \in X THEN <<a>> ELSE K[a])

LEMMA NearestIsFirst ==
    ASSUME NEW N \in Nat, NEW P, NEW K, NEW X, NEW W \in SUBSET X, Older(N, K),
           Nearest(N, P, K, X),
           NEW f, IsFound(f, N, P, W), NEW g, IsFound(g, N, K, W)
    PROVE  AgreesNearest(f, g, N, K, X)
<1> DEFINE S == {n \in Nat : n \in 1 .. N =>
                                f[n] = FirstOf(g, IF n \in X THEN <<n>> ELSE K[n])}
<1>1. ASSUME NEW n \in Nat, \A m \in Nat : m < n => m \in S PROVE n \in S
  <2>1. SUFFICES ASSUME n \in 1 .. N
                 PROVE  f[n] = FirstOf(g, IF n \in X THEN <<n>> ELSE K[n])
    OBVIOUS
  <2>2. ASSUME NEW p \in 1 .. n - 1 PROVE f[p] = FirstOf(g, IF p \in X THEN <<p>> ELSE K[p])
    <3>1. p \in Nat /\ p < n /\ p \in 1 .. N BY <2>1
    <3>2. p \in S BY <1>1, <3>1
    <3>3. QED BY <3>1, <3>2
  <2>3. FirstOf(f, P[n]) = FirstOf(g, K[n])
    <3>1. CASE P[n] = <<>> /\ K[n] = <<>> BY <3>1, FirstOfEmpty
    <3>2. ASSUME NEW p \in 1 .. n - 1, P[n] = <<p>>, K[n] = IF p \in X THEN <<p>> ELSE K[p]
          PROVE  FirstOf(f, P[n]) = FirstOf(g, K[n])
      BY <2>2, <3>2, FirstOfOne
    <3>3. ASSUME NEW p \in 1 .. n - 1, NEW q \in 1 .. n - 1, P[n] = <<p, q>>,
                 K[n] = K[p] \o K[q], p \notin X, q \notin X
          PROVE  FirstOf(f, P[n]) = FirstOf(g, K[n])
      <4>1. PICK D : D = 1 .. n - 1 OBVIOUS
      <4>2. <<p>> \in Seq(D) /\ <<q>> \in Seq(D) BY <4>1
      <4>3. K[p] \in Seq(D) /\ K[q] \in Seq(D)
        <5>1. p \in 1 .. N /\ q \in 1 .. N BY <2>1
        <5>2. K[p] \in Seq(1 .. p - 1) /\ K[q] \in Seq(1 .. q - 1) BY <5>1 DEF Older
        <5>3. 1 .. p - 1 \subseteq D /\ 1 .. q - 1 \subseteq D BY <2>1, <4>1
        <5>4. QED BY <5>2, <5>3, SeqMonotonic
      <4>4. FirstOf(f, <<p>>) = f[p] /\ FirstOf(f, <<q>>) = f[q] BY FirstOfOne
      <4>5. f[p] = FirstOf(g, K[p]) /\ f[q] = FirstOf(g, K[q]) BY <2>2, <3>3
      <4>6. <<p>> \o <<q>> = <<p, q>> BY TwoIsBoth
      <4>7. FirstOf(f, <<p>> \o <<q>>)
              = IF FirstOf(f, <<p>>) # 0 THEN FirstOf(f, <<p>>) ELSE FirstOf(f, <<q>>)
        <5>1. PICK u, v : u = <<p>> /\ v = <<q>> OBVIOUS
        <5>2. u \in Seq(D) /\ v \in Seq(D) BY <4>2, <5>1
        <5>3. FirstOf(f, u \o v) = IF FirstOf(f, u) # 0 THEN FirstOf(f, u) ELSE FirstOf(f, v)
          BY <5>2, FirstOfBoth
        <5>4. QED BY <5>1, <5>3
      <4>8. FirstOf(g, K[p] \o K[q])
              = IF FirstOf(g, K[p]) # 0 THEN FirstOf(g, K[p]) ELSE FirstOf(g, K[q])
        BY <4>3, FirstOfBoth
      <4>9. QED BY <3>3, <4>4, <4>5, <4>6, <4>7, <4>8
    <3>4. QED BY <2>1, <3>1, <3>2, <3>3 DEF Nearest
  <2>4. f[n] = IF n \in W THEN n ELSE FirstOf(f, P[n]) BY <2>1 DEF IsFound
  <2>5. g[n] = IF n \in W THEN n ELSE FirstOf(g, K[n]) BY <2>1 DEF IsFound
  <2>6. CASE n \in X
    <3>1. FirstOf(g, <<n>>) = g[n] BY FirstOfOne
    <3>2. QED BY <2>3, <2>4, <2>5, <2>6, <3>1
  <2>7. CASE n \notin X BY <2>3, <2>4, <2>7
  <2>8. QED BY <2>6, <2>7
<1> HIDE DEF S
<1>2. Nat \subseteq S BY <1>1, StrongInduction, Zenon
<1>3. ASSUME NEW a \in 1 .. N PROVE f[a] = FirstOf(g, IF a \in X THEN <<a>> ELSE K[a])
  <2>1. a \in S BY <1>2
  <2>2. QED BY <2>1 DEF S
<1>4. QED BY <1>3 DEF AgreesNearest
===============================================================================
