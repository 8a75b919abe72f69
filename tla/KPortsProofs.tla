----------------------------- MODULE KPortsProofs -----------------------------
(***************************************************************************)
(* Theorems of KPorts: the FILE of a port is closed when the port is, once *)
(* and whoever closes it, for any number of threads that use ports; and    *)
(* for one such thread, that a FILE in use stays open, and that what is    *)
(* read and written is what files and buffers hold.                        *)
(***************************************************************************)
EXTENDS KPorts, Lemmas

Directions == {"input", "output"}
FrameRecords(S) == [port : S, dir : Directions, binds : BOOLEAN, old : S]
LivePorts == {p \in Ports : Live(p)}

PortsOK ==
    /\ port \in [Ports -> PortRecords \cup {None}]
    /\ FILE \in [Ports -> {"none", "open", "closed", "closed twice"}]

\* What the program, the extents and the registers of threads refer to is in L.
RefersTo(L) ==
    /\ key \in [Directions -> L]
    /\ held \in [Threads -> SUBSET L]
    /\ frames \in [Threads -> Seq(FrameRecords(L))]
    /\ saved \in [Threads -> Seq(FrameRecords(L)) \cup {None}]
    /\ curr_port \in [Threads -> L \cup {None}]
    /\ ptree \in [Threads -> L \cup {None}]

\* It has not been freed.
Mentioned == RefersTo(LivePorts)

PcOK ==
    /\ pc \in [Threads -> {"program", "call", "os", "back"}]
    /\ \A t \in Threads : pc[t] = "program" => ptree[t] = None

\* For any number of threads that use ports.
IInv == PortsOK /\ FilesFollowPorts /\ Mentioned /\ PcOK

-----------------------------------------------------------------------------
(***************************************************************************)
(* For one thread that uses ports.                                         *)
(***************************************************************************)
OneUser == \A t, u \in PortUsers : t = u

Chars == {Letter, Newline}
Wants(o) == IF o \in Reads THEN {"get", "peek"} ELSE {"put", "flush"}
Outside(t) == pc[t] \in {"os", "back"}

BoundsOK ==
    /\ gil \in Threads \cup {None}
    /\ \A t \in Threads :
         /\ Len(frames[t]) <= MaxFrames
         /\ saved[t] # None => Len(saved[t]) <= MaxFrames

\* Other threads leave ports alone.
OthersOK ==
    \A t \in Threads \ PortUsers :
        pc[t] = "program" /\ curr_port[t] = None /\ seen_eof[t] = FALSE

\* An operation under way has a port, open and of its direction.
CallsOK ==
    /\ op \in [Threads -> Operations \cup {None}]
    /\ want \in [Threads -> {"get", "peek", "put", "flush", None}]
    /\ chi \in [Threads -> Chars \cup {EOF, "error", None}]
    /\ \A t \in Threads : pc[t] # "program" =>
         /\ op[t] \in Operations /\ want[t] \in Wants(op[t])
         /\ curr_port[t] \in LivePorts
         /\ port[curr_port[t]].open /\ port[curr_port[t]].dir = Direction(op[t])

ContentsOK ==
    /\ rest \in [Ports -> Seq(Chars)] /\ taken \in [Ports -> Seq(Chars)]
    /\ \A p \in Ports : p \in Standard \/ (Live(p) /\ port[p].dir = "output") => rest[p] = <<>>

\* The end that a thread has seen is that of its port.
EndsOK ==
    /\ seen_eof \in [Threads -> BOOLEAN]
    /\ \A t \in Threads : seen_eof[t] =>
         curr_port[t] \in LivePorts /\ rest[curr_port[t]] = <<>>
    /\ \A t \in Threads : Outside(t) /\ want[t] \in {"get", "peek"} => ~seen_eof[t]

\* What has been read of p and is still to be read of it, with c in between.
Whole(p, c) == taken[p] \o c \o rest[p] = Text

\* A character the OS has returned is between what was taken and the rest.
ReadsOK ==
    /\ \A p \in Ports \ Standard :
         (/\ Live(p) /\ port[p].open /\ port[p].dir = "input"
          /\ \A t \in Threads : curr_port[t] = p => pc[t] # "back")
           => Whole(p, <<>>)
    /\ \A t \in Threads : pc[t] = "back" /\ want[t] \in {"get", "peek"} =>
         /\ chi[t] \in Chars \cup {EOF, "error"}
         /\ chi[t] = EOF => rest[curr_port[t]] = <<>>
         /\ chi[t] \in Chars => curr_port[t] \notin Standard
         /\ curr_port[t] \notin Standard =>
              Whole(curr_port[t], IF chi[t] \in Chars THEN <<chi[t]>> ELSE <<>>)

MemoryOutput(p) == Live(p) /\ ~ttisfport(p) /\ port[p].dir = "output"

BuffersOK ==
    /\ buf \in [Ports -> Seq(Chars \cup {None})]
    /\ off \in [Ports -> Nat]
    /\ written \in [Ports -> Seq(Chars)]
    /\ \A p \in Ports : Live(p) =>
         IF MemoryOutput(p)
         THEN /\ Len(buf[p]) > 0 /\ off[p] <= Len(buf[p])
              /\ SubSeq(buf[p], 1, off[p]) = written[p]
         ELSE off[p] = 0

Control == BoundsOK /\ OthersOK /\ CallsOK
Data == ContentsOK /\ EndsOK /\ ReadsOK /\ BuffersOK

UserInv == IInv /\ Control /\ Data

-----------------------------------------------------------------------------
(***************************************************************************)
(* Extents: sequences of frames.                                           *)
(***************************************************************************)
LEMMA FramesGrow ==
    ASSUME NEW S, NEW T, S \subseteq T
    PROVE  Seq(FrameRecords(S)) \subseteq Seq(FrameRecords(T))
<1>1. FrameRecords(S) \subseteq FrameRecords(T) BY DEF FrameRecords
<1>2. QED BY <1>1, SeqMonotonic

\* An extent is entered, or the innermost one left.
LEMMA FramesStep ==
    ASSUME NEW S, NEW fs \in Seq(FrameRecords(S))
    PROVE  /\ \A f \in FrameRecords(S) : Append(fs, f) \in Seq(FrameRecords(S))
           /\ <<>> \in Seq(FrameRecords(S))
           /\ fs # <<>> => /\ Last(fs) \in FrameRecords(S)
                           /\ Front(fs) \in Seq(FrameRecords(S))
                           /\ <<Last(fs)>> \in Seq(FrameRecords(S))
                           /\ Len(Front(fs)) = Len(fs) - 1
<1>1. SUFFICES ASSUME fs # <<>>
               PROVE  /\ Last(fs) \in FrameRecords(S)
                      /\ Front(fs) \in Seq(FrameRecords(S))
                      /\ <<Last(fs)>> \in Seq(FrameRecords(S))
                      /\ Len(Front(fs)) = Len(fs) - 1
    OBVIOUS
<1>2. Len(fs) \in Nat \ {0} BY <1>1, EmptySeq
<1>3. Last(fs) \in FrameRecords(S) BY <1>2, ElementOfSeq DEF Last
<1>4. \A i \in 1 .. Len(fs) - 1 : fs[i] \in FrameRecords(S) BY <1>2, ElementOfSeq
<1>5. Front(fs) \in Seq(FrameRecords(S)) /\ Len(Front(fs)) = Len(fs) - 1
  <2>1. PICK n \in Nat : n = Len(fs) - 1 BY <1>2
  <2>2. SubSeq(fs, 1, n) \in Seq(FrameRecords(S)) /\ Len(SubSeq(fs, 1, n)) = n
      BY <1>4, <2>1, SubSeqProperties
  <2>3. QED BY <2>1, <2>2 DEF Front
<1>6. QED BY <1>3, <1>5

\* The ports that are current when extents are left were so before, and those of
\* extents that are entered again are those of their frames.
LEMMA LeftAndEntered ==
    ASSUME NEW S, NEW k \in [Directions -> S], NEW fs \in Seq(FrameRecords(S))
    PROVE  Left(k, fs) \in [Directions -> S] /\ Entered(k, fs) \in [Directions -> S]
<1> DEFINE bound(dir) == {i \in DOMAIN fs : fs[i].binds /\ fs[i].dir = dir}
<1>1. Len(fs) \in Nat /\ DOMAIN fs = 1 .. Len(fs) BY LenProperties
<1>2. \A i \in DOMAIN fs : fs[i] \in FrameRecords(S) BY <1>1, ElementOfSeq
<1>3. ASSUME NEW dir \in Directions, bound(dir) # {}
      PROVE  Min(bound(dir)) \in DOMAIN fs /\ Max(bound(dir)) \in DOMAIN fs
  <2>1. bound(dir) \in SUBSET Nat /\ bound(dir) \in SUBSET (0 .. Len(fs)) BY <1>1
  <2>2. Min(bound(dir)) \in bound(dir) BY <2>1, <1>3, MinInSet
  <2>3. Max(bound(dir)) \in bound(dir) BY <2>1, <1>3, <1>1, MaxInSet
  <2>4. QED BY <2>2, <2>3
<1>4. ASSUME NEW dir \in Directions
      PROVE  /\ (IF bound(dir) = {} THEN k[dir] ELSE fs[Min(bound(dir))].old) \in S
             /\ (IF bound(dir) = {} THEN k[dir] ELSE fs[Max(bound(dir))].port) \in S
  <2>1. CASE bound(dir) = {} BY <2>1
  <2>2. CASE bound(dir) # {} BY <2>2, <1>2, <1>3 DEF FrameRecords
  <2>3. QED BY <2>1, <2>2
<1>5. QED BY <1>4 DEF Left, Entered, Directions

LEMMA CommonInRange ==
    ASSUME NEW S, NEW f \in Seq(S), NEW g \in Seq(S)
    PROVE  Common(f, g) \in Nat /\ Common(f, g) <= Len(f) /\ Common(f, g) <= Len(g)
<1> DEFINE T == {n \in 0 .. Min({Len(f), Len(g)}) : SubSeq(f, 1, n) = SubSeq(g, 1, n)}
<1>1. Len(f) \in Nat /\ Len(g) \in Nat OBVIOUS
<1>2. /\ Min({Len(f), Len(g)}) \in {Len(f), Len(g)}
      /\ Min({Len(f), Len(g)}) <= Len(f) /\ Min({Len(f), Len(g)}) <= Len(g)
  <2>1. \E n \in {Len(f), Len(g)} : \A m \in {Len(f), Len(g)} : n <= m
      BY <1>1, LeastNat
  <2>2. QED BY <2>1 DEF Min
<1>3. Min({Len(f), Len(g)}) \in Nat BY <1>1, <1>2
<1>4. SubSeq(f, 1, 0) = SubSeq(g, 1, 0) BY SubSeqEmpty
<1>5. 0 \in T BY <1>3, <1>4
<1>6. Max(T) \in T BY <1>3, <1>5, MaxInSet
<1>7. QED BY <1>1, <1>2, <1>3, <1>6 DEF Common

\* What is left, or entered, when a captured continuation is applied.
LEMMA RestOfFrames ==
    ASSUME NEW S, NEW fs \in Seq(FrameRecords(S)), NEW n \in Nat
    PROVE  SubSeq(fs, n + 1, Len(fs)) \in Seq(FrameRecords(S))
<1>1. \A i \in n + 1 .. Len(fs) : fs[i] \in FrameRecords(S) BY ElementOfSeq
<1>2. QED BY <1>1, SubSeqProperties

LEMMA PortsOfFrames ==
    ASSUME NEW S, NEW T, NEW fs \in Seq(FrameRecords(S)), FramePorts(fs) \subseteq T
    PROVE  fs \in Seq(FrameRecords(S \cap T))
<1>1. Len(fs) \in Nat /\ DOMAIN fs = 1 .. Len(fs) /\ fs \in [1 .. Len(fs) -> FrameRecords(S)]
    BY LenProperties
<1>2. ASSUME NEW i \in DOMAIN fs PROVE fs[i] \in FrameRecords(S \cap T)
  <2>1. fs[i] \in FrameRecords(S) BY <1>1, <1>2
  <2>2. fs[i].port \in FramePorts(fs) /\ fs[i].old \in FramePorts(fs) BY DEF FramePorts
  <2>3. QED BY <2>1, <2>2 DEF FrameRecords
<1>3. \A i \in 1 .. Len(fs) : fs[i] \in FrameRecords(S \cap T) BY <1>1, <1>2
<1>4. SubSeq(fs, 1, Len(fs)) \in Seq(FrameRecords(S \cap T))
  <2>1. PICK n \in Nat : n = Len(fs) BY <1>1
  <2> DEFINE R == FrameRecords(S \cap T)
  <2> HIDE DEF R
  <2>2. \A i \in 1 .. n : fs[i] \in R BY <1>3, <2>1 DEF R
  <2>3. SubSeq(fs, 1, n) \in Seq(R) BY <2>2, SubSeqProperties
  <2>4. QED BY <2>1, <2>3 DEF R
<1>5. QED BY <1>4, SubSeqFull

-----------------------------------------------------------------------------
(***************************************************************************)
(* Ports and their FILEs, for any number of threads that use them.         *)
(***************************************************************************)
LEMMA SomePorts == \A p \in Ports : p \in LivePorts <=> port[p] # None
BY DEF LivePorts, Live

LEMMA Unchanged ==
    ASSUME PortsOK, FilesFollowPorts, UNCHANGED <<port, FILE>>
    PROVE  PortsOK' /\ FilesFollowPorts' /\ LivePorts' = LivePorts
BY DEF PortsOK, FilesFollowPorts, LivePorts, Live, ttisfport

LEMMA MakeStep ==
    ASSUME PortsOK, FilesFollowPorts,
           NEW p \in Ports \ Standard, NEW kind \in Kinds \cup {"file"}, NEW dir \in Directions,
           Make(p, kind, dir)
    PROVE  PortsOK' /\ FilesFollowPorts' /\ LivePorts' = LivePorts \cup {p} /\ ~Live(p)
<1>1. /\ port' = [port EXCEPT ![p] = Port(kind, dir)]
      /\ FILE' = [FILE EXCEPT ![p] = IF kind \in {"file", "binary-file"} THEN "open" ELSE "none"]
      /\ ~Live(p)
    BY DEF Make
<1>2. Port(kind, dir) \in PortRecords BY DEF Port, PortRecords, Directions
<1>3. /\ Port(kind, dir) # None /\ Port(kind, dir).kind = kind /\ Port(kind, dir).open
    BY <1>2, NoneAssumption DEF Port
<1>4. PortsOK' BY <1>1, <1>2 DEF PortsOK
<1>5. \A q \in Ports : port'[q] = IF q = p THEN Port(kind, dir) ELSE port[q]
    BY <1>1 DEF PortsOK
<1>6. \A q \in Ports : FILE'[q] = IF q # p THEN FILE[q]
                                  ELSE IF kind \in {"file", "binary-file"} THEN "open" ELSE "none"
    BY <1>1 DEF PortsOK
<1>7. FilesFollowPorts'
    BY <1>3, <1>5, <1>6 DEF FilesFollowPorts, Live, ttisfport
<1>8. LivePorts' = LivePorts \cup {p}
    BY <1>3, <1>5 DEF LivePorts, Live
<1>9. QED BY <1>1, <1>4, <1>7, <1>8

\* A FILE that is closed was open, so it is not closed a second time.
LEMMA CloseStep ==
    ASSUME PortsOK, FilesFollowPorts, NEW p \in LivePorts, kclose_port(p)
    PROVE  PortsOK' /\ FilesFollowPorts' /\ LivePorts' = LivePorts
<1> DEFINE fs == {q \in {p} \ Standard : ttisfport(q) /\ port[q].open}
<1>1. p \in Ports /\ port[p] # None /\ port[p] \in PortRecords
    BY DEF LivePorts, Live, PortsOK
<1>2. port' = [port EXCEPT ![p].open = FALSE] /\ FILE' = fclosed(fs)
    BY DEF kclose_port, fclose
<1>3. /\ [port[p] EXCEPT !.open = FALSE] \in PortRecords
      /\ [port[p] EXCEPT !.open = FALSE].open = FALSE
      /\ [port[p] EXCEPT !.open = FALSE].kind = port[p].kind
    BY <1>1 DEF PortRecords
<1>4. \A q \in Ports : port'[q] = IF q = p THEN [port[p] EXCEPT !.open = FALSE] ELSE port[q]
    BY <1>1, <1>2 DEF PortsOK
<1>5. port' \in [Ports -> PortRecords \cup {None}] BY <1>1, <1>2, <1>3 DEF PortsOK
<1>6. \A q \in Ports : FILE'[q] = IF q \notin fs THEN FILE[q]
                                  ELSE IF FILE[q] = "open" THEN "closed" ELSE "closed twice"
    BY <1>2 DEF fclosed
<1>7. FILE' \in [Ports -> {"none", "open", "closed", "closed twice"}]
    BY <1>2, <1>6 DEF fclosed, PortsOK
<1>8. \A q \in fs : FILE[q] = "open" BY <1>1 DEF FilesFollowPorts, Live
<1>9. [port[p] EXCEPT !.open = FALSE] # None BY <1>3, NoneAssumption
<1>10. LivePorts' = LivePorts BY <1>1, <1>4, <1>9 DEF LivePorts, Live
<1>11. FilesFollowPorts'
  <2> SUFFICES ASSUME NEW q \in Ports \ Standard
               PROVE  /\ FILE'[q] = "open" <=> port'[q] # None /\ port'[q].kind \in {"file", "binary-file"} /\ port'[q].open
                      /\ FILE'[q] # "closed twice"
      BY DEF FilesFollowPorts, Live, ttisfport
  <2>1. CASE q = p
    <3>1. CASE q \in fs BY <2>1, <3>1, <1>1, <1>3, <1>4, <1>6, <1>8
    <3>2. CASE q \notin fs
      <4>1. ~ (port[q].kind \in {"file", "binary-file"} /\ port[q].open) BY <2>1, <3>2 DEF ttisfport
      <4>2. FILE[q] # "open" /\ FILE[q] # "closed twice" BY <4>1 DEF FilesFollowPorts, ttisfport
      <4>3. QED BY <2>1, <3>2, <4>2, <1>3, <1>4, <1>6
    <3>3. QED BY <3>1, <3>2
  <2>2. CASE q # p BY <2>2, <1>4, <1>6 DEF FilesFollowPorts, Live, ttisfport
  <2>3. QED BY <2>1, <2>2
<1>12. QED BY <1>5, <1>7, <1>10, <1>11 DEF PortsOK

\* The collector frees no port that is referred to, and closes the FILEs of those
\* it frees that are still open.
LEMMA CollectStep ==
    ASSUME PortsOK, FilesFollowPorts, NEW t \in Threads, Collect(t)
    PROVE  /\ PortsOK' /\ FilesFollowPorts' /\ LivePorts' = LivePorts \cap Roots
           /\ \A p \in LivePorts' : port'[p] = port[p]
<1> DEFINE dead == {p \in Ports : Live(p)} \ Roots
           fs == {p \in dead \ Standard : ttisfport(p) /\ port[p].open}
<1>1. /\ port' = [p \in Ports |-> IF p \in dead THEN None ELSE port[p]]
      /\ FILE' = fclosed(fs)
    BY DEF Collect
<1>2. \A p \in Ports : port'[p] = IF p \in dead THEN None ELSE port[p] BY <1>1
<1>3. \A q \in Ports : FILE'[q] = IF q \notin fs THEN FILE[q]
                                  ELSE IF FILE[q] = "open" THEN "closed" ELSE "closed twice"
    BY <1>1 DEF fclosed
<1>4. PortsOK' BY <1>1, <1>3 DEF PortsOK, fclosed
<1>5. LivePorts' = LivePorts \cap Roots BY <1>2 DEF LivePorts, Live
<1>6. \A q \in fs : FILE[q] = "open" BY DEF FilesFollowPorts
<1>7. FilesFollowPorts'
  <2> SUFFICES ASSUME NEW q \in Ports \ Standard
               PROVE  /\ FILE'[q] = "open" <=> port'[q] # None /\ port'[q].kind \in {"file", "binary-file"} /\ port'[q].open
                      /\ FILE'[q] # "closed twice"
      BY DEF FilesFollowPorts, Live, ttisfport
  <2>1. CASE q \in fs BY <2>1, <1>2, <1>3, <1>6
  <2>2. CASE q \in dead \ fs
    <3>1. ~ (port[q].kind \in {"file", "binary-file"} /\ port[q].open) BY <2>2 DEF ttisfport
    <3>2. QED BY <2>2, <3>1, <1>2, <1>3 DEF FilesFollowPorts, ttisfport
  <2>3. CASE q \notin dead BY <2>3, <1>2, <1>3 DEF FilesFollowPorts, Live, ttisfport
  <2>4. QED BY <2>1, <2>2, <2>3
<1>8. \A p \in LivePorts' : port'[p] = port[p] BY <1>2, <1>5 DEF LivePorts
<1>9. QED BY <1>4, <1>5, <1>7, <1>8

-----------------------------------------------------------------------------
(***************************************************************************)
(* What is referred to is not freed.                                       *)
(***************************************************************************)
LEMMA RefersMore ==
    ASSUME NEW L, NEW M, L \subseteq M, RefersTo(L)
    PROVE  RefersTo(M)
<1>1. Seq(FrameRecords(L)) \subseteq Seq(FrameRecords(M)) BY FramesGrow
<1>2. QED BY <1>1 DEF RefersTo

\* The C function goes on, or leaves its registers.
LEMMA ProceedStep ==
    ASSUME NEW L, RefersTo(L), PcOK, NEW t \in Threads, NEW c, Proceed(t, c),
           UNCHANGED <<key, program, curr_port>>
    PROVE  RefersTo(L)' /\ PcOK'
<1>1. Return(t) \/ \E w, m : Continue(t, w, m)
    BY DEF Proceed
<1>2. \/ pc' = [pc EXCEPT ![t] = "program"] /\ ptree' = [ptree EXCEPT ![t] = None]
      \/ pc' = [pc EXCEPT ![t] = "call"] /\ UNCHANGED ptree
    BY <1>1 DEF Return, Continue
<1>3. ptree' \in [Threads -> L \cup {None}] BY <1>2 DEF RefersTo
<1>4. PcOK' BY <1>2 DEF PcOK, RefersTo
<1>5. UNCHANGED <<key, held, frames, saved, curr_port>> BY DEF program
<1>6. QED BY <1>3, <1>4, <1>5 DEF RefersTo

LEMMA ThrowStep ==
    ASSUME NEW L, RefersTo(L), PcOK, NEW t \in Threads, Throw(t),
           held' \in [Threads -> SUBSET L], UNCHANGED <<saved, curr_port>>
    PROVE  RefersTo(L)' /\ PcOK'
<1>1. /\ pc' = [pc EXCEPT ![t] = "program"] /\ ptree' = [ptree EXCEPT ![t] = None]
      /\ frames' = [frames EXCEPT ![t] = <<>>] /\ key' = Left(key, frames[t])
    BY DEF Throw, Return
<1>2. key' \in [Directions -> L] BY <1>1, LeftAndEntered DEF RefersTo
<1>3. <<>> \in Seq(FrameRecords(L)) OBVIOUS
<1>4. QED BY <1>1, <1>2, <1>3 DEF RefersTo, PcOK

LEMMA UsableAreLive ==
    ASSUME NEW L, RefersTo(L)
    PROVE  Usable \subseteq L /\ key.input \in L /\ key.output \in L
BY DEF Usable, Held, RefersTo, Directions

\* The collector spares all of it.
LEMMA RootsCover ==
    ASSUME NEW L, RefersTo(L), PcOK
    PROVE  RefersTo(L \cap Roots)
<1>1. \A t \in Threads : held[t] \cup FrameRoots(t) \cup Registers(t) \subseteq Roots
    BY DEF Roots
<1>2. key \in [Directions -> L \cap Roots] BY DEF RefersTo, Roots, Directions
<1>3. held \in [Threads -> SUBSET (L \cap Roots)] BY <1>1 DEF RefersTo
<1>4. ASSUME NEW t \in Threads
      PROVE  /\ frames[t] \in Seq(FrameRecords(L \cap Roots))
             /\ saved[t] \in Seq(FrameRecords(L \cap Roots)) \cup {None}
  <2>1. FramePorts(frames[t]) \subseteq Roots BY <1>1 DEF FrameRoots
  <2>2. saved[t] # None => FramePorts(saved[t]) \subseteq Roots BY <1>1 DEF FrameRoots
  <2>3. frames[t] \in Seq(FrameRecords(L)) BY DEF RefersTo
  <2>4. saved[t] # None => saved[t] \in Seq(FrameRecords(L)) BY DEF RefersTo
  <2>5. frames[t] \in Seq(FrameRecords(L \cap Roots)) BY <2>1, <2>3, PortsOfFrames
  <2>6. saved[t] # None => saved[t] \in Seq(FrameRecords(L \cap Roots))
      BY <2>2, <2>4, PortsOfFrames
  <2>7. QED BY <2>5, <2>6
<1>5. curr_port \in [Threads -> (L \cap Roots) \cup {None}] BY <1>1 DEF RefersTo, Registers
<1>6. ASSUME NEW t \in Threads PROVE ptree[t] \in (L \cap Roots) \cup {None}
    BY <1>1 DEF RefersTo, Registers, PcOK
<1>7. QED BY <1>2, <1>3, <1>4, <1>5, <1>6 DEF RefersTo

LEMMA Initially == Init => IInv
<1> SUFFICES ASSUME Init PROVE IInv OBVIOUS
<1> USE PortsAssumption, NoneAssumption
<1>1. Port("file", "input") \in PortRecords /\ Port("file", "output") \in PortRecords
    BY DEF Port, PortRecords
<1>2. /\ port[Stdin] = Port("file", "input") /\ port[Stdout] = Port("file", "output")
      /\ \A p \in Ports \ Standard : port[p] = None /\ FILE[p] = "none"
    BY DEF Init, Standard
<1>3. PortsOK
  <2>1. port \in [Ports -> PortRecords \cup {None}] BY <1>1 DEF Init
  <2>2. QED BY <2>1 DEF PortsOK, Init
<1>4. FilesFollowPorts BY <1>2 DEF FilesFollowPorts, Live
<1>5. Stdin \in LivePorts /\ Stdout \in LivePorts BY <1>1, <1>2 DEF LivePorts, Live
<1>6. key \in [Directions -> LivePorts] BY <1>5 DEF Init, Directions
<1>7. \A S : <<>> \in Seq(S) OBVIOUS
<1>8. RefersTo(LivePorts) BY <1>6, <1>7 DEF RefersTo, Init
<1>9. PcOK BY DEF PcOK, Init
<1>10. QED BY <1>3, <1>4, <1>8, <1>9 DEF IInv, Mentioned

LEMMA OpenStep ==
    ASSUME IInv, NEW t \in Threads, NEW p \in Ports \ Standard, NEW dir \in Directions,
           \/ \E kind \in Kinds : Open(t, p, kind, dir)
           \/ with_file(t, p, dir)
           \/ call_with_file(t, p, dir)
    PROVE  IInv'
<1>1. PICK kind \in Kinds \cup {"file"} : Make(p, kind, dir)
    BY DEF Open, with_file, call_with_file
<1>2. PortsOK' /\ FilesFollowPorts' /\ LivePorts' = LivePorts \cup {p}
    BY <1>1, MakeStep DEF IInv
<1>3. PICK L : L = LivePorts' OBVIOUS
<1>4. RefersTo(L) BY <1>2, <1>3, RefersMore DEF IInv, Mentioned
<1>5. p \in L BY <1>2, <1>3
<1>6. UNCHANGED <<pc, curr_port, ptree, saved>>
    BY DEF Open, with_file, call_with_file, call, local
<1>7. PcOK' BY <1>6 DEF PcOK, IInv
<1>8. \A binds \in BOOLEAN : Frame(p, dir, binds) \in FrameRecords(L)
    BY <1>4, <1>5 DEF Frame, FrameRecords, RefersTo
<1>9. \A binds \in BOOLEAN : Append(frames[t], Frame(p, dir, binds)) \in Seq(FrameRecords(L))
    BY <1>4, <1>8, FramesStep DEF RefersTo
<1>10. RefersTo(L)'
  <2>1. CASE \E k \in Kinds : Open(t, p, k, dir)
    <3>1. held' = [held EXCEPT ![t] = @ \cup {p}] /\ UNCHANGED <<key, frames>> BY <2>1 DEF Open
    <3>2. QED BY <3>1, <1>4, <1>5, <1>6 DEF RefersTo
  <2>2. CASE with_file(t, p, dir)
    <3>1. /\ frames' = [frames EXCEPT ![t] = Append(@, Frame(p, dir, TRUE))]
          /\ key' = [key EXCEPT ![dir] = p] /\ UNCHANGED held
        BY <2>2 DEF with_file
    <3>2. frames' \in [Threads -> Seq(FrameRecords(L))] BY <3>1, <1>4, <1>9 DEF RefersTo
    <3>3. key' \in [Directions -> L] BY <3>1, <1>4, <1>5 DEF RefersTo
    <3>4. QED BY <3>1, <3>2, <3>3, <1>4, <1>6 DEF RefersTo
  <2>3. CASE call_with_file(t, p, dir)
    <3>1. /\ frames' = [frames EXCEPT ![t] = Append(@, Frame(p, dir, FALSE))]
          /\ held' = [held EXCEPT ![t] = @ \cup {p}] /\ UNCHANGED key
        BY <2>3 DEF call_with_file
    <3>2. frames' \in [Threads -> Seq(FrameRecords(L))] BY <3>1, <1>4, <1>9 DEF RefersTo
    <3>3. held' \in [Threads -> SUBSET L] BY <3>1, <1>4, <1>5 DEF RefersTo
    <3>4. QED BY <3>1, <3>2, <3>3, <1>4, <1>6 DEF RefersTo
  <2>4. QED BY <2>1, <2>2, <2>3
<1>11. Mentioned' BY <1>3, <1>10 DEF Mentioned
<1>12. QED BY <1>2, <1>7, <1>11 DEF IInv

LEMMA ClosePortStep ==
    ASSUME IInv, NEW t \in Threads, NEW p \in Usable,
           NEW dir \in Directions \cup {None}, close_port(t, p, dir)
    PROVE  IInv'
<1>1. PICK L : L = LivePorts OBVIOUS
<1>2. RefersTo(L) BY <1>1 DEF IInv, Mentioned
<1>3. p \in L BY <1>2, UsableAreLive
<1>4. UNCHANGED <<held, saved, curr_port>> BY DEF close_port
<1>5. CASE kclose_port(p) /\ UNCHANGED <<frames, key, pc, gil, local>>
  <2>1. PortsOK' /\ FilesFollowPorts' /\ LivePorts' = L BY <1>1, <1>3, <1>5, CloseStep DEF IInv
  <2>2. UNCHANGED <<key, held, frames, saved, curr_port, ptree, pc>> BY <1>4, <1>5 DEF local
  <2>3. RefersTo(L)' BY <1>2, <2>2 DEF RefersTo
  <2>4. PcOK' BY <2>2 DEF PcOK, IInv
  <2>5. QED BY <2>1, <2>3, <2>4 DEF IInv, Mentioned
<1>6. CASE Throw(t) /\ UNCHANGED <<port, FILE, rest, taken>>
  <2>1. PortsOK' /\ FilesFollowPorts' /\ LivePorts' = L BY <1>1, <1>6, Unchanged DEF IInv
  <2>2. held' \in [Threads -> SUBSET L] BY <1>2, <1>4 DEF RefersTo
  <2>3. RefersTo(L)' /\ PcOK' BY <1>2, <1>4, <1>6, <2>2, ThrowStep DEF IInv
  <2>4. QED BY <2>1, <2>3 DEF IInv, Mentioned
<1>7. QED BY <1>5, <1>6 DEF close_port

LEMMA ExtentStep ==
    ASSUME IInv, NEW t \in Threads, do_close_file_ret(t) \/ Capture(t) \/ Reenter(t) \/ Forget(t)
    PROVE  IInv'
<1>1. PICK L : L = LivePorts OBVIOUS
<1>2. RefersTo(L) BY <1>1 DEF IInv, Mentioned
<1>3. frames[t] \in Seq(FrameRecords(L)) /\ key \in [Directions -> L] BY <1>2 DEF RefersTo
<1>4. CASE do_close_file_ret(t)
  <2>1. /\ frames[t] # <<>> /\ kclose_port(Last(frames[t]).port)
        /\ key' = Left(key, <<Last(frames[t])>>) /\ frames' = [frames EXCEPT ![t] = Front(@)]
        /\ UNCHANGED <<pc, held, saved, curr_port, ptree>>
      BY <1>4 DEF do_close_file_ret, call, local
  <2>2. /\ Last(frames[t]).port \in L /\ Front(frames[t]) \in Seq(FrameRecords(L))
        /\ <<Last(frames[t])>> \in Seq(FrameRecords(L))
    <3>1. Last(frames[t]) \in FrameRecords(L) BY <1>3, <2>1, FramesStep
    <3>2. QED BY <3>1, <1>3, <2>1, FramesStep DEF FrameRecords
  <2>3. PortsOK' /\ FilesFollowPorts' /\ LivePorts' = L
      BY <1>1, <2>1, <2>2, CloseStep DEF IInv
  <2>4. key' \in [Directions -> L] BY <1>3, <2>1, <2>2, LeftAndEntered
  <2>5. RefersTo(L)' BY <1>2, <2>1, <2>2, <2>4 DEF RefersTo
  <2>6. PcOK' BY <2>1 DEF PcOK, IInv
  <2>7. QED BY <2>3, <2>5, <2>6 DEF IInv, Mentioned
<1>5. CASE Capture(t) \/ Reenter(t) \/ Forget(t)
  <2>1. UNCHANGED <<port, FILE, pc, curr_port, ptree>>
      BY <1>5 DEF Capture, Reenter, Forget, ports, call, local
  <2>2. PortsOK' /\ FilesFollowPorts' /\ LivePorts' = L BY <1>1, <2>1, Unchanged DEF IInv
  <2>3. PcOK' BY <2>1 DEF PcOK, IInv
  <2>4. RefersTo(L)'
    <3>1. CASE Capture(t)
      <4>1. saved' = [saved EXCEPT ![t] = frames[t]] /\ UNCHANGED <<key, held, frames>>
          BY <3>1 DEF Capture, ports
      <4>2. QED BY <4>1, <1>2, <1>3, <2>1 DEF RefersTo
    <3>2. CASE Reenter(t)
      <4> DEFINE n == Common(frames[t], saved[t])
      <4>1. /\ saved[t] # None /\ frames' = [frames EXCEPT ![t] = saved[t]]
            /\ UNCHANGED <<held, saved>>
            /\ key' = Entered(Left(key, SubSeq(frames[t], n + 1, Len(frames[t]))),
                              SubSeq(saved[t], n + 1, Len(saved[t])))
          BY <3>2 DEF Reenter
      <4>2. saved[t] \in Seq(FrameRecords(L)) BY <1>2, <4>1 DEF RefersTo
      <4>3. n \in Nat BY <1>3, <4>2, CommonInRange
      <4>4. /\ SubSeq(frames[t], n + 1, Len(frames[t])) \in Seq(FrameRecords(L))
            /\ SubSeq(saved[t], n + 1, Len(saved[t])) \in Seq(FrameRecords(L))
          BY <1>3, <4>2, <4>3, RestOfFrames
      <4> HIDE DEF n
      <4>5. key' \in [Directions -> L]
        <5>1. Left(key, SubSeq(frames[t], n + 1, Len(frames[t]))) \in [Directions -> L]
            BY <1>3, <4>4, LeftAndEntered
        <5>2. QED BY <5>1, <4>1, <4>4, LeftAndEntered
      <4>6. QED BY <4>1, <4>2, <4>5, <1>2, <2>1 DEF RefersTo
    <3>3. CASE Forget(t)
      <4>1. /\ held' = held \/ \E p \in held[t] : held' = [held EXCEPT ![t] = @ \ {p}]
            /\ saved' = saved \/ saved' = [saved EXCEPT ![t] = None]
            /\ UNCHANGED <<key, frames>>
          BY <3>3 DEF Forget, ports
      <4>2. held' \in [Threads -> SUBSET L] BY <4>1, <1>2 DEF RefersTo
      <4>3. QED BY <4>1, <4>2, <1>2, <2>1 DEF RefersTo
    <3>4. QED BY <1>5, <3>1, <3>2, <3>3
  <2>5. QED BY <2>2, <2>3, <2>4 DEF IInv, Mentioned
<1>6. QED BY <1>4, <1>5

LEMMA StartStep ==
    ASSUME IInv, NEW t \in Threads, NEW o \in Operations, NEW binary, NEW p \in Usable,
           NEW given, NEW last, Start(t, o, binary, p, given, last)
    PROVE  IInv'
<1>1. PICK L : L = LivePorts OBVIOUS
<1>2. RefersTo(L) BY <1>1 DEF IInv, Mentioned
<1>3. p \in L BY <1>2, UsableAreLive
<1>4. UNCHANGED <<port, FILE, saved>> /\ held' = [held EXCEPT ![t] = IF last THEN @ \ {p} ELSE @]
    BY DEF Start
<1>5. PortsOK' /\ FilesFollowPorts' /\ LivePorts' = L BY <1>1, <1>4, Unchanged DEF IInv
<1>6. held' \in [Threads -> SUBSET L] BY <1>2, <1>4 DEF RefersTo
<1>7. CASE Fits(p, o, binary)
  <2>1. /\ curr_port' = [curr_port EXCEPT ![t] = p]
        /\ ptree' = [ptree EXCEPT ![t] = IF given THEN p ELSE None]
        /\ pc' = [pc EXCEPT ![t] = "call"] /\ UNCHANGED <<frames, key>>
      BY <1>7 DEF Start, Switch
  <2>2. RefersTo(L)' BY <1>2, <1>3, <1>4, <1>6, <2>1 DEF RefersTo
  <2>3. PcOK' BY <1>2, <2>1 DEF PcOK, IInv, RefersTo
  <2>4. QED BY <1>5, <2>2, <2>3 DEF IInv, Mentioned
<1>8. CASE ~Fits(p, o, binary)
  <2>1. Throw(t) /\ UNCHANGED curr_port BY <1>8 DEF Start
  <2>2. RefersTo(L)' /\ PcOK' BY <1>2, <1>4, <1>6, <2>1, ThrowStep DEF IInv
  <2>3. QED BY <1>5, <2>2 DEF IInv, Mentioned
<1>9. QED BY <1>7, <1>8

LEMMA CallStep ==
    ASSUME IInv, NEW t \in Threads,
           \/ GetEOF(t) \/ GetFromMemory(t) \/ PutInMemory(t)
           \/ Unlock(t) \/ OS(t) \/ Lock(t) \/ LockAfterError(t)
    PROVE  IInv'
<1>1. PICK L : L = LivePorts OBVIOUS
<1>2. RefersTo(L) BY <1>1 DEF IInv, Mentioned
<1>3. UNCHANGED <<port, FILE, saved, curr_port>>
    BY DEF GetEOF, GetFromMemory, PutInMemory, Unlock, OS, Lock, LockAfterError,
           ports, program, call
<1>4. PortsOK' /\ FilesFollowPorts' /\ LivePorts' = L BY <1>1, <1>3, Unchanged DEF IInv
<1>5. CASE \E c : Proceed(t, c) /\ UNCHANGED <<key, program, curr_port>>
  <2>1. RefersTo(L)' /\ PcOK' BY <1>2, <1>5, ProceedStep DEF IInv
  <2>2. QED BY <1>4, <2>1 DEF IInv, Mentioned
<1>6. CASE Unlock(t) \/ OS(t)
  <2>1. /\ pc' = [pc EXCEPT ![t] = "os"] \/ pc' = [pc EXCEPT ![t] = "back"]
        /\ UNCHANGED <<key, held, frames, ptree>>
      BY <1>6 DEF Unlock, OS, ports, program, call, local
  <2>2. RefersTo(L)' BY <1>2, <1>3, <2>1 DEF RefersTo
  <2>3. PcOK' BY <1>2, <2>1 DEF PcOK, IInv, RefersTo
  <2>4. QED BY <1>4, <2>2, <2>3 DEF IInv, Mentioned
<1>7. CASE LockAfterError(t)
  <2>1. Throw(t) /\ UNCHANGED held BY <1>7 DEF LockAfterError
  <2>2. held' \in [Threads -> SUBSET L] BY <1>2, <2>1 DEF RefersTo
  <2>3. RefersTo(L)' /\ PcOK' BY <1>2, <1>3, <2>1, <2>2, ThrowStep DEF IInv
  <2>4. QED BY <1>4, <2>3 DEF IInv, Mentioned
<1>8. CASE GetEOF(t) \/ GetFromMemory(t) \/ PutInMemory(t) \/ Lock(t)
  <2>1. \E c : Proceed(t, c)
      BY <1>8 DEF GetEOF, GetFromMemory, PutInMemory, Lock
  <2>2. UNCHANGED <<key, program, curr_port>>
      BY <1>8 DEF GetEOF, GetFromMemory, PutInMemory, Lock, ports
  <2>3. QED BY <1>5, <2>1, <2>2
<1>9. QED BY <1>6, <1>7, <1>8

LEMMA CollectKeeps ==
    ASSUME IInv, NEW t \in Threads, Collect(t)
    PROVE  IInv'
<1>1. PICK L : L = LivePorts' OBVIOUS
<1>2. PortsOK' /\ FilesFollowPorts' /\ L = LivePorts \cap Roots
    BY <1>1, CollectStep DEF IInv
<1>3. RefersTo(L) BY <1>2, RootsCover DEF IInv, Mentioned
<1>4. UNCHANGED <<key, held, frames, saved, curr_port, ptree, pc>>
    BY DEF Collect, program, call, local
<1>5. RefersTo(L)' BY <1>3, <1>4 DEF RefersTo
<1>6. PcOK' BY <1>4 DEF PcOK, IInv
<1>7. QED BY <1>1, <1>2, <1>5, <1>6 DEF IInv, Mentioned

LEMMA Step == IInv /\ [Next]_vars => IInv'
<1> SUFFICES ASSUME IInv, [Next]_vars PROVE IInv' OBVIOUS
<1> USE PortsAssumption
<1>1. ASSUME NEW t \in PortUsers, Use(t) PROVE IInv'
  <2>1. t \in Threads OBVIOUS
  <2>2. ASSUME NEW p \in Ports \ Standard, NEW dir \in {"input", "output"},
               \/ \E kind \in Kinds : Open(t, p, kind, dir)
               \/ with_file(t, p, dir)
               \/ call_with_file(t, p, dir)
        PROVE  IInv'
      BY <2>1, <2>2, OpenStep DEF Directions
  <2>3. ASSUME NEW p \in Usable, NEW dir \in {"input", "output", None}, close_port(t, p, dir)
        PROVE  IInv'
      BY <2>1, <2>3, ClosePortStep DEF Directions
  <2>4. CASE do_close_file_ret(t) \/ Capture(t) \/ Reenter(t) \/ Forget(t)
      BY <2>1, <2>4, ExtentStep
  <2>5. ASSUME NEW o \in Operations, NEW binary \in BOOLEAN,
               \/ \E p \in Held, last \in BOOLEAN : Start(t, o, binary, p, TRUE, last)
               \/ Start(t, o, binary, key[Direction(o)], FALSE, FALSE)
        PROVE  IInv'
    <3>1. key[Direction(o)] \in Usable /\ Held \subseteq Usable BY DEF Direction, Usable
    <3>2. QED BY <2>1, <2>5, <3>1, StartStep
  <2>6. CASE \/ GetEOF(t) \/ GetFromMemory(t) \/ PutInMemory(t)
             \/ Unlock(t) \/ OS(t) \/ Lock(t) \/ LockAfterError(t)
      BY <2>1, <2>6, CallStep
  <2>7. QED BY <1>1, <2>2, <2>3, <2>4, <2>5, <2>6 DEF Use
<1>2. ASSUME NEW t \in Threads, Collect(t) PROVE IInv' BY <1>2, CollectKeeps
<1>3. CASE UNCHANGED vars
  <2>1. PortsOK' /\ FilesFollowPorts' /\ LivePorts' = LivePorts
      BY <1>3, Unchanged DEF IInv, vars
  <2>2. PICK L : L = LivePorts OBVIOUS
  <2>3. RefersTo(L)' BY <1>3, <2>2 DEF RefersTo, IInv, Mentioned, vars
  <2>4. PcOK' BY <1>3 DEF PcOK, IInv, vars
  <2>5. QED BY <2>1, <2>2, <2>3, <2>4 DEF IInv, Mentioned
<1>4. QED BY <1>1, <1>2, <1>3 DEF Next

\* Each FILE is open as long as its port is and is closed exactly once, however
\* programs, extents, errors, captured continuations and the collector close ports
\* (kclose_port in kport.c, sweepobj in kgc.c), for any number of threads, those
\* included that close the port another one is reading.
THEOREM FileSafety == Spec => []FilesFollowPorts
<1>1. IInv => FilesFollowPorts BY DEF IInv
<1>2. QED BY <1>1, Initially, Step, PTL DEF Spec

-----------------------------------------------------------------------------
(***************************************************************************)
(* The buffer of a memory port.                                            *)
(***************************************************************************)
LEMMA DoublingExists ==
    ASSUME NEW min \in Nat
    PROVE  \E d : d = [s \in Nat \ {0} |-> IF s >= min THEN s ELSE d[2 * s]]
<1> DEFINE H(k, g) == \A s \in Nat \ {0} : s + k >= min => g[s] = IF s >= min THEN s ELSE g[2 * s]
<1> DEFINE S == {k \in Nat : \E g \in [Nat \ {0} -> Nat \ {0}] : H(k, g)}
<1>1. 0 \in S
  <2>1. [s \in Nat \ {0} |-> s] \in [Nat \ {0} -> Nat \ {0}] OBVIOUS
  <2>2. H(0, [s \in Nat \ {0} |-> s]) OBVIOUS
  <2>3. QED BY <2>1, <2>2
<1>2. ASSUME NEW k \in Nat, k \in S PROVE k + 1 \in S
  <2>1. PICK g \in [Nat \ {0} -> Nat \ {0}] : H(k, g) BY <1>2
  <2> DEFINE h == [s \in Nat \ {0} |-> IF s >= min THEN s ELSE g[2 * s]]
  <2>2. \A s \in Nat \ {0} : 2 * s \in Nat \ {0} /\ 2 * s >= s + 1 OBVIOUS
  <2>3. h \in [Nat \ {0} -> Nat \ {0}] BY <2>2
  <2>4. ASSUME NEW s \in Nat \ {0}, s + (k + 1) >= min, ~ (s >= min)
        PROVE  h[s] = h[2 * s]
    <3>1. 2 * s + k >= min BY <2>2, <2>4
    <3>2. g[2 * s] = IF 2 * s >= min THEN 2 * s ELSE g[2 * (2 * s)] BY <3>1, <2>1, <2>2
    <3>3. QED BY <3>2, <2>2, <2>4
  <2>5. H(k + 1, h)
    <3>1. ASSUME NEW s \in Nat \ {0}, s + (k + 1) >= min
          PROVE  h[s] = IF s >= min THEN s ELSE h[2 * s]
      <4>1. CASE s >= min BY <4>1
      <4>2. CASE ~ (s >= min) BY <4>2, <2>4, <3>1
      <4>3. QED BY <4>1, <4>2
    <3> HIDE DEF h
    <3>2. QED BY <3>1
  <2> HIDE DEF h, H
  <2>6. \E f \in [Nat \ {0} -> Nat \ {0}] : H(k + 1, f) BY <2>3, <2>5
  <2>7. QED BY <2>6
<1>3. min \in S
  <2> HIDE DEF S
  <2>1. Nat \subseteq S BY <1>1, <1>2, NatSetInduction, Zenon
  <2>2. QED BY <2>1
<1>4. PICK g \in [Nat \ {0} -> Nat \ {0}] : H(min, g) BY <1>3
<1>5. \A s \in Nat \ {0} : s + min >= min OBVIOUS
<1>6. g = [s \in Nat \ {0} |-> IF s >= min THEN s ELSE g[2 * s]] BY <1>4, <1>5
<1>7. QED BY <1>6

LEMMA DoubledEnough ==
    ASSUME NEW min \in Nat, NEW size \in Nat \ {0}
    PROVE  Doubled(size, min) \in Nat \ {0} /\ Doubled(size, min) >= min /\ Doubled(size, min) >= size
<1> DEFINE d == CHOOSE d : d = [s \in Nat \ {0} |-> IF s >= min THEN s ELSE d[2 * s]]
<1>1. d = [s \in Nat \ {0} |-> IF s >= min THEN s ELSE d[2 * s]] BY DoublingExists, Zenon
<1>2. Doubled(size, min) = d[size] BY DEF Doubled
<1> DEFINE S == {k \in Nat : \A s \in Nat \ {0} : s + k >= min => d[s] \in Nat \ {0} /\ d[s] >= min /\ d[s] >= s}
<1> HIDE DEF d
<1>3. 0 \in S BY <1>1
<1>4. ASSUME NEW k \in Nat, k \in S PROVE k + 1 \in S
  <2>1. ASSUME NEW s \in Nat \ {0}, s + (k + 1) >= min, ~ (s >= min)
        PROVE  d[s] \in Nat \ {0} /\ d[s] >= min /\ d[s] >= s
    <3>1. 2 * s \in Nat \ {0} /\ 2 * s + k >= min /\ 2 * s >= s BY <2>1
    <3>2. d[s] = d[2 * s] BY <1>1, <2>1
    <3>3. QED BY <3>1, <3>2, <1>4
  <2>2. ASSUME NEW s \in Nat \ {0}, s >= min
        PROVE  d[s] \in Nat \ {0} /\ d[s] >= min /\ d[s] >= s
    BY <1>1, <2>2
  <2>3. QED BY <2>1, <2>2
<1>5. min \in S
  <2> HIDE DEF S
  <2>1. Nat \subseteq S BY <1>3, <1>4, NatSetInduction, Zenon
  <2>2. QED BY <2>1
<1>6. QED BY <1>2, <1>5

\* kmport_resize_buffer keeps what was written, and there is room after it.
LEMMA ResizedFacts ==
    ASSUME NEW C, None \in C, NEW b \in Seq(C), Len(b) > 0, NEW o \in Nat, o <= Len(b)
    PROVE  /\ Resized(b, o, o + 1) \in Seq(C)
           /\ Len(Resized(b, o, o + 1)) >= o + 1
           /\ \A i \in 1 .. o : Resized(b, o, o + 1)[i] = b[i]
<1>1. Len(b) \in Nat \ {0} BY LenProperties
<1>2. CASE o + 1 <= Len(b) BY <1>1, <1>2 DEF Resized
<1>3. CASE ~ (o + 1 <= Len(b))
  <2>1. o = Len(b) BY <1>1, <1>3
  <2>2. PICK n : n = Doubled(Len(b), o + 1) OBVIOUS
  <2>3. n \in Nat /\ n >= o + 1 BY <1>1, <2>2, DoubledEnough
  <2>4. PICK k \in Nat : k = n - o BY <2>3
  <2>5. Resized(b, o, o + 1) = SubSeq(b, 1, o) \o Junk(k)
      BY <1>3, <2>2, <2>4 DEF Resized
  <2>6. SubSeq(b, 1, o) = b BY <2>1, SubSeqFull
  <2>7. PICK j : j = Junk(k) OBVIOUS
  <2>8. j \in Seq(C) /\ Len(j) = k BY <2>7 DEF Junk
  <2>9. /\ b \o j \in Seq(C) /\ Len(b \o j) = Len(b) + k
        /\ \A i \in 1 .. Len(b) + k : (b \o j)[i] = IF i <= Len(b) THEN b[i] ELSE j[i - Len(b)]
      BY <2>8, ConcatProperties
  <2>10. \A i \in 1 .. o : (b \o j)[i] = b[i] BY <1>1, <2>1, <2>4, <2>9
  <2>11. Len(b \o j) = n BY <2>1, <2>3, <2>4, <2>9
  <2>12. Resized(b, o, o + 1) = b \o j BY <2>5, <2>6, <2>7
  <2>13. QED BY <2>3, <2>9, <2>10, <2>11, <2>12
<1>4. QED BY <1>2, <1>3

\* A character is put after what was written.
LEMMA PutFacts ==
    ASSUME NEW C, NEW b \in Seq(C), NEW o \in Nat, o <= Len(b),
           NEW w, SubSeq(b, 1, o) = w, NEW c \in C,
           NEW z \in Seq(C), Len(z) >= o + 1, \A i \in 1 .. o : z[i] = b[i],
           NEW r, r = [z EXCEPT ![o + 1] = c]
    PROVE  r \in Seq(C) /\ Len(r) >= o + 1 /\ SubSeq(r, 1, o + 1) = Append(w, c)
<1>1. Len(z) \in Nat /\ o + 1 \in 1 .. Len(z) BY LenProperties
<1>2. /\ r \in Seq(C) /\ Len(r) = Len(z)
      /\ \A j \in 1 .. Len(z) : r[j] = IF j = o + 1 THEN c ELSE z[j]
  <2>1. /\ [z EXCEPT ![o + 1] = c] \in Seq(C) /\ Len([z EXCEPT ![o + 1] = c]) = Len(z)
        /\ \A j \in 1 .. Len(z) : [z EXCEPT ![o + 1] = c][j] = IF j = o + 1 THEN c ELSE z[j]
      BY <1>1, ExceptSeq
  <2>2. QED BY <2>1
<1>3. \A i \in 1 .. o + 1 : r[i] \in C BY <1>1, <1>2, ElementOfSeq
<1>4. PICK m \in Nat : m = o + 1 OBVIOUS
<1>5. /\ SubSeq(r, 1, m) \in Seq(C) /\ Len(SubSeq(r, 1, m)) = m
      /\ \A i \in 1 .. m : SubSeq(r, 1, m)[i] = r[i]
    BY <1>3, <1>4, SubSeqProperties
<1>6. \A i \in 1 .. o : b[i] \in C BY LenProperties, ElementOfSeq
<1>7. w \in Seq(C) /\ Len(w) = o /\ \A i \in 1 .. o : w[i] = b[i]
    BY <1>6, SubSeqProperties
<1>8. /\ Append(w, c) \in Seq(C) /\ Len(Append(w, c)) = o + 1
      /\ \A i \in 1 .. o + 1 : Append(w, c)[i] = IF i = o + 1 THEN c ELSE w[i]
    BY <1>7
<1>9. \A i \in 1 .. m : SubSeq(r, 1, m)[i] = Append(w, c)[i]
    BY <1>1, <1>2, <1>4, <1>5, <1>7, <1>8
<1>10. SubSeq(r, 1, m) = Append(w, c)
    BY <1>4, <1>5, <1>8, <1>9, SeqEqual
<1>11. QED BY <1>1, <1>2, <1>4, <1>10

-----------------------------------------------------------------------------
(***************************************************************************)
(* What is read: a character moves from the rest to what was taken.        *)
(***************************************************************************)
LEMMA OnTheWay ==
    ASSUME NEW C, NEW s \in Seq(C), NEW r \in Seq(C), r # <<>>
    PROVE  (s \o <<Head(r)>>) \o Tail(r) = (s \o <<>>) \o r
<1>1. PICK h \in C, u \in Seq(C) : h = Head(r) /\ u = Tail(r) /\ <<h>> \o u = r
  <2>1. Head(r) \in C /\ Tail(r) \in Seq(C) /\ <<Head(r)>> \o Tail(r) = r OBVIOUS
  <2>2. QED BY <2>1
<1>2. <<h>> \in Seq(C) OBVIOUS
<1>3. (s \o <<h>>) \o u = s \o (<<h>> \o u) BY <1>2, ConcatAssociative
<1>4. s \o <<>> = s BY ConcatEmptySeq
<1>5. QED BY <1>1, <1>3, <1>4

LEMMA TakenOver ==
    ASSUME NEW C, NEW s \in Seq(C), NEW r \in Seq(C), NEW c \in C
    PROVE  (Append(s, c) \o <<>>) \o r = (s \o <<c>>) \o r
<1>1. Append(s, c) = s \o <<c>> /\ s \o <<c>> \in Seq(C) OBVIOUS
<1>2. (s \o <<c>>) \o <<>> = s \o <<c>> BY <1>1, ConcatEmptySeq
<1>3. QED BY <1>1, <1>2

LEMMA GivenBack ==
    ASSUME NEW C, NEW s \in Seq(C), NEW r \in Seq(C), NEW c \in C
    PROVE  (s \o <<>>) \o (<<c>> \o r) = (s \o <<c>>) \o r
<1>1. <<c>> \in Seq(C) OBVIOUS
<1>2. (s \o <<c>>) \o r = s \o (<<c>> \o r) BY <1>1, ConcatAssociative
<1>3. s \o <<>> = s BY ConcatEmptySeq
<1>4. QED BY <1>2, <1>3

-----------------------------------------------------------------------------
(***************************************************************************)
(* One thread that uses ports.                                             *)
(***************************************************************************)
LEMMA OthersIdle ==
    ASSUME OneUser, OthersOK, NEW t \in PortUsers
    PROVE  \A u \in Threads \ {t} : pc[u] = "program" /\ curr_port[u] = None /\ seen_eof[u] = FALSE
BY DEF OneUser, OthersOK

LEMMA LiveRecords ==
    ASSUME PortsOK, NEW p \in LivePorts
    PROVE  /\ p \in Ports /\ Live(p) /\ port[p] \in PortRecords
           /\ port[p].kind \in Kinds \cup {"file"} /\ port[p].dir \in Directions
BY DEF PortsOK, LivePorts, Live, PortRecords, Directions

\* All that can be read of any port: so it is when no character is on its way
\* from the OS to the thread.
AllWhole ==
    \A p \in Ports \ Standard :
        Live(p) /\ port[p].open /\ port[p].dir = "input" => Whole(p, <<>>)

LEMMA WholeBefore ==
    ASSUME CallsOK, ReadsOK,
           \A u \in Threads : pc[u] = "back" /\ want[u] \in {"get", "peek"} => chi[u] \notin Chars
    PROVE  AllWhole
<1> SUFFICES ASSUME NEW p \in Ports \ Standard, Live(p), port[p].open, port[p].dir = "input"
             PROVE  Whole(p, <<>>)
    BY DEF AllWhole
<1>1. CASE \A t \in Threads : curr_port[t] = p => pc[t] # "back" BY <1>1 DEF ReadsOK
<1>2. ASSUME NEW t \in Threads, curr_port[t] = p, pc[t] = "back" PROVE Whole(p, <<>>)
  <2>1. want[t] \in {"get", "peek"} BY <1>2 DEF CallsOK, Wants, Direction
  <2>2. chi[t] \notin Chars BY <1>2, <2>1
  <2>3. QED BY <1>2, <2>1, <2>2 DEF ReadsOK
<1>3. QED BY <1>1, <1>2

LEMMA WholeAfter ==
    ASSUME AllWhole', \A u \in Threads : pc'[u] # "back"
    PROVE  ReadsOK'
BY DEF AllWhole, ReadsOK

\* Nothing happens to the contents.
LEMMA SameContents ==
    ASSUME UserInv, UNCHANGED <<port, FILE, contents>>
    PROVE  /\ LivePorts' = LivePorts /\ ContentsOK' /\ BuffersOK'
           /\ AllWhole => AllWhole'
<1>1. LivePorts' = LivePorts BY DEF LivePorts, Live
<1>2. UNCHANGED <<port, rest, taken, buf, off, written>> BY DEF contents
<1>3. ContentsOK' BY <1>2 DEF UserInv, Data, ContentsOK, Live
<1>4. BuffersOK' BY <1>2 DEF UserInv, Data, BuffersOK, MemoryOutput, Live, ttisfport
<1>5. AllWhole => AllWhole' BY <1>2 DEF AllWhole, Whole, Live
<1>6. QED BY <1>1, <1>3, <1>4, <1>5

\* A thread ends its operation with an error.
LEMMA ThrowKeeps ==
    ASSUME OneUser, UserInv, NEW t \in PortUsers, Throw(t), AllWhole,
           UNCHANGED <<port, FILE, contents, saved, curr_port, seen_eof>>
    PROVE  Control' /\ Data'
<1> USE PortsAssumption
<1>1. t \in Threads OBVIOUS
<1>2. /\ pc' = [pc EXCEPT ![t] = "program"] /\ gil' = None
      /\ op' = [op EXCEPT ![t] = None] /\ want' = [want EXCEPT ![t] = None]
      /\ chi' = [chi EXCEPT ![t] = None]
      /\ frames' = [frames EXCEPT ![t] = <<>>]
    BY DEF Throw, Return
<1>3. \A u \in Threads : pc'[u] = "program"
    BY <1>2, OthersIdle DEF UserInv, Control, IInv, PcOK
<1>4. BoundsOK' BY <1>2 DEF UserInv, IInv, Control, BoundsOK, Mentioned, RefersTo
<1>5. OthersOK' BY <1>3 DEF UserInv, Control, OthersOK
<1>6. CallsOK' BY <1>2, <1>3 DEF UserInv, Control, CallsOK
<1>7. /\ LivePorts' = LivePorts /\ ContentsOK' /\ BuffersOK' /\ AllWhole'
    BY SameContents
<1>8. UNCHANGED rest BY DEF contents
<1>9. EndsOK' BY <1>3, <1>7, <1>8 DEF UserInv, Data, EndsOK, Outside
<1>10. ReadsOK' BY <1>3, <1>7, WholeAfter
<1>11. QED BY <1>4, <1>5, <1>6, <1>7, <1>9, <1>10 DEF Control, Data

\* No operation is under way, and none begins.
LEMMA IdleKeeps ==
    ASSUME OneUser, UserInv, NEW t \in PortUsers, pc[t] = "program", UNCHANGED <<gil, pc, call>>
    PROVE  /\ \A u \in Threads : pc[u] = "program" /\ pc'[u] = "program"
           /\ OthersOK' /\ CallsOK' /\ AllWhole
           /\ ContentsOK' /\ AllWhole' /\ BuffersOK'
              /\ (\A u \in Threads : seen_eof[u] =>
                    curr_port[u] \in LivePorts' /\ rest'[curr_port[u]] = <<>>)
              => Data'
<1>1. \A u \in Threads : pc[u] = "program" BY OthersIdle DEF UserInv, Control
<1>2. UNCHANGED <<gil, pc, op, want, chi, curr_port, seen_eof>> BY DEF call, local
<1>3. OthersOK' BY <1>2 DEF UserInv, Control, OthersOK
<1>4. CallsOK' BY <1>1, <1>2 DEF UserInv, Control, CallsOK
<1>5. AllWhole BY <1>1, WholeBefore DEF UserInv, Control, Data
<1>6. ASSUME ContentsOK', AllWhole', BuffersOK',
             \A u \in Threads : seen_eof[u] => curr_port[u] \in LivePorts' /\ rest'[curr_port[u]] = <<>>
      PROVE  Data'
  <2>1. ReadsOK' BY <1>1, <1>2, <1>6, WholeAfter
  <2>2. EndsOK' BY <1>1, <1>2, <1>6 DEF UserInv, Data, EndsOK, Outside
  <2>3. QED BY <1>6, <2>1, <2>2 DEF Data
<1>7. QED BY <1>1, <1>2, <1>3, <1>4, <1>5, <1>6

LEMMA OpenKeeps ==
    ASSUME OneUser, UserInv, NEW t \in PortUsers, NEW p \in Ports \ Standard, NEW dir \in Directions,
           \/ \E kind \in Kinds : Open(t, p, kind, dir)
           \/ with_file(t, p, dir)
           \/ call_with_file(t, p, dir)
    PROVE  Control' /\ Data'
<1> USE PortsAssumption
<1>1. PICK kind \in Kinds \cup {"file"} : Make(p, kind, dir)
    BY DEF Open, with_file, call_with_file
<1>2. LivePorts' = LivePorts \cup {p} /\ p \notin LivePorts
    BY <1>1, MakeStep DEF UserInv, IInv, LivePorts
<1>3. pc[t] = "program" /\ t \in Threads /\ UNCHANGED <<gil, pc, saved, call>>
    BY DEF Open, with_file, call_with_file, InProgram
<1>4. UNCHANGED <<curr_port, seen_eof>> BY <1>3 DEF call
<1>5. \A q \in Ports :
        /\ port'[q] = IF q = p THEN Port(kind, dir) ELSE port[q]
        /\ rest'[q] = IF q # p THEN rest[q] ELSE IF dir = "input" THEN Text ELSE <<>>
        /\ taken'[q] = IF q = p THEN <<>> ELSE taken[q]
        /\ buf'[q] = IF q # p THEN buf[q]
                     ELSE IF kind \in {"string", "bytevector"} /\ dir = "output" THEN Junk(Buffer) ELSE <<>>
        /\ off'[q] = IF q = p THEN 0 ELSE off[q]
        /\ written'[q] = IF q = p THEN <<>> ELSE written[q]
    BY <1>1 DEF Make, UserInv, IInv, PortsOK, Data, ContentsOK, BuffersOK
<1>6. /\ Port(kind, dir).kind = kind /\ Port(kind, dir).dir = dir
      /\ Port(kind, dir) # None
    <2>1. Port(kind, dir) \in PortRecords BY DEF Port, PortRecords, Directions
    <2>2. QED BY <2>1, NoneAssumption DEF Port
<1>7. AllWhole /\ OthersOK' /\ CallsOK' BY <1>3, IdleKeeps
<1>8. BoundsOK'
  <2>1. \A f : Len(Append(frames[t], f)) = Len(frames[t]) + 1 /\ Len(frames[t]) \in Nat
      BY <1>3 DEF UserInv, IInv, Mentioned, RefersTo
  <2>2. \A u \in Threads : Len(frames'[u]) <= MaxFrames
    <3>1. CASE UNCHANGED frames BY <3>1 DEF UserInv, Control, BoundsOK
    <3>2. ASSUME NEW f, frames' = [frames EXCEPT ![t] = Append(@, f)], Len(frames[t]) < MaxFrames
          PROVE  \A u \in Threads : Len(frames'[u]) <= MaxFrames
        BY <3>2, <2>1, <1>3 DEF UserInv, IInv, Mentioned, RefersTo, Control, BoundsOK
    <3>3. QED BY <3>1, <3>2 DEF Open, with_file, call_with_file
  <2>3. QED BY <2>2, <1>3 DEF UserInv, Control, BoundsOK
<1>9. ContentsOK'
  <2>1. rest' \in [Ports -> Seq(Chars)] /\ taken' \in [Ports -> Seq(Chars)]
    <3>1. Text \in Seq(Chars) /\ <<>> \in Seq(Chars) BY DEF Chars
    <3>2. QED BY <1>1, <3>1 DEF Make, UserInv, Data, ContentsOK
  <2>2. \A q \in Ports : q \in Standard \/ (Live(q)' /\ port'[q].dir = "output") => rest'[q] = <<>>
    BY <1>5, <1>6 DEF UserInv, Data, ContentsOK, Live
  <2>3. QED BY <2>1, <2>2 DEF ContentsOK, Live
<1>10. AllWhole'
  <2> SUFFICES ASSUME NEW q \in Ports \ Standard, Live(q)', port'[q].open, port'[q].dir = "input"
               PROVE  taken'[q] \o <<>> \o rest'[q] = Text
      BY DEF AllWhole, Whole
  <2>1. CASE q = p
    <3>1. taken'[q] = <<>> /\ rest'[q] = Text BY <2>1, <1>5, <1>6
    <3>2. \A u \in Seq(Chars) : (<<>> \o <<>>) \o u = u OBVIOUS
    <3>3. QED BY <3>1, <3>2 DEF Chars
  <2>2. CASE q # p BY <2>2, <1>5, <1>7 DEF AllWhole, Whole, Live
  <2>3. QED BY <2>1, <2>2
<1>11. BuffersOK'
  <2>1. Junk(Buffer) \in Seq(Chars \cup {None}) /\ Len(Junk(Buffer)) = Buffer BY DEF Junk
  <2>2. buf' \in [Ports -> Seq(Chars \cup {None})] /\ off' \in [Ports -> Nat] /\ written' \in [Ports -> Seq(Chars)]
      BY <1>1, <2>1 DEF Make, UserInv, Data, BuffersOK
  <2>3. SubSeq(Junk(Buffer), 1, 0) = <<>> BY SubSeqEmpty
  <2>4. ASSUME NEW q \in Ports, Live(q)'
        PROVE  IF MemoryOutput(q)'
               THEN /\ Len(buf'[q]) > 0 /\ off'[q] <= Len(buf'[q])
                    /\ SubSeq(buf'[q], 1, off'[q]) = written'[q]
               ELSE off'[q] = 0
    <3>1. CASE q = p
      <4>1. CASE MemoryOutput(q)'
        <5>1. dir = "output" /\ kind \in {"string", "bytevector"}
            BY <3>1, <4>1, <1>5, <1>6 DEF MemoryOutput, ttisfport
        <5>2. buf'[q] = Junk(Buffer) /\ off'[q] = 0 /\ written'[q] = <<>> BY <3>1, <5>1, <1>5
        <5>3. QED BY <4>1, <5>2, <2>1, <2>3
      <4>2. CASE ~MemoryOutput(q)' BY <3>1, <4>2, <1>5
      <4>3. QED BY <4>1, <4>2
    <3>2. CASE q # p BY <3>2, <2>4, <1>5 DEF UserInv, Data, BuffersOK, MemoryOutput, Live, ttisfport
    <3>3. QED BY <3>1, <3>2
  <2>5. QED BY <2>2, <2>4 DEF BuffersOK
<1>12. \A u \in Threads : seen_eof[u] => curr_port[u] \in LivePorts' /\ rest'[curr_port[u]] = <<>>
    BY <1>2, <1>5 DEF UserInv, Data, EndsOK, LivePorts
<1>13. Data' BY <1>3, <1>9, <1>10, <1>11, <1>12, IdleKeeps
<1>14. QED BY <1>7, <1>8, <1>13 DEF Control

\* A port is closed: by the program, or by the end of an extent.
LEMMA CloseKeeps ==
    ASSUME OneUser, UserInv, NEW t \in PortUsers, pc[t] = "program",
           NEW p \in LivePorts, kclose_port(p), UNCHANGED <<gil, pc, call, buf, off, written>>
    PROVE  OthersOK' /\ CallsOK' /\ Data'
<1>1. p \in Ports /\ LivePorts' = LivePorts
    BY CloseStep, LiveRecords DEF UserInv, IInv
<1>2. \A q \in Ports : /\ port'[q] = IF q = p THEN [port[p] EXCEPT !.open = FALSE] ELSE port[q]
                       /\ rest'[q] = rest[q] \/ rest'[q] = <<>>
                       /\ q # p => rest'[q] = rest[q] /\ taken'[q] = taken[q]
    BY <1>1 DEF kclose_port, fclose, Cleared, UserInv, IInv, PortsOK
<1>3. port[p] \in PortRecords BY LiveRecords DEF UserInv, IInv
<1>4. /\ [port[p] EXCEPT !.open = FALSE].open = FALSE
      /\ [port[p] EXCEPT !.open = FALSE].dir = port[p].dir
      /\ [port[p] EXCEPT !.open = FALSE].kind = port[p].kind
    BY <1>3 DEF PortRecords
<1>5. \A q \in Ports : /\ q \in LivePorts' <=> q \in LivePorts
                       /\ q \in LivePorts => port'[q].dir = port[q].dir /\ port'[q].kind = port[q].kind
    BY <1>1, <1>2, <1>4
<1>6. OthersOK' /\ CallsOK' /\ AllWhole BY IdleKeeps
<1>7. ContentsOK'
  <2>1. rest' \in [Ports -> Seq(Chars)] /\ taken' \in [Ports -> Seq(Chars)]
      BY DEF kclose_port, fclose, Cleared, UserInv, Data, ContentsOK
  <2>2. \A q \in Ports : q \in Standard \/ (q \in LivePorts' /\ port'[q].dir = "output") => rest'[q] = <<>>
    BY <1>2, <1>5 DEF UserInv, Data, ContentsOK, LivePorts
  <2>3. QED BY <2>1, <2>2 DEF ContentsOK, LivePorts
<1>8. AllWhole'
  <2> SUFFICES ASSUME NEW q \in Ports \ Standard, Live(q)', port'[q].open, port'[q].dir = "input"
               PROVE  taken'[q] \o <<>> \o rest'[q] = Text
      BY DEF AllWhole, Whole
  <2>1. q # p BY <1>2, <1>4
  <2>2. QED BY <2>1, <1>2, <1>6 DEF AllWhole, Whole, Live
<1>9. BuffersOK'
  <2>1. \A q \in Ports : /\ Live(q)' <=> Live(q)
                         /\ Live(q) => (MemoryOutput(q)' <=> MemoryOutput(q))
      BY <1>5 DEF MemoryOutput, LivePorts, ttisfport, Live
  <2>2. QED BY <2>1 DEF UserInv, Data, BuffersOK
<1>10. \A u \in Threads : seen_eof[u] => curr_port[u] \in LivePorts' /\ rest'[curr_port[u]] = <<>>
    BY <1>1, <1>2 DEF UserInv, Data, EndsOK, LivePorts
<1>11. Data' BY <1>7, <1>8, <1>9, <1>10, IdleKeeps
<1>12. QED BY <1>6, <1>11

LEMMA ClosePortKeeps ==
    ASSUME OneUser, UserInv, NEW t \in PortUsers, NEW p \in Usable,
           NEW dir \in Directions \cup {None}, close_port(t, p, dir)
    PROVE  Control' /\ Data'
<1>1. p \in LivePorts BY UsableAreLive DEF UserInv, IInv, Mentioned
<1>2. pc[t] = "program" /\ UNCHANGED <<buf, off, written, held, saved, curr_port, seen_eof>>
    BY DEF close_port, InProgram
<1>3. CASE kclose_port(p) /\ UNCHANGED <<frames, key, pc, gil, local>>
  <2>1. UNCHANGED <<gil, pc, call, frames, saved>> BY <1>2, <1>3 DEF call
  <2>2. OthersOK' /\ CallsOK' /\ Data' BY <1>1, <1>2, <1>3, <2>1, CloseKeeps
  <2>3. BoundsOK' BY <2>1 DEF UserInv, Control, BoundsOK
  <2>4. QED BY <2>2, <2>3 DEF Control
<1>4. CASE Throw(t) /\ UNCHANGED <<port, FILE, rest, taken>>
  <2>1. \A u \in Threads : pc[u] = "program" BY <1>2, OthersIdle DEF UserInv, Control
  <2>2. AllWhole BY <2>1, WholeBefore DEF UserInv, Control, Data
  <2>3. UNCHANGED contents BY <1>2, <1>4 DEF contents
  <2>4. QED BY <1>2, <1>4, <2>2, <2>3, ThrowKeeps
<1>5. QED BY <1>3, <1>4 DEF close_port

LEMMA ExtentKeeps ==
    ASSUME OneUser, UserInv, NEW t \in PortUsers,
           do_close_file_ret(t) \/ Capture(t) \/ Reenter(t) \/ Forget(t)
    PROVE  Control' /\ Data'
<1> USE PortsAssumption
<1>1. t \in Threads OBVIOUS
<1>2. RefersTo(LivePorts) BY DEF UserInv, IInv, Mentioned
<1>3. frames[t] \in Seq(FrameRecords(LivePorts)) BY <1>1, <1>2 DEF RefersTo
<1>4. pc[t] = "program" /\ UNCHANGED <<gil, pc, call>>
    BY DEF do_close_file_ret, Capture, Reenter, Forget, InProgram
<1>5. CASE do_close_file_ret(t)
  <2>1. /\ frames[t] # <<>> /\ kclose_port(Last(frames[t]).port)
        /\ frames' = [frames EXCEPT ![t] = Front(@)]
        /\ UNCHANGED <<buf, off, written, saved>>
      BY <1>5 DEF do_close_file_ret
  <2>2. Last(frames[t]).port \in LivePorts /\ Len(Front(frames[t])) = Len(frames[t]) - 1 /\ Len(frames[t]) \in Nat
    <3>1. Last(frames[t]) \in FrameRecords(LivePorts) BY <1>3, <2>1, FramesStep
    <3>2. Len(Front(frames[t])) = Len(frames[t]) - 1 BY <1>3, <2>1, FramesStep
    <3>3. Len(frames[t]) \in Nat BY <1>3
    <3>4. QED BY <3>1, <3>2, <3>3 DEF FrameRecords
  <2>3. OthersOK' /\ CallsOK' /\ Data' BY <1>4, <2>1, <2>2, CloseKeeps
  <2>4. BoundsOK'
      BY <1>1, <1>2, <1>4, <2>1, <2>2 DEF RefersTo, UserInv, Control, BoundsOK
  <2>5. QED BY <2>3, <2>4 DEF Control
<1>6. CASE Capture(t) \/ Reenter(t) \/ Forget(t)
  <2>1. UNCHANGED <<port, FILE, contents>> BY <1>6 DEF Capture, Reenter, Forget, ports
  <2>2. OthersOK' /\ CallsOK' /\ AllWhole BY <1>4, IdleKeeps
  <2>3. LivePorts' = LivePorts /\ ContentsOK' /\ BuffersOK' /\ AllWhole' BY <2>1, <2>2, SameContents
  <2>4. \A u \in Threads : seen_eof[u] => curr_port[u] \in LivePorts' /\ rest'[curr_port[u]] = <<>>
      BY <2>1, <2>3 DEF UserInv, Data, EndsOK, contents
  <2>5. Data' BY <1>4, <2>3, <2>4, IdleKeeps
  <2>6. BoundsOK'
    <3>1. \/ UNCHANGED <<frames, saved>>
          \/ saved' = [saved EXCEPT ![t] = frames[t]] /\ UNCHANGED frames
          \/ saved' = [saved EXCEPT ![t] = None] /\ UNCHANGED frames
          \/ saved[t] # None /\ frames' = [frames EXCEPT ![t] = saved[t]] /\ UNCHANGED saved
        BY <1>6 DEF Capture, Reenter, Forget
    <3>2. QED BY <1>1, <1>2, <1>4, <3>1 DEF RefersTo, UserInv, Control, BoundsOK
  <2>7. QED BY <2>2, <2>5, <2>6 DEF Control
<1>7. QED BY <1>5, <1>6

LEMMA StartKeeps ==
    ASSUME OneUser, UserInv, NEW t \in PortUsers, NEW o \in Operations, NEW binary, NEW p \in Usable,
           NEW given, NEW last, Start(t, o, binary, p, given, last)
    PROVE  Control' /\ Data'
<1> USE PortsAssumption
<1>1. t \in Threads /\ pc[t] = "program" BY DEF Start, InProgram
<1>2. p \in LivePorts BY UsableAreLive DEF UserInv, IInv, Mentioned
<1>3. UNCHANGED <<port, FILE, contents, saved>> BY DEF Start
<1>4. \A u \in Threads : pc[u] = "program" BY <1>1, OthersIdle DEF UserInv, Control
<1>5. AllWhole BY <1>4, WholeBefore DEF UserInv, Control, Data
<1>6. CASE ~Fits(p, o, binary)
  <2>1. Throw(t) /\ UNCHANGED <<curr_port, seen_eof>> BY <1>6 DEF Start
  <2>2. QED BY <1>3, <1>5, <2>1, ThrowKeeps
<1>7. CASE Fits(p, o, binary)
  <2>1. /\ curr_port' = [curr_port EXCEPT ![t] = p]
        /\ IF o \in Reads THEN seen_eof' = [seen_eof EXCEPT ![t] = @ /\ curr_port[t] = p]
                          ELSE UNCHANGED seen_eof
        /\ op' = [op EXCEPT ![t] = o] /\ want' = [want EXCEPT ![t] = First(o)]
        /\ pc' = [pc EXCEPT ![t] = "call"] /\ gil' = t /\ UNCHANGED <<frames, chi>>
      BY <1>7 DEF Start, Switch
  <2>2. port[p].open /\ port[p].dir = Direction(o) BY <1>7 DEF Fits
  <2>3. BoundsOK' BY <1>1, <1>3, <2>1 DEF UserInv, Control, BoundsOK
  <2>4. \A u \in Threads : u # t => /\ pc'[u] = pc[u] /\ curr_port'[u] = curr_port[u]
                                    /\ seen_eof'[u] = seen_eof[u]
      BY <2>1 DEF UserInv, IInv, PcOK, Mentioned, RefersTo, Data, EndsOK
  <2>5. OthersOK' BY <2>4 DEF UserInv, Control, OthersOK
  <2>6. LivePorts' = LivePorts /\ ContentsOK' /\ BuffersOK' /\ AllWhole' BY <1>3, <1>5, SameContents
  <2>7. /\ pc'[t] = "call" /\ curr_port'[t] = p /\ op'[t] = o /\ want'[t] = First(o)
      BY <1>1, <2>1 DEF UserInv, IInv, PcOK, Mentioned, RefersTo, Control, CallsOK
  <2>8. First(o) \in Wants(o) /\ First(o) \in {"get", "peek", "put", "flush"}
      BY DEF First, Wants, Operations, Reads
  <2>9. CallsOK'
    <3>1. /\ op' \in [Threads -> Operations \cup {None}]
          /\ want' \in [Threads -> {"get", "peek", "put", "flush", None}]
          /\ chi' \in [Threads -> Chars \cup {EOF, "error", None}]
        BY <2>1, <2>8 DEF UserInv, Control, CallsOK
    <3>2. ASSUME NEW u \in Threads, pc'[u] # "program"
          PROVE  /\ op'[u] \in Operations /\ want'[u] \in Wants(op'[u])
                 /\ curr_port'[u] \in LivePorts'
                 /\ port'[curr_port'[u]].open /\ port'[curr_port'[u]].dir = Direction(op'[u])
      <4>1. u = t BY <1>4, <2>4, <3>2
      <4>2. QED BY <4>1, <1>2, <1>3, <2>2, <2>6, <2>7, <2>8
    <3>3. QED BY <3>1, <3>2 DEF CallsOK
  <2>10. \A u \in Threads : pc'[u] \in {"program", "call"}
      BY <1>4, <2>4, <2>7
  <2>11. EndsOK'
    <3>1. seen_eof' \in [Threads -> BOOLEAN] BY <2>1 DEF UserInv, Data, EndsOK
    <3>2. ASSUME NEW u \in Threads, seen_eof'[u]
          PROVE  curr_port'[u] \in LivePorts' /\ rest'[curr_port'[u]] = <<>>
      <4>1. CASE u # t BY <4>1, <3>2, <2>4, <2>6, <1>3 DEF UserInv, Data, EndsOK, contents
      <4>2. CASE u = t /\ o \in Reads
        <5>1. seen_eof[t] /\ curr_port[t] = p BY <1>1, <4>2, <3>2, <2>1 DEF UserInv, Data, EndsOK
        <5>2. QED BY <1>1, <4>2, <5>1, <2>6, <2>7, <1>3 DEF UserInv, Data, EndsOK, contents
      <4>3. CASE u = t /\ o \notin Reads
        <5>1. port[p].dir = "output" BY <4>3, <2>2 DEF Direction
        <5>2. rest[p] = <<>> BY <5>1, <1>2 DEF UserInv, Data, ContentsOK, LivePorts
        <5>3. QED BY <4>3, <5>2, <1>2, <2>6, <2>7, <1>3 DEF contents
      <4>4. QED BY <4>1, <4>2, <4>3
    <3>3. QED BY <3>1, <3>2, <2>10 DEF EndsOK, Outside
  <2>12. ReadsOK' BY <2>6, <2>10, WholeAfter
  <2>13. QED BY <2>3, <2>5, <2>6, <2>9, <2>11, <2>12 DEF Control, Data
<1>8. QED BY <1>6, <1>7

\* What the C function does after a call.
LEMMA ProceedKeeps ==
    ASSUME OneUser, UserInv, NEW t \in PortUsers, pc[t] # "program", NEW c, Proceed(t, c),
           UNCHANGED <<port, FILE, program, curr_port>>,
           \A u \in Threads \ {t} : seen_eof'[u] = seen_eof[u]
    PROVE  Control' /\ LivePorts' = LivePorts /\ \A u \in Threads : pc'[u] \in {"program", "call"}
<1> USE PortsAssumption
<1>1. t \in Threads OBVIOUS
<1>2. /\ op[t] \in Operations /\ want[t] \in Wants(op[t])
      /\ curr_port[t] \in LivePorts
      /\ port[curr_port[t]].open /\ port[curr_port[t]].dir = Direction(op[t])
    BY <1>1 DEF UserInv, Control, CallsOK
<1>3. LivePorts' = LivePorts BY DEF LivePorts, Live
<1>4. /\ chi' = [chi EXCEPT ![t] = None]
      /\ \/ /\ pc' = [pc EXCEPT ![t] = "program"] /\ gil' = None
            /\ op' = [op EXCEPT ![t] = None] /\ want' = [want EXCEPT ![t] = None]
         \/ \E w \in Wants(op[t]) :
            /\ pc' = [pc EXCEPT ![t] = "call"] /\ gil' = t
            /\ want' = [want EXCEPT ![t] = w] /\ UNCHANGED op
  <2>1. CASE Return(t) BY <2>1 DEF Return
  <2>2. CASE \E w \in Wants(op[t]) : \E m : Continue(t, w, m) BY <2>2 DEF Continue
  <2>3. Return(t) \/ \E w \in Wants(op[t]) : \E m : Continue(t, w, m)
    <3>1. CASE op[t] = "read-line" /\ c \notin {Newline, EOF}
      <4>1. Continue(t, "get", FALSE) /\ "get" \in Wants(op[t]) BY <3>1 DEF Proceed, Wants, Reads
      <4>2. QED BY <4>1
    <3>2. CASE op[t] = "read" /\ want[t] = "peek"
      <4>1. "get" \in Wants(op[t]) BY <3>2 DEF Wants, Reads
      <4>2. Return(t) \/ Continue(t, "get", more[t]) BY <3>2 DEF Proceed
      <4>3. QED BY <4>1, <4>2
    <3>3. CASE op[t] = "read" /\ want[t] = "get"
      <4>1. Continue(t, "peek", more[t] \/ c = Letter) /\ "peek" \in Wants(op[t])
          BY <3>3 DEF Proceed, Wants, Reads
      <4>2. QED BY <4>1
    <3>4. CASE op[t] = "write" /\ want[t] = "put"
      <4>1. "put" \in Wants(op[t]) /\ "flush" \in Wants(op[t]) BY <3>4 DEF Wants, Reads
      <4>2. Continue(t, "put", FALSE) \/ Continue(t, "flush", FALSE) BY <3>4 DEF Proceed
      <4>3. QED BY <4>1, <4>2
    <3>5. CASE /\ ~ (op[t] = "read-line" /\ c \notin {Newline, EOF})
               /\ ~ (op[t] = "read" /\ want[t] = "peek")
               /\ ~ (op[t] = "read" /\ want[t] = "get")
               /\ ~ (op[t] = "write" /\ want[t] = "put")
        BY <3>5 DEF Proceed
    <3>6. QED BY <3>1, <3>2, <3>3, <3>4, <3>5
  <2>4. QED BY <2>1, <2>2, <2>3
<1>5. BoundsOK' BY <1>1, <1>4 DEF program, UserInv, Control, BoundsOK
<1>6. \A u \in Threads \ {t} : pc[u] = "program" BY OthersIdle DEF UserInv, Control
<1>7. \A u \in Threads \ {t} : pc'[u] = "program" BY <1>4, <1>6 DEF UserInv, IInv, PcOK
<1>8. pc'[t] \in {"program", "call"} BY <1>1, <1>4 DEF UserInv, IInv, PcOK
<1>9. OthersOK' BY <1>7 DEF UserInv, Control, OthersOK
<1>10. CallsOK'
  <2>1. \A o : Wants(o) \subseteq {"get", "peek", "put", "flush"} BY DEF Wants
  <2>2. /\ op' \in [Threads -> Operations \cup {None}]
        /\ want' \in [Threads -> {"get", "peek", "put", "flush", None}]
        /\ chi' \in [Threads -> Chars \cup {EOF, "error", None}]
      BY <1>4, <2>1 DEF UserInv, Control, CallsOK
  <2>3. ASSUME NEW u \in Threads, pc'[u] # "program"
        PROVE  /\ op'[u] \in Operations /\ want'[u] \in Wants(op'[u])
               /\ curr_port'[u] \in LivePorts'
               /\ port'[curr_port'[u]].open /\ port'[curr_port'[u]].dir = Direction(op'[u])
    <3>1. u = t BY <2>3, <1>7
    <3>2. op'[t] = op[t] /\ want'[t] \in Wants(op[t])
      <4>1. pc' # [pc EXCEPT ![t] = "program"] BY <3>1, <2>3 DEF UserInv, IInv, PcOK
      <4>2. QED BY <4>1, <1>1, <1>4 DEF UserInv, Control, CallsOK
    <3>3. QED BY <3>1, <3>2, <1>2, <1>3
  <2>4. QED BY <2>2, <2>3 DEF CallsOK
<1>11. QED BY <1>3, <1>5, <1>7, <1>8, <1>9, <1>10 DEF Control

LEMMA GetEOFKeeps ==
    ASSUME OneUser, UserInv, NEW t \in PortUsers, GetEOF(t)
    PROVE  Control' /\ Data'
<1> USE PortsAssumption
<1>1. t \in Threads /\ pc[t] = "call" /\ Proceed(t, EOF)
      /\ UNCHANGED <<ports, contents, program, curr_port, seen_eof>>
    BY DEF GetEOF, Called
<1>2. UNCHANGED <<port, FILE>> BY <1>1 DEF ports
<1>3. Control' /\ LivePorts' = LivePorts /\ \A u \in Threads : pc'[u] \in {"program", "call"}
    BY <1>1, <1>2, ProceedKeeps
<1>4. \A u \in Threads : pc[u] # "back" BY <1>1, OthersIdle DEF UserInv, Control
<1>5. AllWhole BY <1>4, WholeBefore DEF UserInv, Control, Data
<1>6. ContentsOK' /\ BuffersOK' /\ AllWhole' BY <1>1, <1>2, <1>5, SameContents
<1>7. EndsOK' BY <1>1, <1>3 DEF UserInv, Data, EndsOK, contents, Outside
<1>8. ReadsOK' BY <1>3, <1>6, WholeAfter
<1>9. QED BY <1>3, <1>6, <1>7, <1>8 DEF Data

LEMMA MoveHead ==
    ASSUME NEW C, NEW s \in Seq(C), NEW r \in Seq(C), r # <<>>
    PROVE  (Append(s, Head(r)) \o <<>>) \o Tail(r) = (s \o <<>>) \o r
<1>1. Head(r) \in C /\ Tail(r) \in Seq(C) OBVIOUS
<1>2. (Append(s, Head(r)) \o <<>>) \o Tail(r) = (s \o <<Head(r)>>) \o Tail(r)
    BY <1>1, TakenOver
<1>3. QED BY <1>2, OnTheWay

\* Characters are read from p only, and p is whole again.
LEMMA TakeKeeps ==
    ASSUME UserInv, NEW p \in Ports, UNCHANGED <<port, FILE>>,
           ContentsOK,
           rest' \in [Ports -> Seq(Chars)], taken' \in [Ports -> Seq(Chars)],
           \A q \in Ports \ {p} : rest'[q] = rest[q] /\ taken'[q] = taken[q],
           p \in Standard \/ port[p].dir = "output" => rest'[p] = <<>>,
           \A q \in Ports \ (Standard \cup {p}) :
               Live(q) /\ port[q].open /\ port[q].dir = "input" => Whole(q, <<>>),
           p \notin Standard => taken'[p] \o <<>> \o rest'[p] = Text
    PROVE  ContentsOK' /\ AllWhole'
<1>1. ContentsOK' BY DEF ContentsOK, Live
<1>2. AllWhole' BY DEF AllWhole, Whole, Live
<1>3. QED BY <1>1, <1>2

LEMMA GetFromMemoryKeeps ==
    ASSUME OneUser, UserInv, NEW t \in PortUsers, GetFromMemory(t)
    PROVE  Control' /\ Data'
<1> USE PortsAssumption
<1>1. PICK p : p = curr_port[t] OBVIOUS
<1>2. /\ t \in Threads /\ pc[t] = "call" /\ want[t] \in {"get", "peek"} /\ ~seen_eof[t]
      /\ UNCHANGED <<ports, buf, off, written, program, curr_port>>
    BY DEF GetFromMemory, Called
<1>3. p \in LivePorts BY <1>1, <1>2 DEF UserInv, Control, CallsOK
<1>4. p \in Ports BY <1>3 DEF LivePorts
<1>5. UNCHANGED <<port, FILE>> BY <1>2 DEF ports
<1>6. \A u \in Threads : pc[u] # "back" BY <1>2, OthersIdle DEF UserInv, Control
<1>7. AllWhole BY <1>6, WholeBefore DEF UserInv, Control, Data
<1>8. BuffersOK' BY <1>2, <1>5 DEF UserInv, Data, BuffersOK, MemoryOutput, Live, ttisfport
<1>9. CASE rest[p] = <<>>
  <2>1. seen_eof' = [seen_eof EXCEPT ![t] = TRUE] /\ Proceed(t, EOF) /\ UNCHANGED <<rest, taken>>
      BY <1>1, <1>9 DEF GetFromMemory
  <2>2. Control' /\ LivePorts' = LivePorts /\ \A u \in Threads : pc'[u] \in {"program", "call"}
      BY <1>2, <1>5, <2>1, ProceedKeeps DEF UserInv, Data, EndsOK
  <2>3. UNCHANGED contents BY <1>2, <2>1 DEF contents
  <2>4. ContentsOK' /\ AllWhole' BY <1>5, <1>7, <2>3, SameContents
  <2>5. EndsOK' BY <1>1, <1>2, <1>3, <1>9, <2>1, <2>2 DEF UserInv, Data, EndsOK, Outside
  <2>6. ReadsOK' BY <2>2, <2>4, WholeAfter
  <2>7. QED BY <1>8, <2>2, <2>4, <2>5, <2>6 DEF Data
<1>10. CASE rest[p] # <<>>
  <2>1. /\ Proceed(t, Head(rest[p])) /\ UNCHANGED seen_eof
        /\ \/ /\ rest' = [rest EXCEPT ![p] = Tail(@)]
              /\ taken' = [taken EXCEPT ![p] = Append(@, Head(rest[p]))]
           \/ UNCHANGED <<rest, taken>>
      BY <1>1, <1>10 DEF GetFromMemory
  <2>2. Control' /\ LivePorts' = LivePorts /\ \A u \in Threads : pc'[u] \in {"program", "call"}
      BY <1>2, <1>5, <2>1, ProceedKeeps
  <2>3. \A u \in Threads : ~seen_eof[u] BY <1>2, OthersIdle DEF UserInv, Control
  <2>4. EndsOK' BY <2>1, <2>2, <2>3 DEF UserInv, Data, EndsOK
  <2>5. ContentsOK' /\ AllWhole'
    <3>1. CASE UNCHANGED <<rest, taken>>
      <4>1. UNCHANGED contents BY <1>2, <3>1 DEF contents
      <4>2. QED BY <1>5, <1>7, <4>1, SameContents
    <3>2. CASE /\ rest' = [rest EXCEPT ![p] = Tail(@)]
               /\ taken' = [taken EXCEPT ![p] = Append(@, Head(rest[p]))]
      <4>1. rest[p] \in Seq(Chars) /\ taken[p] \in Seq(Chars)
          BY <1>4 DEF UserInv, Data, ContentsOK
      <4>2. p \notin Standard /\ port[p].dir # "output"
          BY <1>3, <1>4, <1>10 DEF UserInv, Data, ContentsOK, LivePorts
      <4>3. Head(rest[p]) \in Chars /\ Tail(rest[p]) \in Seq(Chars) /\ Append(taken[p], Head(rest[p])) \in Seq(Chars)
          BY <4>1, <1>10
      <4>4. port[p].open /\ port[p].dir = "input"
        <5>1. port[p].dir \in Directions BY <1>3, LiveRecords DEF UserInv, IInv
        <5>2. QED BY <1>1, <1>2, <4>2, <5>1 DEF UserInv, Control, CallsOK, Directions
      <4>5. taken[p] \o <<>> \o rest[p] = Text
          BY <1>3, <1>7, <4>2, <4>4 DEF AllWhole, Whole, LivePorts
      <4>6. Append(taken[p], Head(rest[p])) \o <<>> \o Tail(rest[p]) = Text
        <5>1. PICK s \in Seq(Chars), r \in Seq(Chars) : s = taken[p] /\ r = rest[p]
            BY <4>1
        <5>2. (Append(s, Head(r)) \o <<>>) \o Tail(r) = (s \o <<>>) \o r
            BY <5>1, <1>10, MoveHead
        <5>3. QED BY <4>5, <5>1, <5>2
      <4>7. /\ rest' \in [Ports -> Seq(Chars)] /\ taken' \in [Ports -> Seq(Chars)]
            /\ rest'[p] = Tail(rest[p]) /\ taken'[p] = Append(taken[p], Head(rest[p]))
            /\ \A q \in Ports \ {p} : rest'[q] = rest[q] /\ taken'[q] = taken[q]
          BY <1>4, <3>2, <4>3 DEF UserInv, Data, ContentsOK
      <4>8. \A q \in Ports \ (Standard \cup {p}) :
               Live(q) /\ port[q].open /\ port[q].dir = "input" => Whole(q, <<>>)
          BY <1>7 DEF AllWhole
      <4>9. taken'[p] \o <<>> \o rest'[p] = Text BY <4>6, <4>7
      <4>10. ContentsOK BY DEF UserInv, Data
      <4>11. QED BY <1>4, <1>5, <4>2, <4>7, <4>8, <4>9, <4>10, TakeKeeps
    <3>3. QED BY <2>1, <3>1, <3>2
  <2>6. ReadsOK' BY <2>2, <2>5, WholeAfter
  <2>7. QED BY <1>8, <2>2, <2>4, <2>5, <2>6 DEF Data
<1>11. QED BY <1>9, <1>10

LEMMA PutInMemoryKeeps ==
    ASSUME OneUser, UserInv, NEW t \in PortUsers, PutInMemory(t)
    PROVE  Control' /\ Data'
<1> USE PortsAssumption
<1>1. PICK p : p = curr_port[t] OBVIOUS
<1>2. /\ t \in Threads /\ pc[t] = "call" /\ want[t] \in {"put", "flush"} /\ ~ttisfport(p)
      /\ UNCHANGED <<ports, rest, taken, program, curr_port, seen_eof>> /\ Proceed(t, None)
    BY <1>1 DEF PutInMemory, Called, InMemory
<1>3. p \in LivePorts /\ port[p].dir = "output"
    BY <1>1, <1>2 DEF UserInv, Control, CallsOK, Wants, Direction
<1>4. p \in Ports BY <1>3 DEF LivePorts
<1>5. UNCHANGED <<port, FILE>> BY <1>2 DEF ports
<1>6. Control' /\ LivePorts' = LivePorts /\ \A u \in Threads : pc'[u] \in {"program", "call"}
    BY <1>2, <1>5, ProceedKeeps
<1>7. \A u \in Threads : pc[u] # "back" BY <1>2, OthersIdle DEF UserInv, Control
<1>8. AllWhole BY <1>7, WholeBefore DEF UserInv, Control, Data
<1>9. ContentsOK' /\ AllWhole' BY <1>2, <1>5, <1>8 DEF UserInv, Data, ContentsOK, AllWhole, Whole, Live
<1>10. EndsOK' BY <1>2, <1>6 DEF UserInv, Data, EndsOK, Outside
<1>11. ReadsOK' BY <1>6, <1>9, WholeAfter
<1>12. BuffersOK'
  <2>1. CASE UNCHANGED <<buf, off, written>>
      BY <1>5, <2>1 DEF UserInv, Data, BuffersOK, MemoryOutput, Live, ttisfport
  <2>2. ASSUME NEW c \in Chars,
               /\ buf' = [buf EXCEPT ![p] = [Resized(@, off[p], off[p] + 1) EXCEPT ![off[p] + 1] = c]]
               /\ off' = [off EXCEPT ![p] = off[p] + 1]
               /\ written' = [written EXCEPT ![p] = Append(@, c)]
        PROVE  BuffersOK'
    <3> DEFINE r == [Resized(buf[p], off[p], off[p] + 1) EXCEPT ![off[p] + 1] = c]
               C == Chars \cup {None}
    <3>1. MemoryOutput(p) BY <1>2, <1>3 DEF MemoryOutput, LivePorts
    <3>2. /\ buf[p] \in Seq(C) /\ off[p] \in Nat /\ written[p] \in Seq(Chars)
          /\ Len(buf[p]) > 0 /\ off[p] <= Len(buf[p])
          /\ SubSeq(buf[p], 1, off[p]) = written[p]
        BY <1>3, <1>4, <3>1 DEF UserInv, Data, BuffersOK, LivePorts
    <3>4. None \in C /\ c \in C OBVIOUS
    <3> HIDE DEF C
    <3>5. r \in Seq(C) /\ Len(r) >= off[p] + 1 /\ SubSeq(r, 1, off[p] + 1) = Append(written[p], c)
      <4>1. PICK b, o, w : b = buf[p] /\ o = off[p] /\ w = written[p] OBVIOUS
      <4>2. b \in Seq(C) /\ o \in Nat /\ Len(b) > 0 /\ o <= Len(b) /\ SubSeq(b, 1, o) = w
          BY <4>1, <3>2
      <4>3. PICK z : z = Resized(b, o, o + 1) OBVIOUS
      <4>4. z \in Seq(C) /\ Len(z) >= o + 1 /\ \A i \in 1 .. o : z[i] = b[i]
          BY <4>2, <4>3, <3>4, ResizedFacts
      <4>5. PICK x : x = [z EXCEPT ![o + 1] = c] OBVIOUS
      <4>6. x \in Seq(C) /\ Len(x) >= o + 1 /\ SubSeq(x, 1, o + 1) = Append(w, c)
          BY <4>2, <4>4, <4>5, <3>4, PutFacts
      <4>7. x = r BY <4>1, <4>3, <4>5
      <4>8. QED BY <4>1, <4>6, <4>7
    <3>6. buf' = [buf EXCEPT ![p] = r] BY <2>2
    <3> HIDE DEF r
    <3>7. Append(written[p], c) \in Seq(Chars) BY <3>2
    <3>8. /\ buf' \in [Ports -> Seq(C)] /\ off' \in [Ports -> Nat] /\ written' \in [Ports -> Seq(Chars)]
      <4>1. buf \in [Ports -> Seq(C)] /\ off \in [Ports -> Nat] /\ written \in [Ports -> Seq(Chars)]
          BY DEF UserInv, Data, BuffersOK, C
      <4>2. buf' \in [Ports -> Seq(C)] BY <4>1, <3>5, <3>6
      <4>3. off' \in [Ports -> Nat]
        <5>1. off[p] + 1 \in Nat BY <3>2
        <5>2. off' = [off EXCEPT ![p] = off[p] + 1] BY <2>2
        <5>3. QED BY <4>1, <5>1, <5>2
      <4>4. written' \in [Ports -> Seq(Chars)] BY <4>1, <2>2, <3>7
      <4>5. QED BY <4>2, <4>3, <4>4
    <3>9. \A q \in Ports :
            /\ buf'[q] = IF q = p THEN r ELSE buf[q]
            /\ off'[q] = IF q = p THEN off[p] + 1 ELSE off[q]
            /\ written'[q] = IF q = p THEN Append(written[p], c) ELSE written[q]
        BY <2>2, <3>6 DEF UserInv, Data, BuffersOK
    <3>10. ASSUME NEW q \in Ports, Live(q)
           PROVE  IF MemoryOutput(q)
                  THEN /\ Len(buf'[q]) > 0 /\ off'[q] <= Len(buf'[q])
                       /\ SubSeq(buf'[q], 1, off'[q]) = written'[q]
                  ELSE off'[q] = 0
      <4>1. CASE q = p
        <5>1. Len(r) > 0 /\ off[p] + 1 <= Len(r) BY <3>2, <3>5, LenProperties
        <5>2. buf'[q] = r /\ off'[q] = off[p] + 1 /\ written'[q] = Append(written[p], c)
            BY <4>1, <3>9
        <5>3. QED BY <4>1, <5>1, <5>2, <3>1, <3>5
      <4>2. CASE q # p BY <4>2, <3>9, <3>10 DEF UserInv, Data, BuffersOK
      <4>3. QED BY <4>1, <4>2
    <3>11. \A q \in Ports : (Live(q)' <=> Live(q)) /\ (MemoryOutput(q)' <=> MemoryOutput(q))
        BY <1>5 DEF MemoryOutput, Live, ttisfport
    <3>12. QED BY <3>8, <3>10, <3>11 DEF BuffersOK, C
  <2>3. QED
    <3>1. \A c \in {Letter, Newline} : c \in Chars BY DEF Chars
    <3>2. CASE want[t] = "flush" BY <2>1, <3>2 DEF PutInMemory
    <3>3. CASE want[t] # "flush"
      <4>1. PICK c : c = IF off[p] % 2 = 0 THEN Letter ELSE Newline OBVIOUS
      <4>2. c \in Chars BY <4>1, <3>1
      <4>3. /\ buf' = [buf EXCEPT ![p] = [Resized(@, off[p], off[p] + 1) EXCEPT ![off[p] + 1] = c]]
            /\ off' = [off EXCEPT ![p] = off[p] + 1]
            /\ written' = [written EXCEPT ![p] = Append(@, c)]
          BY <1>1, <3>3, <4>1 DEF PutInMemory
      <4>4. QED BY <2>2, <4>2, <4>3
    <3>4. QED BY <3>2, <3>3
<1>13. QED BY <1>6, <1>9, <1>10, <1>11, <1>12 DEF Data

\* The GIL is given up, with the FILE in hand.
LEMMA UnlockKeeps ==
    ASSUME OneUser, UserInv, NEW t \in PortUsers, Unlock(t)
    PROVE  Control' /\ Data'
<1> USE PortsAssumption
<1>1. /\ t \in Threads /\ pc[t] = "call" /\ (want[t] \in {"get", "peek"} => ~seen_eof[t])
      /\ pc' = [pc EXCEPT ![t] = "os"] /\ gil' = None
      /\ UNCHANGED <<port, FILE, contents, frames, saved, op, want, chi, curr_port, seen_eof>>
    BY DEF Unlock, Called, ports, program, call, local
<1>2. \A u \in Threads \ {t} : pc[u] = "program" BY OthersIdle DEF UserInv, Control
<1>3. \A u \in Threads : pc[u] # "back" /\ pc'[u] # "back" /\ (u # t => pc'[u] = pc[u])
    BY <1>1, <1>2 DEF UserInv, IInv, PcOK
<1>4. AllWhole BY <1>3, WholeBefore DEF UserInv, Control, Data
<1>5. LivePorts' = LivePorts /\ ContentsOK' /\ BuffersOK' /\ AllWhole' BY <1>1, <1>4, SameContents
<1>6. BoundsOK' BY <1>1 DEF UserInv, Control, BoundsOK
<1>7. OthersOK' BY <1>1, <1>3 DEF UserInv, Control, OthersOK
<1>8. CallsOK' BY <1>1, <1>3, <1>5 DEF UserInv, Control, CallsOK
<1>9. EndsOK' BY <1>1, <1>2, <1>3, <1>5 DEF UserInv, Data, EndsOK, contents, Outside
<1>10. ReadsOK' BY <1>3, <1>5, WholeAfter
<1>11. QED BY <1>5, <1>6, <1>7, <1>8, <1>9, <1>10 DEF Control, Data

\* The OS reads a character, finds the end, writes, or fails.
LEMMA OSKeeps ==
    ASSUME OneUser, UserInv, NEW t \in PortUsers, OS(t)
    PROVE  Control' /\ Data'
<1> USE PortsAssumption
<1>1. PICK p : p = curr_port[t] OBVIOUS
<1>2. /\ t \in Threads /\ pc[t] = "os" /\ pc' = [pc EXCEPT ![t] = "back"]
      /\ UNCHANGED <<port, FILE, taken, buf, off, written, gil, frames, saved, op,
                     curr_port, seen_eof, want>>
    BY DEF OS, ports, program
<1>3. \/ /\ want[t] \in {"get", "peek"} /\ rest[p] # <<>>
         /\ chi' = [chi EXCEPT ![t] = Head(rest[p])]
         /\ rest' = [rest EXCEPT ![p] = Tail(@)]
      \/ /\ want[t] \in {"get", "peek"} /\ rest[p] = <<>>
         /\ chi' = [chi EXCEPT ![t] = EOF] /\ UNCHANGED rest
      \/ /\ want[t] \in {"put", "flush"}
         /\ chi' = [chi EXCEPT ![t] = None] /\ UNCHANGED rest
      \/ chi' = [chi EXCEPT ![t] = "error"] /\ UNCHANGED rest
    BY <1>1 DEF OS
<1>4. p \in LivePorts /\ p \in Ports /\ port[p].open /\ port[p].dir = Direction(op[t])
    BY <1>1, <1>2 DEF UserInv, Control, CallsOK, LivePorts
<1>5. \A u \in Threads \ {t} : pc[u] = "program" /\ curr_port[u] = None /\ seen_eof[u] = FALSE
    BY OthersIdle DEF UserInv, Control
<1>6. /\ \A u \in Threads : pc[u] # "back"
      /\ \A u \in Threads \ {t} : pc'[u] = "program"
      /\ pc'[t] = "back"
    BY <1>2, <1>5 DEF UserInv, IInv, PcOK
<1>7. AllWhole BY <1>6, WholeBefore DEF UserInv, Control, Data
<1>8. LivePorts' = LivePorts BY <1>2 DEF LivePorts, Live
<1>9. BoundsOK' BY <1>2 DEF UserInv, Control, BoundsOK
<1>10. OthersOK' BY <1>2, <1>6 DEF UserInv, Control, OthersOK
<1>13. rest[p] \in Seq(Chars) /\ taken[p] \in Seq(Chars) BY <1>4 DEF UserInv, Data, ContentsOK
<1>14. rest[p] # <<>> => Head(rest[p]) \in Chars /\ Tail(rest[p]) \in Seq(Chars) BY <1>13
<1>11. CallsOK'
  <2>1. chi' \in [Threads -> Chars \cup {EOF, "error", None}]
      BY <1>3, <1>14 DEF UserInv, Control, CallsOK
  <2>2. QED BY <2>1, <1>2, <1>6, <1>8 DEF UserInv, Control, CallsOK
<1>12. BuffersOK' BY <1>2 DEF UserInv, Data, BuffersOK, MemoryOutput, Live, ttisfport
<1>15. /\ \A q \in Ports \ {p} : rest'[q] = rest[q]
       /\ rest[p] = <<>> => rest'[p] = <<>>
       /\ rest' \in [Ports -> Seq(Chars)]
    BY <1>3, <1>4, <1>14 DEF UserInv, Data, ContentsOK
<1>16. ContentsOK' BY <1>2, <1>15 DEF UserInv, Data, ContentsOK, Live
<1>17. want[t] \in {"get", "peek"} => ~seen_eof[t] BY <1>2 DEF UserInv, Data, EndsOK, Outside
<1>18. EndsOK'
  <2>1. ASSUME NEW u \in Threads, seen_eof'[u]
        PROVE  curr_port'[u] \in LivePorts' /\ rest'[curr_port'[u]] = <<>>
    <3>1. curr_port[u] \in LivePorts /\ rest[curr_port[u]] = <<>>
        BY <2>1, <1>2 DEF UserInv, Data, EndsOK
    <3>2. curr_port[u] \in Ports BY <3>1 DEF LivePorts
    <3>3. QED BY <3>1, <3>2, <1>2, <1>8, <1>15
  <2>2. \A u \in Threads : Outside(u)' /\ want'[u] \in {"get", "peek"} => ~seen_eof'[u]
      BY <1>2, <1>6, <1>17 DEF Outside
  <2>3. seen_eof' \in [Threads -> BOOLEAN] BY <1>2 DEF UserInv, Data, EndsOK
  <2>4. QED BY <2>1, <2>2, <2>3 DEF EndsOK
<1>19. ReadsOK'
  <2>1. ASSUME NEW q \in Ports \ Standard, Live(q)', port'[q].open, port'[q].dir = "input",
               \A u \in Threads : curr_port'[u] = q => pc'[u] # "back"
        PROVE  taken'[q] \o <<>> \o rest'[q] = Text
    <3>1. q # p BY <2>1, <1>1, <1>2, <1>6
    <3>2. QED BY <3>1, <2>1, <1>2, <1>7, <1>15 DEF AllWhole, Whole, Live
  <2>2. ASSUME NEW u \in Threads, pc'[u] = "back", want'[u] \in {"get", "peek"}
        PROVE  /\ chi'[u] \in Chars \cup {EOF, "error"}
               /\ chi'[u] = EOF => rest'[curr_port'[u]] = <<>>
               /\ chi'[u] \in Chars => curr_port'[u] \notin Standard
               /\ curr_port'[u] \notin Standard =>
                    taken'[curr_port'[u]] \o (IF chi'[u] \in Chars THEN <<chi'[u]>> ELSE <<>>)
                      \o rest'[curr_port'[u]] = Text
    <3>1. u = t /\ want[t] \in {"get", "peek"} /\ curr_port'[u] = p /\ taken'[p] = taken[p]
        BY <2>2, <1>1, <1>2, <1>6
    <3>2. port[p].dir = "input" BY <3>1, <1>2, <1>4 DEF UserInv, Control, CallsOK, Wants, Direction
    <3>3. p \notin Standard => taken[p] \o <<>> \o rest[p] = Text
        BY <1>4, <1>7, <3>2 DEF AllWhole, Whole, LivePorts
    <3>4. DOMAIN chi = Threads BY DEF UserInv, Control, CallsOK
    <3>5. \/ rest[p] # <<>> /\ chi'[t] = Head(rest[p]) /\ rest'[p] = Tail(rest[p])
          \/ rest[p] = <<>> /\ chi'[t] = EOF /\ rest'[p] = rest[p]
          \/ chi'[t] = "error" /\ rest'[p] = rest[p]
        BY <1>2, <1>3, <1>4, <3>1, <3>4 DEF UserInv, Data, ContentsOK
    <3>6. EOF \notin Chars /\ "error" \notin Chars /\ "error" # EOF BY DEF Chars
    <3>7. CASE rest[p] # <<>> /\ chi'[t] = Head(rest[p]) /\ rest'[p] = Tail(rest[p])
      <4>1. Head(rest[p]) \in Chars BY <3>7, <1>14
      <4>2. p \notin Standard BY <3>7, <1>4 DEF UserInv, Data, ContentsOK
      <4>3. PICK s \in Seq(Chars), r \in Seq(Chars) : s = taken[p] /\ r = rest[p] BY <1>13
      <4>4. (s \o <<Head(r)>>) \o Tail(r) = (s \o <<>>) \o r BY <4>3, <3>7, OnTheWay
      <4>5. (taken[p] \o <<Head(rest[p])>>) \o Tail(rest[p]) = Text BY <4>2, <4>3, <4>4, <3>3
      <4>6. chi'[t] \in Chars /\ chi'[t] # EOF BY <4>1, <3>6, <3>7
      <4>7. QED BY <4>2, <4>5, <4>6, <3>1, <3>7
    <3>8. CASE rest[p] = <<>> /\ chi'[t] = EOF /\ rest'[p] = rest[p]
        BY <3>1, <3>3, <3>6, <3>8
    <3>9. CASE chi'[t] = "error" /\ rest'[p] = rest[p]
        BY <3>1, <3>3, <3>6, <3>9
    <3>10. QED BY <3>5, <3>7, <3>8, <3>9
  <2>3. QED BY <2>1, <2>2 DEF ReadsOK, Whole, Live
<1>20. QED BY <1>9, <1>10, <1>11, <1>12, <1>16, <1>18, <1>19 DEF Control, Data

\* The GIL is taken again, with what the OS has read.
LEMMA LockKeeps ==
    ASSUME OneUser, UserInv, NEW t \in PortUsers, Lock(t)
    PROVE  Control' /\ Data'
<1> USE PortsAssumption
<1>1. PICK p, c : p = curr_port[t] /\ c = chi[t] OBVIOUS
<1>2. /\ t \in Threads /\ pc[t] = "back" /\ c # "error"
      /\ seen_eof' = [seen_eof EXCEPT ![t] = @ \/ c = EOF]
      /\ rest' = IF want[t] = "peek" /\ c # EOF THEN [rest EXCEPT ![p] = <<c>> \o @] ELSE rest
      /\ taken' = [taken EXCEPT ![p] = IF want[t] = "get" /\ c # EOF THEN Append(@, c) ELSE @]
      /\ Proceed(t, c)
      /\ UNCHANGED <<ports, buf, off, written, program, curr_port>>
    BY <1>1 DEF Lock, Back, ktok_gungetc
<1>3. UNCHANGED <<port, FILE>> BY <1>2 DEF ports
<1>4. /\ p \in LivePorts /\ p \in Ports /\ op[t] \in Operations /\ want[t] \in Wants(op[t])
      /\ port[p].open /\ port[p].dir = Direction(op[t])
    BY <1>1, <1>2 DEF UserInv, Control, CallsOK, LivePorts
<1>5. \A u \in Threads \ {t} : pc[u] = "program" /\ curr_port[u] = None /\ seen_eof[u] = FALSE
    BY OthersIdle DEF UserInv, Control
<1>6. \A u \in Threads \ {t} : seen_eof'[u] = seen_eof[u] BY <1>2 DEF UserInv, Data, EndsOK
<1>7. Control' /\ LivePorts' = LivePorts /\ \A u \in Threads : pc'[u] \in {"program", "call"}
    BY <1>2, <1>3, <1>6, ProceedKeeps
<1>8. BuffersOK' BY <1>2, <1>3 DEF UserInv, Data, BuffersOK, MemoryOutput, Live, ttisfport
<1>9. seen_eof' \in [Threads -> BOOLEAN] BY <1>2 DEF UserInv, Data, EndsOK
<1>10. \A u \in Threads : ~Outside(u)' BY <1>7 DEF Outside
<1>11. taken \in [Ports -> Seq(Chars)] /\ rest \in [Ports -> Seq(Chars)] BY DEF UserInv, Data, ContentsOK
<1>12. EOF \notin Chars /\ "error" \notin Chars BY DEF Chars
<1>13. CASE want[t] \in {"put", "flush"} \/ c = EOF
  <2>1. UNCHANGED <<rest, taken>>
    <3>1. rest' = rest /\ taken' = [taken EXCEPT ![p] = @] BY <1>2, <1>13
    <3>2. QED BY <1>4, <1>11, <3>1
  <2>2. AllWhole
    <3>1. \A u \in Threads : pc[u] = "back" /\ want[u] \in {"get", "peek"} => chi[u] \notin Chars
        BY <1>1, <1>5, <1>12, <1>13
    <3>2. QED BY <3>1, WholeBefore DEF UserInv, Control, Data
  <2>3. UNCHANGED contents BY <1>2, <2>1 DEF contents
  <2>4. ContentsOK' /\ AllWhole' BY <1>3, <2>2, <2>3, SameContents
  <2>5. rest[p] = <<>>
    <3>1. CASE want[t] \in {"put", "flush"}
      <4>1. port[p].dir = "output" BY <3>1, <1>4 DEF Wants, Direction
      <4>2. QED BY <4>1, <1>4 DEF UserInv, Data, ContentsOK, LivePorts
    <3>2. CASE want[t] \notin {"put", "flush"}
      <4>1. want[t] \in {"get", "peek"} /\ c = EOF BY <3>2, <1>4, <1>13 DEF Wants
      <4>2. QED BY <4>1, <1>1, <1>2 DEF UserInv, Data, ReadsOK
    <3>3. QED BY <3>1, <3>2
  <2>6. \A u \in Threads : seen_eof'[u] => curr_port'[u] \in LivePorts' /\ rest'[curr_port'[u]] = <<>>
      BY <1>1, <1>2, <1>4, <1>5, <1>6, <1>7, <2>1, <2>5
  <2>7. EndsOK' BY <1>9, <1>10, <2>6 DEF EndsOK
  <2>8. ReadsOK' BY <1>7, <2>4, WholeAfter
  <2>9. QED BY <1>7, <1>8, <2>4, <2>7, <2>8 DEF Data
<1>14. CASE want[t] \notin {"put", "flush"} /\ c # EOF
  <2>1. want[t] \in {"get", "peek"} BY <1>4, <1>14 DEF Wants
  <2>2. /\ c \in Chars /\ p \notin Standard
        /\ taken[p] \o <<c>> \o rest[p] = Text
    <3>1. /\ c \in Chars \cup {EOF, "error"}
          /\ c \in Chars => p \notin Standard
          /\ p \notin Standard => Whole(p, IF c \in Chars THEN <<c>> ELSE <<>>)
        BY <1>1, <1>2, <2>1 DEF UserInv, Data, ReadsOK
    <3>2. c \in Chars BY <3>1, <1>2, <1>14
    <3>3. QED BY <3>1, <3>2 DEF Whole
  <2>3. port[p].dir = "input" BY <2>1, <1>4 DEF Wants, Direction
  <2>4. PICK s \in Seq(Chars), r \in Seq(Chars) : s = taken[p] /\ r = rest[p] BY <1>4, <1>11
  <2>5. \/ rest'[p] = r /\ taken'[p] = Append(s, c)
        \/ rest'[p] = <<c>> \o r /\ taken'[p] = s
      BY <1>2, <1>4, <1>11, <1>14, <2>1, <2>4
  <2>6. taken'[p] \o <<>> \o rest'[p] = Text
    <3>1. (s \o <<c>>) \o r = Text BY <2>2, <2>4
    <3>2. (Append(s, c) \o <<>>) \o r = (s \o <<c>>) \o r BY <2>2, TakenOver
    <3>3. (s \o <<>>) \o (<<c>> \o r) = (s \o <<c>>) \o r BY <2>2, GivenBack
    <3>4. QED BY <2>5, <3>1, <3>2, <3>3
  <2>7. Append(s, c) \in Seq(Chars) /\ <<c>> \o r \in Seq(Chars) BY <2>2
  <2>8. /\ rest' \in [Ports -> Seq(Chars)] /\ taken' \in [Ports -> Seq(Chars)]
        /\ \A q \in Ports \ {p} : rest'[q] = rest[q] /\ taken'[q] = taken[q]
      BY <1>2, <1>4, <1>11, <1>14, <2>1, <2>4, <2>7
  <2>9. \A q \in Ports \ (Standard \cup {p}) :
           Live(q) /\ port[q].open /\ port[q].dir = "input" => Whole(q, <<>>)
    <3>1. \A q \in Ports \ {p} : \A u \in Threads : curr_port[u] = q => pc[u] # "back"
        BY <1>1, <1>5
    <3>2. QED BY <3>1 DEF UserInv, Data, ReadsOK
  <2>10. ContentsOK BY DEF UserInv, Data
  <2>11. ContentsOK' /\ AllWhole'
      BY <1>3, <1>4, <2>2, <2>3, <2>6, <2>8, <2>9, <2>10, TakeKeeps
  <2>12. \A u \in Threads : ~seen_eof'[u]
    <3>1. ~seen_eof[t] BY <1>2, <2>1 DEF UserInv, Data, EndsOK, Outside
    <3>2. QED BY <3>1, <1>2, <1>5, <1>6, <1>14 DEF UserInv, Data, EndsOK
  <2>13. EndsOK' BY <1>9, <2>12 DEF EndsOK
  <2>14. ReadsOK' BY <1>7, <2>11, WholeAfter
  <2>15. QED BY <1>7, <1>8, <2>11, <2>13, <2>14 DEF Data
<1>15. QED BY <1>13, <1>14

LEMMA LockAfterErrorKeeps ==
    ASSUME OneUser, UserInv, NEW t \in PortUsers, LockAfterError(t)
    PROVE  Control' /\ Data'
<1>1. /\ pc[t] = "back" /\ chi[t] = "error" /\ Throw(t)
      /\ UNCHANGED <<port, FILE, contents, saved, curr_port, seen_eof>>
    BY DEF LockAfterError, Back
<1>2. \A u \in Threads : pc[u] = "back" => u = t BY OthersIdle DEF UserInv, Control
<1>3. "error" \notin Chars BY PortsAssumption DEF Chars
<1>4. AllWhole BY <1>1, <1>2, <1>3, WholeBefore DEF UserInv, Control, Data
<1>5. QED BY <1>1, <1>4, ThrowKeeps

\* A collection, by any thread: what a thread has in the OS is in its registers.
LEMMA CollectKeepsData ==
    ASSUME UserInv, NEW u \in Threads, Collect(u)
    PROVE  Control' /\ Data'
<1>1. LivePorts' = LivePorts \cap Roots /\ \A p \in LivePorts' : port'[p] = port[p]
    BY CollectStep DEF UserInv, IInv
<1>2. UNCHANGED <<gil, pc, frames, saved, op, want, chi, curr_port, seen_eof>>
    BY DEF Collect, program, call, local
<1>3. /\ rest' = [p \in Ports |-> IF p \in {q \in Ports : Live(q)} \ Roots THEN <<>> ELSE rest[p]]
      /\ taken' = [p \in Ports |-> IF p \in {q \in Ports : Live(q)} \ Roots THEN <<>> ELSE taken[p]]
      /\ buf' = [p \in Ports |-> IF p \in {q \in Ports : Live(q)} \ Roots THEN <<>> ELSE buf[p]]
      /\ off' = [p \in Ports |-> IF p \in {q \in Ports : Live(q)} \ Roots THEN 0 ELSE off[p]]
      /\ written' = [p \in Ports |-> IF p \in {q \in Ports : Live(q)} \ Roots THEN <<>> ELSE written[p]]
    BY DEF Collect, Cleared
<1>4. /\ \A p \in Ports : rest'[p] = rest[p] \/ rest'[p] = <<>>
      /\ \A p \in LivePorts' : /\ p \in Ports /\ p \in LivePorts
                               /\ rest'[p] = rest[p] /\ taken'[p] = taken[p] /\ buf'[p] = buf[p]
                               /\ off'[p] = off[p] /\ written'[p] = written[p]
    BY <1>1, <1>3 DEF LivePorts
<1>5. \A t \in Threads : curr_port[t] \in LivePorts => curr_port[t] \in LivePorts'
    BY <1>1 DEF Roots, Registers
<1>6. BoundsOK' BY <1>2 DEF UserInv, Control, BoundsOK
<1>7. OthersOK' BY <1>2 DEF UserInv, Control, OthersOK
<1>8. CallsOK' BY <1>1, <1>2, <1>5 DEF UserInv, Control, CallsOK
<1>9. \A S : <<>> \in Seq(S) OBVIOUS
<1>10. ContentsOK'
  <2>1. rest' \in [Ports -> Seq(Chars)] /\ taken' \in [Ports -> Seq(Chars)]
      BY <1>3, <1>9 DEF UserInv, Data, ContentsOK
  <2>2. \A p \in Ports : p \in Standard \/ (p \in LivePorts' /\ port'[p].dir = "output") => rest'[p] = <<>>
      BY <1>1, <1>4 DEF UserInv, Data, ContentsOK, LivePorts
  <2>3. QED BY <2>1, <2>2 DEF ContentsOK, LivePorts
<1>11. EndsOK' BY <1>2, <1>4, <1>5 DEF UserInv, Data, EndsOK, Outside
<1>12. ReadsOK'
  <2>1. ASSUME NEW p \in Ports \ Standard, Live(p)', port'[p].open, port'[p].dir = "input",
               \A t \in Threads : curr_port'[t] = p => pc'[t] # "back"
        PROVE  taken'[p] \o <<>> \o rest'[p] = Text
    <3>1. p \in LivePorts' /\ p \in LivePorts BY <1>1, <2>1 DEF LivePorts
    <3>2. Live(p) /\ port[p].open /\ port[p].dir = "input"
        BY <3>1, <2>1, <1>1 DEF LivePorts
    <3>3. \A t \in Threads : curr_port[t] = p => pc[t] # "back" BY <2>1, <1>2
    <3>4. taken[p] \o <<>> \o rest[p] = Text
        BY <3>2, <3>3, <2>1 DEF UserInv, Data, ReadsOK, Whole
    <3>5. rest'[p] = rest[p] /\ taken'[p] = taken[p] BY <3>1, <1>4
    <3>6. QED BY <3>4, <3>5
  <2>2. ASSUME NEW t \in Threads, pc'[t] = "back", want'[t] \in {"get", "peek"}
        PROVE  /\ chi'[t] \in Chars \cup {EOF, "error"}
               /\ chi'[t] = EOF => rest'[curr_port'[t]] = <<>>
               /\ chi'[t] \in Chars => curr_port'[t] \notin Standard
               /\ curr_port'[t] \notin Standard =>
                    taken'[curr_port'[t]] \o (IF chi'[t] \in Chars THEN <<chi'[t]>> ELSE <<>>)
                      \o rest'[curr_port'[t]] = Text
    <3>1. curr_port[t] \in LivePorts' BY <2>2, <1>2, <1>5 DEF UserInv, Control, CallsOK
    <3>2. QED BY <3>1, <2>2, <1>2, <1>4 DEF UserInv, Data, ReadsOK, Whole
  <2>3. QED BY <2>1, <2>2 DEF ReadsOK, Whole, Live
<1>13. BuffersOK'
  <2>1. /\ buf' \in [Ports -> Seq(Chars \cup {None})]
        /\ off' \in [Ports -> Nat] /\ written' \in [Ports -> Seq(Chars)]
      BY <1>3, <1>9 DEF UserInv, Data, BuffersOK
  <2>2. \A p \in LivePorts' : MemoryOutput(p)' <=> MemoryOutput(p)
      BY <1>1, <1>4 DEF MemoryOutput, LivePorts, Live, ttisfport
  <2>3. ASSUME NEW p \in Ports, Live(p)'
        PROVE  IF MemoryOutput(p)'
               THEN /\ Len(buf'[p]) > 0 /\ off'[p] <= Len(buf'[p])
                    /\ SubSeq(buf'[p], 1, off'[p]) = written'[p]
               ELSE off'[p] = 0
    <3>1. p \in LivePorts' /\ Live(p) BY <2>3, <1>4 DEF LivePorts
    <3>2. QED BY <3>1, <2>2, <1>4 DEF UserInv, Data, BuffersOK
  <2>4. QED BY <2>1, <2>3 DEF BuffersOK
<1>14. QED BY <1>6, <1>7, <1>8, <1>10, <1>11, <1>12, <1>13 DEF Control, Data

LEMMA UserInitially == Init => UserInv
<1> SUFFICES ASSUME Init PROVE UserInv OBVIOUS
<1> USE PortsAssumption
<1>1. IInv BY Initially
<1>2. \A S : <<>> \in Seq(S) OBVIOUS
<1>3. Control BY DEF Init, Control, BoundsOK, OthersOK, CallsOK
<1>4. \A p \in Ports \ Standard : ~Live(p) BY DEF Init, Live, Standard
<1>5. ContentsOK BY <1>2 DEF Init, ContentsOK
<1>6. EndsOK BY DEF Init, EndsOK, Outside
<1>7. ReadsOK BY <1>4 DEF Init, ReadsOK
<1>8. BuffersOK
  <2>1. \A p \in Standard : ttisfport(p) BY DEF Init, Standard, ttisfport, Port
  <2>2. \A p \in Ports : Live(p) => ~MemoryOutput(p) BY <1>4, <2>1 DEF MemoryOutput
  <2>3. QED BY <2>2, <1>2 DEF Init, BuffersOK
<1>9. QED BY <1>1, <1>3, <1>5, <1>6, <1>7, <1>8 DEF UserInv, Data

LEMMA UserStep ==
    ASSUME OneUser
    PROVE  UserInv /\ [Next]_vars => UserInv'
<1> SUFFICES ASSUME UserInv, [Next]_vars PROVE Control' /\ Data'
    BY Step DEF UserInv
<1>1. ASSUME NEW t \in PortUsers, Use(t) PROVE Control' /\ Data'
  <2>1. ASSUME NEW p \in Ports \ Standard, NEW dir \in {"input", "output"},
               \/ \E kind \in Kinds : Open(t, p, kind, dir)
               \/ with_file(t, p, dir)
               \/ call_with_file(t, p, dir)
        PROVE  Control' /\ Data'
      BY <2>1, OpenKeeps DEF Directions
  <2>2. ASSUME NEW p \in Usable, NEW dir \in {"input", "output", None}, close_port(t, p, dir)
        PROVE  Control' /\ Data'
      BY <2>2, ClosePortKeeps DEF Directions
  <2>3. CASE do_close_file_ret(t) \/ Capture(t) \/ Reenter(t) \/ Forget(t)
      BY <2>3, ExtentKeeps
  <2>4. ASSUME NEW o \in Operations, NEW binary \in BOOLEAN,
               \/ \E p \in Held, last \in BOOLEAN : Start(t, o, binary, p, TRUE, last)
               \/ Start(t, o, binary, key[Direction(o)], FALSE, FALSE)
        PROVE  Control' /\ Data'
    <3>1. key[Direction(o)] \in Usable /\ Held \subseteq Usable BY DEF Direction, Usable
    <3>2. QED BY <2>4, <3>1, StartKeeps
  <2>5. CASE GetEOF(t) BY <2>5, GetEOFKeeps
  <2>6. CASE GetFromMemory(t) BY <2>6, GetFromMemoryKeeps
  <2>7. CASE PutInMemory(t) BY <2>7, PutInMemoryKeeps
  <2>8. CASE Unlock(t) BY <2>8, UnlockKeeps
  <2>9. CASE OS(t) BY <2>9, OSKeeps
  <2>10. CASE Lock(t) BY <2>10, LockKeeps
  <2>11. CASE LockAfterError(t) BY <2>11, LockAfterErrorKeeps
  <2>12. QED BY <1>1, <2>1, <2>2, <2>3, <2>4, <2>5, <2>6, <2>7, <2>8, <2>9, <2>10, <2>11 DEF Use
<1>2. ASSUME NEW t \in Threads, Collect(t) PROVE Control' /\ Data' BY <1>2, CollectKeepsData
<1>3. CASE UNCHANGED vars
  <2>1. LivePorts' = LivePorts BY <1>3 DEF vars, LivePorts, Live
  <2>2. BoundsOK' BY <1>3 DEF vars, UserInv, Control, BoundsOK
  <2>3. OthersOK' BY <1>3 DEF vars, UserInv, Control, OthersOK
  <2>4. CallsOK' BY <1>3, <2>1 DEF vars, UserInv, Control, CallsOK
  <2>5. ContentsOK' BY <1>3 DEF vars, UserInv, Data, ContentsOK, Live
  <2>6. EndsOK' BY <1>3, <2>1 DEF vars, UserInv, Data, EndsOK, Outside
  <2>7. ReadsOK' BY <1>3 DEF vars, UserInv, Data, ReadsOK, Whole, Live
  <2>8. BuffersOK' BY <1>3 DEF vars, UserInv, Data, BuffersOK, MemoryOutput, Live, ttisfport
  <2>9. QED BY <2>2, <2>3, <2>4, <2>5, <2>6, <2>7, <2>8 DEF Control, Data
<1>4. QED BY <1>1, <1>2, <1>3 DEF Next

\* While the one thread that uses ports is in the operating system, having given up
\* the GIL, its port is neither freed, by the collections of other threads, nor
\* closed (kwrite.c: klisp_assert(kport_is_open(port))).
THEOREM UseSafety ==
    ASSUME OneUser
    PROVE  Spec => []OpenWhileUsed
<1>1. UserInv => OpenWhileUsed
    BY DEF UserInv, IInv, PcOK, Control, CallsOK, OpenWhileUsed, LivePorts
<1>2. UserInv /\ [Next]_vars => UserInv' BY UserStep
<1>3. QED BY <1>1, <1>2, UserInitially, PTL DEF Spec

\* The one thread that uses ports reads the characters of each in their order and
\* once, through any mixture of its operations, and a memory port holds what was
\* written to it however its buffer grew, for any texts and sizes of buffers.
THEOREM ReadSafety ==
    ASSUME OneUser
    PROVE  Spec => []ReadInOrder
<1> USE PortsAssumption
<1>1. UserInv => ReadInOrder
  <2> SUFFICES ASSUME UserInv PROVE ReadInOrder OBVIOUS
  <2>1. TypeOK
    <3>1. ASSUME NEW p \in Ports, Live(p)
          PROVE  /\ port[p].kind \in Kinds \cup {"file"}
                 /\ port[p].dir \in {"input", "output"} /\ port[p].open \in BOOLEAN
                 /\ off[p] <= Len(buf[p])
      <4>1. port[p] \in PortRecords BY <3>1 DEF UserInv, IInv, PortsOK, Live
      <4>2. Len(buf[p]) \in Nat BY DEF UserInv, Data, BuffersOK
      <4>3. off[p] <= Len(buf[p]) BY <3>1, <4>2 DEF UserInv, Data, BuffersOK
      <4>4. QED BY <4>1, <4>3 DEF PortRecords
    <3>2. key.input \in Ports /\ key.output \in Ports
        BY DEF UserInv, IInv, Mentioned, RefersTo, Directions, LivePorts
    <3>3. ASSUME NEW t \in Threads
          PROVE  /\ held[t] \subseteq {p \in Ports : Live(p)}
                 /\ Len(frames[t]) <= MaxFrames
                 /\ pc[t] # "program" => curr_port[t] \in Ports
        BY DEF UserInv, IInv, Mentioned, RefersTo, LivePorts, Control, BoundsOK, CallsOK
    <3>4. QED BY <3>1, <3>2, <3>3 DEF TypeOK, UserInv, IInv, PcOK, Control, BoundsOK
  <2>2. ASSUME NEW p \in Ports \ Standard, Live(p), port[p].open, port[p].dir = "input",
               \A t \in Threads : curr_port[t] = p => pc[t] # "back"
        PROVE  taken[p] \o rest[p] = Text
    <3>1. Whole(p, <<>>) BY <2>2 DEF UserInv, Data, ReadsOK
    <3>2. taken[p] \in Seq(Chars) BY DEF UserInv, Data, ContentsOK
    <3>3. taken[p] \o <<>> = taken[p] BY <3>2, ConcatEmptySeq
    <3>4. QED BY <3>1, <3>3 DEF Whole
  <2>3. \A t \in Threads :
          (pc[t] = "call" /\ want[t] \in {"get", "peek"} /\ seen_eof[t]) => rest[curr_port[t]] = <<>>
      BY DEF UserInv, Data, EndsOK
  <2>4. \A p \in Ports : (Live(p) /\ ~ttisfport(p) /\ port[p].dir = "output") =>
          SubSeq(buf[p], 1, off[p]) = written[p]
      BY DEF UserInv, Data, BuffersOK, MemoryOutput
  <2>5. QED BY <2>1, <2>2, <2>3, <2>4 DEF ReadInOrder
<1>2. UserInv /\ [Next]_vars => UserInv' BY UserStep
<1>3. QED BY <1>1, <1>2, UserInitially, PTL DEF Spec

=============================================================================
