-------------------------------- MODULE KPorts --------------------------------
(***************************************************************************)
(* Ports: file ports, string and bytevector ports.                         *)
(*                                                                         *)
(* Sources: kport.c, kgports.c, and what kread.c, ktoken.c and kwrite.c do *)
(* with a port.                                                            *)
(*                                                                         *)
(* A thread gives up the GIL for each call of the operating system that    *)
(* reads a character from, writes to or flushes a FILE.  Everything else,  *)
(* fopen and fclose included, happens under the GIL.                       *)
(***************************************************************************)
EXTENDS Integers, Sequences, FiniteSets, SequencesExt, FiniteSetsExt

CONSTANTS
    Threads, Ports,
    Stdin, Stdout,      \* two of the ports
    Kinds,              \* the kinds of port a program opens
    Text,               \* what is in each file, string or bytevector to be read
    Letter, Newline,    \* the characters: of data and between data
    Buffer,             \* the first size of the buffer of a memory port
    MaxFrames, MaxHeld, MaxWritten,     \* bounds
    PortUsers,          \* the threads that use ports, the same ones; others compute
    EOF, None

ASSUME PortsAssumption ==
    /\ Stdin \in Ports /\ Stdout \in Ports /\ Stdin # Stdout
    /\ Kinds \subseteq {"file", "binary-file", "string", "bytevector"}
    /\ Text \in Seq({Letter, Newline}) /\ Letter # Newline
    /\ Buffer \in Nat \ {0} /\ MaxFrames \in Nat /\ MaxWritten \in Nat /\ MaxHeld \in Nat
    /\ PortUsers \subseteq Threads
    /\ EOF \notin {Letter, Newline} /\ "error" \notin {Letter, Newline, EOF}

VARIABLES
    port,       \* port[p]: kind, direction, the open flag; or None
    FILE,       \* FILE[p]: "none", "open" or "closed"
    rest,       \* rest[p]: what is still to be read
    buf, off,   \* of a memory port that is written to
    key,        \* the current input and output port
    gil,        \* the thread inside C code that keeps the GIL
    pc,         \* pc[t]: "program", "call" or "os", "back" from the OS
    held,       \* held[t]: the ports in variables of t
    frames,     \* frames[t]: extents with a file, innermost last
    saved,      \* saved[t]: those of a captured continuation, or None
    op,         \* op[t]: the operation
    ptree,      \* ptree[t]: the port it was applied to, or None
    curr_port, seen_eof,
    want,       \* want[t]: "get", "peek", "put" or "flush"
    more,       \* more[t]: whether a datum has begun, or has more to be written
    chi,        \* chi[t]: what the OS has returned
    \* What the properties need to know:
    taken,      \* taken[p]: what has been read
    written     \* written[p]: what has been written

ports == <<port, FILE, key>>
contents == <<rest, taken, buf, off, written>>
program == <<held, frames, saved>>
local == <<op, ptree, want, more, chi>>
call == <<curr_port, seen_eof, local>>
vars == <<port, FILE, rest, buf, off, key, gil, pc, held, frames, saved, op, ptree,
          curr_port, seen_eof, want, more, chi, taken, written>>

PortRecords == [kind : Kinds \cup {"file"}, dir : {"input", "output"}, open : BOOLEAN]
ASSUME NoneAssumption == None \notin PortRecords

Port(kind, dir) == [kind |-> kind, dir |-> dir, open |-> TRUE]
Live(p) == port[p] # None
ttisfport(p) == port[p].kind \in {"file", "binary-file"}
kport_is_binary(p) == port[p].kind \in {"binary-file", "bytevector"}
Standard == {Stdin, Stdout}

Junk(n) == [i \in 1 .. n |-> None]

Init ==
    /\ port = [p \in Ports |-> CASE p = Stdin -> Port("file", "input")
                                 [] p = Stdout -> Port("file", "output")
                                 [] OTHER -> None]
    /\ FILE = [p \in Ports |-> IF p \in Standard THEN "open" ELSE "none"]
    /\ rest = [p \in Ports |-> <<>>]
    /\ buf = [p \in Ports |-> <<>>] /\ off = [p \in Ports |-> 0]
    /\ key = [input |-> Stdin, output |-> Stdout]
    /\ gil = None
    /\ pc = [t \in Threads |-> "program"]
    /\ held = [t \in Threads |-> {}]
    /\ frames = [t \in Threads |-> <<>>]
    /\ saved = [t \in Threads |-> None]
    /\ op = [t \in Threads |-> None] /\ ptree = [t \in Threads |-> None]
    /\ curr_port = [t \in Threads |-> None]
    /\ seen_eof = [t \in Threads |-> FALSE]
    /\ want = [t \in Threads |-> None]
    /\ more = [t \in Threads |-> FALSE]
    /\ chi = [t \in Threads |-> None]
    /\ taken = [p \in Ports |-> <<>>] /\ written = [p \in Ports |-> <<>>]

-----------------------------------------------------------------------------
(***************************************************************************)
(* Opening.                                                                *)
(***************************************************************************)
InProgram(t) == pc[t] = "program" /\ gil = None

\* kmake_fport and kmake_mport.
Make(p, kind, dir) ==
    /\ ~Live(p)
    /\ port' = [port EXCEPT ![p] = Port(kind, dir)]
    /\ FILE' = [FILE EXCEPT ![p] = IF kind \in {"file", "binary-file"} THEN "open" ELSE "none"]
    /\ rest' = [rest EXCEPT ![p] = IF dir = "input" THEN Text ELSE <<>>]
    /\ buf' = [buf EXCEPT ![p] = IF kind \in {"string", "bytevector"} /\ dir = "output"
                                 THEN Junk(Buffer) ELSE <<>>]
    /\ off' = [off EXCEPT ![p] = 0]
    /\ taken' = [taken EXCEPT ![p] = <<>>]
    /\ written' = [written EXCEPT ![p] = <<>>]

\* open_file and open_mport.
Open(t, p, kind, dir) ==
    /\ InProgram(t) /\ Cardinality(held[t]) < MaxHeld /\ Make(p, kind, dir)
    /\ held' = [held EXCEPT ![t] = @ \cup {p}]
    /\ UNCHANGED <<key, gil, pc, frames, saved, call>>

\* An extent: call_with_file gives the port to its combiner, with_file makes it
\* the current port.
Frame(p, dir, binds) == [port |-> p, dir |-> dir, binds |-> binds, old |-> key[dir]]

with_file(t, p, dir) ==
    /\ InProgram(t) /\ Len(frames[t]) < MaxFrames /\ Make(p, "file", dir)
    /\ frames' = [frames EXCEPT ![t] = Append(@, Frame(p, dir, TRUE))]
    /\ key' = [key EXCEPT ![dir] = p]
    /\ UNCHANGED <<gil, pc, held, saved, call>>

call_with_file(t, p, dir) ==
    /\ InProgram(t) /\ Len(frames[t]) < MaxFrames /\ Make(p, "file", dir)
    /\ frames' = [frames EXCEPT ![t] = Append(@, Frame(p, dir, FALSE))]
    /\ held' = [held EXCEPT ![t] = @ \cup {p}]
    /\ UNCHANGED <<key, gil, pc, saved, call>>

-----------------------------------------------------------------------------
(***************************************************************************)
(* Closing, and leaving extents.                                           *)
(***************************************************************************)
Cleared(f, ps) == [p \in Ports |-> IF p \in ps THEN <<>> ELSE f[p]]

fclosed(fs) ==
    [p \in Ports |-> IF p \notin fs THEN FILE[p]
                     ELSE IF FILE[p] = "open" THEN "closed" ELSE "closed twice"]

\* What was not read of the files is gone with them.
fclose(fs) ==
    /\ FILE' = fclosed(fs) /\ rest' = Cleared(rest, fs) /\ taken' = Cleared(taken, fs)

kclose_port(p) ==
    /\ port' = [port EXCEPT ![p].open = FALSE]
    /\ fclose({q \in {p} \ Standard : ttisfport(q) /\ port[q].open})

\* The current ports after fs are left, innermost first.
Left(k, fs) ==
    [dir \in {"input", "output"} |->
        LET bound == {i \in DOMAIN fs : fs[i].binds /\ fs[i].dir = dir}
        IN  IF bound = {} THEN k[dir] ELSE fs[Min(bound)].old]

\* The current ports after fs are entered again.
Entered(k, fs) ==
    [dir \in {"input", "output"} |->
        LET bound == {i \in DOMAIN fs : fs[i].binds /\ fs[i].dir = dir}
        IN  IF bound = {} THEN k[dir] ELSE fs[Max(bound)].port]

\* The C function is left: its locals are of no use any more.
Return(t) ==
    /\ pc' = [pc EXCEPT ![t] = "program"] /\ gil' = None
    /\ op' = [op EXCEPT ![t] = None] /\ ptree' = [ptree EXCEPT ![t] = None]
    /\ want' = [want EXCEPT ![t] = None] /\ more' = [more EXCEPT ![t] = FALSE]
    /\ chi' = [chi EXCEPT ![t] = None]

\* An error leaves all extents.
Throw(t) ==
    /\ Return(t)
    /\ frames' = [frames EXCEPT ![t] = <<>>]
    /\ key' = Left(key, frames[t])

\* The ports in variables, which all threads see, and those a program can name.
Held == UNION {held[t] : t \in Threads}
Usable == Held \cup {key.input, key.output}

\* close_file and close_port, with a check of the direction if dir is not None.
close_port(t, p, dir) ==
    /\ InProgram(t)
    /\ IF dir \in {None, port[p].dir}
       THEN kclose_port(p) /\ UNCHANGED <<frames, key, pc, gil, local>>
       ELSE Throw(t) /\ UNCHANGED <<port, FILE, rest, taken>>
    /\ UNCHANGED <<buf, off, written, held, saved, curr_port, seen_eof>>

\* do_close_file_ret, after the current port is restored.
do_close_file_ret(t) ==
    /\ InProgram(t) /\ frames[t] # <<>>
    /\ kclose_port(Last(frames[t]).port)
    /\ key' = Left(key, <<Last(frames[t])>>)
    /\ frames' = [frames EXCEPT ![t] = Front(@)]
    /\ UNCHANGED <<buf, off, written, gil, pc, held, saved, call>>

Capture(t) ==
    /\ InProgram(t) /\ frames[t] # <<>>
    /\ saved' = [saved EXCEPT ![t] = frames[t]]
    /\ UNCHANGED <<ports, contents, gil, pc, held, frames, call>>

\* The length of the common part of two continuations.
Common(f, g) == Max({n \in 0 .. Min({Len(f), Len(g)}) : SubSeq(f, 1, n) = SubSeq(g, 1, n)})

\* The captured continuation is applied: extents are left and entered again, and
\* no port is opened or closed by that.
Reenter(t) ==
    /\ InProgram(t) /\ saved[t] # None
    /\ LET n == Common(frames[t], saved[t])
       IN  key' = Entered(Left(key, SubSeq(frames[t], n + 1, Len(frames[t]))),
                          SubSeq(saved[t], n + 1, Len(saved[t])))
    /\ frames' = [frames EXCEPT ![t] = saved[t]]
    /\ UNCHANGED <<port, FILE, contents, gil, pc, held, saved, call>>

Forget(t) ==
    /\ InProgram(t)
    /\ \/ \E p \in held[t] : held' = [held EXCEPT ![t] = @ \ {p}] /\ UNCHANGED saved
       \/ saved' = [saved EXCEPT ![t] = None] /\ saved[t] # None /\ UNCHANGED held
    /\ UNCHANGED <<ports, contents, gil, pc, frames, call>>

-----------------------------------------------------------------------------
(***************************************************************************)
(* The collector closes the ports it frees.                                *)
(***************************************************************************)
FramePorts(fs) == UNION {{fs[i].port, fs[i].old} : i \in DOMAIN fs}
FrameRoots(t) ==
    FramePorts(frames[t]) \cup (IF saved[t] = None THEN {} ELSE FramePorts(saved[t]))

\* The registers of a thread: the operands it was given, and its port.
Registers(t) == {curr_port[t]} \cup IF pc[t] = "program" THEN {} ELSE {ptree[t]}

\* Wrong variant: registers are not marked.
RootsBug ==
    {key.input, key.output} \cup UNION {held[u] \cup FrameRoots(u) : u \in Threads}

Roots ==
    {key.input, key.output}
      \cup UNION {held[u] \cup FrameRoots(u) \cup Registers(u) : u \in Threads}

\* Wrong variant: a port is freed as other objects are.
CollectBug(t) ==
    /\ InProgram(t)
    /\ LET dead == {p \in Ports : Live(p)} \ Roots IN
         /\ dead # {}
         /\ port' = [p \in Ports |-> IF p \in dead THEN None ELSE port[p]]
         /\ rest' = Cleared(rest, dead) /\ taken' = Cleared(taken, dead)
         /\ buf' = Cleared(buf, dead)
         /\ off' = [p \in Ports |-> IF p \in dead THEN 0 ELSE off[p]]
         /\ written' = Cleared(written, dead)
    /\ UNCHANGED <<FILE, key, gil, pc, program, call>>

Collect(t) ==
    /\ InProgram(t)
    /\ LET dead == {p \in Ports : Live(p)} \ Roots IN
         /\ dead # {}
         /\ port' = [p \in Ports |-> IF p \in dead THEN None ELSE port[p]]
         /\ FILE' = fclosed({p \in dead \ Standard : ttisfport(p) /\ port[p].open})
         /\ rest' = Cleared(rest, dead) /\ taken' = Cleared(taken, dead)
         /\ buf' = Cleared(buf, dead)
         /\ off' = [p \in Ports |-> IF p \in dead THEN 0 ELSE off[p]]
         /\ written' = Cleared(written, dead)
    /\ UNCHANGED <<key, gil, pc, program, call>>

-----------------------------------------------------------------------------
(***************************************************************************)
(* Reading and writing.  An operation is a sequence of calls, each of which*)
(* reads or writes one character (one token, for write) or flushes.        *)
(***************************************************************************)
Reads == {"read-char", "peek-char", "read-line", "read"}
Operations == Reads \cup {"write-char", "write", "flush"}
Direction(o) == IF o \in Reads THEN "input" ELSE "output"

\* read-char, peek-char and write-char have a twin for bytes.
Fits(p, o, binary) ==
    /\ port[p].dir = Direction(o)
    /\ o # "flush" => kport_is_binary(p) = binary
    /\ port[p].open

First(o) == CASE o \in {"read-char", "read-line"} -> "get"
              [] o \in {"peek-char", "read"} -> "peek"
              [] o \in {"write-char", "write"} -> "put"
              [] o = "flush" -> "flush"

Puts(o) == CASE o = "write-char" -> 1 [] o = "write" -> 2 [] OTHER -> 0

\* The port becomes the current port of the thread.
Switch(t, p) ==
    /\ curr_port' = [curr_port EXCEPT ![t] = p]
    /\ seen_eof' = [seen_eof EXCEPT ![t] = @ /\ curr_port[t] = p]

\* The operation o is applied to the port p it is given (and which no variable
\* holds any longer, if last), or to the current port.
Start(t, o, binary, p, given, last) ==
    /\ InProgram(t)
    /\ last => p \in held[t]
    /\ off[p] + Puts(o) <= MaxWritten
    /\ held' = [held EXCEPT ![t] = IF last THEN @ \ {p} ELSE @]
    /\ IF Fits(p, o, binary)
       THEN /\ IF o \in Reads THEN Switch(t, p)
               ELSE curr_port' = [curr_port EXCEPT ![t] = p] /\ UNCHANGED seen_eof
            /\ op' = [op EXCEPT ![t] = o]
            /\ ptree' = [ptree EXCEPT ![t] = IF given THEN p ELSE None]
            /\ want' = [want EXCEPT ![t] = First(o)]
            /\ more' = [more EXCEPT ![t] = (o = "write")]
            /\ pc' = [pc EXCEPT ![t] = "call"] /\ gil' = t
            /\ UNCHANGED <<frames, key, chi>>
       ELSE Throw(t) /\ UNCHANGED <<curr_port, seen_eof>>
    /\ UNCHANGED <<port, FILE, contents, saved>>

Called(t) == pc[t] = "call" /\ gil = t

Continue(t, w, m) ==
    /\ want' = [want EXCEPT ![t] = w]
    /\ more' = [more EXCEPT ![t] = m]
    /\ pc' = [pc EXCEPT ![t] = "call"] /\ gil' = t
    /\ chi' = [chi EXCEPT ![t] = None]
    /\ UNCHANGED <<op, ptree>>

\* What each operation does after a call, with the character c that was read:
\* read skips what is between data and stops before the first character after
\* its datum.
Proceed(t, c) ==
    CASE op[t] = "read-line" /\ c \notin {Newline, EOF} -> Continue(t, "get", FALSE)
      [] op[t] = "read" /\ want[t] = "peek" ->
            IF c = EOF \/ (c = Newline /\ more[t]) THEN Return(t)
            ELSE Continue(t, "get", more[t])
      [] op[t] = "read" /\ want[t] = "get" -> Continue(t, "peek", more[t] \/ c = Letter)
      [] op[t] = "write" /\ want[t] = "put" ->
            IF more[t] THEN Continue(t, "put", FALSE) ELSE Continue(t, "flush", FALSE)
      [] OTHER -> Return(t)

\* ktok_peekc_getc at the end of the port, once that was seen.
GetEOF(t) ==
    /\ Called(t) /\ want[t] \in {"get", "peek"} /\ seen_eof[t]
    /\ Proceed(t, EOF)
    /\ UNCHANGED <<ports, contents, program, curr_port, seen_eof>>

InMemory(t) == ~ttisfport(curr_port[t])

\* Reading from memory, never out of the GIL.
GetFromMemory(t) ==
    LET p == curr_port[t] IN
    /\ Called(t) /\ want[t] \in {"get", "peek"} /\ ~seen_eof[t] /\ InMemory(t)
    /\ IF rest[p] = <<>>
       THEN /\ seen_eof' = [seen_eof EXCEPT ![t] = TRUE]
            /\ Proceed(t, EOF)
            /\ UNCHANGED <<rest, taken>>
       ELSE /\ Proceed(t, Head(rest[p]))
            /\ IF want[t] = "get"
               THEN /\ rest' = [rest EXCEPT ![p] = Tail(@)]
                    /\ taken' = [taken EXCEPT ![p] = Append(@, Head(rest[p]))]
               ELSE UNCHANGED <<rest, taken>>
            /\ UNCHANGED seen_eof
    /\ UNCHANGED <<ports, buf, off, written, program, curr_port>>

\* kmport_resize_buffer: size after doubling until it is enough.
Doubled(size, min) ==
    LET doubled[s \in Nat \ {0}] == IF s >= min THEN s ELSE doubled[2 * s]
    IN  doubled[size]

Resized(b, o, min) ==
    IF min <= Len(b) THEN b ELSE SubSeq(b, 1, o) \o Junk(Doubled(Len(b), min) - o)

PutInMemory(t) ==
    LET p == curr_port[t]
        n == off[p]
    IN  /\ Called(t) /\ want[t] \in {"put", "flush"} /\ InMemory(t)
        /\ IF want[t] = "flush" THEN UNCHANGED <<buf, off, written>>
           ELSE LET c == IF n % 2 = 0 THEN Letter ELSE Newline IN
                  /\ buf' = [buf EXCEPT ![p] = [Resized(@, n, n + 1) EXCEPT ![n + 1] = c]]
                  /\ off' = [off EXCEPT ![p] = n + 1]
                  /\ written' = [written EXCEPT ![p] = Append(@, c)]
        /\ Proceed(t, None)
        /\ UNCHANGED <<ports, rest, taken, program, curr_port, seen_eof>>

\* klisp_unlock, with the FILE in hand.
Unlock(t) ==
    /\ Called(t) /\ ~InMemory(t)
    /\ want[t] \in {"get", "peek"} => ~seen_eof[t]
    /\ pc' = [pc EXCEPT ![t] = "os"] /\ gil' = None
    /\ UNCHANGED <<ports, contents, program, call>>

\* getc, fputc, vfprintf and fflush; "error" is what they return when they fail.
OS(t) ==
    LET p == curr_port[t] IN
    /\ pc[t] = "os" /\ FILE[p] = "open"
    /\ \/ /\ want[t] \in {"get", "peek"} /\ rest[p] # <<>>
          /\ chi' = [chi EXCEPT ![t] = Head(rest[p])]
          /\ rest' = [rest EXCEPT ![p] = Tail(@)]
       \/ /\ want[t] \in {"get", "peek"} /\ rest[p] = <<>>
          /\ chi' = [chi EXCEPT ![t] = EOF]
          /\ UNCHANGED rest
       \/ /\ want[t] \in {"put", "flush"}
          /\ chi' = [chi EXCEPT ![t] = None]
          /\ UNCHANGED rest
       \/ /\ chi' = [chi EXCEPT ![t] = "error"]
          /\ UNCHANGED rest
    /\ pc' = [pc EXCEPT ![t] = "back"]
    /\ UNCHANGED <<ports, taken, buf, off, written, gil, program,
                   op, ptree, curr_port, seen_eof, want, more>>

Back(t) == pc[t] = "back" /\ gil = None

\* Wrong variant: what was peeked is not given back.
ktok_gungetcBug(t) == UNCHANGED rest

ktok_gungetc(t) == rest' = [rest EXCEPT ![curr_port[t]] = <<chi[t]>> \o @]

\* klisp_lock, and what was read or written is accounted for.
Lock(t) ==
    LET p == curr_port[t] IN
    /\ Back(t) /\ chi[t] # "error"
    /\ seen_eof' = [seen_eof EXCEPT ![t] = @ \/ chi[t] = EOF]
    /\ IF want[t] = "peek" /\ chi[t] # EOF THEN ktok_gungetc(t) ELSE UNCHANGED rest
    /\ taken' = [taken EXCEPT ![p] = IF want[t] = "get" /\ chi[t] # EOF
                                     THEN Append(@, chi[t]) ELSE @]
    /\ Proceed(t, chi[t])
    /\ UNCHANGED <<ports, buf, off, written, program, curr_port>>

LockAfterError(t) ==
    /\ Back(t) /\ chi[t] = "error"
    /\ Throw(t)
    /\ UNCHANGED <<port, FILE, contents, held, saved, curr_port, seen_eof>>

-----------------------------------------------------------------------------
Use(t) ==
    \/ \E p \in Ports \ Standard, dir \in {"input", "output"} :
         \/ \E kind \in Kinds : Open(t, p, kind, dir)
         \/ with_file(t, p, dir)
         \/ call_with_file(t, p, dir)
    \/ \E p \in Usable, dir \in {"input", "output", None} : close_port(t, p, dir)
    \/ do_close_file_ret(t) \/ Capture(t) \/ Reenter(t) \/ Forget(t)
    \/ \E o \in Operations, binary \in BOOLEAN :
         /\ binary => o \in {"read-char", "peek-char", "write-char"}
         /\ \/ \E p \in Held, last \in BOOLEAN : Start(t, o, binary, p, TRUE, last)
            \/ Start(t, o, binary, key[Direction(o)], FALSE, FALSE)
    \/ GetEOF(t) \/ GetFromMemory(t) \/ PutInMemory(t)
    \/ Unlock(t) \/ OS(t) \/ Lock(t) \/ LockAfterError(t)

Next == (\E t \in PortUsers : Use(t)) \/ (\E t \in Threads : Collect(t))

Spec == Init /\ [][Next]_vars

-----------------------------------------------------------------------------
(***************************************************************************)
(* Properties.                                                             *)
(***************************************************************************)
TypeOK ==
    /\ \A p \in Ports : Live(p) =>
         /\ port[p].kind \in Kinds \cup {"file"}
         /\ port[p].dir \in {"input", "output"} /\ port[p].open \in BOOLEAN
         /\ off[p] <= Len(buf[p])
    /\ key.input \in Ports /\ key.output \in Ports
    /\ gil \in Threads \cup {None}
    /\ pc \in [Threads -> {"program", "call", "os", "back"}]
    /\ \A t \in Threads :
         /\ held[t] \subseteq {p \in Ports : Live(p)}
         /\ Len(frames[t]) <= MaxFrames
         /\ pc[t] # "program" => curr_port[t] \in Ports

\* Each FILE is open as long as its port is, and closed exactly once: by the
\* program, by the end of an extent, entered again or not, or by the collector.
FilesFollowPorts ==
    \A p \in Ports \ Standard :
        /\ FILE[p] = "open" <=> Live(p) /\ ttisfport(p) /\ port[p].open
        /\ FILE[p] # "closed twice"

\* While a thread that has released the GIL is in the operating system, its file
\* is neither closed nor freed (kwrite.c: klisp_assert(kport_is_open(port))).
OpenWhileUsed ==
    \A t \in Threads : pc[t] \in {"call", "os", "back"} =>
        Live(curr_port[t]) /\ port[curr_port[t]].open

\* The characters of a port are read in their order, each of them once, however
\* peeks, reads of lines and data are mixed (ports.texi: after peek-char "the
\* position of the port remains unchanged"); the end that was seen is that of the
\* port, and no other port's; and a memory port holds what was written to it,
\* whenever its buffer grew.
ReadInOrder ==
  /\ TypeOK
  /\ \A p \in Ports \ Standard :
        (/\ Live(p) /\ port[p].open /\ port[p].dir = "input"
         /\ \A t \in Threads : curr_port[t] = p => pc[t] # "back")
          => taken[p] \o rest[p] = Text
  /\ \A t \in Threads :
        (pc[t] = "call" /\ want[t] \in {"get", "peek"} /\ seen_eof[t])
          => rest[curr_port[t]] = <<>>
  /\ \A p \in Ports : (Live(p) /\ ~ttisfport(p) /\ port[p].dir = "output") =>
        SubSeq(buf[p], 1, off[p]) = written[p]

=============================================================================
