------------------------------ MODULE KReadWrite ------------------------------
(***************************************************************************)
(* The writer and the reader of data with shared and cyclic structure.     *)
(*                                                                         *)
(* Sources: kwrite.c (kwrite, kwrite_simple, kwrite_fsm, the marks),       *)
(* kread.c (kread_fsm and the shared definitions).                         *)
(*                                                                         *)
(* The text between the two is a sequence of tokens; the tokenizer, and    *)
(* how each scalar is spelled, are left out.  The writer keeps its labels  *)
(* in the marks of the objects it writes, which all threads share, and     *)
(* releases the GIL whenever it prints to a file port.  A thread that has  *)
(* written a datum reads the text back, with a comment put somewhere in    *)
(* it, as one datum or twice as the list of a file.                        *)
(***************************************************************************)
EXTENDS Integers, Sequences, FiniteSets, SequencesExt, Functions

CONSTANTS
    Threads,
    Pairs, Strings,     \* the objects that can be shared, in the heap
    Scalars, Nil,
    Written,            \* the objects the program writes
    PortKinds,          \* the ports written to: "file", "memory"
    EOF, None

ASSUME ReadWriteAssumption ==
    /\ PortKinds \subseteq {"file", "memory"}
    /\ Nil \in Scalars
    /\ Written \subseteq Pairs \cup Strings \cup Scalars

Shareable == Pairs \cup Strings
Objects == Shareable \cup Scalars

VARIABLES
    car, cdr,     \* of each pair
    mark,         \* of each pair and string
    gil,          \* the thread inside C code that keeps the GIL
    at,           \* at[t]: the C function thread t is in
    obj,          \* obj[t]: what it writes
    mode,         \* mode[t]: "write", "display" or "write-simple"
    port,         \* port[t]: the kind of port
    sdata,        \* sdata[t]: the writer's stack (ks)
    middle_list,  \* middle_list[t]
    kw_shared_count,
    text,         \* text[t]: written, or still to be read
    states,       \* states[t]: the reader's stack (ks), state and data together
    read,         \* read[t]: the object just read
    shared_dict,  \* shared_dict[t]: the object each label stands for
    sexp_comment_shared,
    made,         \* made[t]: the pairs and strings the reader has made
    how           \* how[t]: what the reader was given

heap == <<car, cdr, mark>>
writer == <<obj, mode, port, sdata, middle_list, kw_shared_count>>
reader == <<states, read, shared_dict, sexp_comment_shared, made, how>>
vars == <<car, cdr, mark, gil, at, obj, mode, port, sdata, middle_list,
          kw_shared_count, text, states, read, shared_dict, sexp_comment_shared, made, how>>

-----------------------------------------------------------------------------
(***************************************************************************)
(* Marks: KFALSE, KTRUE (found once), -1 (found more than once) or a label.*)
(***************************************************************************)
KFALSE == -3
KTRUE == -2
Repeated == -1

Boolean(m) == m \in {KFALSE, KTRUE}

\* The pairs a traversal from o goes through that enters only pairs in ps.
Entered(o, ps) ==
    LET step[n \in 0 .. Cardinality(Pairs)] ==
            IF n = 0 THEN {o} \cap ps
            ELSE step[n-1] \cup (ps \cap UNION {{car[p], cdr[p]} : p \in step[n-1]})
    IN  step[Cardinality(Pairs)]

\* How often such a traversal comes across object x.
Found(x, o, ps) ==
    Cardinality({p \in Entered(o, ps) : car[p] = x})
      + Cardinality({p \in Entered(o, ps) : cdr[p] = x})
      + IF x = o THEN 1 ELSE 0

\* Wrong variant: what is found again is not marked as such.
initial_marksBug(o) ==
    LET unmarked == {p \in Pairs : mark[p] = KFALSE}
    IN  [x \in Shareable |-> IF Found(x, o, unmarked) = 0 THEN mark[x] ELSE KTRUE]

initial_marks(o) ==
    LET unmarked == {p \in Pairs : mark[p] = KFALSE}
    IN  [x \in Shareable |->
            CASE Found(x, o, unmarked) = 0 -> mark[x]
              [] Found(x, o, unmarked) = 1 /\ mark[x] = KFALSE -> KTRUE
              [] OTHER -> Repeated]

\* Wrong variant: only the marks of pairs are cleared.
clear_marksBug(o) ==
    LET marked == {p \in Pairs : mark[p] # KFALSE}
    IN  [x \in Shareable |->
            IF x \in Pairs /\ Found(x, o, marked) > 0 THEN KFALSE ELSE mark[x]]

clear_marks(o) ==
    LET marked == {p \in Pairs : mark[p] # KFALSE}
    IN  [x \in Shareable |-> IF Found(x, o, marked) > 0 THEN KFALSE ELSE mark[x]]

-----------------------------------------------------------------------------
(***************************************************************************)
(* Tokens.                                                                 *)
(***************************************************************************)
Token(kind, v) == [kind |-> kind, v |-> v]
LParen == Token("(", None)
RParen == Token(")", None)
Dot == Token(".", None)
Comment == Token(";", None)
Def(n) == Token("=", n)
Ref(n) == Token("#", n)
Datum(o) == Token("datum", o)

Init ==
    /\ car \in [Pairs -> Objects] /\ cdr \in [Pairs -> Objects]
    /\ mark = [x \in Shareable |-> KFALSE]
    /\ gil = None
    /\ at = [t \in Threads |-> "program"]
    /\ obj = [t \in Threads |-> Nil]
    /\ mode = [t \in Threads |-> "write"]
    /\ port = [t \in Threads |-> "memory"]
    /\ sdata = [t \in Threads |-> <<>>]
    /\ middle_list = [t \in Threads |-> FALSE]
    /\ kw_shared_count = [t \in Threads |-> 0]
    /\ text = [t \in Threads |-> <<>>]
    /\ states = [t \in Threads |-> <<>>]
    /\ read = [t \in Threads |-> None]
    /\ shared_dict = [t \in Threads |-> <<>>]
    /\ sexp_comment_shared = [t \in Threads |-> <<>>]
    /\ made = [t \in Threads |-> <<>>]
    /\ how = [t \in Threads |-> [listp |-> FALSE, whole |-> FALSE]]

At(t, fn) == at[t] = fn /\ gil \in {None, t}

Goto(t, fn) == at' = [at EXCEPT ![t] = fn]

\* The GIL is released for the time of a call that writes to a file.
Release(t) == gil' = IF port[t] = "file" THEN None ELSE t

-----------------------------------------------------------------------------
(***************************************************************************)
(* kwrite and kwrite_simple.                                               *)
(***************************************************************************)
Acyclic(o) == \A p \in Entered(o, Pairs) :
    p \notin Entered(car[p], Pairs) \cup Entered(cdr[p], Pairs)

Write(t, o, m, kind) ==
    /\ At(t, "program")
    /\ m = "write-simple" => Acyclic(o)
    /\ mark' = IF m = "write-simple" THEN mark ELSE initial_marks(o)
    /\ obj' = [obj EXCEPT ![t] = o]
    /\ mode' = [mode EXCEPT ![t] = m]
    /\ port' = [port EXCEPT ![t] = kind]
    /\ sdata' = [sdata EXCEPT ![t] = <<o>>]
    /\ middle_list' = [middle_list EXCEPT ![t] = FALSE]
    /\ kw_shared_count' = [kw_shared_count EXCEPT ![t] = 0]
    /\ text' = [text EXCEPT ![t] = <<>>]
    /\ Goto(t, "kwrite_fsm") /\ gil' = t
    /\ UNCHANGED <<car, cdr, reader>>

\* The rest of one turn of kwrite_fsm: tokens are printed, pushed is pushed.
Emit(t, tokens, pushed, middle) ==
    /\ text' = [text EXCEPT ![t] = @ \o tokens]
    /\ sdata' = [sdata EXCEPT ![t] = Front(@) \o pushed]
    /\ middle_list' = [middle_list EXCEPT ![t] = middle]

Writing(t) == At(t, "kwrite_fsm") /\ sdata[t] # <<>>

Fields(p) == <<cdr[p], car[p]>>

\* The rest of a list.
WriteTail(t) ==
    /\ Writing(t) /\ middle_list[t]
    /\ LET o == Last(sdata[t]) IN
         IF o = Nil THEN Emit(t, <<RParen>>, <<>>, TRUE)
         ELSE IF o \in Pairs /\ Boolean(mark[o]) THEN Emit(t, <<>>, Fields(o), FALSE)
         ELSE Emit(t, <<Dot>>, <<Nil, o>>, FALSE)
    /\ Release(t)
    /\ UNCHANGED <<heap, at, obj, mode, port, kw_shared_count, reader>>

\* The token that starts or is an object, and what is pushed for its parts.
Start(o) == IF o \in Pairs THEN LParen ELSE Datum(o)
Parts(o) == IF o \in Pairs THEN Fields(o) ELSE <<>>

\* An object that is written in full.
WriteObject(t) ==
    /\ Writing(t) /\ ~middle_list[t]
    /\ LET o == Last(sdata[t]) IN
         \/ /\ o = Nil
            /\ Emit(t, <<LParen, RParen>>, <<>>, TRUE)
         \/ /\ o \in Scalars \ {Nil}
            /\ Emit(t, <<Datum(o)>>, <<>>, TRUE)
         \/ /\ o \in Shareable
            /\ Boolean(mark[o]) \/ (o \in Strings /\ mode[t] = "display")
            /\ Emit(t, <<Start(o)>>, Parts(o), o \notin Pairs)
    /\ Release(t)
    /\ UNCHANGED <<heap, at, obj, mode, port, kw_shared_count, reader>>

Labelled(t, o) ==
    o \in Shareable /\ ~Boolean(mark[o]) /\ ~(o \in Strings /\ mode[t] = "display")

\* An object found for the first time that will be found again.
WriteShared(t) ==
    /\ Writing(t) /\ ~middle_list[t]
    /\ LET o == Last(sdata[t])
           n == kw_shared_count[t]
       IN  /\ Labelled(t, o) /\ mark[o] < 0
           /\ mark' = [mark EXCEPT ![o] = n]
           /\ Emit(t, <<Def(n), Start(o)>>, Parts(o), o \notin Pairs)
           /\ kw_shared_count' = [kw_shared_count EXCEPT ![t] = n + 1]
    /\ Release(t)
    /\ UNCHANGED <<car, cdr, at, obj, mode, port, reader>>

\* Found again.
WriteRef(t) ==
    /\ Writing(t) /\ ~middle_list[t]
    /\ LET o == Last(sdata[t]) IN
         /\ Labelled(t, o) /\ mark[o] >= 0
         /\ Emit(t, <<Ref(mark[o])>>, <<>>, TRUE)
    /\ Release(t)
    /\ UNCHANGED <<heap, at, obj, mode, port, kw_shared_count, reader>>

\* The system fails to write to a file: all stacks and buffers are cleared, and
\* an error is raised.  What the thread does with the marks that are left is not
\* followed any further.
WriteError(t) ==
    /\ At(t, "kwrite_fsm") /\ port[t] = "file"
    /\ sdata' = [sdata EXCEPT ![t] = <<>>]
    /\ text' = [text EXCEPT ![t] = <<>>]
    /\ Goto(t, "failed") /\ gil' = None
    /\ UNCHANGED <<heap, obj, mode, port, middle_list, kw_shared_count, reader>>

Flush(t) ==
    /\ At(t, "kwrite_fsm") /\ sdata[t] = <<>>
    /\ IF mode[t] = "write-simple" THEN Goto(t, "written") /\ gil' = None
       ELSE Goto(t, "kw_clear_marks") /\ Release(t)
    /\ UNCHANGED <<heap, writer, text, reader>>

ClearMarks(t) ==
    /\ At(t, "kw_clear_marks")
    /\ mark' = clear_marks(obj[t])
    /\ Goto(t, "written") /\ gil' = None
    /\ UNCHANGED <<car, cdr, writer, text, reader>>

-----------------------------------------------------------------------------
(***************************************************************************)
(* kread_fsm.  What is read is a scalar or an index in made.               *)
(***************************************************************************)
Pair(a, d) == [kind |-> "pair", car |-> a, cdr |-> d]
String(s) == [kind |-> "string", content |-> s]

\* A state of the reader with its data: a pair or a label.
State(st, data) == [st |-> st, data |-> data]

top(t) == Last(states[t])
Push(t, frame) == states' = [states EXCEPT ![t] = Append(@, frame)]
Replace(t, frame) == states' = [states EXCEPT ![t] = Append(Front(@), frame)]
Pop(t, n) == states' = [states EXCEPT ![t] = SubSeq(@, 1, Len(@) - n)]

\* A comment inserted after the first k tokens: a list that refers to itself, by
\* a label not in use.
WithComment(s, k) ==
    LET used  == {n \in 0 .. k : Contains(SubSeq(s, 1, k), Def(n))}
        n     == CHOOSE n \in 0 .. k : n \notin used /\ \A m \in 0 .. n - 1 : m \in used
    IN  SubSeq(s, 1, k) \o <<Comment, Def(n), LParen, Ref(n), RParen>>
        \o SubSeq(s, k + 1, Len(s))

\* kread, of one datum or of the list of all data (listp).  The text is whole,
\* with a comment in it or, in a list, a comment with a comment in it between two
\* copies; or it is cut to its first k tokens.
Read(t, k, listp, whole) ==
    /\ At(t, "written") /\ mode[t] # "display"
    /\ listp => k = 0
    /\ text' = [text EXCEPT ![t] =
           CASE ~whole -> SubSeq(@, 1, k)
             [] whole /\ ~listp -> WithComment(@, k)
             [] OTHER -> @ \o <<Comment, Comment, LParen, RParen>> \o Tail(WithComment(@, 0))]
    /\ how' = [how EXCEPT ![t] = [listp |-> listp, whole |-> whole]]
    /\ Goto(t, "kread") /\ gil' = t
    /\ states' = [states EXCEPT ![t] =
           IF listp THEN <<State("READ", None), State("FIRST_EOF_LIST", 1)>>
           ELSE <<State("READ", None)>>]
    /\ made' = [made EXCEPT ![t] = IF listp THEN <<Pair(None, Nil)>> ELSE <<>>]
    /\ UNCHANGED <<heap, writer, read, shared_dict, sexp_comment_shared>>

Reading(t, kinds) ==
    /\ At(t, "kread") /\ read[t] = None
    /\ text[t] # <<>> /\ Head(text[t]).kind \in kinds
    /\ text' = [text EXCEPT ![t] = Tail(@)]

Unfinished == {"FIRST_LIST", "MIDDLE_LIST", "LAST_ILIST", "PAST_LAST_ILIST",
               "SHARED_DEF", "SEXP_COMMENT"}

\* What may not come next, by the state the reader is in.
Unexpected(t) ==
    IF text[t] = <<>>
    THEN top(t).st \in Unfinished
    ELSE LET tok == Head(text[t]) IN
         CASE tok.kind = ")" -> top(t).st \notin {"FIRST_LIST", "MIDDLE_LIST", "PAST_LAST_ILIST"}
           [] tok.kind = "." -> top(t).st # "MIDDLE_LIST"
           [] tok.kind = "=" -> \/ top(t).st \in {"SHARED_DEF", "PAST_LAST_ILIST"}
                                \/ tok.v \in DOMAIN shared_dict[t]
           [] tok.kind = "#" -> \/ top(t).st \in {"SHARED_DEF", "PAST_LAST_ILIST"}
                                \/ tok.v \notin DOMAIN shared_dict[t]
           [] tok.kind = ";" -> FALSE
           [] OTHER -> top(t).st = "PAST_LAST_ILIST"

\* All stacks are cleared, and an error is raised.
ReadError(t) ==
    /\ At(t, "kread") /\ read[t] = None /\ Unexpected(t)
    /\ states' = [states EXCEPT ![t] = <<>>]
    /\ shared_dict' = [shared_dict EXCEPT ![t] = <<>>]
    /\ sexp_comment_shared' = [sexp_comment_shared EXCEPT ![t] = <<>>]
    /\ Goto(t, "error") /\ gil' = None
    /\ UNCHANGED <<heap, writer, text, read, made, how>>

Define(t, n, o) ==
    shared_dict' = [shared_dict EXCEPT ![t] = [m \in DOMAIN @ \cup {n} |->
                                                IF m = n THEN o ELSE @[m]]]

Undefine(t, ns) == shared_dict' = [shared_dict EXCEPT ![t] = Restrict(@, DOMAIN @ \ ns)]

Make(t, o) == made' = [made EXCEPT ![t] = Append(@, o)]
Next_made(t) == Len(made[t]) + 1

ReadLParen(t) ==
    /\ Reading(t, {"("}) /\ ~Unexpected(t)
    /\ Make(t, Pair(None, Nil))
    /\ Push(t, State("FIRST_LIST", Next_made(t)))
    /\ IF top(t).st = "SHARED_DEF" THEN Define(t, top(t).data, Next_made(t))
       ELSE UNCHANGED shared_dict
    /\ UNCHANGED <<heap, writer, gil, at, read, sexp_comment_shared, how>>

ReadRParen(t) ==
    /\ Reading(t, {")"}) /\ ~Unexpected(t)
    /\ IF top(t).st = "FIRST_LIST"
       THEN Pop(t, 1) /\ read' = [read EXCEPT ![t] = Nil]
       ELSE /\ Pop(t, 2)
            /\ read' = [read EXCEPT ![t] = states[t][Len(states[t]) - 1].data]
    /\ UNCHANGED <<heap, writer, gil, at, shared_dict, sexp_comment_shared, made, how>>

ReadDot(t) ==
    /\ Reading(t, {"."}) /\ ~Unexpected(t)
    /\ Replace(t, State("LAST_ILIST", top(t).data))
    /\ UNCHANGED <<heap, writer, gil, at, read, shared_dict, sexp_comment_shared, made, how>>

\* Labels defined in a comment are noted, to be undefined when it ends.
ReadDef(t) ==
    /\ Reading(t, {"="}) /\ ~Unexpected(t)
    /\ LET n == Head(text[t]).v IN
         /\ Define(t, n, Nil)
         /\ sexp_comment_shared' = [sexp_comment_shared EXCEPT ![t] =
                IF @ = <<>> THEN @ ELSE Append(Front(@), Last(@) \cup {n})]
         /\ Push(t, State("SHARED_DEF", n))
    /\ UNCHANGED <<heap, writer, gil, at, read, made, how>>

ReadRef(t) ==
    /\ Reading(t, {"#"}) /\ ~Unexpected(t)
    /\ read' = [read EXCEPT ![t] = shared_dict[t][Head(text[t]).v]]
    /\ UNCHANGED <<heap, writer, gil, at, states, shared_dict, sexp_comment_shared, made, how>>

ReadComment(t) ==
    /\ Reading(t, {";"})
    /\ sexp_comment_shared' = [sexp_comment_shared EXCEPT ![t] = Append(@, {})]
    /\ Push(t, State("SEXP_COMMENT", None))
    /\ UNCHANGED <<heap, writer, gil, at, read, shared_dict, made, how>>

ReadDatum(t) ==
    /\ Reading(t, {"datum"}) /\ ~Unexpected(t)
    /\ LET o == Head(text[t]).v IN
         IF o \in Strings
         THEN Make(t, String(o)) /\ read' = [read EXCEPT ![t] = Next_made(t)]
         ELSE read' = [read EXCEPT ![t] = o] /\ UNCHANGED made
    /\ UNCHANGED <<heap, writer, gil, at, states, shared_dict, sexp_comment_shared, how>>

\* The end of the file completes the list of its data.
ReadEOF(t) ==
    /\ At(t, "kread") /\ read[t] = None /\ text[t] = <<>>
    /\ \/ /\ top(t).st = "READ"
          /\ read' = [read EXCEPT ![t] = EOF]
          /\ UNCHANGED states
       \/ /\ top(t).st = "FIRST_EOF_LIST"
          /\ read' = [read EXCEPT ![t] = Nil]
          /\ Pop(t, 1)
       \/ /\ top(t).st = "MIDDLE_EOF_LIST"
          /\ read' = [read EXCEPT ![t] = states[t][Len(states[t]) - 1].data]
          /\ Pop(t, 2)
    /\ UNCHANGED <<heap, writer, gil, at, text, shared_dict, sexp_comment_shared, made, how>>

-----------------------------------------------------------------------------
(***************************************************************************)
(* The object just read, by the state it is read in.                       *)
(***************************************************************************)
Processing(t, sts) == At(t, "kread") /\ read[t] # None /\ top(t).st \in sts

Processed(t) == read' = [read EXCEPT ![t] = None]

\* Each datum of a file has labels of its own.
ClearDict(t, st) ==
    IF st \in {"FIRST_EOF_LIST", "MIDDLE_EOF_LIST"} THEN Undefine(t, DOMAIN shared_dict[t])
    ELSE UNCHANGED shared_dict

FirstOfList(t) ==
    /\ Processing(t, {"FIRST_LIST", "FIRST_EOF_LIST"})
    /\ made' = [made EXCEPT ![t][top(t).data].car = read[t]]
    /\ Push(t, State(IF top(t).st = "FIRST_LIST" THEN "MIDDLE_LIST" ELSE "MIDDLE_EOF_LIST",
                     top(t).data))
    /\ ClearDict(t, top(t).st)
    /\ Processed(t)
    /\ UNCHANGED <<heap, writer, gil, at, text, sexp_comment_shared, how>>

NextOfList(t) ==
    /\ Processing(t, {"MIDDLE_LIST", "MIDDLE_EOF_LIST"})
    /\ made' = [made EXCEPT ![t] =
           Append([@ EXCEPT ![top(t).data].cdr = Next_made(t)], Pair(read[t], Nil))]
    /\ Replace(t, State(top(t).st, Next_made(t)))
    /\ ClearDict(t, top(t).st)
    /\ Processed(t)
    /\ UNCHANGED <<heap, writer, gil, at, text, sexp_comment_shared, how>>

LastOfIlist(t) ==
    /\ Processing(t, {"LAST_ILIST"})
    /\ made' = [made EXCEPT ![t][top(t).data].cdr = read[t]]
    /\ Replace(t, State("PAST_LAST_ILIST", top(t).data))
    /\ Processed(t)
    /\ UNCHANGED <<heap, writer, gil, at, text, shared_dict, sexp_comment_shared, how>>

EndOfDef(t) ==
    /\ Processing(t, {"SHARED_DEF"})
    /\ Define(t, top(t).data, read[t])
    /\ Pop(t, 1)
    /\ UNCHANGED <<heap, writer, gil, at, text, read, sexp_comment_shared, made, how>>

EndOfComment(t) ==
    /\ Processing(t, {"SEXP_COMMENT"})
    /\ Undefine(t, Last(sexp_comment_shared[t]))
    /\ sexp_comment_shared' = [sexp_comment_shared EXCEPT ![t] = Front(@)]
    /\ Pop(t, 1)
    /\ Processed(t)
    /\ UNCHANGED <<heap, writer, gil, at, text, made, how>>

\* kread returns the object.
EndRead(t) ==
    /\ Processing(t, {"READ"})
    /\ shared_dict' = [shared_dict EXCEPT ![t] = <<>>]
    /\ Pop(t, 1)
    /\ Goto(t, "read") /\ gil' = None
    /\ UNCHANGED <<heap, writer, text, read, sexp_comment_shared, made, how>>

\* The program drops what it has written and read.
Drop(t) ==
    /\ at[t] \in {"written", "read", "error"} /\ gil = None
    /\ Goto(t, "program")
    /\ obj' = [obj EXCEPT ![t] = Nil]
    /\ text' = [text EXCEPT ![t] = <<>>]
    /\ read' = [read EXCEPT ![t] = None]
    /\ made' = [made EXCEPT ![t] = <<>>]
    /\ UNCHANGED <<heap, gil, mode, port, sdata, middle_list, kw_shared_count, states,
                   shared_dict, sexp_comment_shared, how>>

Step(t) ==
    \/ \E o \in Written, m \in {"write", "display", "write-simple"}, kind \in PortKinds :
         Write(t, o, m, kind)
    \/ WriteTail(t) \/ WriteObject(t) \/ WriteShared(t) \/ WriteRef(t)
    \/ WriteError(t) \/ Flush(t) \/ ClearMarks(t)
    \/ \E k \in 0 .. Len(text[t]) - 1, listp, whole \in BOOLEAN : Read(t, k, listp, whole)
    \/ ReadError(t) \/ ReadLParen(t) \/ ReadRParen(t) \/ ReadDot(t)
    \/ ReadDef(t) \/ ReadRef(t) \/ ReadComment(t) \/ ReadDatum(t) \/ ReadEOF(t)
    \/ FirstOfList(t) \/ NextOfList(t) \/ LastOfIlist(t)
    \/ EndOfDef(t) \/ EndOfComment(t) \/ EndRead(t) \/ Drop(t)

Next == \E t \in Threads : Step(t)

Spec == Init /\ [][Next]_vars

-----------------------------------------------------------------------------
(***************************************************************************)
(* Properties.                                                             *)
(***************************************************************************)
Places == {"program", "kwrite_fsm", "kw_clear_marks", "written", "kread", "read", "error",
           "failed"}

Readable(t) == (1 .. Len(made[t])) \cup Scalars \cup {EOF}

TypeOK ==
    /\ car \in [Pairs -> Objects] /\ cdr \in [Pairs -> Objects]
    /\ mark \in [Shareable -> -3 .. Cardinality(Shareable) - 1]
    /\ gil \in Threads \cup {None}
    /\ at \in [Threads -> Places]
    /\ \A t \in Threads :
         /\ sdata[t] \in Seq(Objects)
         /\ read[t] \in Readable(t) \cup {None}
         /\ \A n \in DOMAIN shared_dict[t] : shared_dict[t][n] \in Readable(t)
         /\ Len(sexp_comment_shared[t]) =
              Cardinality({i \in DOMAIN states[t] : states[t][i].st = "SEXP_COMMENT"})

\* What object x and y = made[t][..] correspond to each other, if o and r do.
Matched(t, o, r) ==
    LET both(c) == c[1] \in Pairs /\ c[2] \in DOMAIN made[t] /\ made[t][c[2]].kind = "pair"
        parts(c) == {<<car[c[1]], made[t][c[2]].car>>, <<cdr[c[1]], made[t][c[2]].cdr>>}
        step[n \in 0 .. 2 * Cardinality(Pairs)] ==
            IF n = 0 THEN {<<o, r>>}
            ELSE step[n-1] \cup UNION {parts(c) : c \in {c \in step[n-1] : both(c)}}
    IN  step[2 * Cardinality(Pairs)]

Equal(t, x, y) ==
    CASE x \in Pairs -> y \in DOMAIN made[t] /\ made[t][y].kind = "pair"
      [] x \in Strings -> y \in DOMAIN made[t] /\ made[t][y] = String(x)
      [] OTHER -> y = x

\* r is a copy of o; if it was not written by write-simple, it shares where o does.
Copy(t, o, r) ==
    LET ms == Matched(t, o, r) IN
    /\ \A c \in ms : Equal(t, c[1], c[2])
    /\ mode[t] = "write" => \A c, d \in ms : c[1] \in Shareable => (c[1] = d[1] <=> c[2] = d[2])

\* What is written reads back as the same structure, shared and cyclic parts
\* included, whatever comments are put in; what is cut short reads as nothing
\* (ports.texi: "write will use special syntax to preserve sharing info").
RoundTrip ==
    \A t \in Threads :
        /\ at[t] = "error" => ~how[t].whole
        /\ at[t] = "read" =>
             CASE how[t].whole /\ ~how[t].listp -> Copy(t, obj[t], read[t])
               [] how[t].whole /\ how[t].listp ->
                    LET rest == made[t][read[t]].cdr IN
                    /\ Copy(t, obj[t], made[t][read[t]].car)
                    /\ Copy(t, obj[t], made[t][rest].car)
                    /\ made[t][rest].cdr = Nil
               [] OTHER -> read[t] = IF how[t].listp THEN Nil ELSE EOF

Marked == {x \in Shareable : mark[x] # KFALSE}

\* When threads have written or read, or failed to read, no marks are left on the
\* objects and nothing on the stacks for the next datum to trip over.
LeavesNothing ==
    /\ TypeOK
    /\ (\A t \in Threads : at[t] \notin {"kwrite_fsm", "kw_clear_marks", "failed"})
         => Marked = {}
    /\ \A t \in Threads : at[t] \notin {"kwrite_fsm", "kw_clear_marks", "kread"} =>
         /\ sdata[t] = <<>> /\ states[t] = <<>>
         /\ DOMAIN shared_dict[t] = {} /\ sexp_comment_shared[t] = <<>>

=============================================================================
