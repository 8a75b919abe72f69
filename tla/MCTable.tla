------------------------------- MODULE MCTable -------------------------------
(***************************************************************************)
(* The two maps of the interpreter, hash tables and the registry of         *)
(* libraries, on small instances.  They share nothing: a behaviour is of    *)
(* one of them.                                                            *)
(***************************************************************************)
EXTENDS KTable, KLibraries

CONSTANTS s1, s2

\* They collide in a table of one or two nodes, not in one of four.
Colliding == [s \in Symbols |-> IF s = s2 THEN 3 ELSE 0]

------------------------------------------------------------------------------
a == <<"a">>
b == <<"b">>
p == <<"p">>
v == <<"v">>
w == <<"w">>
MCThings == {v}
MCBindings == {<<<<a, w>>, <<b, v>>>>, <<<<b, v>>, <<b, w>>>>}
MCExports == "few" :> {<<<<a, b>>, <<a, a>>>>, <<<<a, b>>>>}
             @@ "more" :> {<<<<a, a>>>>, <<<<a, b>>, <<b, b>>>>, <<<<a, a>>, NoList>>} @@ "all" :> {}

NoScene == [libs |-> <<>>, registry |-> <<>>, uses |-> "few", changes |-> 0,
            maxLibs |-> 0, maxScopes |-> 1, maxFrames |-> 0, maxKept |-> 0]

\* Libraries are made, in bodies that do all that programs do: kept and entered
\* again, one in the other, and with clauses that are refused.
Program == [NoScene EXCEPT !.changes = 1, !.maxLibs = 2, !.maxScopes = 2, !.maxFrames = 1, !.maxKept = 1]
ReEntered == [Program EXCEPT !.maxLibs = 1, !.maxFrames = 2]
Nested == [Program EXCEPT !.maxFrames = 2, !.maxKept = 0]
Refusing == [Program EXCEPT !.changes = 2, !.maxKept = 0, !.uses = "more"]

\* All import clauses with up to two keywords, of two libraries.
Around(from) ==
    {Clause(k, from, args) : k \in {"only", "except"}, args \in {<<a>>, <<b>>, <<a, b>>, <<a, a>>, <<p \o a>>}}
    \cup {Clause("prefix", from, <<p>>)}
    \cup {Renaming(from, pairs) :
             pairs \in {<<<<a, b>>>>, <<<<b, p>>>>, <<<<a, b>>, <<b, a>>>>, <<<<a, b>>, <<b, b>>>>,
                       <<<<a, p>>, <<a, b>>>>}}
Clauses == LET one == UNION {Around(Of(n)) : n \in {"m", "n"}}
           IN  [one |-> one \cup {Of("m"), Of("n")}, two |-> UNION {Around(c) : c \in one}]
Importing(registered) ==
    [NoScene EXCEPT !.libs = <<Library(<<a, b>>, a :> v @@ b :> w), Library(<<b, p \o a>>, b :> w @@ (p \o a) :> v)>>,
                    !.registry = registered, !.maxLibs = 2, !.changes = 1, !.uses = "all"]
SomeImports == {<<Of("m")>>, <<Clause("prefix", Of("n"), <<p>>), Of("m")>>}
MCImports == "few" :> SomeImports @@ "more" :> SomeImports
             @@ "all" :> ({<<c>> : c \in Clauses.two} \cup {<<c1, c2>> : c1, c2 \in Clauses.one})
MCScenes == {NoScene, Program, ReEntered, Nested, Refusing,
            Importing(<<[name |-> "m", lib |-> 1]>>),
             Importing(<<[name |-> "n", lib |-> 2], [name |-> "m", lib |-> 1]>>)}

MapsInit == Init /\ LibInit
MapsNext == \/ scene = NoScene /\ Next /\ UNCHANGED LibVars
            \/ scene # NoScene /\ LibNext /\ UNCHANGED vars
MapsSpec == MapsInit /\ [][MapsNext]_<<vars, LibVars>>

\* The table alone, its C code going on until it returns.
FairMapsSpec == MapsSpec /\ WF_vars(Insert)
TableScene == {NoScene}
=============================================================================
