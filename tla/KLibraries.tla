------------------------------ MODULE KLibraries ------------------------------
(***************************************************************************)
(* Libraries, the registry of their names, and what $import-library! makes *)
(* of them (kglibraries.c).                                                *)
(*                                                                         *)
(* The program runs in here, and its continuation has a frame for each     *)
(* $provide-library! and $register-library! under way: what they evaluate  *)
(* may use the registry, provide other libraries, and be entered again.    *)
(* A symbol is a sequence of letters.  A name is what equal? takes for one *)
(* list; the code copies the names it keeps.                               *)
(***************************************************************************)
EXTENDS Integers, Sequences, FiniteSets, SequencesExt, FiniteSetsExt, Functions

CONSTANTS
    Names,        \* of libraries
    Things,       \* the objects symbols are bound to
    Bindings,     \* lists make-library is called with
    Exports,      \* of each use: the lists of export clauses of a program
    Imports,      \* and those of import clauses
    Scenes        \* where the program begins, its use of imports, and bounds: of the
                  \* libraries, environments, frames and continuations that it makes,
                  \* and of the definitions and imports

VARIABLES
    registry,     \* [name, lib], the one registered last first
    libs,         \* the libraries made
    scope,        \* the environments bodies are evaluated in, and the first, the program's
    here,         \* the one the program runs in
    frames,       \* of its continuation, the innermost last
    kept,         \* continuations the program has captured
    marked,       \* symbols left with a mark
    scene,        \* the scene, with what is left of its bounds
    import        \* the import that was the last step
LibVars == <<registry, libs, scope, here, frames, kept, marked, scene, import>>

NoThing == <<>>
NoImport == [clauses |-> <<>>]
Empty == [s \in {} |-> NoThing]

LibInit ==
    /\ scene \in Scenes /\ libs = scene.libs /\ registry = scene.registry
    /\ scope = <<[parent |-> 0, bound |-> Empty]>> /\ here = 1
    /\ frames = <<>> /\ kept = {} /\ marked = {}
    /\ import = NoImport

------------------------------------------------------------------------------
(* What changes what.                                                       *)

Library(exports, bound) == [exports |-> exports, bound |-> bound]
libraries_registry_assoc(n) == SelectSeq(registry, LAMBDA r : r.name = n)
Registered(n) == libraries_registry_assoc(n) # <<>>
Put(n, l) == registry' = <<[name |-> n, lib |-> l]>> \o registry

\* An error ends in the main loop.
Fails == frames' = <<>> /\ here' = 1
Goes == UNCHANGED <<frames, here>>

NoneImported == import' = NoImport

\* One of the definitions and imports.
Changes == scene.changes > 0 /\ scene' = [scene EXCEPT !.changes = @ - 1]

\* The frame of an operative that was called in this environment.
Begin(f) == Len(frames) < scene.maxFrames /\ frames' = Append(frames, f @@ [back |-> here])

bind(bs) == [scope EXCEPT ![here].bound = bs @@ @]

\* The object bound to s in e or its ancestors.
Value(e, s) ==
    LET found[a \in 0..Len(scope)] ==
            IF a = 0 THEN NoThing
            ELSE IF s \in DOMAIN scope[a].bound THEN scope[a].bound[s]
            ELSE found[scope[a].parent]
    IN  found[e]

------------------------------------------------------------------------------
(* Making libraries                                                         *)

SymbolsIn(bs) == [i \in DOMAIN bs |-> bs[i][1]]

\* Repeated symbols are found by marks, so that one that is marked is repeated.
AllNew(symbols) == IsInjective(symbols) /\ Range(symbols) \cap marked = {}

make_library == \E bs \in Bindings :
    /\ IF AllNew(SymbolsIn(bs))
       THEN /\ Len(libs) < scene.maxLibs
            /\ libs' = Append(libs, Library(SymbolsIn(bs),
                         [s \in Range(SymbolsIn(bs)) |-> bs[CHOOSE i \in DOMAIN bs : bs[i][1] = s][2]]))
            /\ Goes
       ELSE Fails /\ UNCHANGED libs
    /\ UNCHANGED <<registry, scope, kept, marked, scene>> /\ NoneImported

Sregister_libraryB == \E n \in Names :
    /\ Begin([fn |-> "do_register_library", name |-> n])
    /\ UNCHANGED <<registry, libs, scope, here, kept, marked, scene>> /\ NoneImported

Sunregister_libraryB == \E n \in Names :
    /\ IF Registered(n)
       THEN registry' = SelectSeq(registry, LAMBDA r : r # libraries_registry_assoc(n)[1]) /\ Goes
       ELSE Fails /\ UNCHANGED registry
    /\ UNCHANGED <<libs, scope, kept, marked, scene>> /\ NoneImported

\* An export clause is the symbol inside and the one outside; a clause that is
\* not well formed is an error, after which the marks of the symbols before it
\* are cleared, but not when it is no list.
NoList == <<"no list">>
BadClause == <<"bad syntax">>
Marks(clauses) == {c[2] : c \in Range(clauses) \ {NoList, BadClause}}

check_export_list(clauses) ==
    LET bad == {i \in DOMAIN clauses :
                   \/ clauses[i] \in {NoList, BadClause}
                   \/ clauses[i][2] \in marked \cup Marks(SubSeq(clauses, 1, i - 1))}
    IN  IF bad = {} THEN [ok |-> TRUE, marked |-> marked]
        ELSE [ok |-> FALSE,
              marked |-> LET before == Marks(SubSeq(clauses, 1, Min(bad) - 1))
                         IN  IF clauses[Min(bad)] = NoList THEN marked \cup before
                             ELSE marked \ before]

Sprovide_libraryB == \E n \in Names, clauses \in Exports[scene.uses] :
    LET c == check_export_list(clauses)
    IN  /\ IF c.ok /\ ~Registered(n)
           THEN /\ Len(scope) < scene.maxScopes
                /\ scope' = Append(scope, [parent |-> here, bound |-> Empty])
                /\ Begin([fn |-> "do_provide_library", name |-> n, clauses |-> clauses,
                          env |-> Len(scope) + 1])
                /\ here' = Len(scope) + 1
           ELSE Fails /\ UNCHANGED scope
        /\ marked' = c.marked
        /\ UNCHANGED <<registry, libs, kept, scene>> /\ NoneImported

\* The body has given the symbols their values.  Its name may have been taken
\* since $provide-library! began.
do_provide_library(f) ==
    LET inames == {f.clauses[i][1] : i \in DOMAIN f.clauses}
        enames == [i \in DOMAIN f.clauses |-> f.clauses[i][2]]
        bound == [s \in Range(enames) |->
                    Value(f.env, f.clauses[CHOOSE i \in DOMAIN f.clauses : f.clauses[i][2] = s][1])]
    IN  /\ ~Registered(f.name) /\ \A s \in inames : Value(f.env, s) # NoThing
        /\ Len(libs) < scene.maxLibs
        /\ libs' = Append(libs, Library(enames, bound))
        /\ Put(f.name, Len(libs) + 1)

do_provide_library_fails(f) ==
    \/ Registered(f.name)
    \/ \E i \in DOMAIN f.clauses : Value(f.env, f.clauses[i][1]) = NoThing

\* Wrong variant: the name was looked for before the expression was evaluated.
do_register_library_unchecked(f) ==
    /\ \E l \in DOMAIN libs : Put(f.name, l)
    /\ UNCHANGED libs

\* The value of the expression is a library.
do_register_library(f) ==
    /\ ~Registered(f.name)
    /\ \E l \in DOMAIN libs : Put(f.name, l)
    /\ UNCHANGED libs

\* A value is passed to a continuation: that of the program, or one it has kept.
Return == \E k \in {frames} \cup kept :
    /\ k # <<>>
    /\ LET f == Last(k)
       IN  \/ /\ IF f.fn = "do_provide_library" THEN do_provide_library(f)
                 ELSE do_register_library(f)
              /\ frames' = Front(k) /\ here' = f.back
           \/ /\ f.fn = "do_provide_library" => do_provide_library_fails(f)
              /\ Fails /\ UNCHANGED <<registry, libs>>
    /\ UNCHANGED <<scope, kept, marked, scene>> /\ NoneImported

------------------------------------------------------------------------------
(* Importing                                                                *)

Clause(keyword, from, args) == [keyword |-> keyword, from |-> from, args |-> args]
Renaming(from, pairs) == [keyword |-> "rename", from |-> from, pairs |-> pairs]
Of(name) == [keyword |-> "name", name |-> name]

\* only, except and rename: at least one, and no symbol twice.
RECURSIVE WellFormed(_)
WellFormed(clause) ==
    CASE clause.keyword = "name" -> TRUE
      [] clause.keyword = "prefix" -> WellFormed(clause.from)
      [] clause.keyword \in {"only", "except"} ->
            WellFormed(clause.from) /\ clause.args # <<>> /\ IsInjective(clause.args)
      [] clause.keyword = "rename" ->
            WellFormed(clause.from) /\ clause.pairs # <<>>
            /\ IsInjective([i \in DOMAIN clause.pairs |-> clause.pairs[i][2]])
check_import_list(clauses) == \A i \in DOMAIN clauses : WellFormed(clauses[i])

\* The symbol that s becomes: of two for one symbol, the import.
Renamed(pairs, s) ==
    LET of == {i \in DOMAIN pairs : pairs[i][1] = s}
    IN  IF of = {} THEN s ELSE pairs[Max(of)][2]

\* The symbols of a clause, and the environment they are looked for in.
RECURSIVE Extract(_)
Extract(clause) ==
    LET e == Extract(clause.from)
        unknown == \E i \in DOMAIN clause.args : clause.args[i] \notin DOMAIN e.env
        lib == libs[libraries_registry_assoc(clause.name)[1].lib]
        to(symbols) == [ok |-> IsInjective(symbols), symbols |-> symbols,
                        env |-> [s \in Range(symbols) |->
                                   e.env[e.symbols[CHOOSE i \in DOMAIN symbols : symbols[i] = s]]]]
    IN  CASE clause.keyword = "name" ->
                IF Registered(clause.name)
                THEN [ok |-> TRUE, symbols |-> lib.exports, env |-> lib.bound]
                ELSE [ok |-> FALSE]
          [] clause.keyword # "name" /\ ~e.ok -> e
          [] clause.keyword = "only" /\ e.ok ->
                [e EXCEPT !.ok = ~unknown, !.symbols = clause.args]
          [] clause.keyword = "except" /\ e.ok ->
                [e EXCEPT !.ok = ~unknown,
                          !.symbols = SelectSeq(@, LAMBDA s : s \notin Range(clause.args))]
          [] clause.keyword = "prefix" /\ e.ok ->
                to([i \in DOMAIN e.symbols |-> clause.args[1] \o e.symbols[i]])
          [] clause.keyword = "rename" /\ e.ok ->
                to([i \in DOMAIN e.symbols |-> Renamed(clause.pairs, e.symbols[i])])

extract_import_bindings(clauses) ==
    LET all == [i \in DOMAIN clauses |-> Extract(clauses[i])]
        pairs(e) == [i \in DOMAIN e.symbols |-> <<e.symbols[i], e.env[e.symbols[i]]>>]
    IN  IF \E i \in DOMAIN all : ~all[i].ok THEN [ok |-> FALSE]
        ELSE [ok |-> TRUE, pairs |-> FlattenSeq([i \in DOMAIN all |-> pairs(all[i])])]

Simport_libraryB == Changes /\ \E clauses \in Imports[scene.uses] :
    LET x == extract_import_bindings(clauses)
        agree == \A i, j \in DOMAIN x.pairs : x.pairs[i][1] = x.pairs[j][1] => x.pairs[i] = x.pairs[j]
        ok == check_import_list(clauses) /\ x.ok /\ agree
    IN  /\ IF ok
           THEN /\ scope' = bind([s \in Range(SymbolsIn(x.pairs)) |->
                              x.pairs[CHOOSE i \in DOMAIN x.pairs : x.pairs[i][1] = s][2]])
                /\ Goes
           ELSE Fails /\ UNCHANGED scope
        /\ import' = [clauses |-> clauses, ok |-> ok, into |-> here, was |-> scope]
        /\ UNCHANGED <<registry, libs, kept, marked>>

------------------------------------------------------------------------------
(* The program                                                              *)

Define == \E s \in {c[1] : c \in UNION {Range(x) : x \in Exports[scene.uses]} \ {NoList, BadClause}}, v \in Things :
    /\ scope' = bind(s :> v) /\ Changes
    /\ UNCHANGED <<registry, libs, here, frames, kept, marked>> /\ NoneImported

\* An error of the program.
Throw == /\ frames # <<>> /\ Fails
         /\ UNCHANGED <<registry, libs, scope, kept, marked, scene>> /\ NoneImported

Keep == /\ Cardinality(kept) < scene.maxKept /\ frames # <<>>
        /\ kept' = kept \cup {frames}
        /\ UNCHANGED <<registry, libs, scope, here, frames, marked, scene>> /\ NoneImported

LibNext == \/ make_library \/ Sregister_libraryB \/ Sunregister_libraryB \/ Sprovide_libraryB
           \/ Return \/ Simport_libraryB \/ Define \/ Throw \/ Keep
LibSpec == LibInit /\ [][LibNext]_LibVars

------------------------------------------------------------------------------
(* Properties                                                               *)

\* No two libraries have one name, and no library has a symbol twice.
RegistryIsMap ==
    /\ \A i, j \in DOMAIN registry : registry[i].name = registry[j].name => i = j
    /\ \A l \in DOMAIN libs : IsInjective(libs[l].exports)
                              /\ DOMAIN libs[l].bound = Range(libs[l].exports)

Named(n) == {r \in Range(registry) : r.name = n}

\* The set of bindings of an import clause, as the manual defines it.
RECURSIVE SetOf(_)
SetOf(clause) ==
    LET from == SetOf(clause.from)
        named == Range(clause.args)
        pairs == Range(clause.pairs)
    IN  CASE clause.keyword = "name" ->
                UNION {{<<s, libs[r.lib].bound[s]>> : s \in Range(libs[r.lib].exports)} : r \in Named(clause.name)}
          [] clause.keyword = "only" -> {b \in from : b[1] \in named}
          [] clause.keyword = "except" -> {b \in from : b[1] \notin named}
          [] clause.keyword = "prefix" -> {<<clause.args[1] \o b[1], b[2]>> : b \in from}
          [] clause.keyword = "rename" ->
                {b \in from : \A p \in pairs : p[1] # b[1]}
                \cup UNION {{<<p[2], b[2]>> : p \in {q \in pairs : q[1] = b[1]}} : b \in from}
SymbolsOf(clause) == {b[1] : b \in SetOf(clause)}

RECURSIVE Inside(_)
Inside(clause) == {clause} \cup IF clause.keyword = "name" THEN {} ELSE Inside(clause.from)

\* What a clause may be refused for.
Refused(clause) == \E c \in Inside(clause) :
    \/ c.keyword = "name" /\ Named(c.name) = {}
    \/ c.keyword \in {"only", "except"} /\ ~(Range(c.args) \subseteq SymbolsOf(c.from))
    \/ \E b1, b2 \in SetOf(c) : b1[1] = b2[1] /\ b1 # b2
    \/ c.keyword = "rename" /\ Cardinality(SetOf(c)) < Cardinality(SetOf(c.from))
    \/ ~WellFormed(c)

\* A symbol that a clause has left out is named again in a clause around it, or one
\* is given two new names: the manual gives these no bindings.
Unclear(clause) == \E c \in Inside(clause) :
    \/ c.keyword = "only" /\ ~(Range(c.args) \subseteq SymbolsOf(c.from))
    \/ c.keyword = "rename" /\ ~IsInjective([i \in DOMAIN c.pairs |-> c.pairs[i][1]])

ImportVerdict ==
    LET clauses == Range(import.clauses)
        all == UNION {SetOf(c) : c \in clauses}
        was == import.was[import.into].bound
        now == scope[import.into].bound
    IN  IF import.ok
        THEN /\ DOMAIN now = DOMAIN was \cup {b[1] : b \in all}
             /\ \A b \in all : now[b[1]] = b[2]
             /\ \A s \in DOMAIN was : s \in {b[1] : b \in all} \/ now[s] = was[s]
        ELSE /\ scope = import.was
             /\ \/ \E c \in clauses : Refused(c)
                \/ \E b1, b2 \in all : b1[1] = b2[1] /\ b1[2] # b2[2]

\* Names stay unique although what $provide-library! and $register-library!
\* evaluate may register and unregister them, and be entered again; an import
\* binds the set of bindings that the manual defines for its clauses, all of
\* them or, when it fails, none.
LibrariesAsReported ==
    /\ RegistryIsMap
    /\ import # NoImport /\ (\A c \in Range(import.clauses) : ~Unclear(c)) => ImportVerdict

\* The same of all clauses.
ImportsTheSet == import # NoImport => ImportVerdict

\* "No symbol can appear more than once as external" is all that is asked of symbols.
NoSymbolMarked == marked = {}
==============================================================================
