----------------------------- MODULE KEnvironments -----------------------------
(***************************************************************************)
(* Environments: lookup, binding, the $let family, keyed static variables. *)
(*                                                                         *)
(* Sources: kenvironment.c, kgenvironments.c, kgenv_mut.c, kgks_vars.c,    *)
(* match of kghelpers.c.                                                   *)
(*                                                                         *)
(* A program evaluates expressions in denv, and its continuation cc holds  *)
(* the frames of the operatives under way.  Environments are numbered as   *)
(* they are made.  Of what is bound only where it is bound is kept, so a   *)
(* lookup finds an environment; a program may keep in data of its own all  *)
(* environments it ever had.  A parameter tree is a list of symbols, not    *)
(* empty, and what is matched to it a list of objects; one object is a     *)
(* list of it.                                                             *)
(***************************************************************************)
EXTENDS Integers, Sequences, FiniteSets, SequencesExt, FiniteSetsExt

CONSTANTS
    Symbols, Standard,      \* Standard: the symbols bound in the ground environment
    Keys, NoKey,            \* keyed static variables
    Datum,                  \* any object that is not an environment
    NoObject,
    MaxTree,                \* symbols in a parameter tree
    MaxObjects,             \* environments made and continuations captured, together
    MaxDepth                \* frames of a continuation

ASSUME EnvironmentsAssumption ==
    /\ Standard \subseteq Symbols
    /\ NoKey \notin Keys /\ Datum \notin Nat
    /\ MaxTree \in Nat /\ MaxObjects \in Nat /\ MaxDepth \in Nat

VARIABLES
    env,        \* the environments made
    known,      \* those that the program has had
    denv,       \* the one in which the program runs
    cc,         \* the frames of its continuation, the innermost last
    passed,     \* what a frame passes to the next one; NoObject if the program runs
    held        \* continuations captured by the program

vars == <<env, known, denv, cc, passed, held>>

Envs == DOMAIN env
ground == 1
std == 2

Room == Len(env) + Cardinality(held) < MaxObjects

ParameterTrees == {p \in SeqOf(Symbols, MaxTree) \ {<<>>} : IsInjective(p)}

-----------------------------------------------------------------------------
(***************************************************************************)
(* Making environments.                                                    *)
(***************************************************************************)
keyed(e) == env[e].key # NoKey

\* The nearest keyed ancestors: of a list of parents, without the parents.
keyed_parents(parents, single) ==
    IF single /\ keyed(parents[1]) THEN parents
    ELSE FlattenSeq([i \in DOMAIN parents |-> env[parents[i]].keyed_parents])

Environment(parents, single, key) ==
    [parents |-> parents, keyed_parents |-> keyed_parents(parents, single),
     key |-> key, bindings |-> {}]

kmake_environment(parents, single) ==
    /\ Room
    /\ env' = Append(env, Environment(parents, single, NoKey))

Child(e) == kmake_environment(<<e>>, TRUE)
newest == Len(env) + 1

\* The ground environment and the standard one of the program.
Init ==
    /\ env = << [parents |-> <<>>, keyed_parents |-> <<>>, key |-> NoKey, bindings |-> Standard],
                [parents |-> <<1>>, keyed_parents |-> <<>>, key |-> NoKey, bindings |-> {}] >>
    /\ known = {std}
    /\ denv = std /\ cc = <<>> /\ passed = NoObject
    /\ held = {}

-----------------------------------------------------------------------------
(***************************************************************************)
(* Lookup, with the stack of the state: what is to be searched.            *)
(***************************************************************************)
Nowhere == 0

\* Wrong variant: parents are searched after what was on the stack.
try_get_bindingBug(e, s) ==
    LET search[stack \in Seq(Envs)] ==
            IF stack = <<>> THEN Nowhere
            ELSE IF s \in env[stack[1]].bindings THEN stack[1]
            ELSE search[Tail(stack) \o env[stack[1]].parents]
    IN  search[<<e>>]

try_get_binding(e, s) ==
    LET search[stack \in Seq(Envs)] ==
            IF stack = <<>> THEN Nowhere
            ELSE IF s \in env[stack[1]].bindings THEN stack[1]
            ELSE search[env[stack[1]].parents \o Tail(stack)]
    IN  search[<<e>>]

\* Only keyed environments are on the stack.
try_get_keyed(e, k) ==
    LET search[stack \in Seq(Envs)] ==
            IF stack = <<>> THEN Nowhere
            ELSE IF env[stack[1]].key = k THEN stack[1]
            ELSE search[env[stack[1]].keyed_parents \o Tail(stack)]
    IN  search[IF keyed(e) THEN <<e>> ELSE env[e].keyed_parents]

-----------------------------------------------------------------------------
(***************************************************************************)
(* What becomes of an expression.                                          *)
(***************************************************************************)
Runs == passed = NoObject

\* ktail_eval: the program goes on in e, and can have it.
ktail_eval(e) == denv' = e /\ known' = known \cup {e} /\ passed' = NoObject

kapply_cc(objects) == passed' = objects /\ UNCHANGED <<denv, known>>

\* The value of a subexpression, a new environment, which the program has.
Has(e) == known' = known \cup {e} /\ UNCHANGED <<denv, passed>>

\* An error ends in the loop that reads the next expression.
Throw == cc' = <<>> /\ ktail_eval(std)

Frame(f) == Len(cc) < MaxDepth /\ cc' = Append(cc, f)

do_match(p, e) == [fn |-> "do_match", ptree |-> p, env |-> e]
do_set_eval_obj(p, e) == [fn |-> "do_set_eval_obj", ptree |-> p, env |-> e]
do_import(p, e) == [fn |-> "do_import", ptree |-> p, env |-> e]
do_return_value(e) == [fn |-> "do_return_value", env |-> e]
do_seq(e) == [fn |-> "do_seq", env |-> e]
do_let(p, rest, e, recp) ==
    [fn |-> "do_let", ptree |-> p, rest |-> rest, env |-> e, recp |-> recp]
do_let_redirect(p, e) == [fn |-> "do_let_redirect", ptree |-> p, env |-> e]
do_remote_eval == [fn |-> "do_remote_eval"]
do_b_to_env(p, e) == [fn |-> "do_b_to_env", ptree |-> p, env |-> e]

-----------------------------------------------------------------------------
(***************************************************************************)
(* The program.                                                            *)
(***************************************************************************)
\* What expressions have for values: objects the program has, or lists of them.
Objects == SeqOf(known \cup {Datum}, MaxTree)

\* A symbol or keyed variable that is not bound, or any other error.
Fail == Throw /\ UNCHANGED env

\* Some expressions, of which the first is evaluated.
Sequence == Frame(do_seq(denv)) /\ ktail_eval(denv) /\ UNCHANGED env

eval ==
    /\ \E e \in known : e # denv /\ ktail_eval(e)
    /\ UNCHANGED <<env, cc>>

\* One operand is the parent, more are a list of parents.
make_environment ==
    /\ \/ kmake_environment(<<>>, FALSE)
       \/ \E e \in known : Child(e)
       \/ \E p \in known, q \in known : kmake_environment(<<p, q>>, FALSE)
    /\ Has(newest)
    /\ UNCHANGED cc

make_kernel_standard_environment ==
    /\ Child(ground) /\ Has(newest)
    /\ UNCHANGED cc

\* The binder of a keyed static variable: a child with a binding by key.
do_sv_bind ==
    /\ Room
    /\ \E e \in known, k \in Keys : env' = Append(env, Environment(<<e>>, TRUE, k))
    /\ Has(newest)
    /\ UNCHANGED cc

SdefineB ==
    /\ \E p \in ParameterTrees : Frame(do_match(p, denv))
    /\ ktail_eval(denv) /\ UNCHANGED env

SsetB ==
    /\ \E p \in ParameterTrees : Frame(do_set_eval_obj(p, denv))
    /\ ktail_eval(denv) /\ UNCHANGED env

SimportB ==
    /\ \E p \in ParameterTrees : Frame(do_import(p, denv))
    /\ ktail_eval(denv) /\ UNCHANGED env

SprovideB ==
    /\ Len(cc) + 1 < MaxDepth
    /\ \E p \in ParameterTrees :
          cc' = cc \o <<do_import(p, denv), do_return_value(newest)>>
    /\ Child(denv) /\ ktail_eval(newest)

\* $let and $letrec: all in one parameter tree.
Slet ==
    /\ \E p \in ParameterTrees, recp \in BOOLEAN :
          /\ Frame(do_let(p, <<>>, newest, recp))
          /\ ktail_eval(IF recp THEN newest ELSE denv)
    /\ Child(denv)

\* $let* and $letrec* of two symbols, each bound in an environment of its own.
SletS ==
    /\ \E s \in Symbols, r \in Symbols, recp \in BOOLEAN :
          /\ Frame(do_let(<<s>>, <<r>>, newest, recp))
          /\ ktail_eval(IF recp THEN newest ELSE denv)
    /\ Child(denv)

Slet_redirect ==
    /\ \E p \in ParameterTrees : Frame(do_let_redirect(p, denv))
    /\ ktail_eval(denv) /\ UNCHANGED env

\* Wrong variant: the body runs in the ground environment itself.
Slet_safeBug ==
    /\ \E p \in ParameterTrees : Frame(do_let(p, <<>>, ground, FALSE))
    /\ ktail_eval(denv) /\ UNCHANGED env

Slet_safe ==
    /\ \E p \in ParameterTrees : Frame(do_let(p, <<>>, newest, FALSE))
    /\ Child(ground) /\ ktail_eval(denv)

Sremote_eval == Frame(do_remote_eval) /\ ktail_eval(denv) /\ UNCHANGED env

Sbindings_to_environment ==
    /\ \E p \in ParameterTrees : Frame(do_b_to_env(p, newest))
    /\ kmake_environment(<<>>, FALSE) /\ ktail_eval(denv)

Operate ==
    /\ Runs
    /\ \/ Fail \/ Sequence \/ eval \/ make_environment
       \/ make_kernel_standard_environment \/ do_sv_bind
       \/ SdefineB \/ SsetB \/ SimportB \/ SprovideB
       \/ Slet \/ SletS \/ Slet_redirect \/ Slet_safe
       \/ Sremote_eval \/ Sbindings_to_environment
    /\ UNCHANGED held

Capture ==
    /\ Runs /\ cc # <<>> /\ Room
    /\ held' = held \cup {cc}
    /\ UNCHANGED <<env, known, denv, cc, passed>>

Reenter ==
    /\ Runs
    /\ \E cont \in held : cc' = cont
    /\ \E objects \in Objects : kapply_cc(objects)
    /\ UNCHANGED <<env, held>>

-----------------------------------------------------------------------------
(***************************************************************************)
(* The frames.                                                             *)
(***************************************************************************)
\* What is passed to the innermost frame: by the frame before it, or the value of
\* the expression the program has evaluated.
Passed == IF Runs THEN Objects ELSE {passed}

top == Last(cc)
AtFrame(fn) == cc # <<>> /\ top.fn = fn /\ UNCHANGED held
Pop == cc' = Front(cc)
Replace(f) == cc' = Append(Front(cc), f)

\* Symbols are bound up to where the tree and the object differ.
Matched(objects) ==
    [env EXCEPT ![top.env].bindings =
        @ \cup {top.ptree[i] : i \in DOMAIN top.ptree \cap DOMAIN objects}]

Matches(objects) == Len(top.ptree) = Len(objects)

Mismatch ==
    /\ \E fn \in {"do_match", "do_let", "do_b_to_env"} : AtFrame(fn)
    /\ \E objects \in Passed : ~Matches(objects) /\ env' = Matched(objects)
    /\ Throw

match ==
    /\ \E objects \in Passed : Matches(objects) /\ env' = Matched(objects)
    /\ Pop

DoMatch == AtFrame("do_match") /\ match /\ kapply_cc(<<Datum>>)

DoBToEnv ==
    /\ AtFrame("do_b_to_env") /\ match
    /\ passed' = <<top.env>> /\ known' = known \cup {top.env} /\ UNCHANGED denv

\* The value is not of interest: the rest of the expressions is evaluated.
DoSeq == AtFrame("do_seq") /\ Pop /\ ktail_eval(top.env) /\ UNCHANGED env

DoReturnValue ==
    AtFrame("do_return_value") /\ Pop /\ kapply_cc(<<top.env>>) /\ UNCHANGED env

EnvsPassed == {e \in Envs : <<e>> \in Passed}

NotAnEnvironment ==
    /\ \E fn \in {"do_set_eval_obj", "do_import", "do_let_redirect", "do_remote_eval"} :
          AtFrame(fn)
    /\ \E objects \in Passed : \A e \in EnvsPassed : objects # <<e>>
    /\ Throw /\ UNCHANGED env

DoSetEvalObj ==
    /\ AtFrame("do_set_eval_obj")
    /\ \E e \in EnvsPassed : Replace(do_match(top.ptree, e))
    /\ ktail_eval(top.env) /\ UNCHANGED env

\* (list . symbols) is evaluated in the environment.
DoImport ==
    /\ AtFrame("do_import")
    /\ \E e \in EnvsPassed :
          IF \E s \in Range(top.ptree) : try_get_binding(e, s) = Nowhere THEN Throw
          ELSE /\ Replace(do_match(top.ptree, top.env))
               /\ kapply_cc([i \in DOMAIN top.ptree |-> Datum])
    /\ UNCHANGED env

DoLetRedirect ==
    /\ AtFrame("do_let_redirect")
    /\ \E e \in EnvsPassed : Child(e)
    /\ Replace(do_let(top.ptree, <<>>, newest, FALSE))
    /\ ktail_eval(top.env)

DoRemoteEval ==
    /\ AtFrame("do_remote_eval") /\ Pop
    /\ \E e \in EnvsPassed : ktail_eval(e)
    /\ UNCHANGED env

\* The last binding: the body is evaluated.
DoLetBody ==
    /\ AtFrame("do_let") /\ top.rest = <<>>
    /\ match /\ ktail_eval(top.env)

\* Wrong variant: the next binding is made in the same environment.
DoLetNextBug ==
    /\ AtFrame("do_let") /\ top.rest # <<>>
    /\ \E objects \in Passed : Matches(objects) /\ env' = Matched(objects)
    /\ Replace(do_let(<<top.rest[1]>>, Tail(top.rest), top.env, top.recp))
    /\ ktail_eval(top.env)

\* The next binding is made in a child.
DoLetNext ==
    /\ AtFrame("do_let") /\ top.rest # <<>>
    /\ Room
    /\ \E objects \in Passed :
          /\ Matches(objects)
          /\ env' = Append(Matched(objects), Environment(<<top.env>>, TRUE, NoKey))
    /\ Replace(do_let(<<top.rest[1]>>, Tail(top.rest), newest, top.recp))
    /\ ktail_eval(IF top.recp THEN newest ELSE top.env)

\* The value of an expression of the main loop, which goes on in its environment.
Repl ==
    /\ cc = <<>>
    /\ ktail_eval(std) /\ UNCHANGED <<env, cc, held>>

Next ==
    \/ Operate \/ Capture \/ Reenter
    \/ DoMatch \/ DoBToEnv \/ DoSeq \/ DoReturnValue \/ DoSetEvalObj \/ DoImport
    \/ DoLetRedirect \/ DoRemoteEval \/ DoLetBody \/ DoLetNext
    \/ Mismatch \/ NotAnEnvironment \/ Repl

Spec == Init /\ [][Next]_vars

-----------------------------------------------------------------------------
(***************************************************************************)
(* Properties.                                                             *)
(***************************************************************************)
\* Objects exist, parents are older than their children, and keyed parents are
\* keyed ("obj is guaranteed to be a keyed env").
TypeOK ==
    /\ \A e \in Envs :
          /\ Range(env[e].parents) \subseteq 1 .. e - 1
          /\ \A p \in Range(env[e].keyed_parents) : p < e /\ keyed(p)
          /\ env[e].bindings \subseteq Symbols /\ env[e].key \in Keys \cup {NoKey}
    /\ known \subseteq Envs /\ denv \in known
    /\ passed # NoObject => passed \in Seq(Envs \cup {Datum})
    /\ \A cont \in held \cup {cc} : \A i \in DOMAIN cont :
          cont[i].fn # "do_remote_eval" => cont[i].env \in Envs

\* What a depth-first search of e and its ancestors finds first of a set.
First(e, where) ==
    LET found[a \in Envs] ==
            IF a \in where THEN a
            ELSE LET with == {i \in DOMAIN env[a].parents : found[env[a].parents[i]] # Nowhere}
                 IN  IF with = {} THEN Nowhere ELSE found[env[a].parents[Min(with)]]
    IN  found[e]

\* Keyed environments among several parents (README, section 4).
PassedOver ==
    {p \in Envs : keyed(p) /\ \E e \in Envs :
                        Len(env[e].parents) > 1 /\ p \in Range(env[e].parents)}

\* The search with a stack finds what a depth-first search of the ancestors does,
\* whatever ancestors parents share; and a keyed variable has the value of "the first
\* such environment encountered by a depth-first traversal of the improper
\* ancestors" (keyed_vars.texi), though only keyed environments are searched.
LookupIsDepthFirst ==
    /\ TypeOK
    /\ \A e \in Envs, s \in Symbols :
          try_get_binding(e, s) = First(e, {a \in Envs : s \in env[a].bindings})
    /\ PassedOver = {} =>
          \A e \in Envs, k \in Keys :
              try_get_keyed(e, k) = First(e, {a \in Envs : env[a].key = k})

\* The ground environment stays as it is for all: programs run in children of it,
\* nothing gives it to them, and nothing will be matched in it.
GroundProtected ==
    /\ ground \notin known /\ env[ground].bindings = Standard
    /\ \A i \in DOMAIN cc : cc[i].fn # "do_remote_eval" => cc[i].env # ground

\* The environment of a $let that is not recursive is had by nothing before its
\* symbols are bound in it ("then a child environment e of the dynamic environment is
\* created"), as long as no continuation is captured that could bind them again.
FreshScope ==
    held = {} =>
        \A i \in DOMAIN cc : cc[i].fn = "do_let" /\ ~cc[i].recp =>
            /\ cc[i].env \notin known /\ env[cc[i].env].bindings = {}
            /\ \A e \in Envs : cc[i].env \notin Range(env[e].parents)
=============================================================================
