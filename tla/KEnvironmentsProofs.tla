-------------------------- MODULE KEnvironmentsProofs --------------------------
(***************************************************************************)
(* For any symbols, keys and bounds: no program gets at the ground         *)
(* environment, and nothing is bound in it; the environment of a $let is   *)
(* its own until it is bound; and lookups are depth-first searches.        *)
(***************************************************************************)
EXTENDS KEnvironments, Lemmas

\* Where a frame will bind or evaluate: an environment made, and not the ground one.
FrameOK(f, n) == f.fn # "do_remote_eval" => f.env \in 2 .. n

ContinuationOK(c, n) == IsSeq(c) /\ \A i \in DOMAIN c : FrameOK(c[i], n)

\* The inductive invariant: the ground environment is in nothing that an operation
\* takes an environment from.
HeapOK == IsSeq(env) /\ Len(env) >= 2 /\ env[ground].bindings = Standard
KnownOK == known \subseteq 2 .. Len(env) /\ denv \in 2 .. Len(env)
PassedOK == ~Runs => passed # <<ground>>
FramesOK == \A c \in held \cup {cc} : ContinuationOK(c, Len(env))

IInv == HeapOK /\ KnownOK /\ PassedOK /\ FramesOK

-----------------------------------------------------------------------------
(***************************************************************************)
(* Sequences, and frames on a continuation.                                *)
(***************************************************************************)
LEMMA EmptyContinuation == \A n : ContinuationOK(<<>>, n)
BY DEF ContinuationOK, IsSeq, Range

\* A frame that is safe keeps a continuation safe.
LEMMA AppendFrame ==
    ASSUME NEW c, NEW n \in Nat, NEW f, ContinuationOK(c, n), FrameOK(f, n)
    PROVE  ContinuationOK(Append(c, f), n)
<1>1. IsSeq(c) BY DEF ContinuationOK
<1>2. /\ IsSeq(Append(c, f)) /\ Len(Append(c, f)) = Len(c) + 1
      /\ \A i \in 1 .. Len(c) : Append(c, f)[i] = c[i]
      /\ Append(c, f)[Len(c) + 1] = f
  BY <1>1, AppendFacts
<1>3. DOMAIN c = 1 .. Len(c) /\ Len(c) \in Nat BY <1>1, IsSeqFacts
<1>4. DOMAIN Append(c, f) = 1 .. Len(c) + 1 BY <1>2, IsSeqFacts
<1>5. ASSUME NEW i \in 1 .. Len(c) + 1 PROVE FrameOK(Append(c, f)[i], n)
  <2>1. CASE i \in 1 .. Len(c) BY <1>2, <1>3, <2>1 DEF ContinuationOK
  <2>2. CASE i = Len(c) + 1 BY <1>2, <2>2
  <2>3. QED BY <1>3, <2>1, <2>2
<1>6. QED BY <1>2, <1>4, <1>5 DEF ContinuationOK

LEMMA FrontOfContinuation ==
    ASSUME NEW c, NEW n \in Nat, ContinuationOK(c, n), c # <<>>
    PROVE  ContinuationOK(Front(c), n) /\ FrameOK(Last(c), n)
<1>1. IsSeq(c) BY DEF ContinuationOK
<1>2. /\ IsSeq(Front(c)) /\ Len(c) >= 1 /\ Len(Front(c)) = Len(c) - 1
      /\ \A i \in 1 .. Len(c) - 1 : Front(c)[i] = c[i]
  BY <1>1, FrontFacts
<1>3. DOMAIN c = 1 .. Len(c) /\ Len(c) \in Nat BY <1>1, IsSeqFacts
<1>4. DOMAIN Front(c) = 1 .. Len(c) - 1 BY <1>2, IsSeqFacts
<1>5. ContinuationOK(Front(c), n) BY <1>2, <1>3, <1>4 DEF ContinuationOK
<1>6. FrameOK(Last(c), n) BY <1>2, <1>3 DEF ContinuationOK, Last
<1>7. QED BY <1>5, <1>6

LEMMA MoreEnvironments ==
    ASSUME NEW c, NEW n \in Nat, NEW m \in Nat, n <= m, ContinuationOK(c, n)
    PROVE  ContinuationOK(c, m)
BY DEF ContinuationOK, FrameOK

-----------------------------------------------------------------------------
(***************************************************************************)
(* What a step does to the parts of the invariant.                         *)
(***************************************************************************)
LEMMA Numbers == IInv => /\ Len(env) \in Nat /\ Len(env) >= 2 /\ Envs = 1 .. Len(env)
                         /\ denv \in 2 .. Len(env) /\ std \in 2 .. Len(env)
BY IsSeqFacts DEF IInv, HeapOK, KnownOK, Envs, std

\* No environment is lost, and a new one changes no other.
LEMMA HeapSame == IInv /\ UNCHANGED env => HeapOK' /\ Len(env') = Len(env)
BY DEF IInv, HeapOK, IsSeq, ground

LEMMA HeapGrows ==
    ASSUME IInv, NEW r, env' = Append(env, r)
    PROVE  HeapOK' /\ Len(env') = Len(env) + 1
<1>1. IsSeq(env) /\ Len(env) >= 2 /\ Len(env) \in Nat BY Numbers DEF IInv, HeapOK
<1>2. /\ IsSeq(env') /\ Len(env') = Len(env) + 1
      /\ \A i \in 1 .. Len(env) : env'[i] = env[i]
  BY <1>1, AppendFacts
<1>3. env'[ground].bindings = Standard BY <1>1, <1>2 DEF IInv, HeapOK, ground
<1>4. QED BY <1>1, <1>2, <1>3 DEF HeapOK

\* What is matched is bound elsewhere than in the ground environment.
LEMMA MatchedFacts ==
    ASSUME IInv, cc # <<>>, top.fn # "do_remote_eval", NEW objects
    PROVE  /\ IsSeq(Matched(objects)) /\ Len(Matched(objects)) = Len(env)
           /\ Matched(objects)[ground].bindings = Standard
<1> DEFINE m == Matched(objects)
<1>1. Len(env) \in Nat /\ Len(env) >= 2 /\ DOMAIN env = 1 .. Len(env)
  BY Numbers DEF Envs
<1>2. top.env \in 2 .. Len(env)
  BY <1>1, FrontOfContinuation DEF IInv, FramesOK, FrameOK, top
<1>3. DOMAIN m = 1 .. Len(env) /\ m = [i \in 1 .. Len(env) |-> m[i]] BY <1>1 DEF Matched
<1>4. IsSeq(m) /\ Len(m) = Len(env) BY <1>1, <1>3, FunctionIsSeq
<1>5. m[ground] = env[ground] BY <1>1, <1>2 DEF Matched, ground
<1>6. QED BY <1>4, <1>5 DEF IInv, HeapOK

LEMMA HeapMatched ==
    ASSUME IInv, cc # <<>>, top.fn # "do_remote_eval", NEW objects, env' = Matched(objects)
    PROVE  HeapOK' /\ Len(env') = Len(env)
BY MatchedFacts DEF IInv, HeapOK

\* The program goes on in, or gets, another environment than the ground one.
LEMMA Evaluates ==
    ASSUME IInv, NEW e, ktail_eval(e), e \in 2 .. Len(env'),
           Len(env') \in Nat, Len(env) <= Len(env')
    PROVE  KnownOK' /\ PassedOK'
<1>1. Len(env) \in Nat BY Numbers
<1>2. QED BY <1>1 DEF ktail_eval, IInv, KnownOK, PassedOK, Runs

LEMMA Gets ==
    ASSUME IInv, NEW e, Has(e), e \in 2 .. Len(env'),
           Len(env') \in Nat, Len(env) <= Len(env')
    PROVE  KnownOK' /\ PassedOK'
<1>1. Len(env) \in Nat BY Numbers
<1>2. QED BY <1>1 DEF Has, IInv, KnownOK, PassedOK, Runs

LEMMA Passes ==
    ASSUME IInv, NEW objects, kapply_cc(objects), objects # <<ground>>, Len(env') = Len(env)
    PROVE  KnownOK' /\ PassedOK'
BY DEF kapply_cc, IInv, KnownOK, PassedOK, Runs

LEMMA Together ==
    ASSUME IInv, HeapOK', Len(env') \in Nat, Len(env) <= Len(env'), KnownOK', PassedOK',
           ContinuationOK(cc', Len(env')), held' = held
    PROVE  IInv'
<1>1. Len(env) \in Nat BY Numbers
<1>2. \A c \in held : ContinuationOK(c, Len(env')) BY <1>1, MoreEnvironments DEF IInv, FramesOK
<1>3. FramesOK' BY <1>2 DEF FramesOK
<1>4. QED BY <1>3 DEF IInv

LEMMA Pushes ==
    ASSUME IInv, Len(env') \in Nat, Len(env) <= Len(env'),
           NEW f, FrameOK(f, Len(env')), cc' = Append(cc, f)
    PROVE  ContinuationOK(cc', Len(env'))
<1>1. Len(env) \in Nat BY Numbers
<1>2. ContinuationOK(cc, Len(env')) BY <1>1, MoreEnvironments DEF IInv, FramesOK
<1>3. QED BY <1>2, AppendFrame

LEMMA Pops ==
    ASSUME IInv, Len(env') \in Nat, Len(env) <= Len(env'), cc # <<>>
    PROVE  ContinuationOK(Front(cc), Len(env')) /\ FrameOK(top, Len(env))
<1>1. Len(env) \in Nat BY Numbers
<1>2. ContinuationOK(Front(cc), Len(env)) /\ FrameOK(top, Len(env))
  BY <1>1, FrontOfContinuation DEF IInv, FramesOK, top
<1>3. QED BY <1>1, <1>2, MoreEnvironments

LEMMA Throws == IInv /\ Throw /\ held' = held /\ HeapOK' /\ Len(env') = Len(env) => IInv'
<1> SUFFICES ASSUME IInv, Throw, held' = held, HeapOK', Len(env') = Len(env)
             PROVE  IInv'
  OBVIOUS
<1>1. Len(env) \in Nat /\ std \in 2 .. Len(env) BY Numbers
<1>2. KnownOK' /\ PassedOK' BY <1>1, Evaluates DEF Throw
<1>3. ContinuationOK(cc', Len(env')) BY EmptyContinuation DEF Throw
<1>4. QED BY <1>1, <1>2, <1>3, Together

\* No object the program can make is the ground environment.
LEMMA NotGround == IInv => \A objects \in Objects \cup Passed : objects # <<ground>>
<1> SUFFICES ASSUME IInv, NEW objects \in Objects \cup Passed, objects = <<ground>>
             PROVE  FALSE
  OBVIOUS
<1>1. ground \notin known \cup {Datum}
  BY EnvironmentsAssumption DEF IInv, KnownOK, ground
<1>2. <<ground>> \notin Objects
  <2> SUFFICES ASSUME <<ground>> \in SeqOf(known \cup {Datum}, MaxTree) PROVE FALSE
    BY DEF Objects
  <2>1. PICK m \in 0 .. MaxTree : <<ground>> \in [1 .. m -> known \cup {Datum}]
    BY DEF SeqOf
  <2>2. 1 \in 1 .. m BY <2>1
  <2>3. QED BY <1>1, <2>1, <2>2
<1>3. QED BY <1>2 DEF Passed, IInv, PassedOK

LEMMA PassedEnvironments == IInv => EnvsPassed \subseteq 2 .. Len(env)
BY NotGround, Numbers DEF EnvsPassed, ground

-----------------------------------------------------------------------------
(***************************************************************************)
(* The steps.                                                              *)
(***************************************************************************)
\* An operative leaves a frame and evaluates an operand.
LEMMA Asks ==
    ASSUME IInv, NEW f, Frame(f), FrameOK(f, Len(env)), ktail_eval(denv),
           UNCHANGED <<env, held>>
    PROVE  IInv'
<1>1. Len(env) \in Nat /\ denv \in 2 .. Len(env) BY Numbers
<1>2. HeapOK' /\ Len(env') = Len(env) BY HeapSame
<1>3. KnownOK' /\ PassedOK' BY <1>1, <1>2, Evaluates
<1>4. ContinuationOK(cc', Len(env')) BY <1>1, <1>2, Pushes DEF Frame
<1>5. QED BY <1>1, <1>2, <1>3, <1>4, Together

\* It makes an environment first, in which it may evaluate the operand.
LEMMA AsksWithNew ==
    ASSUME IInv, NEW f, Frame(f), FrameOK(f, newest), NEW r, env' = Append(env, r),
           NEW e \in {denv, newest}, ktail_eval(e), UNCHANGED held
    PROVE  IInv'
<1>1. Len(env) \in Nat /\ Len(env) >= 2 /\ denv \in 2 .. Len(env) BY Numbers
<1>2. HeapOK' /\ Len(env') = newest BY HeapGrows DEF newest
<1>3. e \in 2 .. newest /\ newest \in Nat /\ Len(env) <= newest BY <1>1 DEF newest
<1>4. KnownOK' /\ PassedOK' BY <1>2, <1>3, Evaluates
<1>5. ContinuationOK(cc', Len(env')) BY <1>2, <1>3, Pushes DEF Frame
<1>6. QED BY <1>2, <1>3, <1>4, <1>5, Together

\* It makes an environment and returns it.
LEMMA Makes ==
    ASSUME IInv, NEW r, env' = Append(env, r), Has(newest), UNCHANGED <<cc, held>>
    PROVE  IInv'
<1>1. Len(env) \in Nat /\ Len(env) >= 2 BY Numbers
<1>2. HeapOK' /\ Len(env') = newest BY HeapGrows DEF newest
<1>3. newest \in 2 .. newest /\ newest \in Nat /\ Len(env) <= newest BY <1>1 DEF newest
<1>4. KnownOK' /\ PassedOK' BY <1>2, <1>3, Gets
<1>5. ContinuationOK(cc, newest) BY <1>1, <1>3, MoreEnvironments DEF IInv, FramesOK
<1>6. QED BY <1>2, <1>3, <1>4, <1>5, Together

\* The frame on top is done and the program goes on.
LEMMA GoesOn ==
    ASSUME IInv, cc # <<>>, Pop, NEW e \in 2 .. Len(env), ktail_eval(e),
           HeapOK', Len(env') = Len(env), UNCHANGED held
    PROVE  IInv'
<1>1. Len(env) \in Nat BY Numbers
<1>2. KnownOK' /\ PassedOK' BY <1>1, Evaluates
<1>3. ContinuationOK(cc', Len(env')) BY <1>1, Pops DEF Pop
<1>4. QED BY <1>1, <1>2, <1>3, Together

\* It is done and passes something on.
LEMMA PassesOn ==
    ASSUME IInv, cc # <<>>, Pop, NEW objects, kapply_cc(objects), objects # <<ground>>,
           HeapOK', Len(env') = Len(env), UNCHANGED held
    PROVE  IInv'
<1>1. Len(env) \in Nat BY Numbers
<1>2. KnownOK' /\ PassedOK' BY Passes
<1>3. ContinuationOK(cc', Len(env')) BY <1>1, Pops DEF Pop
<1>4. QED BY <1>1, <1>2, <1>3, Together

\* Another frame takes its place.
LEMMA Replaces ==
    ASSUME IInv, Len(env') \in Nat, Len(env) <= Len(env'), cc # <<>>,
           NEW f, FrameOK(f, Len(env')), Replace(f)
    PROVE  ContinuationOK(cc', Len(env'))
BY Pops, AppendFrame DEF Replace

LEMMA TopEnv ==
    ASSUME IInv, NEW fn, AtFrame(fn), fn # "do_remote_eval"
    PROVE  cc # <<>> /\ top.env \in 2 .. Len(env) /\ top.fn # "do_remote_eval" /\ held' = held
<1>1. Len(env) \in Nat BY Numbers
<1>2. QED BY <1>1, FrontOfContinuation DEF AtFrame, IInv, FramesOK, FrameOK, top

LEMMA OperateStep == IInv /\ Operate => IInv'
<1> SUFFICES ASSUME IInv, Operate PROVE IInv' OBVIOUS
<1> USE DEF FrameOK
<1>0. Len(env) \in Nat /\ Len(env) >= 2 /\ denv \in 2 .. Len(env) /\ held' = held
      /\ newest \in 2 .. newest
  BY Numbers DEF Operate, newest
<1>1. CASE Fail BY <1>0, <1>1, HeapSame, Throws DEF Fail
<1>2. CASE Sequence BY <1>0, <1>2, Asks DEF Sequence, do_seq
<1>3. CASE eval
  <2>1. PICK e \in known : ktail_eval(e) BY <1>3 DEF eval
  <2>2. e \in 2 .. Len(env) BY DEF IInv, KnownOK
  <2>3. HeapOK' /\ Len(env') = Len(env) BY <1>3, HeapSame DEF eval
  <2>4. KnownOK' /\ PassedOK' BY <1>0, <2>1, <2>2, <2>3, Evaluates
  <2>5. ContinuationOK(cc', Len(env')) BY <1>3, <2>3 DEF eval, IInv, FramesOK
  <2>6. QED BY <1>0, <2>3, <2>4, <2>5, Together
<1>4. CASE make_environment
  <2>1. \E r : env' = Append(env, r) BY <1>4 DEF make_environment, Child, kmake_environment
  <2>2. QED BY <1>0, <1>4, <2>1, Makes DEF make_environment
<1>5. CASE make_kernel_standard_environment
  <2>1. \E r : env' = Append(env, r)
    BY <1>5 DEF make_kernel_standard_environment, Child, kmake_environment
  <2>2. QED BY <1>0, <1>5, <2>1, Makes DEF make_kernel_standard_environment
<1>6. CASE do_sv_bind
  <2>1. \E r : env' = Append(env, r) BY <1>6 DEF do_sv_bind
  <2>2. QED BY <1>0, <1>6, <2>1, Makes DEF do_sv_bind
<1>7. CASE SdefineB BY <1>0, <1>7, Asks DEF SdefineB, do_match
<1>8. CASE SsetB BY <1>0, <1>8, Asks DEF SsetB, do_set_eval_obj
<1>9. CASE SimportB BY <1>0, <1>9, Asks DEF SimportB, do_import
<1>10. CASE SprovideB
  <2>1. PICK p : cc' = cc \o <<do_import(p, denv), do_return_value(newest)>>
    BY <1>10 DEF SprovideB
  <2>2. HeapOK' /\ Len(env') = newest
    BY <1>10, HeapGrows DEF SprovideB, Child, kmake_environment, newest
  <2>3. newest \in Nat /\ Len(env) <= newest BY <1>0 DEF newest
  <2>4. KnownOK' /\ PassedOK' BY <1>0, <1>10, <2>2, <2>3, Evaluates DEF SprovideB
  <2>5. IsSeq(cc) /\ ContinuationOK(cc, newest)
    BY <1>0, <2>3, MoreEnvironments DEF IInv, FramesOK, ContinuationOK
  <2>6. cc' = Append(Append(cc, do_import(p, denv)), do_return_value(newest))
    BY <2>1, <2>5 DEF IsSeq
  <2>7. FrameOK(do_import(p, denv), newest) /\ FrameOK(do_return_value(newest), newest)
    BY <1>0, <2>3 DEF do_import, do_return_value
  <2>8. ContinuationOK(cc', newest) BY <2>3, <2>5, <2>6, <2>7, AppendFrame
  <2>9. QED BY <1>0, <2>2, <2>3, <2>4, <2>8, Together
<1>11. CASE Slet
  <2>1. PICK p, recp : /\ Frame(do_let(p, <<>>, newest, recp))
                       /\ ktail_eval(IF recp THEN newest ELSE denv)
    BY <1>11 DEF Slet
  <2>2. PICK r : env' = Append(env, r) BY <1>11 DEF Slet, Child, kmake_environment
  <2>3. FrameOK(do_let(p, <<>>, newest, recp), newest) BY <1>0 DEF do_let
  <2>4. QED BY <1>0, <2>1, <2>2, <2>3, AsksWithNew
<1>12. CASE SletS
  <2>1. PICK s, q, recp : /\ Frame(do_let(<<s>>, <<q>>, newest, recp))
                          /\ ktail_eval(IF recp THEN newest ELSE denv)
    BY <1>12 DEF SletS
  <2>2. PICK r : env' = Append(env, r) BY <1>12 DEF SletS, Child, kmake_environment
  <2>3. FrameOK(do_let(<<s>>, <<q>>, newest, recp), newest) BY <1>0 DEF do_let
  <2>4. QED BY <1>0, <2>1, <2>2, <2>3, AsksWithNew
<1>13. CASE Slet_redirect BY <1>0, <1>13, Asks DEF Slet_redirect, do_let_redirect
<1>14. CASE Slet_safe
  <2>1. PICK p : Frame(do_let(p, <<>>, newest, FALSE)) BY <1>14 DEF Slet_safe
  <2>2. PICK r : env' = Append(env, r) BY <1>14 DEF Slet_safe, Child, kmake_environment
  <2>3. FrameOK(do_let(p, <<>>, newest, FALSE), newest) BY <1>0 DEF do_let
  <2>4. QED BY <1>0, <1>14, <2>1, <2>2, <2>3, AsksWithNew DEF Slet_safe
<1>15. CASE Sremote_eval BY <1>0, <1>15, Asks DEF Sremote_eval, do_remote_eval
<1>16. CASE Sbindings_to_environment
  <2>1. PICK p : Frame(do_b_to_env(p, newest)) BY <1>16 DEF Sbindings_to_environment
  <2>2. PICK r : env' = Append(env, r)
    BY <1>16 DEF Sbindings_to_environment, kmake_environment
  <2>3. FrameOK(do_b_to_env(p, newest), newest) BY <1>0 DEF do_b_to_env
  <2>4. QED BY <1>0, <1>16, <2>1, <2>2, <2>3, AsksWithNew DEF Sbindings_to_environment
<1>17. QED
  BY <1>1, <1>2, <1>3, <1>4, <1>5, <1>6, <1>7, <1>8, <1>9, <1>10, <1>11, <1>12, <1>13,
     <1>14, <1>15, <1>16 DEF Operate

LEMMA MatchStep ==
    IInv /\ (Mismatch \/ DoMatch \/ DoBToEnv \/ DoLetBody \/ DoLetNext) => IInv'
<1> SUFFICES ASSUME IInv, Mismatch \/ DoMatch \/ DoBToEnv \/ DoLetBody \/ DoLetNext
             PROVE  IInv'
  OBVIOUS
<1>0. Len(env) \in Nat /\ Len(env) >= 2 BY Numbers
<1>1. CASE Mismatch
  <2>1. cc # <<>> /\ top.fn # "do_remote_eval" /\ held' = held
    BY <1>1, TopEnv DEF Mismatch
  <2>2. HeapOK' /\ Len(env') = Len(env) BY <1>1, <2>1, HeapMatched DEF Mismatch
  <2>3. QED BY <1>1, <2>1, <2>2, Throws DEF Mismatch
<1>2. CASE DoMatch
  <2>1. cc # <<>> /\ top.fn # "do_remote_eval" /\ held' = held BY <1>2, TopEnv DEF DoMatch
  <2>2. HeapOK' /\ Len(env') = Len(env) BY <1>2, <2>1, HeapMatched DEF DoMatch, match
  <2>3. <<Datum>> # <<ground>> BY EnvironmentsAssumption DEF ground
  <2>4. QED BY <1>2, <2>1, <2>2, <2>3, PassesOn DEF DoMatch, match
<1>3. CASE DoBToEnv
  <2>1. /\ cc # <<>> /\ top.fn # "do_remote_eval" /\ held' = held
        /\ top.env \in 2 .. Len(env)
    BY <1>3, TopEnv DEF DoBToEnv
  <2>2. HeapOK' /\ Len(env') = Len(env) BY <1>3, <2>1, HeapMatched DEF DoBToEnv, match
  <2>3. KnownOK' BY <1>3, <2>1, <2>2 DEF DoBToEnv, IInv, KnownOK
  <2>4. PassedOK'
    <3>1. top.env # ground BY <2>1 DEF ground
    <3>2. <<top.env>>[1] # <<ground>>[1] BY <3>1
    <3>3. QED BY <1>3, <3>2 DEF DoBToEnv, PassedOK
  <2>5. ContinuationOK(cc', Len(env'))
    BY <1>0, <1>3, <2>1, <2>2, Pops DEF DoBToEnv, match, Pop
  <2>6. QED BY <1>0, <2>1, <2>2, <2>3, <2>4, <2>5, Together
<1>4. CASE DoLetBody
  <2>1. /\ cc # <<>> /\ top.fn # "do_remote_eval" /\ held' = held
        /\ top.env \in 2 .. Len(env)
    BY <1>4, TopEnv DEF DoLetBody
  <2>2. HeapOK' /\ Len(env') = Len(env) BY <1>4, <2>1, HeapMatched DEF DoLetBody, match
  <2>3. QED BY <1>4, <2>1, <2>2, GoesOn DEF DoLetBody, match
<1>5. CASE DoLetNext
  <2>1. /\ cc # <<>> /\ top.fn # "do_remote_eval" /\ held' = held
        /\ top.env \in 2 .. Len(env)
    BY <1>5, TopEnv DEF DoLetNext
  <2>2. PICK objects, m, r : m = Matched(objects) /\ env' = Append(m, r)
    BY <1>5 DEF DoLetNext
  <2>3. IsSeq(m) /\ Len(m) = Len(env) /\ m[ground].bindings = Standard
    BY <2>1, <2>2, MatchedFacts
  <2>4. /\ IsSeq(env') /\ Len(env') = newest
        /\ \A i \in 1 .. Len(env) : env'[i] = m[i]
    BY <2>2, <2>3, AppendFacts DEF newest
  <2>5. HeapOK' BY <1>0, <2>3, <2>4 DEF HeapOK, newest, ground
  <2>6. /\ newest \in Nat /\ Len(env) <= newest /\ newest \in 2 .. newest
        /\ top.env \in 2 .. newest
    BY <1>0, <2>1 DEF newest
  <2>7. PICK e \in {newest, top.env} : ktail_eval(e) BY <1>5 DEF DoLetNext
  <2>8. KnownOK' /\ PassedOK' BY <2>4, <2>6, <2>7, Evaluates
  <2>9. FrameOK(do_let(<<top.rest[1]>>, Tail(top.rest), newest, top.recp), newest)
    BY <2>6 DEF FrameOK, do_let
  <2>10. ContinuationOK(cc', Len(env'))
    BY <1>5, <2>1, <2>4, <2>6, <2>9, Replaces DEF DoLetNext
  <2>11. QED BY <2>1, <2>4, <2>5, <2>6, <2>8, <2>10, Together
<1>6. QED BY <1>1, <1>2, <1>3, <1>4, <1>5

LEMMA FrameStep ==
    IInv /\ (DoSeq \/ DoReturnValue \/ NotAnEnvironment \/ DoSetEvalObj \/ DoImport
             \/ DoLetRedirect \/ DoRemoteEval) => IInv'
<1> SUFFICES ASSUME IInv,
                    DoSeq \/ DoReturnValue \/ NotAnEnvironment \/ DoSetEvalObj \/ DoImport
                    \/ DoLetRedirect \/ DoRemoteEval
             PROVE  IInv'
  OBVIOUS
<1>0. Len(env) \in Nat /\ Len(env) >= 2 BY Numbers
<1>1. CASE DoSeq
  <2>1. cc # <<>> /\ held' = held /\ top.env \in 2 .. Len(env)
    BY <1>1, TopEnv DEF DoSeq
  <2>2. QED BY <1>1, <2>1, HeapSame, GoesOn DEF DoSeq
<1>2. CASE DoReturnValue
  <2>1. cc # <<>> /\ held' = held /\ top.env \in 2 .. Len(env)
    BY <1>2, TopEnv DEF DoReturnValue
  <2>2. <<top.env>> # <<ground>> BY <2>1 DEF ground
  <2>3. QED BY <1>2, <2>1, <2>2, HeapSame, PassesOn DEF DoReturnValue
<1>3. CASE NotAnEnvironment
  BY <1>3, HeapSame, Throws DEF NotAnEnvironment, AtFrame
<1>4. CASE DoSetEvalObj
  <2>1. cc # <<>> /\ held' = held /\ top.env \in 2 .. Len(env)
    BY <1>4, TopEnv DEF DoSetEvalObj
  <2>2. PICK e \in EnvsPassed : Replace(do_match(top.ptree, e)) BY <1>4 DEF DoSetEvalObj
  <2>3. HeapOK' /\ Len(env') = Len(env) BY <1>4, HeapSame DEF DoSetEvalObj
  <2>4. KnownOK' /\ PassedOK' BY <1>0, <1>4, <2>1, <2>3, Evaluates DEF DoSetEvalObj
  <2>5. FrameOK(do_match(top.ptree, e), Len(env'))
    BY <2>3, PassedEnvironments DEF FrameOK, do_match
  <2>6. ContinuationOK(cc', Len(env')) BY <1>0, <2>1, <2>2, <2>3, <2>5, Replaces
  <2>7. QED BY <1>0, <2>1, <2>3, <2>4, <2>6, Together
<1>5. CASE DoImport
  <2>1. cc # <<>> /\ held' = held /\ top.env \in 2 .. Len(env)
    BY <1>5, TopEnv DEF DoImport
  <2>2. HeapOK' /\ Len(env') = Len(env) BY <1>5, HeapSame DEF DoImport
  <2>3. CASE Throw BY <2>1, <2>2, <2>3, Throws
  <2>4. CASE /\ Replace(do_match(top.ptree, top.env))
             /\ kapply_cc([i \in DOMAIN top.ptree |-> Datum])
    <3>1. [i \in DOMAIN top.ptree |-> Datum] # <<ground>>
      <4> SUFFICES ASSUME [i \in DOMAIN top.ptree |-> Datum] = <<ground>> PROVE FALSE
        OBVIOUS
      <4>1. DOMAIN top.ptree = {1} OBVIOUS
      <4>2. Datum = ground BY <4>1
      <4>3. QED BY <4>2, EnvironmentsAssumption DEF ground
    <3>2. KnownOK' /\ PassedOK' BY <2>2, <2>4, <3>1, Passes
    <3>3. FrameOK(do_match(top.ptree, top.env), Len(env')) BY <2>1, <2>2 DEF FrameOK, do_match
    <3>4. ContinuationOK(cc', Len(env')) BY <1>0, <2>1, <2>2, <2>4, <3>3, Replaces
    <3>5. QED BY <1>0, <2>1, <2>2, <3>2, <3>4, Together
  <2>5. QED BY <1>5, <2>3, <2>4 DEF DoImport
<1>6. CASE DoLetRedirect
  <2>1. cc # <<>> /\ held' = held /\ top.env \in 2 .. Len(env)
    BY <1>6, TopEnv DEF DoLetRedirect
  <2>2. PICK r : env' = Append(env, r) BY <1>6 DEF DoLetRedirect, Child, kmake_environment
  <2>3. HeapOK' /\ Len(env') = newest BY <2>2, HeapGrows DEF newest
  <2>4. /\ newest \in Nat /\ Len(env) <= newest /\ newest \in 2 .. newest
        /\ top.env \in 2 .. newest
    BY <1>0, <2>1 DEF newest
  <2>5. KnownOK' /\ PassedOK' BY <1>6, <2>3, <2>4, Evaluates DEF DoLetRedirect
  <2>6. FrameOK(do_let(top.ptree, <<>>, newest, FALSE), newest) BY <2>4 DEF FrameOK, do_let
  <2>7. ContinuationOK(cc', Len(env')) BY <1>6, <2>1, <2>3, <2>4, <2>6, Replaces DEF DoLetRedirect
  <2>8. QED BY <2>1, <2>3, <2>4, <2>5, <2>7, Together
<1>7. CASE DoRemoteEval
  <2>1. cc # <<>> /\ held' = held BY <1>7 DEF DoRemoteEval, AtFrame
  <2>2. PICK e \in EnvsPassed : ktail_eval(e) BY <1>7 DEF DoRemoteEval
  <2>3. e \in 2 .. Len(env) BY PassedEnvironments
  <2>4. QED BY <1>7, <2>1, <2>2, <2>3, HeapSame, GoesOn DEF DoRemoteEval
<1>8. QED BY <1>1, <1>2, <1>3, <1>4, <1>5, <1>6, <1>7

LEMMA ControlStep == IInv /\ (Capture \/ Reenter \/ Repl \/ UNCHANGED vars) => IInv'
<1> SUFFICES ASSUME IInv, Capture \/ Reenter \/ Repl \/ UNCHANGED vars PROVE IInv' OBVIOUS
<1>0. Len(env) \in Nat /\ std \in 2 .. Len(env) BY Numbers
<1>1. CASE Capture
  <2>1. UNCHANGED <<env, known, denv, cc, passed>> /\ held' = held \cup {cc}
    BY <1>1 DEF Capture
  <2>2. FramesOK' BY <2>1 DEF FramesOK, IInv
  <2>3. QED BY <2>1, <2>2, HeapSame DEF IInv, KnownOK, PassedOK, Runs
<1>2. CASE Reenter
  <2>1. HeapOK' /\ Len(env') = Len(env) BY <1>2, HeapSame DEF Reenter
  <2>2. KnownOK' /\ PassedOK' BY <1>2, <2>1, NotGround, Passes DEF Reenter
  <2>3. ContinuationOK(cc', Len(env')) BY <1>2, <2>1 DEF Reenter, IInv, FramesOK
  <2>4. QED BY <1>0, <1>2, <2>1, <2>2, <2>3, Together DEF Reenter
<1>3. CASE Repl
  <2>1. HeapOK' /\ Len(env') = Len(env) BY <1>3, HeapSame DEF Repl
  <2>2. KnownOK' /\ PassedOK' BY <1>0, <1>3, <2>1, Evaluates DEF Repl
  <2>3. ContinuationOK(cc', Len(env')) BY <1>3, <2>1 DEF Repl, IInv, FramesOK
  <2>4. QED BY <1>0, <1>3, <2>1, <2>2, <2>3, Together DEF Repl
<1>4. CASE UNCHANGED vars
  BY <1>4, HeapSame DEF vars, IInv, KnownOK, PassedOK, FramesOK, Runs
<1>5. QED BY <1>1, <1>2, <1>3, <1>4

-----------------------------------------------------------------------------
LEMMA InitIInv == Init => IInv
<1> SUFFICES ASSUME Init PROVE IInv OBVIOUS
<1>1. DOMAIN env = 1 .. 2 /\ env = [i \in 1 .. 2 |-> env[i]] BY DEF Init
<1>2. IsSeq(env) /\ Len(env) = 2 BY <1>1, FunctionIsSeq
<1>3. env[ground].bindings = Standard BY DEF Init, ground
<1>4. FramesOK BY EmptyContinuation DEF Init, FramesOK
<1>5. QED BY <1>2, <1>3, <1>4 DEF Init, IInv, HeapOK, KnownOK, PassedOK, Runs, std

LEMMA NextIInv == IInv /\ [Next]_vars => IInv'
BY OperateStep, MatchStep, FrameStep, ControlStep DEF Next

\* What the invariant says of the ground environment.
LEMMA IInvProtects == IInv => GroundProtected
BY DEF IInv, HeapOK, KnownOK, FramesOK, ContinuationOK, FrameOK, GroundProtected, ground

\* No sequence of operations, errors and continuations entered again lets a
\* program have the ground environment, changes it, or leaves a frame that would
\* (the children that make-kernel-standard-environment and $let-safe make of it
\* share it among all programs).
THEOREM GroundSafety == Spec => []GroundProtected
BY InitIInv, NextIInv, IInvProtects, PTL DEF Spec

-----------------------------------------------------------------------------
(***************************************************************************)
(* Scopes.  Until the symbols of a $let are bound, its environment is in   *)
(* one frame of the continuation and nowhere else.                         *)
(***************************************************************************)
Binds(f) == f.fn # "do_remote_eval"
Private(f) == f.fn = "do_let" /\ ~f.recp
PrivateEnvs(c) == {c[i].env : i \in {j \in DOMAIN c : Private(c[j])}}

\* No other frame has the environment of a private one.
Apart(c) ==
    \A i, j \in DOMAIN c : i # j /\ Private(c[i]) /\ Binds(c[j]) => c[j].env # c[i].env

\* Nothing beside the frames has it, and nothing is bound in it.
Hidden(x) ==
    /\ x \notin known /\ env[x].bindings = {}
    /\ \A e \in Envs : x \notin Range(env[e].parents)
    /\ ~Runs => x \notin Range(passed)

ParentsMade == \A e \in Envs : Range(env[e].parents) \subseteq Envs
ScopesOK == held = {} => Apart(cc) /\ \A x \in PrivateEnvs(cc) : Hidden(x)

SInv == IInv /\ ParentsMade /\ denv \in known /\ ScopesOK

\* A frame goes on a continuation: a private one with an environment of its own.
LEMMA ApartAppend ==
    ASSUME NEW c, IsSeq(c), Apart(c), NEW f,
           Private(f) => \A j \in DOMAIN c : Binds(c[j]) => c[j].env # f.env,
           Binds(f) => f.env \notin PrivateEnvs(c)
    PROVE  /\ Apart(Append(c, f))
           /\ \A x \in PrivateEnvs(Append(c, f)) : x \in PrivateEnvs(c) \/ (Private(f) /\ x = f.env)
<1> DEFINE d == Append(c, f)
<1>1. /\ IsSeq(d) /\ Len(d) = Len(c) + 1
      /\ \A i \in 1 .. Len(c) : d[i] = c[i]
      /\ d[Len(c) + 1] = f
  BY AppendFacts
<1>2. Len(c) \in Nat /\ DOMAIN c = 1 .. Len(c) /\ DOMAIN d = 1 .. Len(c) + 1
  BY <1>1, IsSeqFacts
<1> HIDE DEF d
<1>3. ASSUME NEW i \in DOMAIN d, NEW j \in DOMAIN d, i # j, Private(d[i]), Binds(d[j])
      PROVE  d[j].env # d[i].env
  <2>1. CASE i \in 1 .. Len(c) /\ j \in 1 .. Len(c)
    BY <1>1, <1>2, <1>3, <2>1 DEF Apart
  <2>2. CASE i = Len(c) + 1 /\ j \in 1 .. Len(c) BY <1>1, <1>2, <1>3, <2>2
  <2>3. CASE i \in 1 .. Len(c) /\ j = Len(c) + 1
    <3>1. c[i].env \in PrivateEnvs(c) BY <1>1, <1>2, <1>3, <2>3 DEF PrivateEnvs
    <3>2. QED BY <1>1, <1>3, <2>3, <3>1
  <2>4. QED BY <1>2, <1>3, <2>1, <2>2, <2>3
<1>4. ASSUME NEW x \in PrivateEnvs(d)
      PROVE  x \in PrivateEnvs(c) \/ (Private(f) /\ x = f.env)
  <2>1. PICK i \in DOMAIN d : Private(d[i]) /\ x = d[i].env BY <1>4 DEF PrivateEnvs
  <2>2. CASE i \in 1 .. Len(c) BY <1>1, <1>2, <2>1, <2>2 DEF PrivateEnvs
  <2>3. CASE i = Len(c) + 1 BY <1>1, <2>1, <2>3
  <2>4. QED BY <1>2, <2>2, <2>3
<1>5. QED BY <1>3, <1>4 DEF Apart, d

LEMMA ApartFront ==
    ASSUME NEW c, IsSeq(c), Apart(c), c # <<>>
    PROVE  /\ Apart(Front(c)) /\ PrivateEnvs(Front(c)) \subseteq PrivateEnvs(c)
           /\ Binds(Last(c)) => Last(c).env \notin PrivateEnvs(Front(c))
           /\ Private(Last(c)) =>
                /\ Last(c).env \in PrivateEnvs(c)
                /\ \A j \in DOMAIN Front(c) : Binds(Front(c)[j]) => Front(c)[j].env # Last(c).env
<1> DEFINE d == Front(c)
<1>1. /\ IsSeq(d) /\ Len(c) >= 1 /\ Len(d) = Len(c) - 1
      /\ \A i \in 1 .. Len(c) - 1 : d[i] = c[i]
  BY FrontFacts
<1>2. Len(c) \in Nat /\ DOMAIN c = 1 .. Len(c) /\ DOMAIN d = 1 .. Len(c) - 1
  BY <1>1, IsSeqFacts
<1> HIDE DEF d
<1>3. \A i \in DOMAIN d : i \in DOMAIN c /\ i # Len(c) /\ d[i] = c[i] BY <1>1, <1>2
<1>4. Len(c) \in DOMAIN c /\ Last(c) = c[Len(c)] BY <1>1, <1>2 DEF Last
<1>5. Apart(d) BY <1>3 DEF Apart
<1>6. PrivateEnvs(d) \subseteq PrivateEnvs(c) BY <1>3 DEF PrivateEnvs
<1>7. Binds(Last(c)) => Last(c).env \notin PrivateEnvs(d)
  BY <1>3, <1>4 DEF PrivateEnvs, Apart
<1>8. Private(Last(c)) =>
        /\ Last(c).env \in PrivateEnvs(c)
        /\ \A j \in DOMAIN d : Binds(d[j]) => d[j].env # Last(c).env
  BY <1>3, <1>4 DEF PrivateEnvs, Apart
<1>9. QED BY <1>5, <1>6, <1>7, <1>8 DEF d

LEMMA NothingPrivate == Apart(<<>>) /\ PrivateEnvs(<<>>) = {}
BY DEF Apart, PrivateEnvs

\* A frame's environment is made, and not the ground one.
LEMMA BoundEnvs ==
    ASSUME SInv
    PROVE  /\ IsSeq(cc) /\ \A j \in DOMAIN cc : Binds(cc[j]) => cc[j].env \in 2 .. Len(env)
           /\ PrivateEnvs(cc) \subseteq 2 .. Len(env)
<1>1. ContinuationOK(cc, Len(env)) BY DEF SInv, IInv, FramesOK
<1>2. IsSeq(cc) /\ \A j \in DOMAIN cc : Binds(cc[j]) => cc[j].env \in 2 .. Len(env)
  BY <1>1 DEF ContinuationOK, FrameOK, Binds
<1>3. QED BY <1>2 DEF PrivateEnvs, Private, Binds

-----------------------------------------------------------------------------
(***************************************************************************)
(* What keeps an environment hidden.                                       *)
(***************************************************************************)
Untouched(x) ==
    /\ env'[x].bindings = env[x].bindings
    /\ \A e \in Envs' : x \in Range(env'[e].parents) => e \in Envs /\ x \in Range(env[e].parents)

LEMMA StaysHidden ==
    ASSUME NEW x, Hidden(x), Untouched(x), x \notin known', ~Runs' => x \notin Range(passed')
    PROVE  Hidden(x)'
BY DEF Hidden, Untouched

LEMMA SameHeap ==
    ASSUME SInv, UNCHANGED env
    PROVE  ParentsMade' /\ \A x : Untouched(x)
BY DEF SInv, ParentsMade, Untouched, Envs

LEMMA GrownHeap ==
    ASSUME SInv, NEW r, env' = Append(env, r), Range(r.parents) \subseteq Envs
    PROVE  /\ ParentsMade' /\ Envs' = 1 .. newest /\ newest \notin Envs /\ Len(env') = newest
           /\ env'[newest] = r
           /\ \A e \in Envs' : newest \notin Range(env'[e].parents)
           /\ \A x \in Envs : x \notin Range(r.parents) => Untouched(x)
<1>1. Len(env) \in Nat /\ Envs = 1 .. Len(env) /\ IsSeq(env)
  BY Numbers DEF SInv, IInv, HeapOK
<1>2. /\ IsSeq(env') /\ Len(env') = newest
      /\ \A i \in 1 .. Len(env) : env'[i] = env[i]
      /\ env'[newest] = r
  BY <1>1, AppendFacts DEF newest
<1>3. Envs' = 1 .. newest BY <1>2, IsSeqFacts DEF Envs
<1>4. newest \notin Envs /\ Envs' = Envs \cup {newest} BY <1>1, <1>3 DEF newest
<1>5. \A e \in Envs' : Range(env'[e].parents) \subseteq Envs
  BY <1>1, <1>2, <1>4 DEF SInv, ParentsMade
<1>6. ASSUME NEW x \in Envs, x \notin Range(r.parents) PROVE Untouched(x)
  BY <1>1, <1>2, <1>4, <1>6 DEF Untouched
<1>7. QED BY <1>2, <1>3, <1>4, <1>5, <1>6 DEF ParentsMade

\* Matching changes what is bound in one environment, and no parents.
LEMMA MatchedHeap ==
    ASSUME SInv, cc # <<>>, top.fn # "do_remote_eval", NEW objects
    PROVE  /\ IsSeq(Matched(objects)) /\ Len(Matched(objects)) = Len(env)
           /\ \A e \in Envs : /\ Matched(objects)[e].parents = env[e].parents
                              /\ e # top.env => Matched(objects)[e] = env[e]
<1>1. IsSeq(Matched(objects)) /\ Len(Matched(objects)) = Len(env)
  BY MatchedFacts DEF SInv
<1>2. \A e \in Envs : e # top.env => Matched(objects)[e] = env[e] BY DEF Matched, Envs
<1>3. ASSUME NEW e \in Envs, e = top.env
      PROVE  Matched(objects)[e].parents = env[e].parents
  <2> DEFINE b == env[e].bindings \cup {top.ptree[i] : i \in DOMAIN top.ptree \cap DOMAIN objects}
  <2>1. Matched(objects)[e] = [env[e] EXCEPT !.bindings = b] BY <1>3 DEF Matched, Envs
  <2> HIDE DEF b
  <2>2. [env[e] EXCEPT !.bindings = b].parents = env[e].parents OBVIOUS
  <2>3. QED BY <2>1, <2>2
<1>4. QED BY <1>1, <1>2, <1>3

LEMMA BoundHeap ==
    ASSUME SInv, cc # <<>>, top.fn # "do_remote_eval", NEW objects, env' = Matched(objects)
    PROVE  ParentsMade' /\ \A x \in Envs : x # top.env => Untouched(x)
<1>1. Envs = 1 .. Len(env) BY Numbers DEF SInv
<1>2. Envs' = Envs BY <1>1, MatchedHeap, IsSeqFacts DEF Envs
<1>3. \A e \in Envs : /\ env'[e].parents = env[e].parents
                      /\ e # top.env => env'[e] = env[e]
  BY MatchedHeap
<1>4. QED BY <1>2, <1>3 DEF SInv, ParentsMade, Untouched

\* An environment that is passed, or that the program has, is not hidden.
LEMMA PassedNotHidden ==
    ASSUME SInv, NEW x, Hidden(x)
    PROVE  x \notin EnvsPassed
<1> SUFFICES ASSUME x \in EnvsPassed PROVE FALSE OBVIOUS
<1>1. x \in Envs /\ <<x>> \in Passed BY DEF EnvsPassed
<1>2. x \in Nat BY <1>1, Numbers DEF SInv
<1>3. CASE Runs
  <2>1. <<x>> \in SeqOf(known \cup {Datum}, MaxTree) BY <1>1, <1>3 DEF Passed, Objects
  <2>2. PICK m \in 0 .. MaxTree : <<x>> \in [1 .. m -> known \cup {Datum}]
    BY <2>1 DEF SeqOf
  <2>3. 1 \in 1 .. m BY <2>2
  <2>4. x \in known \cup {Datum} BY <2>2, <2>3
  <2>5. QED BY <1>2, <2>4, EnvironmentsAssumption DEF Hidden
<1>4. CASE ~Runs
  <2>1. passed = <<x>> BY <1>1, <1>4 DEF Passed
  <2>2. x \in Range(passed) BY <2>1 DEF Range
  <2>3. QED BY <1>4, <2>2 DEF Hidden
<1>5. QED BY <1>3, <1>4

\* The frames below the top one.
LEMMA Below ==
    ASSUME SInv, held = {}, cc # <<>>
    PROVE  /\ IsSeq(Front(cc)) /\ Apart(Front(cc))
           /\ \A x \in PrivateEnvs(Front(cc)) : x \in PrivateEnvs(cc) /\ Hidden(x) /\ x \in 2 .. Len(env)
           /\ Binds(top) => top.env \notin PrivateEnvs(Front(cc))
           /\ \A j \in DOMAIN Front(cc) : Binds(Front(cc)[j]) => Front(cc)[j].env \in 2 .. Len(env)
           /\ Private(top) =>
                \A j \in DOMAIN Front(cc) : Binds(Front(cc)[j]) => Front(cc)[j].env # top.env
<1>1. IsSeq(cc) /\ Apart(cc) BY BoundEnvs DEF SInv, ScopesOK
<1>2. IsSeq(Front(cc)) BY <1>1, FrontFacts
<1>3. Len(env) \in Nat /\ ContinuationOK(Front(cc), Len(env))
  BY Numbers, FrontOfContinuation DEF SInv, IInv, FramesOK
<1>4. \A j \in DOMAIN Front(cc) : Binds(Front(cc)[j]) => Front(cc)[j].env \in 2 .. Len(env)
  BY <1>3 DEF ContinuationOK, FrameOK, Binds
<1>5. /\ Apart(Front(cc)) /\ PrivateEnvs(Front(cc)) \subseteq PrivateEnvs(cc)
      /\ Binds(top) => top.env \notin PrivateEnvs(Front(cc))
      /\ Private(top) =>
           \A j \in DOMAIN Front(cc) : Binds(Front(cc)[j]) => Front(cc)[j].env # top.env
  BY <1>1, ApartFront DEF top
<1>6. QED BY <1>2, <1>4, <1>5, BoundEnvs DEF SInv, ScopesOK

-----------------------------------------------------------------------------
(***************************************************************************)
(* What the steps do to scopes.                                            *)
(***************************************************************************)
\* The heap, and a continuation whose private environments stay hidden.
LEMMA ScopesThrow == SInv /\ Throw => denv' \in known' /\ ScopesOK'
BY NothingPrivate DEF Throw, ktail_eval, ScopesOK

LEMMA ScopesAsk ==
    ASSUME SInv, NEW f, Frame(f), ~Private(f), Binds(f) => f.env \in known,
           ktail_eval(denv), UNCHANGED <<env, held>>
    PROVE  ParentsMade' /\ denv' \in known' /\ ScopesOK'
<1>1. ParentsMade' /\ denv' \in known' BY SameHeap DEF ktail_eval
<1>2. ASSUME held = {} PROVE Apart(cc') /\ \A x \in PrivateEnvs(cc') : Hidden(x)'
  <2>1. Apart(cc) /\ \A x \in PrivateEnvs(cc) : Hidden(x) BY <1>2 DEF SInv, ScopesOK
  <2>2. Binds(f) => f.env \notin PrivateEnvs(cc) BY <2>1 DEF Hidden
  <2>3. Apart(cc') /\ \A x \in PrivateEnvs(cc') : x \in PrivateEnvs(cc)
    BY <2>1, <2>2, BoundEnvs, ApartAppend DEF Frame
  <2>4. known' = known /\ Runs' BY DEF ktail_eval, SInv, Runs
  <2>5. \A x \in PrivateEnvs(cc) : Hidden(x)' BY <2>1, <2>4, SameHeap, StaysHidden DEF Hidden
  <2>6. QED BY <2>3, <2>5
<1>3. QED BY <1>1, <1>2 DEF ScopesOK

\* The environment made for a frame: nothing has it yet.
LEMMA NewHidden ==
    ASSUME SInv, NEW r, env' = Append(env, r), Range(r.parents) \subseteq Envs, r.bindings = {},
           known' \subseteq Envs, Runs', NEW x, x = newest
    PROVE  Hidden(x)'
<1>1. /\ newest \notin Envs /\ env'[newest] = r
      /\ \A e \in Envs' : newest \notin Range(env'[e].parents)
  BY GrownHeap
<1>2. QED BY <1>1 DEF Hidden

LEMMA ScopesAskWithNew ==
    ASSUME SInv, NEW f, Frame(f), Binds(f), f.env = newest,
           NEW r, env' = Append(env, r), Range(r.parents) \subseteq known \cup {ground},
           r.bindings = {}, NEW e \in {denv, newest}, ktail_eval(e), Private(f) => e = denv,
           UNCHANGED held
    PROVE  ParentsMade' /\ denv' \in known' /\ ScopesOK'
<1>1. /\ Len(env) \in Nat /\ Len(env) >= 2 /\ Envs = 1 .. Len(env)
      /\ known \subseteq 2 .. Len(env)
  BY Numbers DEF SInv, IInv, KnownOK
<1>2. Range(r.parents) \subseteq Envs
  <2>1. known \cup {ground} \subseteq Envs BY <1>1 DEF ground
  <2>2. QED BY <2>1
<1>3. /\ ParentsMade' /\ newest \notin Envs
      /\ \A x \in Envs : x \notin Range(r.parents) => Untouched(x)
  BY <1>2, GrownHeap
<1>4. denv' \in known' /\ Runs' /\ known' = known \cup {e} BY DEF ktail_eval, Runs
<1>5. ASSUME held = {} PROVE Apart(cc') /\ \A x \in PrivateEnvs(cc') : Hidden(x)'
  <2>1. Apart(cc) /\ \A x \in PrivateEnvs(cc) : Hidden(x) BY <1>5 DEF SInv, ScopesOK
  <2>2. newest \notin 2 .. Len(env) BY <1>1, <1>3
  <2>3. /\ \A j \in DOMAIN cc : Binds(cc[j]) => cc[j].env # f.env
        /\ f.env \notin PrivateEnvs(cc)
    BY <2>2, BoundEnvs
  <2>4. /\ Apart(cc')
        /\ \A x \in PrivateEnvs(cc') : x \in PrivateEnvs(cc) \/ (Private(f) /\ x = newest)
    BY <2>1, <2>3, BoundEnvs, ApartAppend DEF Frame
  <2>5. ASSUME NEW x \in PrivateEnvs(cc) PROVE Hidden(x)'
    <3>1. x \in 2 .. Len(env) /\ Hidden(x) BY <2>1, BoundEnvs
    <3>2. x \in Envs /\ x # ground /\ x \notin known /\ x # e
      BY <1>1, <2>2, <3>1 DEF Hidden, ground, SInv
    <3>3. Untouched(x) BY <1>3, <3>2
    <3>4. QED BY <1>4, <3>1, <3>2, <3>3, StaysHidden
  <2>6. ASSUME Private(f), NEW x, x = newest PROVE Hidden(x)'
    <3>1. known' \subseteq Envs BY <1>1, <1>4, <2>6 DEF SInv
    <3>2. QED BY <1>2, <1>4, <2>6, <3>1, NewHidden
  <2>7. QED BY <2>4, <2>5, <2>6
<1>6. QED BY <1>3, <1>4, <1>5 DEF ScopesOK

\* The top frame is done.
LEMMA ScopesPop ==
    ASSUME SInv, held = {}, cc # <<>>, Pop,
           \A x \in PrivateEnvs(Front(cc)) :
               Untouched(x) /\ x \notin known' /\ (~Runs' => x \notin Range(passed'))
    PROVE  Apart(cc') /\ \A x \in PrivateEnvs(cc') : Hidden(x)'
BY Below, StaysHidden DEF Pop

\* It is replaced by one that is not private, or that has an environment of its own.
LEMMA ScopesReplace ==
    ASSUME SInv, held = {}, cc # <<>>, NEW f, Replace(f),
           \A x \in PrivateEnvs(Front(cc)) :
               Untouched(x) /\ x \notin known' /\ (~Runs' => x \notin Range(passed')),
           Binds(f) => f.env \notin PrivateEnvs(Front(cc)), ~Private(f)
    PROVE  Apart(cc') /\ \A x \in PrivateEnvs(cc') : Hidden(x)'
<1>1. IsSeq(Front(cc)) /\ Apart(Front(cc)) BY Below
<1>2. Apart(cc') /\ \A x \in PrivateEnvs(cc') : x \in PrivateEnvs(Front(cc))
  BY <1>1, ApartAppend DEF Replace
<1>3. QED BY <1>2, Below, StaysHidden

LEMMA ScopesReplaceNew ==
    ASSUME SInv, held = {}, cc # <<>>, NEW f, Replace(f), Binds(f), f.env = newest,
           \A x \in PrivateEnvs(Front(cc)) : Untouched(x) /\ x \notin known', Runs',
           Private(f) => \A x : x = newest => Hidden(x)'
    PROVE  Apart(cc') /\ \A x \in PrivateEnvs(cc') : Hidden(x)'
<1>1. /\ IsSeq(Front(cc)) /\ Apart(Front(cc))
      /\ \A x \in PrivateEnvs(Front(cc)) : x \in 2 .. Len(env)
      /\ \A j \in DOMAIN Front(cc) : Binds(Front(cc)[j]) => Front(cc)[j].env \in 2 .. Len(env)
  BY Below
<1>2. newest \notin 2 .. Len(env) BY Numbers DEF newest, SInv
<1>3. /\ f.env \notin PrivateEnvs(Front(cc))
      /\ \A j \in DOMAIN Front(cc) : Binds(Front(cc)[j]) => Front(cc)[j].env # f.env
  BY <1>1, <1>2
<1>4. /\ Apart(cc')
      /\ \A x \in PrivateEnvs(cc') : x \in PrivateEnvs(Front(cc)) \/ (Private(f) /\ x = newest)
  BY <1>1, <1>3, ApartAppend DEF Replace
<1>5. QED BY <1>4, Below, StaysHidden

LEMMA ScopesMake ==
    ASSUME SInv, NEW r, env' = Append(env, r), Range(r.parents) \subseteq known \cup {ground},
           Has(newest), UNCHANGED <<cc, held>>
    PROVE  ParentsMade' /\ denv' \in known' /\ ScopesOK'
<1>1. /\ Len(env) \in Nat /\ Len(env) >= 2 /\ Envs = 1 .. Len(env)
      /\ known \subseteq 2 .. Len(env)
  BY Numbers DEF SInv, IInv, KnownOK
<1>2. Range(r.parents) \subseteq Envs
  <2>1. known \cup {ground} \subseteq Envs BY <1>1 DEF ground
  <2>2. QED BY <2>1
<1>3. /\ ParentsMade' /\ newest \notin Envs
      /\ \A x \in Envs : x \notin Range(r.parents) => Untouched(x)
  BY <1>2, GrownHeap
<1>4. denv' \in known' /\ known' = known \cup {newest} /\ passed' = passed
  BY DEF Has, SInv
<1>5. ASSUME held = {}, NEW x \in PrivateEnvs(cc) PROVE Hidden(x)'
  <2>1. x \in 2 .. Len(env) /\ Hidden(x) BY <1>5, BoundEnvs DEF SInv, ScopesOK
  <2>2. x \in Envs /\ x # ground /\ x \notin known' BY <1>1, <1>3, <1>4, <2>1 DEF Hidden, ground
  <2>3. Untouched(x) BY <1>3, <2>1, <2>2 DEF Hidden
  <2>4. ~Runs' => x \notin Range(passed') BY <1>4, <2>1 DEF Hidden, Runs
  <2>5. QED BY <2>1, <2>2, <2>3, <2>4, StaysHidden
<1>6. QED BY <1>3, <1>4, <1>5 DEF ScopesOK, SInv

LEMMA Fields ==
    ASSUME NEW ps, NEW single, NEW key
    PROVE  /\ Environment(ps, single, key).parents = ps
           /\ Environment(ps, single, key).bindings = {}
           /\ Environment(ps, single, key).key = key
           /\ Environment(ps, single, key).keyed_parents = keyed_parents(ps, single)
BY DEF Environment

LEMMA OperateScopes == SInv /\ Operate => ParentsMade' /\ denv' \in known' /\ ScopesOK'
<1> SUFFICES ASSUME SInv, Operate PROVE ParentsMade' /\ denv' \in known' /\ ScopesOK' OBVIOUS
<1> USE DEF Binds, Private
<1>0. denv \in known /\ held' = held BY DEF SInv, Operate
<1>1. CASE Fail BY <1>0, <1>1, SameHeap, ScopesThrow DEF Fail
<1>2. CASE Sequence BY <1>0, <1>2, ScopesAsk DEF Sequence, do_seq
<1>3. CASE eval
  <2>1. PICK e \in known : ktail_eval(e) BY <1>3 DEF eval
  <2>2. env' = env /\ cc' = cc /\ known' = known /\ denv' \in known' /\ Runs'
    BY <1>3, <2>1 DEF eval, ktail_eval, Runs
  <2>3. ASSUME held = {}, NEW x \in PrivateEnvs(cc) PROVE Hidden(x)'
    BY <2>2, <2>3, SameHeap, StaysHidden DEF SInv, ScopesOK, Hidden
  <2>4. QED BY <1>0, <2>2, <2>3, SameHeap DEF ScopesOK, SInv
<1>4. CASE make_environment
  <2>1. PICK ps, single : kmake_environment(ps, single) /\ Range(ps) \subseteq known
    <3>1. CASE kmake_environment(<<>>, FALSE) BY <3>1, RangeOfNone
    <3>2. ASSUME NEW e \in known, Child(e)
          PROVE  \E ps, single : kmake_environment(ps, single) /\ Range(ps) \subseteq known
      <4>1. kmake_environment(<<e>>, TRUE) BY <3>2 DEF Child
      <4>2. Range(<<e>>) \subseteq known BY RangeOfOne
      <4>3. QED BY <4>1, <4>2
    <3>3. ASSUME NEW p \in known, NEW q \in known, kmake_environment(<<p, q>>, FALSE)
          PROVE  \E ps, single : kmake_environment(ps, single) /\ Range(ps) \subseteq known
      <4>1. Range(<<p, q>>) \subseteq known BY RangeOfTwo
      <4>2. QED BY <3>3, <4>1
    <3>4. QED BY <1>4, <3>1, <3>2, <3>3 DEF make_environment
  <2>2. PICK r : env' = Append(env, r) /\ r.parents = ps
    BY <2>1, Fields DEF kmake_environment
  <2>3. QED BY <1>0, <1>4, <2>1, <2>2, ScopesMake DEF make_environment
<1>5. CASE make_kernel_standard_environment
  <2>1. PICK r : env' = Append(env, r) /\ r.parents = <<ground>>
    <3>1. env' = Append(env, Environment(<<ground>>, TRUE, NoKey))
      BY <1>5 DEF make_kernel_standard_environment, Child, kmake_environment
    <3>2. PICK r : r = Environment(<<ground>>, TRUE, NoKey) OBVIOUS
    <3>3. r.parents = <<ground>> BY <3>2 DEF Environment
    <3>4. QED BY <3>1, <3>2, <3>3
  <2>2. Range(r.parents) \subseteq {ground} BY <2>1, RangeOfOne
  <2>3. QED BY <1>0, <1>5, <2>1, <2>2, ScopesMake DEF make_kernel_standard_environment
<1>6. CASE do_sv_bind
  <2>1. PICK e \in known, k \in Keys : env' = Append(env, Environment(<<e>>, TRUE, k))
    BY <1>6 DEF do_sv_bind
  <2>2. PICK r : r = Environment(<<e>>, TRUE, k) OBVIOUS
  <2>3. r.parents = <<e>> BY <2>2 DEF Environment
  <2>4. env' = Append(env, r) /\ Range(r.parents) \subseteq known BY <2>1, <2>2, <2>3, RangeOfOne
  <2>5. QED BY <1>0, <1>6, <2>4, ScopesMake DEF do_sv_bind
<1>7. CASE SdefineB BY <1>0, <1>7, ScopesAsk DEF SdefineB, do_match
<1>8. CASE SsetB BY <1>0, <1>8, ScopesAsk DEF SsetB, do_set_eval_obj
<1>9. CASE SimportB BY <1>0, <1>9, ScopesAsk DEF SimportB, do_import
<1>10. CASE SprovideB
  <2>1. PICK p : cc' = cc \o <<do_import(p, denv), do_return_value(newest)>>
    BY <1>10 DEF SprovideB
  <2>2. PICK r : env' = Append(env, r) /\ r.parents = <<denv>>
    <3>1. env' = Append(env, Environment(<<denv>>, TRUE, NoKey))
      BY <1>10 DEF SprovideB, Child, kmake_environment
    <3>2. PICK r : r = Environment(<<denv>>, TRUE, NoKey) OBVIOUS
    <3>3. r.parents = <<denv>> BY <3>2 DEF Environment
    <3>4. QED BY <3>1, <3>2, <3>3
  <2>3. /\ Len(env) \in Nat /\ Envs = 1 .. Len(env) /\ newest \notin 2 .. Len(env)
        /\ known \subseteq Envs
    BY Numbers DEF newest, SInv, IInv, KnownOK
  <2>4. Range(r.parents) = {denv} /\ Range(r.parents) \subseteq Envs BY <1>0, <2>2, <2>3, RangeOfOne
  <2>5. /\ ParentsMade' /\ \A x \in Envs : x \notin Range(r.parents) => Untouched(x)
    BY <2>2, <2>4, GrownHeap
  <2>6. known' = known \cup {newest} /\ denv' \in known' /\ Runs'
    BY <1>10 DEF SprovideB, ktail_eval, Runs
  <2>7. ASSUME held = {} PROVE Apart(cc') /\ \A x \in PrivateEnvs(cc') : Hidden(x)'
    <3>1. Apart(cc) /\ \A x \in PrivateEnvs(cc) : Hidden(x) /\ x \in 2 .. Len(env)
      BY <2>7, BoundEnvs DEF SInv, ScopesOK
    <3>2. PICK f, g : f = do_import(p, denv) /\ g = do_return_value(newest) OBVIOUS
    <3>3. f.fn = "do_import" /\ f.env = denv /\ g.fn = "do_return_value" /\ g.env = newest
      BY <3>2 DEF do_import, do_return_value
    <3>4. IsSeq(cc) /\ cc' = Append(Append(cc, f), g)
      BY <2>1, <3>2, BoundEnvs DEF IsSeq
    <3>5. denv \notin PrivateEnvs(cc) BY <1>0, <3>1 DEF Hidden
    <3>6. /\ Apart(Append(cc, f)) /\ PrivateEnvs(Append(cc, f)) \subseteq PrivateEnvs(cc)
          /\ IsSeq(Append(cc, f))
      BY <3>1, <3>3, <3>4, <3>5, ApartAppend, AppendFacts
    <3>7. newest \notin PrivateEnvs(Append(cc, f)) BY <2>3, <3>1, <3>6
    <3>8. Apart(cc') /\ PrivateEnvs(cc') \subseteq PrivateEnvs(cc)
      BY <3>3, <3>4, <3>6, <3>7, ApartAppend
    <3>9. ASSUME NEW x \in PrivateEnvs(cc) PROVE Hidden(x)'
      <4>1. x \in Envs /\ x # denv /\ x \notin known'
        BY <1>0, <2>3, <2>6, <3>1 DEF Hidden
      <4>2. QED BY <2>4, <2>5, <2>6, <3>1, <4>1, StaysHidden
    <3>10. QED BY <3>8, <3>9
  <2>8. ScopesOK' BY <1>0, <2>7 DEF ScopesOK
  <2>9. QED BY <2>5, <2>6, <2>8
<1>11. CASE Slet
  <2>1. PICK p, recp : /\ Frame(do_let(p, <<>>, newest, recp))
                       /\ ktail_eval(IF recp THEN newest ELSE denv)
    BY <1>11 DEF Slet
  <2>2. PICK r : env' = Append(env, r) /\ r.parents = <<denv>> /\ r.bindings = {}
    BY <1>11, Fields DEF Slet, Child, kmake_environment
  <2>3. Range(r.parents) \subseteq known BY <1>0, <2>2, RangeOfOne
  <2>4. QED BY <1>0, <2>1, <2>2, <2>3, ScopesAskWithNew DEF do_let
<1>12. CASE SletS
  <2>1. PICK s, q, recp : /\ Frame(do_let(<<s>>, <<q>>, newest, recp))
                          /\ ktail_eval(IF recp THEN newest ELSE denv)
    BY <1>12 DEF SletS
  <2>2. PICK r : env' = Append(env, r) /\ r.parents = <<denv>> /\ r.bindings = {}
    BY <1>12, Fields DEF SletS, Child, kmake_environment
  <2>3. Range(r.parents) \subseteq known BY <1>0, <2>2, RangeOfOne
  <2>4. QED BY <1>0, <2>1, <2>2, <2>3, ScopesAskWithNew DEF do_let
<1>13. CASE Slet_redirect BY <1>0, <1>13, ScopesAsk DEF Slet_redirect, do_let_redirect
<1>14. CASE Slet_safe
  <2>1. PICK p : Frame(do_let(p, <<>>, newest, FALSE)) BY <1>14 DEF Slet_safe
  <2>2. PICK r : env' = Append(env, r) /\ r.parents = <<ground>> /\ r.bindings = {}
    BY <1>14, Fields DEF Slet_safe, Child, kmake_environment
  <2>3. Range(r.parents) \subseteq {ground} BY <2>2, RangeOfOne
  <2>4. QED BY <1>0, <1>14, <2>1, <2>2, <2>3, ScopesAskWithNew DEF Slet_safe, do_let
<1>15. CASE Sremote_eval BY <1>0, <1>15, ScopesAsk DEF Sremote_eval, do_remote_eval
<1>16. CASE Sbindings_to_environment
  <2>1. PICK p : Frame(do_b_to_env(p, newest)) BY <1>16 DEF Sbindings_to_environment
  <2>2. PICK r : env' = Append(env, r) /\ r.parents = <<>> /\ r.bindings = {}
    BY <1>16, Fields DEF Sbindings_to_environment, kmake_environment
  <2>3. Range(r.parents) \subseteq {ground} BY <2>2, RangeOfNone
  <2>4. QED BY <1>0, <1>16, <2>1, <2>2, <2>3, ScopesAskWithNew
            DEF Sbindings_to_environment, do_b_to_env
<1>17. QED
  BY <1>1, <1>2, <1>3, <1>4, <1>5, <1>6, <1>7, <1>8, <1>9, <1>10, <1>11, <1>12, <1>13,
     <1>14, <1>15, <1>16 DEF Operate

\* Symbols are matched in the environment of the top frame; it may have been hidden,
\* and no longer is.
LEMMA MatchScopes ==
    SInv /\ (Mismatch \/ DoMatch \/ DoBToEnv \/ DoLetBody \/ DoLetNext)
      => ParentsMade' /\ denv' \in known' /\ ScopesOK'
<1> SUFFICES ASSUME SInv, Mismatch \/ DoMatch \/ DoBToEnv \/ DoLetBody \/ DoLetNext
             PROVE  ParentsMade' /\ denv' \in known' /\ ScopesOK'
  OBVIOUS
<1>0. /\ cc # <<>> /\ top.fn # "do_remote_eval" /\ held' = held /\ Binds(top)
      /\ top.env \in 2 .. Len(env)
  <2>1. \E fn \in {"do_match", "do_let", "do_b_to_env"} : AtFrame(fn)
    BY DEF Mismatch, DoMatch, DoBToEnv, DoLetBody, DoLetNext
  <2>2. QED BY <2>1, TopEnv DEF SInv, Binds
<1>1. /\ Len(env) \in Nat /\ Len(env) >= 2 /\ Envs = 1 .. Len(env) /\ denv \in known
      /\ known \subseteq 2 .. Len(env)
  BY Numbers DEF SInv, IInv, KnownOK
<1>2. ASSUME held = {}, NEW x \in PrivateEnvs(Front(cc))
      PROVE  x \in Envs /\ x # top.env /\ x \notin known /\ Hidden(x)
  BY <1>0, <1>1, <1>2, Below DEF Hidden
<1>3. CASE Mismatch
  BY <1>0, <1>3, BoundHeap, ScopesThrow DEF Mismatch
<1>4. CASE DoMatch
  <2>1. PICK objects : env' = Matched(objects) BY <1>4 DEF DoMatch, match
  <2>2. ParentsMade' /\ \A x \in Envs : x # top.env => Untouched(x) BY <1>0, <2>1, BoundHeap
  <2>3. Pop /\ passed' = <<Datum>> /\ UNCHANGED <<denv, known>>
    BY <1>4 DEF DoMatch, match, kapply_cc
  <2>4. ASSUME held = {} PROVE Apart(cc') /\ \A x \in PrivateEnvs(cc') : Hidden(x)'
    <3>1. \A x \in PrivateEnvs(Front(cc)) : x \notin Range(passed')
      BY <1>1, <1>2, <2>3, <2>4, RangeOfOne, EnvironmentsAssumption
    <3>2. QED BY <1>0, <1>2, <2>2, <2>3, <2>4, <3>1, ScopesPop
  <2>5. QED BY <1>0, <1>1, <2>2, <2>3, <2>4 DEF ScopesOK
<1>5. CASE DoBToEnv
  <2>1. PICK objects : env' = Matched(objects) BY <1>5 DEF DoBToEnv, match
  <2>2. ParentsMade' /\ \A x \in Envs : x # top.env => Untouched(x) BY <1>0, <2>1, BoundHeap
  <2>3. Pop /\ passed' = <<top.env>> /\ known' = known \cup {top.env} /\ denv' = denv
    BY <1>5 DEF DoBToEnv, match
  <2>4. ASSUME held = {} PROVE Apart(cc') /\ \A x \in PrivateEnvs(cc') : Hidden(x)'
    <3>1. \A x \in PrivateEnvs(Front(cc)) : x \notin Range(passed') /\ x \notin known'
      BY <1>2, <2>3, <2>4, RangeOfOne
    <3>2. QED BY <1>0, <1>2, <2>2, <2>3, <2>4, <3>1, ScopesPop
  <2>5. QED BY <1>0, <1>1, <2>2, <2>3, <2>4 DEF ScopesOK
<1>6. CASE DoLetBody
  <2>1. PICK objects : env' = Matched(objects) BY <1>6 DEF DoLetBody, match
  <2>2. ParentsMade' /\ \A x \in Envs : x # top.env => Untouched(x) BY <1>0, <2>1, BoundHeap
  <2>3. Pop /\ Runs' /\ known' = known \cup {top.env} /\ denv' = top.env
    BY <1>6 DEF DoLetBody, match, ktail_eval, Runs
  <2>4. ASSUME held = {} PROVE Apart(cc') /\ \A x \in PrivateEnvs(cc') : Hidden(x)'
    <3>1. \A x \in PrivateEnvs(Front(cc)) : x \notin known' BY <1>2, <2>3, <2>4
    <3>2. QED BY <1>0, <1>2, <2>2, <2>3, <2>4, <3>1, ScopesPop
  <2>5. QED BY <1>0, <2>2, <2>3, <2>4 DEF ScopesOK
<1>7. CASE DoLetNext
  <2>1. PICK objects, m, r :
           /\ m = Matched(objects) /\ env' = Append(m, r)
           /\ r = Environment(<<top.env>>, TRUE, NoKey)
    BY <1>7 DEF DoLetNext
  <2>2. r.parents = <<top.env>> /\ r.bindings = {} BY <2>1 DEF Environment
  <2>3. /\ IsSeq(m) /\ Len(m) = Len(env)
        /\ \A e \in Envs : m[e].parents = env[e].parents /\ (e # top.env => m[e] = env[e])
    BY <1>0, <2>1, MatchedHeap
  <2>4. /\ Len(env') = newest /\ env'[newest] = r /\ Envs' = 1 .. newest
        /\ \A i \in 1 .. Len(env) : env'[i] = m[i]
    <3>0. env' = Append(m, r) BY <2>1
    <3>1. /\ IsSeq(env') /\ Len(env') = Len(m) + 1
          /\ \A i \in 1 .. Len(m) : env'[i] = m[i]
          /\ env'[Len(m) + 1] = r
      BY <3>0, <2>3, AppendFacts
    <3>2. DOMAIN env' = 1 .. Len(env') BY <3>1, IsSeqFacts
    <3>3. QED BY <2>3, <3>1, <3>2 DEF newest, Envs
  <2>5. newest \notin Envs /\ Envs' = Envs \cup {newest} BY <1>1, <2>4 DEF newest
  <2>6. \A e \in Envs : env'[e].parents = env[e].parents /\ (e # top.env => env'[e] = env[e])
    BY <1>1, <2>3, <2>4
  <2>7. Range(env'[newest].parents) = {top.env} BY <2>2, <2>4, RangeOfOne
  <2>8. \A e \in Envs' : Range(env'[e].parents) \subseteq Envs
    BY <1>0, <1>1, <2>5, <2>6, <2>7 DEF SInv, ParentsMade
  <2>9. ParentsMade' BY <2>5, <2>8 DEF ParentsMade
  <2>10. \A x \in Envs : x # top.env => Untouched(x) BY <2>5, <2>6, <2>7 DEF Untouched
  <2>11. PICK e : /\ ktail_eval(e) /\ e \in {top.env, newest}
                  /\ Private(top) => e = top.env
    BY <1>7 DEF DoLetNext, Private
  <2>12. Runs' /\ known' = known \cup {e} /\ denv' \in known' BY <2>11 DEF ktail_eval, Runs
  <2>13. PICK f : f = do_let(<<top.rest[1]>>, Tail(top.rest), newest, top.recp) OBVIOUS
  <2>14. /\ Replace(f) /\ Binds(f) /\ f.env = newest
         /\ Private(f) => Private(top)
    BY <1>7, <2>13 DEF DoLetNext, do_let, Binds, Private, AtFrame
  <2>15. ASSUME held = {} PROVE Apart(cc') /\ \A x \in PrivateEnvs(cc') : Hidden(x)'
    <3>1. \A x \in PrivateEnvs(Front(cc)) : Untouched(x) /\ x \notin known'
      BY <1>2, <2>5, <2>10, <2>11, <2>12, <2>15
    <3>2. ASSUME Private(f), NEW x, x = newest PROVE Hidden(x)'
      <4>1. x \notin known'
        <5>1. x \notin Envs BY <2>5, <3>2
        <5>2. e = top.env BY <2>11, <2>14, <3>2
        <5>3. e \in Envs /\ known \subseteq Envs BY <1>0, <1>1, <5>2
        <5>4. QED BY <2>12, <5>1, <5>3
      <4>2. env'[x].bindings = {} BY <2>2, <2>4, <3>2
      <4>3. \A a \in Envs' : x \notin Range(env'[a].parents) BY <2>5, <2>8, <3>2
      <4>4. QED BY <2>12, <4>1, <4>2, <4>3 DEF Hidden
    <3>3. QED BY <1>0, <2>12, <2>14, <2>15, <3>1, <3>2, ScopesReplaceNew
  <2>16. ScopesOK' BY <1>0, <2>15 DEF ScopesOK
  <2>17. QED BY <2>9, <2>12, <2>16
<1>8. QED BY <1>3, <1>4, <1>5, <1>6, <1>7

LEMMA FrameScopes ==
    SInv /\ (DoSeq \/ DoReturnValue \/ NotAnEnvironment \/ DoSetEvalObj \/ DoImport
             \/ DoLetRedirect \/ DoRemoteEval)
      => ParentsMade' /\ denv' \in known' /\ ScopesOK'
<1> SUFFICES ASSUME SInv,
                    DoSeq \/ DoReturnValue \/ NotAnEnvironment \/ DoSetEvalObj \/ DoImport
                    \/ DoLetRedirect \/ DoRemoteEval
             PROVE  ParentsMade' /\ denv' \in known' /\ ScopesOK'
  OBVIOUS
<1>1. /\ Len(env) \in Nat /\ Len(env) >= 2 /\ Envs = 1 .. Len(env) /\ denv \in known
      /\ known \subseteq 2 .. Len(env)
  BY Numbers DEF SInv, IInv, KnownOK
<1>2. ASSUME held = {}, cc # <<>>, NEW x \in PrivateEnvs(Front(cc))
      PROVE  /\ x \in Envs /\ x \notin known /\ x \notin EnvsPassed /\ Hidden(x)
             /\ Binds(top) => x # top.env
             /\ ~Runs => x \notin Range(passed)
  BY <1>1, <1>2, Below, PassedNotHidden DEF Hidden
<1>3. CASE DoSeq
  <2>1. cc # <<>> /\ held' = held /\ Binds(top) BY <1>3 DEF DoSeq, AtFrame, Binds
  <2>2. /\ Pop /\ env' = env /\ Runs' /\ known' = known \cup {top.env} /\ denv' = top.env
    BY <1>3 DEF DoSeq, ktail_eval, Runs
  <2>3. ASSUME held = {} PROVE Apart(cc') /\ \A x \in PrivateEnvs(cc') : Hidden(x)'
    BY <1>2, <2>1, <2>2, <2>3, SameHeap, ScopesPop
  <2>4. QED BY <2>1, <2>2, <2>3, SameHeap DEF ScopesOK
<1>4. CASE DoReturnValue
  <2>1. cc # <<>> /\ held' = held /\ Binds(top) BY <1>4 DEF DoReturnValue, AtFrame, Binds
  <2>2. /\ Pop /\ env' = env /\ known' = known /\ denv' = denv /\ passed' = <<top.env>>
    BY <1>4 DEF DoReturnValue, kapply_cc
  <2>3. ASSUME held = {} PROVE Apart(cc') /\ \A x \in PrivateEnvs(cc') : Hidden(x)'
    <3>1. \A x \in PrivateEnvs(Front(cc)) : x \notin Range(passed') /\ x \notin known'
      BY <1>2, <2>1, <2>2, <2>3, RangeOfOne
    <3>2. QED BY <2>1, <2>2, <2>3, <3>1, SameHeap, ScopesPop
  <2>4. QED BY <1>1, <2>1, <2>2, <2>3, SameHeap DEF ScopesOK
<1>5. CASE NotAnEnvironment
  BY <1>5, SameHeap, ScopesThrow DEF NotAnEnvironment, AtFrame
<1>6. CASE DoSetEvalObj
  <2>1. cc # <<>> /\ held' = held /\ Binds(top) BY <1>6 DEF DoSetEvalObj, AtFrame, Binds
  <2>2. PICK f : (\E e \in EnvsPassed : f = do_match(top.ptree, e)) /\ Replace(f)
    BY <1>6 DEF DoSetEvalObj
  <2>3. ~Private(f) /\ f.env \in EnvsPassed BY <2>2 DEF do_match, Private
  <2>4. /\ env' = env /\ Runs' /\ known' = known \cup {top.env} /\ denv' = top.env
    BY <1>6 DEF DoSetEvalObj, ktail_eval, Runs
  <2>5. ASSUME held = {} PROVE Apart(cc') /\ \A x \in PrivateEnvs(cc') : Hidden(x)'
    <3>1. \A x \in PrivateEnvs(Front(cc)) : Untouched(x) /\ x \notin known' /\ x # f.env
      BY <1>2, <2>1, <2>3, <2>4, <2>5, SameHeap
    <3>2. QED BY <2>1, <2>2, <2>3, <2>4, <2>5, <3>1, ScopesReplace
  <2>6. QED BY <2>1, <2>4, <2>5, SameHeap DEF ScopesOK
<1>7. CASE DoImport
  <2>1. cc # <<>> /\ held' = held /\ Binds(top) /\ env' = env
    BY <1>7 DEF DoImport, AtFrame, Binds
  <2>2. CASE Throw BY <2>1, <2>2, SameHeap, ScopesThrow
  <2>3. CASE /\ Replace(do_match(top.ptree, top.env))
             /\ kapply_cc([i \in DOMAIN top.ptree |-> Datum])
    <3>1. PICK f : f = do_match(top.ptree, top.env) /\ Replace(f) BY <2>3
    <3>2. ~Private(f) /\ f.env = top.env BY <3>1 DEF do_match, Private
    <3>3. known' = known /\ denv' = denv /\ Range(passed') \subseteq {Datum}
      BY <2>3 DEF kapply_cc, Range
    <3>4. ASSUME held = {} PROVE Apart(cc') /\ \A x \in PrivateEnvs(cc') : Hidden(x)'
      <4>1. \A x \in PrivateEnvs(Front(cc)) :
               Untouched(x) /\ x \notin known' /\ x \notin Range(passed') /\ x # f.env
        BY <1>1, <1>2, <2>1, <3>2, <3>3, <3>4, SameHeap, EnvironmentsAssumption
      <4>2. QED BY <2>1, <3>1, <3>2, <3>4, <4>1, ScopesReplace
    <3>5. QED BY <1>1, <2>1, <3>3, <3>4, SameHeap DEF ScopesOK
  <2>4. QED BY <1>7, <2>2, <2>3 DEF DoImport
<1>8. CASE DoLetRedirect
  <2>1. cc # <<>> /\ held' = held /\ Binds(top) BY <1>8 DEF DoLetRedirect, AtFrame, Binds
  <2>2. PICK e \in EnvsPassed : env' = Append(env, Environment(<<e>>, TRUE, NoKey))
    BY <1>8 DEF DoLetRedirect, Child, kmake_environment
  <2>3. PICK r : r = Environment(<<e>>, TRUE, NoKey) OBVIOUS
  <2>4. /\ env' = Append(env, r) /\ Range(r.parents) = {e} /\ e \in Envs
        /\ r.bindings = {}
    <3>1. r.parents = <<e>> /\ r.bindings = {} BY <2>3 DEF Environment
    <3>2. QED BY <2>2, <2>3, <3>1, RangeOfOne DEF EnvsPassed
  <2>5. ParentsMade' /\ \A x \in Envs : x # e => Untouched(x) BY <2>4, GrownHeap
  <2>6. Runs' /\ known' = known \cup {top.env} /\ denv' = top.env
    BY <1>8 DEF DoLetRedirect, ktail_eval, Runs
  <2>7. PICK f : f = do_let(top.ptree, <<>>, newest, FALSE) OBVIOUS
  <2>8. Replace(f) /\ Binds(f) /\ f.env = newest
    BY <1>8, <2>7 DEF DoLetRedirect, do_let, Binds
  <2>9. ASSUME held = {} PROVE Apart(cc') /\ \A x \in PrivateEnvs(cc') : Hidden(x)'
    <3>1. \A x \in PrivateEnvs(Front(cc)) : Untouched(x) /\ x \notin known'
      BY <1>2, <2>1, <2>4, <2>5, <2>6, <2>9
    <3>2. top.env \in Envs
      <4>1. top.env \in 2 .. Len(env) BY <1>8, TopEnv DEF DoLetRedirect, SInv
      <4>2. QED BY <1>1, <4>1
    <3>3. known' \subseteq Envs
      <4>1. known \subseteq Envs BY <1>1
      <4>2. QED BY <2>6, <3>2, <4>1
    <3>4. \A x : x = newest => Hidden(x)' BY <2>4, <2>6, <3>3, NewHidden
    <3>5. QED BY <2>1, <2>6, <2>8, <2>9, <3>1, <3>4, ScopesReplaceNew
  <2>10. ScopesOK' BY <2>1, <2>9 DEF ScopesOK
  <2>11. QED BY <2>5, <2>6, <2>10
<1>9. CASE DoRemoteEval
  <2>1. cc # <<>> /\ held' = held BY <1>9 DEF DoRemoteEval, AtFrame
  <2>2. PICK e \in EnvsPassed : Runs' /\ known' = known \cup {e} /\ denv' = e
    BY <1>9 DEF DoRemoteEval, ktail_eval, Runs
  <2>3. Pop /\ env' = env BY <1>9 DEF DoRemoteEval
  <2>4. ASSUME held = {} PROVE Apart(cc') /\ \A x \in PrivateEnvs(cc') : Hidden(x)'
    BY <1>2, <2>1, <2>2, <2>3, <2>4, SameHeap, ScopesPop
  <2>5. QED BY <2>1, <2>2, <2>3, <2>4, SameHeap DEF ScopesOK
<1>10. QED BY <1>3, <1>4, <1>5, <1>6, <1>7, <1>8, <1>9

LEMMA ControlScopes ==
    SInv /\ (Capture \/ Reenter \/ Repl \/ UNCHANGED vars)
      => ParentsMade' /\ denv' \in known' /\ ScopesOK'
<1> SUFFICES ASSUME SInv, Capture \/ Reenter \/ Repl \/ UNCHANGED vars
             PROVE  ParentsMade' /\ denv' \in known' /\ ScopesOK'
  OBVIOUS
<1>1. ParentsMade' BY SameHeap DEF Capture, Reenter, Repl, vars
<1>2. CASE Capture BY <1>1, <1>2 DEF Capture, ScopesOK, SInv
<1>3. CASE Reenter BY <1>1, <1>3 DEF Reenter, kapply_cc, ScopesOK, SInv
<1>4. CASE Repl
  BY <1>1, <1>4, NothingPrivate DEF Repl, ktail_eval, ScopesOK, SInv
<1>5. CASE UNCHANGED vars
  <2>1. ASSUME NEW x, Hidden(x) PROVE Hidden(x)'
    BY <1>5, <2>1 DEF vars, Hidden, Envs, Runs
  <2>2. QED BY <1>1, <1>5, <2>1 DEF vars, ScopesOK, SInv
<1>6. QED BY <1>2, <1>3, <1>4, <1>5

LEMMA InitScopes == Init => SInv
<1> SUFFICES ASSUME Init PROVE SInv OBVIOUS
<1>1. ParentsMade
  <2>1. Envs = {1, 2} /\ env[1].parents = <<>> /\ env[2].parents = <<1>> BY DEF Init, Envs
  <2>2. Range(env[1].parents) \subseteq {1} BY <2>1, RangeOfNone
  <2>3. Range(env[2].parents) \subseteq {1} BY <2>1, RangeOfOne
  <2>4. QED BY <2>1, <2>2, <2>3 DEF ParentsMade
<1>2. QED BY <1>1, InitIInv, NothingPrivate DEF Init, SInv, ScopesOK

LEMMA NextScopes == SInv /\ [Next]_vars => SInv'
<1> SUFFICES ASSUME SInv, [Next]_vars PROVE SInv' OBVIOUS
<1>1. IInv' BY NextIInv DEF SInv
<1>2. ParentsMade' /\ denv' \in known' /\ ScopesOK'
  BY OperateScopes, MatchScopes, FrameScopes, ControlScopes DEF Next
<1>3. QED BY <1>1, <1>2 DEF SInv

LEMMA SInvIsFresh == SInv => FreshScope
BY DEF SInv, ScopesOK, FreshScope, PrivateEnvs, Private, Hidden

\* Until its symbols are bound, the environment of a $let that is not recursive is in
\* nothing that the program, a frame or another environment could give away, and is
\* empty, however $lets are nested, as long as no continuation has been captured
\* (the environment is made before the expressions are evaluated, kgenvironments.c:255).
THEOREM ScopeSafety == Spec => []FreshScope
BY InitScopes, NextScopes, SInvIsFresh, PTL DEF Spec

-----------------------------------------------------------------------------
(***************************************************************************)
(* Types, and how keyed ancestors follow from parents.                     *)
(***************************************************************************)
Improper(p) == IF keyed(p) THEN <<p>> ELSE env[p].keyed_parents

\* The three ways environments are made: without parents, with one, with a list of two.
Descends(e) ==
    \/ env[e].parents = <<>> /\ env[e].keyed_parents = <<>>
    \/ \E p \in 1 .. e - 1 : env[e].parents = <<p>> /\ env[e].keyed_parents = Improper(p)
    \/ \E p, q \in 1 .. e - 1 :
          /\ env[e].parents = <<p, q>>
          /\ env[e].keyed_parents = env[p].keyed_parents \o env[q].keyed_parents

KeyedOnly(s) == \A i \in DOMAIN s : keyed(s[i])

EnvOK(e) ==
    /\ env[e].parents \in Seq(1 .. e - 1)
    /\ env[e].keyed_parents \in Seq(1 .. e - 1) /\ KeyedOnly(env[e].keyed_parents)
    /\ env[e].bindings \subseteq Symbols /\ env[e].key \in Keys \cup {NoKey}
    /\ Descends(e)

EnvsOK == \A e \in Envs : EnvOK(e)

PassedTyped == ~Runs => passed \in Seq(Envs \cup {Datum})

FrameTyped(f) ==
    /\ f.fn \in {"do_match", "do_set_eval_obj", "do_import", "do_let", "do_let_redirect",
                 "do_b_to_env"} => f.ptree \in Seq(Symbols)
    /\ f.fn = "do_let" => f.rest \in Seq(Symbols)

Typed(c) == \A i \in DOMAIN c : FrameTyped(c[i])
FramesTyped == \A c \in held \cup {cc} : Typed(c)

LInv == SInv /\ EnvsOK /\ PassedTyped /\ FramesTyped

-----------------------------------------------------------------------------
\* The same environments, but for what is bound in them.
SameShape(m) ==
    /\ IsSeq(m) /\ Len(m) = Len(env)
    /\ \A e \in Envs : /\ m[e].parents = env[e].parents /\ m[e].key = env[e].key
                       /\ m[e].keyed_parents = env[e].keyed_parents
                       /\ m[e].bindings \subseteq Symbols

\* An environment that can be made.
NewOK(r) ==
    /\ r.parents \in Seq(Envs) /\ r.keyed_parents \in Seq(Envs) /\ KeyedOnly(r.keyed_parents)
    /\ r.bindings \subseteq Symbols /\ r.key \in Keys \cup {NoKey}
    /\ \/ r.parents = <<>> /\ r.keyed_parents = <<>>
       \/ \E p \in Envs : r.parents = <<p>> /\ r.keyed_parents = Improper(p)
       \/ \E p, q \in Envs : /\ r.parents = <<p, q>>
                             /\ r.keyed_parents = env[p].keyed_parents \o env[q].keyed_parents

LEMMA OldEnvOK ==
    ASSUME LInv, NEW m, SameShape(m), \A e \in Envs : env'[e] = m[e], NEW e \in Envs
    PROVE  EnvOK(e)'
<1>1. Envs = 1 .. Len(env) /\ Len(env) \in Nat BY Numbers DEF LInv, SInv
<1>2. EnvOK(e) BY DEF LInv, EnvsOK
<1>3. \A p \in Envs : /\ env'[p].parents = env[p].parents /\ env'[p].key = env[p].key
                      /\ env'[p].keyed_parents = env[p].keyed_parents
                      /\ env'[p].bindings \subseteq Symbols
  BY DEF SameShape
<1>4. 1 .. e - 1 \subseteq Envs BY <1>1
<1>5. \A p \in Envs : keyed(p)' <=> keyed(p) BY <1>3 DEF keyed
<1>6. \A p \in Envs : Improper(p)' = Improper(p) BY <1>3, <1>5 DEF Improper
<1>7. KeyedOnly(env[e].keyed_parents)'
  <2>1. PICK s : s = env[e].keyed_parents OBVIOUS
  <2>2. s \in Seq(1 .. e - 1) /\ \A i \in DOMAIN s : keyed(s[i]) BY <1>2, <2>1 DEF EnvOK, KeyedOnly
  <2>3. \A i \in DOMAIN s : s[i] \in Envs
    <3>1. s \in Seq(Envs) BY <1>4, <2>2, SeqMonotonic
    <3>2. QED BY <3>1
  <2>4. \A i \in DOMAIN s : keyed(s[i])' BY <1>5, <2>2, <2>3
  <2>5. env'[e].keyed_parents = s BY <1>3, <2>1
  <2>6. QED BY <2>4, <2>5 DEF KeyedOnly
<1>8. Descends(e)'
  <2>1. Descends(e) BY <1>2 DEF EnvOK
  <2>2. CASE env[e].parents = <<>> /\ env[e].keyed_parents = <<>>
    BY <1>3, <2>2 DEF Descends
  <2>3. ASSUME NEW p \in 1 .. e - 1, env[e].parents = <<p>>, env[e].keyed_parents = Improper(p)
        PROVE  Descends(e)'
    <3>1. env'[e].parents = <<p>> /\ env'[e].keyed_parents = Improper(p)'
      BY <1>3, <1>4, <1>6, <2>3
    <3>2. QED BY <3>1 DEF Descends
  <2>4. ASSUME NEW p \in 1 .. e - 1, NEW q \in 1 .. e - 1, env[e].parents = <<p, q>>,
               env[e].keyed_parents = env[p].keyed_parents \o env[q].keyed_parents
        PROVE  Descends(e)'
    <3>1. env'[e].parents = <<p, q>>
          /\ env'[e].keyed_parents = env'[p].keyed_parents \o env'[q].keyed_parents
      BY <1>3, <1>4, <2>4
    <3>2. QED BY <3>1 DEF Descends
  <2>5. QED BY <2>1, <2>2, <2>3, <2>4 DEF Descends
<1>9. QED BY <1>2, <1>3, <1>7, <1>8 DEF EnvOK

LEMMA EnvsKept ==
    ASSUME LInv, NEW m, SameShape(m), env' = m
    PROVE  EnvsOK'
<1>1. Envs = 1 .. Len(env) /\ DOMAIN m = 1 .. Len(m) BY Numbers, IsSeqFacts DEF LInv, SInv, SameShape
<1>2. Envs' = Envs BY <1>1 DEF Envs, SameShape
<1>3. QED BY <1>2, OldEnvOK DEF EnvsOK

LEMMA EnvsGrow ==
    ASSUME LInv, NEW m, SameShape(m), NEW r, NewOK(r), env' = Append(m, r)
    PROVE  EnvsOK'
<1>1. Envs = 1 .. Len(env) /\ Len(env) \in Nat BY Numbers DEF LInv, SInv
<1>2. IsSeq(m) /\ Len(m) = Len(env) BY DEF SameShape
<1>3. /\ IsSeq(env') /\ Len(env') = Len(m) + 1
      /\ \A e \in 1 .. Len(m) : env'[e] = m[e]
      /\ env'[Len(m) + 1] = r
  BY <1>2, AppendFacts
<1>4. PICK n \in Nat : n = Len(env) + 1 BY <1>1
<1>5. env'[n] = r /\ 1 .. n - 1 = Envs /\ Envs' = 1 .. n /\ \A e \in Envs : env'[e] = m[e]
  BY <1>1, <1>2, <1>3, <1>4, IsSeqFacts DEF Envs
<1>6. \A e \in Envs : EnvOK(e)' BY <1>5, OldEnvOK
<1>7. \A p \in Envs : env'[p].key = env[p].key /\ env'[p].keyed_parents = env[p].keyed_parents
  BY <1>5 DEF SameShape
<1>8. \A p \in Envs : keyed(p)' <=> keyed(p) BY <1>7 DEF keyed
<1>9. \A p \in Envs : Improper(p)' = Improper(p) BY <1>7, <1>8 DEF Improper
<1>10. EnvOK(n)'
  <2>1. PICK s : s = r.keyed_parents OBVIOUS
  <2>2. s \in Seq(Envs) /\ \A i \in DOMAIN s : keyed(s[i]) BY <2>1 DEF NewOK, KeyedOnly
  <2>3. \A i \in DOMAIN s : s[i] \in Envs BY <2>2
  <2>4. /\ env'[n].parents \in Seq(1 .. n - 1) /\ env'[n].keyed_parents \in Seq(1 .. n - 1)
        /\ env'[n].bindings \subseteq Symbols /\ env'[n].key \in Keys \cup {NoKey}
    BY <1>5 DEF NewOK
  <2>7. KeyedOnly(env[n].keyed_parents)'
    <3>1. env'[n].keyed_parents = s BY <1>5, <2>1
    <3>2. \A i \in DOMAIN s : keyed(s[i])' BY <1>8, <2>2, <2>3
    <3>3. QED BY <3>1, <3>2 DEF KeyedOnly
  <2>5. Descends(n)'
    <3>1. CASE r.parents = <<>> /\ r.keyed_parents = <<>> BY <1>5, <3>1 DEF Descends
    <3>2. ASSUME NEW p \in Envs, r.parents = <<p>>, r.keyed_parents = Improper(p)
          PROVE  Descends(n)'
      <4>1. p \in 1 .. n - 1 /\ env'[n].parents = <<p>> /\ env'[n].keyed_parents = Improper(p)'
        BY <1>5, <1>9, <3>2
      <4>2. QED BY <4>1 DEF Descends
    <3>3. ASSUME NEW p \in Envs, NEW q \in Envs, r.parents = <<p, q>>,
                 r.keyed_parents = env[p].keyed_parents \o env[q].keyed_parents
          PROVE  Descends(n)'
      <4>1. /\ p \in 1 .. n - 1 /\ q \in 1 .. n - 1 /\ env'[n].parents = <<p, q>>
            /\ env'[n].keyed_parents = env'[p].keyed_parents \o env'[q].keyed_parents
        BY <1>5, <1>7, <3>3
      <4>2. QED BY <4>1 DEF Descends
    <3>4. QED BY <3>1, <3>2, <3>3 DEF NewOK
  <2>8. QED BY <2>4, <2>5, <2>7 DEF EnvOK
<1>11. \A e \in Envs' : e \in Envs \/ e = n BY <1>1, <1>5
<1>12. QED BY <1>6, <1>10, <1>11 DEF EnvsOK

LEMMA KeyedParentsTyped ==
    ASSUME LInv, NEW p \in Envs
    PROVE  env[p].keyed_parents \in Seq(Envs) /\ KeyedOnly(env[p].keyed_parents)
<1>1. Envs = 1 .. Len(env) /\ Len(env) \in Nat BY Numbers DEF LInv, SInv
<1>2. env[p].keyed_parents \in Seq(1 .. p - 1) /\ KeyedOnly(env[p].keyed_parents)
  BY DEF LInv, EnvsOK, EnvOK
<1>3. 1 .. p - 1 \subseteq Envs BY <1>1
<1>4. QED BY <1>2, <1>3, SeqMonotonic

LEMMA KeyedOnlyBoth ==
    ASSUME NEW s \in Seq(Envs), NEW t \in Seq(Envs), KeyedOnly(s), KeyedOnly(t)
    PROVE  KeyedOnly(s \o t)
<1>1. PICK u : u = s \o t OBVIOUS
<1>2. /\ u \in Seq(Envs) /\ Len(u) = Len(s) + Len(t)
      /\ \A i \in 1 .. Len(u) : u[i] = IF i <= Len(s) THEN s[i] ELSE t[i - Len(s)]
  BY <1>1, ConcatProperties
<1>3. /\ DOMAIN s = 1 .. Len(s) /\ DOMAIN t = 1 .. Len(t) /\ DOMAIN u = 1 .. Len(u)
      /\ Len(s) \in Nat /\ Len(t) \in Nat
  BY <1>2
<1>4. ASSUME NEW i \in 1 .. Len(u) PROVE keyed(u[i])
  <2>1. CASE i <= Len(s) BY <1>2, <1>3, <2>1 DEF KeyedOnly
  <2>2. CASE ~(i <= Len(s))
    <3>1. i - Len(s) \in DOMAIN t BY <1>2, <1>3, <2>2
    <3>2. keyed(t[i - Len(s)]) BY <3>1 DEF KeyedOnly
    <3>3. QED BY <1>2, <2>2, <3>2
  <2>3. QED BY <2>1, <2>2
<1>5. QED BY <1>1, <1>3, <1>4 DEF KeyedOnly

\* An environment without parents, with one, or with a list of two can be made.
LEMMA OrphanOK == NewOK(Environment(<<>>, FALSE, NoKey))
<1>1. [i \in DOMAIN <<>> |-> env[<<>>[i]].keyed_parents] = <<>> OBVIOUS
<1>2. PICK s : s = keyed_parents(<<>>, FALSE) OBVIOUS
<1>3. s = <<>> BY <1>1, <1>2, FlattenNone DEF keyed_parents
<1>4. PICK r : r = [parents |-> <<>>, keyed_parents |-> s, key |-> NoKey, bindings |-> {}]
  OBVIOUS
<1>5. KeyedOnly(s) BY <1>3 DEF KeyedOnly
<1>6. NewOK(r) BY <1>3, <1>4, <1>5 DEF NewOK
<1>7. QED BY <1>2, <1>4, <1>6 DEF Environment

LEMMA ChildOK ==
    ASSUME LInv, NEW e \in Envs, NEW k \in Keys \cup {NoKey}
    PROVE  NewOK(Environment(<<e>>, TRUE, k))
<1>1. PICK s : s = keyed_parents(<<e>>, TRUE) OBVIOUS
<1>2. s = Improper(e)
  <2>1. CASE keyed(e) BY <1>1, <2>1 DEF keyed_parents, Improper
  <2>2. CASE ~keyed(e)
    <3>1. [i \in DOMAIN <<e>> |-> env[<<e>>[i]].keyed_parents] = <<env[e].keyed_parents>>
      OBVIOUS
    <3>2. FlattenSeq(<<env[e].keyed_parents>>) = env[e].keyed_parents BY FlattenOne
    <3>3. QED BY <1>1, <2>2, <3>1, <3>2 DEF keyed_parents, Improper
  <2>3. QED BY <2>1, <2>2
<1>3. s \in Seq(Envs) /\ KeyedOnly(s) BY <1>2, KeyedParentsTyped DEF Improper, KeyedOnly
<1>4. PICK r : r = [parents |-> <<e>>, keyed_parents |-> s, key |-> k, bindings |-> {}]
  OBVIOUS
<1>5. NewOK(r)
  <2>1. r.parents = <<e>> /\ r.keyed_parents = s /\ r.key = k /\ r.bindings = {} BY <1>4
  <2>2. r.parents \in Seq(Envs) BY <2>1
  <2>3. \E p \in Envs : r.parents = <<p>> /\ r.keyed_parents = Improper(p) BY <1>2, <2>1
  <2>4. QED BY <1>3, <2>1, <2>2, <2>3 DEF NewOK
<1>6. QED BY <1>1, <1>4, <1>5 DEF Environment

LEMMA CommonOK ==
    ASSUME LInv, NEW p \in Envs, NEW q \in Envs
    PROVE  NewOK(Environment(<<p, q>>, FALSE, NoKey))
<1>1. PICK s : s = keyed_parents(<<p, q>>, FALSE) OBVIOUS
<1>2. s = env[p].keyed_parents \o env[q].keyed_parents
  <2>1. [i \in DOMAIN <<p, q>> |-> env[<<p, q>>[i]].keyed_parents]
          = <<env[p].keyed_parents, env[q].keyed_parents>>
    OBVIOUS
  <2>2. QED BY <1>1, <2>1, FlattenTwo DEF keyed_parents
<1>3. s \in Seq(Envs) /\ KeyedOnly(s) BY <1>2, KeyedParentsTyped, KeyedOnlyBoth
<1>4. PICK r : r = [parents |-> <<p, q>>, keyed_parents |-> s, key |-> NoKey, bindings |-> {}]
  OBVIOUS
<1>5. NewOK(r)
  <2>1. r.parents = <<p, q>> /\ r.keyed_parents = s /\ r.key = NoKey /\ r.bindings = {}
    BY <1>4
  <2>2. r.parents \in Seq(Envs) BY <2>1
  <2>3. \E p1, q1 \in Envs :
           /\ r.parents = <<p1, q1>>
           /\ r.keyed_parents = env[p1].keyed_parents \o env[q1].keyed_parents
    BY <1>2, <2>1
  <2>4. QED BY <1>3, <2>1, <2>2, <2>3 DEF NewOK
<1>6. QED BY <1>1, <1>4, <1>5 DEF Environment

-----------------------------------------------------------------------------
(***************************************************************************)
(* What a step does to environments.                                       *)
(***************************************************************************)
\* No step changes more of those there are than what is bound, or makes more than one.
HeapKept == \E m : /\ SameShape(m)
                 /\ \/ env' = m
                    \/ \E r : NewOK(r) /\ env' = Append(m, r)

LEMMA MakesOK == LInv /\ HeapKept => EnvsOK' /\ Envs \subseteq Envs'
<1> SUFFICES ASSUME LInv, NEW m, SameShape(m),
                    env' = m \/ \E r : NewOK(r) /\ env' = Append(m, r)
             PROVE  EnvsOK' /\ Envs \subseteq Envs'
  BY DEF HeapKept
<1>1. EnvsOK' BY EnvsKept, EnvsGrow
<1>2. Envs = 1 .. Len(env) /\ Len(env) \in Nat BY Numbers DEF LInv, SInv
<1>3. IsSeq(m) /\ Len(m) = Len(env) BY DEF SameShape
<1>4. ASSUME env' = m PROVE Envs \subseteq Envs'
  <2>1. DOMAIN m = 1 .. Len(env) BY <1>3, IsSeqFacts
  <2>2. Envs' = DOMAIN m BY <1>4 DEF Envs
  <2>3. QED BY <1>2, <2>1, <2>2
<1>5. ASSUME NEW r, env' = Append(m, r) PROVE Envs \subseteq Envs'
  <2>1. IsSeq(env') /\ Len(env') = Len(m) + 1 BY <1>3, <1>5, AppendFacts
  <2>2. Envs' = 1 .. Len(env) + 1 BY <1>3, <2>1, IsSeqFacts DEF Envs
  <2>3. QED BY <1>2, <2>2
<1>6. QED BY <1>1, <1>4, <1>5

LEMMA SameIsShape == LInv => SameShape(env)
BY DEF LInv, SInv, IInv, HeapOK, EnvsOK, EnvOK, SameShape

LEMMA Kept == LInv /\ UNCHANGED env => HeapKept
BY SameIsShape DEF HeapKept

LEMMA Grown == ASSUME LInv, NEW r, NewOK(r), env' = Append(env, r) PROVE HeapKept
BY SameIsShape DEF HeapKept

LEMMA ChildMade == ASSUME LInv, NEW e \in Envs, Child(e) PROVE HeapKept
BY ChildOK, Grown DEF Child, kmake_environment

LEMMA TopTyped == LInv /\ cc # <<>> => FrameTyped(top)
<1> SUFFICES ASSUME LInv, cc # <<>> PROVE FrameTyped(top) OBVIOUS
<1>1. IsSeq(cc) BY BoundEnvs DEF LInv
<1>2. Len(cc) \in DOMAIN cc BY <1>1, IsSeqFacts, FrontFacts
<1>3. QED BY <1>2 DEF LInv, FramesTyped, Typed, top, Last

Matching == cc # <<>> /\ top.fn \in {"do_match", "do_let", "do_b_to_env"}

LEMMA MatchedShape ==
    ASSUME LInv, Matching, NEW objects
    PROVE  SameShape(Matched(objects))
<1>1. cc # <<>> /\ top.fn # "do_remote_eval" /\ top.ptree \in Seq(Symbols)
  BY TopTyped DEF Matching, FrameTyped
<1>2. /\ IsSeq(Matched(objects)) /\ Len(Matched(objects)) = Len(env)
      /\ \A e \in Envs : e # top.env => Matched(objects)[e] = env[e]
  BY <1>1, MatchedHeap DEF LInv
<1>3. \A e \in Envs : env[e].bindings \subseteq Symbols BY DEF LInv, EnvsOK, EnvOK
<1>4. ASSUME NEW e \in Envs, e = top.env
      PROVE  /\ Matched(objects)[e].parents = env[e].parents
             /\ Matched(objects)[e].key = env[e].key
             /\ Matched(objects)[e].keyed_parents = env[e].keyed_parents
             /\ Matched(objects)[e].bindings \subseteq Symbols
  <2> DEFINE new == {top.ptree[i] : i \in DOMAIN top.ptree \cap DOMAIN objects}
             b == env[e].bindings \cup new
  <2>1. Matched(objects)[e] = [env[e] EXCEPT !.bindings = b] BY <1>4 DEF Matched, Envs
  <2>2. new \subseteq Symbols
    <3>1. PICK p : p = top.ptree OBVIOUS
    <3>2. \A i \in DOMAIN p : p[i] \in Symbols BY <1>1, <3>1
    <3>3. QED BY <3>1, <3>2
  <2>3. b \subseteq Symbols BY <1>3, <2>2
  <2> HIDE DEF b
  <2>4. /\ [env[e] EXCEPT !.bindings = b].parents = env[e].parents
        /\ [env[e] EXCEPT !.bindings = b].key = env[e].key
        /\ [env[e] EXCEPT !.bindings = b].keyed_parents = env[e].keyed_parents
    OBVIOUS
  <2>5. [env[e] EXCEPT !.bindings = b].bindings \in {env[e].bindings, b} OBVIOUS
  <2>6. QED BY <1>3, <2>1, <2>3, <2>4, <2>5
<1>5. QED BY <1>2, <1>3, <1>4 DEF SameShape

LEMMA Bound == ASSUME LInv, Matching, NEW objects, env' = Matched(objects) PROVE HeapKept
BY MatchedShape DEF HeapKept

LEMMA OperateMakes == LInv /\ Operate => HeapKept
<1> SUFFICES ASSUME LInv, Operate PROVE HeapKept OBVIOUS
<1>1. denv \in Envs /\ ground \in Envs /\ known \subseteq Envs
  BY Numbers DEF LInv, SInv, IInv, KnownOK, ground
<1>2. CASE Fail \/ Sequence \/ eval \/ SdefineB \/ SsetB \/ SimportB \/ Slet_redirect
           \/ Sremote_eval
  BY <1>2, Kept
     DEF Fail, Sequence, eval, SdefineB, SsetB, SimportB, Slet_redirect, Sremote_eval
<1>3. CASE make_environment
  <2>1. CASE kmake_environment(<<>>, FALSE)
    BY <2>1, OrphanOK, Grown DEF kmake_environment
  <2>2. ASSUME NEW e \in known, Child(e) PROVE HeapKept BY <1>1, <2>2, ChildMade
  <2>3. ASSUME NEW p \in known, NEW q \in known, kmake_environment(<<p, q>>, FALSE)
        PROVE  HeapKept
    BY <1>1, <2>3, CommonOK, Grown DEF kmake_environment
  <2>4. QED BY <1>3, <2>1, <2>2, <2>3 DEF make_environment
<1>4. CASE make_kernel_standard_environment
  BY <1>1, <1>4, ChildMade DEF make_kernel_standard_environment
<1>5. CASE do_sv_bind
  <2>1. PICK e \in known, k \in Keys : env' = Append(env, Environment(<<e>>, TRUE, k))
    BY <1>5 DEF do_sv_bind
  <2>2. QED BY <1>1, <2>1, ChildOK, Grown
<1>6. CASE SprovideB \/ Slet \/ SletS BY <1>1, <1>6, ChildMade DEF SprovideB, Slet, SletS
<1>7. CASE Slet_safe BY <1>1, <1>7, ChildMade DEF Slet_safe
<1>8. CASE Sbindings_to_environment
  BY <1>8, OrphanOK, Grown DEF Sbindings_to_environment, kmake_environment
<1>9. QED BY <1>2, <1>3, <1>4, <1>5, <1>6, <1>7, <1>8 DEF Operate

LEMMA NextMakes == LInv /\ [Next]_vars => HeapKept
<1> SUFFICES ASSUME LInv, [Next]_vars PROVE HeapKept OBVIOUS
<1>1. CASE Operate BY <1>1, OperateMakes
<1>2. CASE Capture \/ Reenter \/ DoSeq \/ DoReturnValue \/ DoSetEvalObj \/ DoImport
           \/ DoRemoteEval \/ NotAnEnvironment \/ Repl \/ UNCHANGED vars
  BY <1>2, Kept DEF Capture, Reenter, DoSeq, DoReturnValue, DoSetEvalObj, DoImport,
                    DoRemoteEval, NotAnEnvironment, Repl, vars
<1>3. CASE DoMatch \/ DoBToEnv \/ DoLetBody
  <2>1. Matching BY <1>3 DEF DoMatch, DoBToEnv, DoLetBody, AtFrame, Matching
  <2>2. PICK objects : env' = Matched(objects)
    BY <1>3 DEF DoMatch, DoBToEnv, DoLetBody, match
  <2>3. QED BY <2>1, <2>2, Bound
<1>4. CASE Mismatch
  <2>1. Matching BY <1>4 DEF Mismatch, AtFrame, Matching
  <2>2. PICK objects : env' = Matched(objects) BY <1>4 DEF Mismatch
  <2>3. QED BY <2>1, <2>2, Bound
<1>5. CASE DoLetRedirect
  <2>1. PICK e \in EnvsPassed : Child(e) BY <1>5 DEF DoLetRedirect
  <2>2. QED BY <2>1, ChildMade DEF EnvsPassed
<1>6. CASE DoLetNext
  <2>1. Matching BY <1>6 DEF DoLetNext, AtFrame, Matching
  <2>2. PICK objects : env' = Append(Matched(objects), Environment(<<top.env>>, TRUE, NoKey))
    BY <1>6 DEF DoLetNext
  <2>3. top.env \in Envs
    <3>1. top.env \in 2 .. Len(env) BY <1>6, TopEnv DEF DoLetNext, LInv, SInv
    <3>2. QED BY <3>1, Numbers DEF LInv, SInv
  <2>4. SameShape(Matched(objects)) BY <2>1, MatchedShape
  <2>5. NewOK(Environment(<<top.env>>, TRUE, NoKey)) BY <2>3, ChildOK
  <2>6. QED BY <2>2, <2>4, <2>5 DEF HeapKept
<1>7. QED BY <1>1, <1>2, <1>3, <1>4, <1>5, <1>6 DEF Next

-----------------------------------------------------------------------------
(***************************************************************************)
(* What a step does to the types of frames, and of what they pass.         *)
(***************************************************************************)
LEMMA SeqOfIsSeq ==
    ASSUME NEW S, NEW n \in Nat, NEW s \in SeqOf(S, n) PROVE s \in Seq(S)
BY DEF SeqOf

LEMMA TreeTyped == \A p \in ParameterTrees : p \in Seq(Symbols)
BY SeqOfIsSeq, EnvironmentsAssumption DEF ParameterTrees

LEMMA TypedNone == Typed(<<>>)
BY DEF Typed

LEMMA TypedAppend ==
    ASSUME NEW c, IsSeq(c), Typed(c), NEW f, FrameTyped(f)
    PROVE  Typed(Append(c, f))
<1> DEFINE d == Append(c, f)
<1>1. /\ IsSeq(d) /\ Len(d) = Len(c) + 1
      /\ \A i \in 1 .. Len(c) : d[i] = c[i]
      /\ d[Len(c) + 1] = f
  BY AppendFacts
<1>2. DOMAIN c = 1 .. Len(c) /\ Len(c) \in Nat /\ DOMAIN d = 1 .. Len(c) + 1
  BY <1>1, IsSeqFacts
<1> HIDE DEF d
<1>3. ASSUME NEW i \in 1 .. Len(c) + 1 PROVE FrameTyped(d[i])
  <2>1. CASE i \in 1 .. Len(c) BY <1>1, <1>2, <2>1 DEF Typed
  <2>2. CASE i = Len(c) + 1 BY <1>1, <2>2
  <2>3. QED BY <1>2, <2>1, <2>2
<1>4. QED BY <1>2, <1>3 DEF Typed, d

LEMMA TypedFront == ASSUME NEW c, IsSeq(c), c # <<>>, Typed(c) PROVE Typed(Front(c))
<1>1. /\ IsSeq(Front(c)) /\ Len(c) >= 1 /\ Len(Front(c)) = Len(c) - 1
      /\ \A i \in 1 .. Len(c) - 1 : Front(c)[i] = c[i]
  BY FrontFacts
<1>2. DOMAIN c = 1 .. Len(c) /\ Len(c) \in Nat /\ DOMAIN Front(c) = 1 .. Len(c) - 1
  BY <1>1, IsSeqFacts
<1>3. QED BY <1>1, <1>2 DEF Typed

\* Both are typed as long as the continuation is, or one is captured.
LEMMA TypedStep ==
    ASSUME LInv, Typed(cc'), held' \subseteq held \cup {cc}
    PROVE  FramesTyped'
BY DEF LInv, FramesTyped

LEMMA TypedFrame == ASSUME LInv, NEW f, FrameTyped(f), Frame(f), held' = held PROVE FramesTyped'
<1>1. IsSeq(cc) /\ Typed(cc) BY BoundEnvs DEF LInv, FramesTyped
<1>2. Typed(cc') BY <1>1, TypedAppend DEF Frame
<1>3. QED BY <1>2, TypedStep

LEMMA TypedThrow == LInv /\ Throw /\ held' = held => FramesTyped'
BY TypedNone, TypedStep DEF Throw

LEMMA TypedPop == LInv /\ cc # <<>> /\ Pop /\ held' = held => FramesTyped'
<1> SUFFICES ASSUME LInv, cc # <<>>, Pop, held' = held PROVE FramesTyped' OBVIOUS
<1>1. IsSeq(cc) /\ Typed(cc) BY BoundEnvs DEF LInv, FramesTyped
<1>2. Typed(cc') BY <1>1, TypedFront DEF Pop
<1>3. QED BY <1>2, TypedStep

LEMMA TypedReplace ==
    ASSUME LInv, cc # <<>>, NEW f, FrameTyped(f), Replace(f), held' = held PROVE FramesTyped'
<1>1. IsSeq(cc) /\ Typed(cc) BY BoundEnvs DEF LInv, FramesTyped
<1>2. IsSeq(Front(cc)) /\ Typed(Front(cc)) BY <1>1, TypedFront, FrontFacts
<1>3. Typed(cc') BY <1>2, TypedAppend DEF Replace
<1>4. QED BY <1>3, TypedStep

LEMMA OperateTyped == LInv /\ Operate => FramesTyped'
<1> SUFFICES ASSUME LInv, Operate PROVE FramesTyped' OBVIOUS
<1> USE DEF FrameTyped
<1>0. held' = held BY DEF Operate
<1>1. CASE Fail BY <1>0, <1>1, TypedThrow DEF Fail
<1>2. CASE Sequence BY <1>0, <1>2, TypedFrame DEF Sequence, do_seq
<1>3. CASE UNCHANGED cc BY <1>0, <1>3, TypedStep DEF LInv, FramesTyped
<1>4. CASE SdefineB BY <1>0, <1>4, TypedFrame, TreeTyped DEF SdefineB, do_match
<1>5. CASE SsetB BY <1>0, <1>5, TypedFrame, TreeTyped DEF SsetB, do_set_eval_obj
<1>6. CASE SimportB BY <1>0, <1>6, TypedFrame, TreeTyped DEF SimportB, do_import
<1>7. CASE SprovideB
  <2>1. PICK p \in ParameterTrees : cc' = cc \o <<do_import(p, denv), do_return_value(newest)>>
    BY <1>7 DEF SprovideB
  <2>2. PICK f, g : f = do_import(p, denv) /\ g = do_return_value(newest) OBVIOUS
  <2>3. FrameTyped(f) BY <2>2, TreeTyped DEF do_import
  <2>4. FrameTyped(g) BY <2>2 DEF do_return_value
  <2>5. IsSeq(cc) /\ Typed(cc) BY BoundEnvs DEF LInv, FramesTyped
  <2>6. cc \o <<f, g>> = Append(Append(cc, f), g) BY <2>5 DEF IsSeq
  <2>7. Typed(Append(cc, f)) /\ IsSeq(Append(cc, f)) BY <2>3, <2>5, TypedAppend, AppendFacts
  <2>8. Typed(Append(Append(cc, f), g)) BY <2>4, <2>7, TypedAppend
  <2>9. QED BY <1>0, <2>1, <2>2, <2>6, <2>8, TypedStep
<1>8. CASE Slet
  <2>1. PICK p \in ParameterTrees, recp \in BOOLEAN : Frame(do_let(p, <<>>, newest, recp))
    BY <1>8 DEF Slet
  <2>2. <<>> \in Seq(Symbols) OBVIOUS
  <2>3. QED BY <1>0, <2>1, <2>2, TypedFrame, TreeTyped DEF do_let
<1>9. CASE SletS
  <2>1. PICK s \in Symbols, r \in Symbols, recp \in BOOLEAN :
           Frame(do_let(<<s>>, <<r>>, newest, recp))
    BY <1>9 DEF SletS
  <2>2. <<s>> \in Seq(Symbols) /\ <<r>> \in Seq(Symbols) OBVIOUS
  <2>3. QED BY <1>0, <2>1, <2>2, TypedFrame DEF do_let
<1>10. CASE Slet_redirect BY <1>0, <1>10, TypedFrame, TreeTyped DEF Slet_redirect, do_let_redirect
<1>11. CASE Slet_safe
  <2>1. PICK p \in ParameterTrees : Frame(do_let(p, <<>>, newest, FALSE)) BY <1>11 DEF Slet_safe
  <2>2. <<>> \in Seq(Symbols) OBVIOUS
  <2>3. PICK f : f = do_let(p, <<>>, newest, FALSE) OBVIOUS
  <2>4. FrameTyped(f) BY <2>2, <2>3, TreeTyped DEF do_let
  <2>5. QED BY <1>0, <2>1, <2>3, <2>4, TypedFrame
<1>12. CASE Sremote_eval BY <1>0, <1>12, TypedFrame DEF Sremote_eval, do_remote_eval
<1>13. CASE Sbindings_to_environment
  BY <1>0, <1>13, TypedFrame, TreeTyped DEF Sbindings_to_environment, do_b_to_env
<1>14. QED
  BY <1>1, <1>2, <1>3, <1>4, <1>5, <1>6, <1>7, <1>8, <1>9, <1>10, <1>11, <1>12, <1>13
     DEF Operate, eval, make_environment, make_kernel_standard_environment, do_sv_bind

LEMMA NextTyped == LInv /\ [Next]_vars => FramesTyped'
<1> SUFFICES ASSUME LInv, [Next]_vars PROVE FramesTyped' OBVIOUS
<1>1. CASE Operate BY <1>1, OperateTyped
<1>2. CASE Capture \/ Repl \/ UNCHANGED vars
  <2>1. Typed(cc') /\ held' \subseteq held \cup {cc}
    BY <1>2 DEF Capture, Repl, vars, LInv, FramesTyped
  <2>2. QED BY <2>1, TypedStep
<1>3. CASE Reenter
  <2>1. Typed(cc') /\ held' = held BY <1>3 DEF Reenter, LInv, FramesTyped
  <2>2. QED BY <2>1, TypedStep
<1>4. CASE DoMatch \/ DoBToEnv \/ DoSeq \/ DoReturnValue \/ DoRemoteEval \/ DoLetBody
  BY <1>4, TypedPop
     DEF DoMatch, DoBToEnv, DoSeq, DoReturnValue, DoRemoteEval, DoLetBody, match, AtFrame
<1>5. CASE Mismatch \/ NotAnEnvironment
  BY <1>5, TypedThrow DEF Mismatch, NotAnEnvironment, AtFrame
<1>6. CASE DoSetEvalObj
  <2>1. /\ cc # <<>> /\ top.fn = "do_set_eval_obj" /\ held' = held
        /\ \E e \in EnvsPassed : Replace(do_match(top.ptree, e))
    BY <1>6 DEF DoSetEvalObj, AtFrame
  <2>2. top.ptree \in Seq(Symbols) BY <2>1, TopTyped DEF FrameTyped
  <2>3. QED BY <2>1, <2>2, TypedReplace DEF FrameTyped, do_match
<1>7. CASE DoImport
  <2>1. /\ cc # <<>> /\ top.fn = "do_import" /\ held' = held
        /\ Throw \/ Replace(do_match(top.ptree, top.env))
    BY <1>7 DEF DoImport, AtFrame
  <2>2. top.ptree \in Seq(Symbols) BY <2>1, TopTyped DEF FrameTyped
  <2>3. QED BY <2>1, <2>2, TypedReplace, TypedThrow DEF FrameTyped, do_match
<1>8. CASE DoLetRedirect
  <2>1. /\ cc # <<>> /\ top.fn = "do_let_redirect" /\ held' = held
        /\ Replace(do_let(top.ptree, <<>>, newest, FALSE))
    BY <1>8 DEF DoLetRedirect, AtFrame
  <2>2. top.ptree \in Seq(Symbols) /\ <<>> \in Seq(Symbols) BY <2>1, TopTyped DEF FrameTyped
  <2>3. PICK f : f = do_let(top.ptree, <<>>, newest, FALSE) OBVIOUS
  <2>4. FrameTyped(f) BY <2>2, <2>3 DEF FrameTyped, do_let
  <2>5. QED BY <2>1, <2>3, <2>4, TypedReplace
<1>9. CASE DoLetNext
  <2>1. /\ cc # <<>> /\ top.fn = "do_let" /\ held' = held /\ top.rest # <<>>
        /\ Replace(do_let(<<top.rest[1]>>, Tail(top.rest), newest, top.recp))
    BY <1>9 DEF DoLetNext, AtFrame
  <2>2. PICK r : r = top.rest OBVIOUS
  <2>3. r \in Seq(Symbols) /\ r # <<>> BY <2>1, <2>2, TopTyped DEF FrameTyped
  <2>4. r[1] \in Symbols /\ Tail(r) \in Seq(Symbols) BY <2>3, TopAndRest
  <2>5. <<r[1]>> \in Seq(Symbols) BY <2>4
  <2>6. PICK f : f = do_let(<<r[1]>>, Tail(r), newest, top.recp) OBVIOUS
  <2>7. FrameTyped(f) BY <2>4, <2>5, <2>6 DEF FrameTyped, do_let
  <2>8. QED BY <2>1, <2>2, <2>6, <2>7, TypedReplace
<1>10. QED BY <1>1, <1>2, <1>3, <1>4, <1>5, <1>6, <1>7, <1>8, <1>9 DEF Next

\* What is passed: nothing, what was, or objects.
LEMMA PassedStep ==
    ASSUME LInv, Envs \subseteq Envs',
           \/ passed' = NoObject \/ passed' = passed \/ passed' \in Seq(Envs \cup {Datum})
    PROVE  PassedTyped'
<1>1. Seq(Envs \cup {Datum}) \subseteq Seq(Envs' \cup {Datum}) BY SeqMonotonic
<1>2. CASE passed' = NoObject BY <1>2 DEF PassedTyped, Runs
<1>3. CASE passed' = passed BY <1>1, <1>3 DEF LInv, PassedTyped, Runs
<1>4. CASE passed' \in Seq(Envs \cup {Datum}) BY <1>1, <1>4 DEF PassedTyped
<1>5. QED BY <1>2, <1>3, <1>4

LEMMA NextPassedTyped == LInv /\ [Next]_vars => PassedTyped'
<1> SUFFICES ASSUME LInv, [Next]_vars PROVE PassedTyped' OBVIOUS
<1>1. Envs \subseteq Envs' BY NextMakes, MakesOK
<1>2. known \subseteq Envs /\ Envs = 1 .. Len(env)
  BY Numbers DEF LInv, SInv, IInv, KnownOK
<1>3. SUFFICES passed' = NoObject \/ passed' = passed \/ passed' \in Seq(Envs \cup {Datum})
  BY <1>1, PassedStep
<1>4. CASE Operate
  BY <1>4 DEF Operate, Fail, Throw, Sequence, eval, make_environment, Has, ktail_eval,
              make_kernel_standard_environment, do_sv_bind, SdefineB, SsetB, SimportB,
              SprovideB, Slet, SletS, Slet_redirect, Slet_safe, Sremote_eval,
              Sbindings_to_environment
<1>5. CASE Capture \/ Repl \/ UNCHANGED vars BY <1>5 DEF Capture, Repl, ktail_eval, vars
<1>6. CASE Reenter
  <2>1. PICK objects \in SeqOf(known \cup {Datum}, MaxTree) : passed' = objects
    BY <1>6 DEF Reenter, kapply_cc, Objects
  <2>2. objects \in Seq(known \cup {Datum}) BY <2>1, SeqOfIsSeq, EnvironmentsAssumption
  <2>3. Seq(known \cup {Datum}) \subseteq Seq(Envs \cup {Datum}) BY <1>2, SeqMonotonic
  <2>4. QED BY <2>1, <2>2, <2>3
<1>7. CASE DoMatch
  <2>1. passed' = <<Datum>> BY <1>7 DEF DoMatch, kapply_cc
  <2>2. QED BY <2>1
<1>8. CASE DoBToEnv \/ DoReturnValue
  <2>1. passed' = <<top.env>> BY <1>8 DEF DoBToEnv, DoReturnValue, kapply_cc
  <2>2. top.env \in Envs
    <3>1. top.env \in 2 .. Len(env) BY <1>8, TopEnv DEF DoBToEnv, DoReturnValue, LInv, SInv
    <3>2. QED BY <1>2, <3>1
  <2>3. QED BY <2>1, <2>2
<1>9. CASE DoSeq \/ DoSetEvalObj \/ DoLetRedirect \/ DoRemoteEval \/ DoLetBody \/ DoLetNext
           \/ Mismatch \/ NotAnEnvironment
  BY <1>9 DEF DoSeq, DoSetEvalObj, DoLetRedirect, DoRemoteEval, DoLetBody, DoLetNext,
              Mismatch, NotAnEnvironment, Throw, ktail_eval
<1>10. CASE DoImport
  <2>1. cc # <<>> /\ top.fn = "do_import" BY <1>10 DEF DoImport, AtFrame
  <2>2. PICK p : p = top.ptree OBVIOUS
  <2>3. p \in Seq(Symbols) BY <2>1, <2>2, TopTyped DEF FrameTyped
  <2>4. passed' = NoObject \/ passed' = [i \in DOMAIN p |-> Datum]
    BY <1>10, <2>2 DEF DoImport, Throw, ktail_eval, kapply_cc
  <2>5. [i \in DOMAIN p |-> Datum] \in Seq(Envs \cup {Datum}) BY <2>3
  <2>6. QED BY <2>4, <2>5
<1>11. QED BY <1>4, <1>5, <1>6, <1>7, <1>8, <1>9, <1>10 DEF Next

LEMMA InitLInv == Init => LInv
<1> SUFFICES ASSUME Init PROVE LInv OBVIOUS
<1>1. SInv BY InitScopes
<1>2. Envs = {1, 2} /\ Standard \subseteq Symbols BY EnvironmentsAssumption DEF Init, Envs
<1>3. /\ env[1].parents = <<>> /\ env[1].keyed_parents = <<>>
      /\ env[1].bindings = Standard /\ env[1].key = NoKey
  BY DEF Init
<1>4. /\ env[2].parents = <<1>> /\ env[2].keyed_parents = <<>>
      /\ env[2].bindings = {} /\ env[2].key = NoKey
  BY DEF Init
<1>5. EnvOK(1) BY <1>2, <1>3 DEF EnvOK, KeyedOnly, Descends
<1>6. EnvOK(2)
  <2>1. Improper(1) = <<>> BY <1>3 DEF Improper, keyed
  <2>2. 1 \in 1 .. 2 - 1 OBVIOUS
  <2>3. Descends(2) BY <1>4, <2>1, <2>2 DEF Descends
  <2>4. <<1>> \in Seq(1 .. 2 - 1) BY <2>2
  <2>5. QED BY <1>4, <2>3, <2>4 DEF EnvOK, KeyedOnly
<1>7. PassedTyped BY DEF Init, PassedTyped, Runs
<1>8. FramesTyped BY TypedNone DEF Init, FramesTyped
<1>9. QED BY <1>1, <1>2, <1>5, <1>6, <1>7, <1>8 DEF LInv, EnvsOK

LEMMA NextLInv == LInv /\ [Next]_vars => LInv'
<1> SUFFICES ASSUME LInv, [Next]_vars PROVE LInv' OBVIOUS
<1>1. SInv' BY NextScopes DEF LInv
<1>2. EnvsOK' BY NextMakes, MakesOK
<1>3. QED BY <1>1, <1>2, NextTyped, NextPassedTyped DEF LInv

-----------------------------------------------------------------------------
(***************************************************************************)
(* Lookups are searches of the ancestors.                                  *)
(***************************************************************************)
Parents == [a \in 1 .. Len(env) |-> env[a].parents]
KeyedParents == [a \in 1 .. Len(env) |-> env[a].keyed_parents]
Binding(s) == {a \in Envs : s \in env[a].bindings}
Key(k) == {a \in Envs : env[a].key = k}
Keyed == {a \in Envs : keyed(a)}

LEMMA AncestorsOlder == LInv => Older(Len(env), Parents) /\ Older(Len(env), KeyedParents)
BY Numbers DEF LInv, SInv, EnvsOK, EnvOK, Older, Parents, KeyedParents

LEMMA BindingSearch ==
    ASSUME LInv, NEW s
    PROVE  \E h : /\ IsSearch(h, Len(env), Parents, Binding(s))
                  /\ \A e : try_get_binding(e, s) = h[<<e>>]
<1>1. Envs = 1 .. Len(env) /\ Len(env) \in Nat BY Numbers DEF LInv, SInv
<1> DEFINE F(g) == [stack \in Seq(Envs) |->
                       IF stack = <<>> THEN Nowhere
                       ELSE IF s \in env[stack[1]].bindings THEN stack[1]
                       ELSE g[env[stack[1]].parents \o Tail(stack)]]
           G(g) == [stack \in Seq(1 .. Len(env)) |->
                       IF stack = <<>> THEN 0
                       ELSE IF stack[1] \in Binding(s) THEN stack[1]
                       ELSE g[Parents[stack[1]] \o Tail(stack)]]
<1>2. ASSUME NEW g PROVE F(g) = G(g)
  <2>1. ASSUME NEW stack \in Seq(Envs), stack # <<>>
        PROVE  /\ stack[1] \in Binding(s) <=> s \in env[stack[1]].bindings
               /\ Parents[stack[1]] = env[stack[1]].parents
    <3>1. stack[1] \in Envs BY <2>1, TopAndRest
    <3>2. QED BY <1>1, <3>1 DEF Binding, Parents
  <2>2. \A stack \in Seq(Envs) : F(g)[stack] = G(g)[stack] BY <1>1, <2>1 DEF Nowhere
  <2>3. QED BY <1>1, <2>2
<1>3. \A g : IsSearch(g, Len(env), Parents, Binding(s)) <=> g = G(g) BY DEF IsSearch
<1> HIDE DEF F, G
<1>4. \E g : g = F(g)
  <2>1. Binding(s) \in SUBSET (1 .. Len(env)) BY <1>1 DEF Binding
  <2>2. \E g : IsSearch(g, Len(env), Parents, Binding(s))
    BY <1>1, <2>1, AncestorsOlder, SearchExists
  <2>3. QED BY <1>2, <1>3, <2>2
<1>5. PICK h : h = CHOOSE g : g = F(g) OBVIOUS
<1>6. h = F(h) BY <1>4, <1>5
<1>7. \A e : try_get_binding(e, s) = h[<<e>>] BY <1>5 DEF F, try_get_binding
<1>8. QED BY <1>2, <1>3, <1>6, <1>7

LEMMA KeyedSearch ==
    ASSUME LInv, NEW k
    PROVE  \E h : /\ IsSearch(h, Len(env), KeyedParents, Key(k))
                  /\ \A e \in Envs : try_get_keyed(e, k)
                        = h[IF e \in Keyed THEN <<e>> ELSE KeyedParents[e]]
<1>1. Envs = 1 .. Len(env) /\ Len(env) \in Nat BY Numbers DEF LInv, SInv
<1> DEFINE F(g) == [stack \in Seq(Envs) |->
                       IF stack = <<>> THEN Nowhere
                       ELSE IF env[stack[1]].key = k THEN stack[1]
                       ELSE g[env[stack[1]].keyed_parents \o Tail(stack)]]
           G(g) == [stack \in Seq(1 .. Len(env)) |->
                       IF stack = <<>> THEN 0
                       ELSE IF stack[1] \in Key(k) THEN stack[1]
                       ELSE g[KeyedParents[stack[1]] \o Tail(stack)]]
<1>2. ASSUME NEW g PROVE F(g) = G(g)
  <2>1. ASSUME NEW stack \in Seq(Envs), stack # <<>>
        PROVE  /\ stack[1] \in Key(k) <=> env[stack[1]].key = k
               /\ KeyedParents[stack[1]] = env[stack[1]].keyed_parents
    <3>1. stack[1] \in Envs BY <2>1, TopAndRest
    <3>2. QED BY <1>1, <3>1 DEF Key, KeyedParents
  <2>2. \A stack \in Seq(Envs) : F(g)[stack] = G(g)[stack] BY <1>1, <2>1 DEF Nowhere
  <2>3. QED BY <1>1, <2>2
<1>3. \A g : IsSearch(g, Len(env), KeyedParents, Key(k)) <=> g = G(g) BY DEF IsSearch
<1> HIDE DEF F, G
<1>4. \E g : g = F(g)
  <2>1. Key(k) \in SUBSET (1 .. Len(env)) BY <1>1 DEF Key
  <2>2. \E g : IsSearch(g, Len(env), KeyedParents, Key(k))
    BY <1>1, <2>1, AncestorsOlder, SearchExists
  <2>3. QED BY <1>2, <1>3, <2>2
<1>5. PICK h : h = CHOOSE g : g = F(g) OBVIOUS
<1>6. h = F(h) BY <1>4, <1>5
<1>7. \A e : try_get_keyed(e, k) = h[IF keyed(e) THEN <<e>> ELSE env[e].keyed_parents]
  BY <1>5 DEF F, try_get_keyed
<1>8. \A e \in Envs : (e \in Keyed <=> keyed(e)) /\ KeyedParents[e] = env[e].keyed_parents
  BY <1>1 DEF Keyed, KeyedParents
<1>9. QED BY <1>2, <1>3, <1>6, <1>7, <1>8

LEMMA FirstFound ==
    ASSUME LInv, NEW where
    PROVE  \E f : /\ IsFound(f, Len(env), Parents, where)
                  /\ \A e : First(e, where) = f[e]
<1>1. Envs = 1 .. Len(env) /\ Len(env) \in Nat BY Numbers DEF LInv, SInv
<1> DEFINE with(g, a) == {i \in DOMAIN env[a].parents : g[env[a].parents[i]] # Nowhere}
           F(g) == [a \in Envs |->
                       IF a \in where THEN a
                       ELSE IF with(g, a) = {} THEN Nowhere
                       ELSE g[env[a].parents[Min(with(g, a))]]]
           G(g) == [a \in 1 .. Len(env) |-> IF a \in where THEN a ELSE FirstOf(g, Parents[a])]
<1>2. ASSUME NEW g PROVE F(g) = G(g)
  <2>1. \A a \in Envs : FirstOf(g, Parents[a])
           = IF with(g, a) = {} THEN Nowhere ELSE g[env[a].parents[Min(with(g, a))]]
    BY <1>1 DEF FirstOf, Parents, Nowhere
  <2>2. QED BY <1>1, <2>1
<1>3. \A g : IsFound(g, Len(env), Parents, where) <=> g = G(g) BY DEF IsFound
<1> HIDE DEF F, G
<1>4. \E g : g = F(g)
  <2>1. \E g : IsFound(g, Len(env), Parents, where) BY <1>1, AncestorsOlder, FoundExists
  <2>2. QED BY <1>2, <1>3, <2>1
<1>5. PICK f : f = CHOOSE g : g = F(g) OBVIOUS
<1>6. f = F(f) BY <1>4, <1>5
<1>7. \A e : First(e, where) = f[e] BY <1>5 DEF F, First
<1>8. QED BY <1>2, <1>3, <1>6, <1>7

LEMMA SearchFinds ==
    ASSUME LInv, NEW W \in SUBSET (1 .. Len(env)),
           NEW f, IsFound(f, Len(env), Parents, W), NEW h, IsSearch(h, Len(env), Parents, W)
    PROVE  Agrees(h, f, Len(env))
<1>1. PICK N, P : N = Len(env) /\ P = Parents OBVIOUS
<1>2. N \in Nat /\ W \in SUBSET (1 .. N) BY <1>1, Numbers DEF LInv, SInv
<1>3. Older(N, P) BY <1>1, AncestorsOlder
<1>4. IsFound(f, N, P, W) /\ IsSearch(h, N, P, W) BY <1>1
<1>5. Agrees(h, f, N) BY <1>2, <1>3, <1>4, SearchIsFirst
<1>6. QED BY <1>1, <1>5

LEMMA KeyedSearchFinds ==
    ASSUME LInv, NEW W \in SUBSET (1 .. Len(env)),
           NEW f, IsFound(f, Len(env), KeyedParents, W),
           NEW h, IsSearch(h, Len(env), KeyedParents, W)
    PROVE  Agrees(h, f, Len(env))
<1>1. PICK N, P : N = Len(env) /\ P = KeyedParents OBVIOUS
<1>2. N \in Nat /\ W \in SUBSET (1 .. N) BY <1>1, Numbers DEF LInv, SInv
<1>3. Older(N, P) BY <1>1, AncestorsOlder
<1>4. IsFound(f, N, P, W) /\ IsSearch(h, N, P, W) BY <1>1
<1>5. Agrees(h, f, N) BY <1>2, <1>3, <1>4, SearchIsFirst
<1>6. QED BY <1>1, <1>5

LEMMA BindingIsFirst ==
    ASSUME LInv, NEW e \in Envs, NEW s
    PROVE  try_get_binding(e, s) = First(e, Binding(s))
<1>1. Envs = 1 .. Len(env) /\ Len(env) \in Nat BY Numbers DEF LInv, SInv
<1>2. PICK h : /\ IsSearch(h, Len(env), Parents, Binding(s))
               /\ \A a : try_get_binding(a, s) = h[<<a>>]
  BY BindingSearch
<1>3. PICK f : /\ IsFound(f, Len(env), Parents, Binding(s))
               /\ \A a : First(a, Binding(s)) = f[a]
  BY FirstFound
<1>4. Binding(s) \in SUBSET (1 .. Len(env)) BY <1>1 DEF Binding
<1>5. \A t \in Seq(1 .. Len(env)) : h[t] = FirstOf(f, t)
  BY <1>2, <1>3, <1>4, SearchFinds DEF Agrees
<1>6. <<e>> \in Seq(1 .. Len(env)) BY <1>1
<1>7. QED BY <1>2, <1>3, <1>5, <1>6, FirstOfOne

LEMMA AncestorsNearest ==
    ASSUME LInv, PassedOver = {}
    PROVE  Nearest(Len(env), Parents, KeyedParents, Keyed)
<1>1. Envs = 1 .. Len(env) /\ Len(env) \in Nat BY Numbers DEF LInv, SInv
<1>2. SUFFICES ASSUME NEW a \in Envs
      PROVE \/ Parents[a] = <<>> /\ KeyedParents[a] = <<>>
            \/ \E p \in 1 .. a - 1 :
                  /\ Parents[a] = <<p>>
                  /\ KeyedParents[a] = IF p \in Keyed THEN <<p>> ELSE KeyedParents[p]
            \/ \E p, q \in 1 .. a - 1 :
                  /\ Parents[a] = <<p, q>> /\ KeyedParents[a] = KeyedParents[p] \o KeyedParents[q]
                  /\ p \notin Keyed /\ q \notin Keyed
  BY <1>1 DEF Nearest
<1>3. 1 .. a - 1 \subseteq Envs BY <1>1
<1>4. Descends(a) BY DEF LInv, EnvsOK, EnvOK
<1>5. \A b \in Envs : /\ Parents[b] = env[b].parents /\ KeyedParents[b] = env[b].keyed_parents
                      /\ b \in Keyed <=> keyed(b)
  BY <1>1 DEF Parents, KeyedParents, Keyed
<1>6. CASE env[a].parents = <<>> /\ env[a].keyed_parents = <<>> BY <1>5, <1>6
<1>7. ASSUME NEW p \in 1 .. a - 1, env[a].parents = <<p>>, env[a].keyed_parents = Improper(p)
      PROVE  /\ Parents[a] = <<p>>
             /\ KeyedParents[a] = IF p \in Keyed THEN <<p>> ELSE KeyedParents[p]
  BY <1>3, <1>5, <1>7 DEF Improper
<1>8. ASSUME NEW p \in 1 .. a - 1, NEW q \in 1 .. a - 1, env[a].parents = <<p, q>>,
             env[a].keyed_parents = env[p].keyed_parents \o env[q].keyed_parents
      PROVE  /\ Parents[a] = <<p, q>> /\ KeyedParents[a] = KeyedParents[p] \o KeyedParents[q]
             /\ p \notin Keyed /\ q \notin Keyed
  <2>1. PICK s : s = env[a].parents OBVIOUS
  <2>2. Len(s) > 1 /\ Range(s) = {p, q} BY <1>8, <2>1, RangeOfTwo
  <2>3. ~keyed(p) /\ ~keyed(q) BY <1>3, <2>1, <2>2 DEF PassedOver
  <2>4. QED BY <1>3, <1>5, <1>8, <2>3
<1>9. QED BY <1>4, <1>6, <1>7, <1>8 DEF Descends

LEMMA KeyedIsFirst ==
    ASSUME LInv, PassedOver = {}, NEW e \in Envs, NEW k \in Keys
    PROVE  try_get_keyed(e, k) = First(e, Key(k))
<1>1. Envs = 1 .. Len(env) /\ Len(env) \in Nat BY Numbers DEF LInv, SInv
<1>2. PICK h : /\ IsSearch(h, Len(env), KeyedParents, Key(k))
               /\ \A a \in Envs : try_get_keyed(a, k)
                     = h[IF a \in Keyed THEN <<a>> ELSE KeyedParents[a]]
  BY KeyedSearch
<1>3. PICK f : IsFound(f, Len(env), Parents, Key(k)) /\ \A a : First(a, Key(k)) = f[a]
  BY FirstFound
<1>4. PICK g : IsFound(g, Len(env), KeyedParents, Key(k))
  BY <1>1, AncestorsOlder, FoundExists
<1>5. Key(k) \in SUBSET (1 .. Len(env)) BY <1>1 DEF Key
<1>6. Key(k) \in SUBSET Keyed BY EnvironmentsAssumption DEF Key, Keyed, keyed
<1>7. \A t \in Seq(1 .. Len(env)) : h[t] = FirstOf(g, t)
  <2>1. Agrees(h, g, Len(env)) BY <1>2, <1>4, <1>5, KeyedSearchFinds
  <2>2. QED BY <2>1 DEF Agrees
<1>8. \A a \in 1 .. Len(env) : f[a] = FirstOf(g, IF a \in Keyed THEN <<a>> ELSE KeyedParents[a])
  <2>1. PICK N, P, K, X, W : /\ N = Len(env) /\ P = Parents /\ K = KeyedParents /\ X = Keyed
                             /\ W = Key(k)
    OBVIOUS
  <2>2. N \in Nat /\ W \in SUBSET X BY <1>1, <1>6, <2>1
  <2>3. Older(N, K) BY <2>1, AncestorsOlder
  <2>4. Nearest(N, P, K, X) BY <2>1, AncestorsNearest
  <2>5. IsFound(f, N, P, W) /\ IsFound(g, N, K, W) BY <1>3, <1>4, <2>1
  <2>6. AgreesNearest(f, g, N, K, X) BY <2>2, <2>3, <2>4, <2>5, NearestIsFirst
  <2>7. QED BY <2>1, <2>6 DEF AgreesNearest
<1>9. (IF e \in Keyed THEN <<e>> ELSE KeyedParents[e]) \in Seq(1 .. Len(env))
  <2>1. KeyedParents[e] \in Seq(1 .. Len(env))
    BY <1>1, KeyedParentsTyped DEF KeyedParents
  <2>2. <<e>> \in Seq(1 .. Len(env)) BY <1>1
  <2>3. QED BY <2>1, <2>2
<1>10. QED BY <1>1, <1>2, <1>3, <1>7, <1>8, <1>9

LEMMA LInvTypeOK == LInv => TypeOK
<1> SUFFICES ASSUME LInv PROVE TypeOK OBVIOUS
<1>1. Envs = 1 .. Len(env) /\ Len(env) \in Nat BY Numbers DEF LInv, SInv
<1>2. ASSUME NEW e \in Envs
      PROVE  /\ Range(env[e].parents) \subseteq 1 .. e - 1
             /\ \A p \in Range(env[e].keyed_parents) : p < e /\ keyed(p)
             /\ env[e].bindings \subseteq Symbols /\ env[e].key \in Keys \cup {NoKey}
  <2>1. EnvOK(e) BY DEF LInv, EnvsOK
  <2>2. PICK s, t : s = env[e].parents /\ t = env[e].keyed_parents OBVIOUS
  <2>3. PICK D : D = 1 .. e - 1 OBVIOUS
  <2>4. s \in Seq(D) /\ t \in Seq(D) /\ KeyedOnly(t) BY <2>1, <2>2, <2>3 DEF EnvOK
  <2>5. Range(s) \subseteq D BY <2>4 DEF Range
  <2>6. \A i \in DOMAIN t : t[i] \in D BY <2>4
  <2>7. \A p \in Range(t) : p \in D /\ keyed(p) BY <2>4, <2>6 DEF Range, KeyedOnly
  <2>9. \A p \in D : p < e BY <1>1, <2>3
  <2>8. QED BY <2>1, <2>2, <2>3, <2>5, <2>7, <2>9 DEF EnvOK
<1>3. known \subseteq Envs /\ denv \in known BY <1>1 DEF LInv, SInv, IInv, KnownOK
<1>4. passed # NoObject => passed \in Seq(Envs \cup {Datum}) BY DEF LInv, PassedTyped, Runs
<1>5. \A c \in held \cup {cc} : \A i \in DOMAIN c :
         c[i].fn # "do_remote_eval" => c[i].env \in Envs
  BY <1>1 DEF LInv, SInv, IInv, FramesOK, ContinuationOK, FrameOK
<1>6. QED BY <1>2, <1>3, <1>4, <1>5 DEF TypeOK

LEMMA LInvFindsFirst == LInv => LookupIsDepthFirst
<1> SUFFICES ASSUME LInv PROVE LookupIsDepthFirst OBVIOUS
<1>1. TypeOK BY LInvTypeOK
<1>2. \A e \in Envs, s \in Symbols :
         try_get_binding(e, s) = First(e, {a \in Envs : s \in env[a].bindings})
  BY BindingIsFirst DEF Binding
<1>3. PassedOver = {} =>
         \A e \in Envs, k \in Keys :
             try_get_keyed(e, k) = First(e, {a \in Envs : env[a].key = k})
  BY KeyedIsFirst DEF Key
<1>4. QED BY <1>1, <1>2, <1>3 DEF LookupIsDepthFirst

\* However environments descend from each other, the search with the stack of the state
\* finds what a depth-first search of the ancestors does (try_get_binding of
\* kenvironment.c); and where no keyed environment is among several parents, the search
\* of the nearest keyed ancestors finds the keyed variable that one of all would
\* (try_get_keyed, and kmake_environment, which computes them).
THEOREM LookupSafety == Spec => []LookupIsDepthFirst
BY InitLInv, NextLInv, LInvFindsFirst, PTL DEF Spec
=============================================================================
