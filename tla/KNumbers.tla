------------------------------- MODULE KNumbers ------------------------------
(***************************************************************************)
(* The numbers of the ground environment: the applicatives a program calls *)
(* on fixints, big integers and rationals, doubles, the infinities, #real  *)
(* (a real with no primary value) and #undefined.                          *)
(*                                                                         *)
(* One step is one call, made with the strict arithmetic of the dynamic    *)
(* extent it is made in.  A list of operands is a record of the sequence   *)
(* before its cycle and the sequence of the cycle; that the walks over it  *)
(* end and leave no marks is the subject of KLists.                        *)
(***************************************************************************)
EXTENDS KReals

CONSTANTS Numbers,   \* operands
          Operands,  \* lists of operands
          Texts,     \* what a program may convert to a number
          Radixes

VARIABLES strict,    \* the value of the dynamic variable of strict arithmetic
          call,      \* the call that was made, <<>> before it
          out        \* what it returned

vars == <<strict, call, out>>

------------------------------------------------------------------------------
(* Types                                                                    *)

TFixint == 0
TBigint == 1
TBigrat == 3
TDouble == 4
TEInf == 6
TIInf == 7
TRwnpv == 8
TUndefined == 10

ttype(v) == CASE IsFixint(v) -> TFixint
              [] IsBigint(v) -> TBigint
              [] IsBigrat(v) -> TBigrat
              [] IsDouble(v) -> TDouble
              [] IsEInf(v) -> TEInf
              [] IsIInf(v) -> TIInf
              [] v = RWNPV -> TRwnpv
              [] v = Undefined -> TUndefined

max_ttype(a, b) == Bigger(ttype(a), ttype(b))

IsInf(v) == IsEInf(v) \/ IsIInf(v)
IsEInteger(v) == IsFixint(v) \/ IsBigint(v)
kintegerp(v) == IsEInteger(v) \/ (IsDouble(v) /\ IsWhole(v))
kimp_intp(v) == kintegerp(v) \/ IsInf(v)
krationalp(v) == ttype(v) <= TDouble
krealp(v) == v # Undefined
knumber_wpvp(v) == ~IsNoPrimary(v)
ku8p(v) == IsFixint(v) /\ v[2] \in 0..255

kpositivep(v) == CASE IsFixint(v) \/ IsDouble(v) -> v[2] > 0
                   [] IsBigint(v) -> CMPZ(v[2]) > 0
                   [] IsBigrat(v) -> mp_rat_compare_zero(v[2]) > 0
                   [] OTHER -> v \in {EPInf, IPInf}
knegativep(v) == CASE IsFixint(v) \/ IsDouble(v) -> v[2] < 0
                   [] IsBigint(v) -> CMPZ(v[2]) < 0
                   [] IsBigrat(v) -> mp_rat_compare_zero(v[2]) < 0
                   [] OTHER -> v \in {EMInf, IMInf}
kfast_zerop(v) == v \in {Fixint(0), DZero}
kfast_onep(v) == v \in {Fixint(1), DOne}
kneg_inf(v) == CASE v = EPInf -> EMInf [] v = EMInf -> EPInf
                 [] v = IPInf -> IMInf [] v = IMInf -> IPInf
knum_same_signp(a, b) == kpositivep(a) = kpositivep(b)

koddp(v) == IF IsBigint(v) THEN mp_int_is_odd(v[2]) ELSE v[2] % 2 = 1
kevenp(v) == ~koddp(v)

------------------------------------------------------------------------------
(* What an operation returns: a number, a truth value, or an error          *)

Yes == <<"#t">>
No == <<"#f">>
Truth(b) == IF b THEN Yes ELSE No

Infinity(t, positive) == IF t = TEInf THEN IF positive THEN EPInf ELSE EMInf
                         ELSE IF positive THEN IPInf ELSE IMInf

arith_return(v) == IF IsNoPrimary(v) /\ strict THEN Error ELSE v

\* A double where underflow and overflow are errors of strict arithmetic.
Strictly(d, underflow) ==
    IF strict /\ (~IsDouble(d) \/ (d = DZero /\ underflow)) THEN Error ELSE d

ToInexact(v) == IF v = Error THEN Error ELSE kexact_to_inexact(v, strict)

\* Of two numbers one of which is inexact, both are made inexact.
kensure_same_exactness(a, b) ==
    IF IsInexact(a) \/ IsInexact(b) THEN Both(a, b, ToInexact) ELSE <<a, b>>

Failed(n) == n[1] = Error \/ n[2] = Error

\* Of the two numbers that are made of x and y, and the greater of their types.
OnSame(x, y, Of(_, _, _)) ==
    With(kensure_same_exactness(x, y), LAMBDA n :
         IF Failed(n) THEN Error ELSE Of(n[1], n[2], max_ttype(n[1], n[2])))

\* Of two doubles by way of the exact numbers they are.
OnExact(a, b, Of(_, _)) ==
    With(Both(a, b, kinexact_to_exact), LAMBDA n : ToInexact(Of(n[1], n[2])))

------------------------------------------------------------------------------
(* Comparisons                                                              *)

knum_eqp(x, y) == OnSame(x, y, LAMBDA a, b, t :
    IF t >= TRwnpv THEN Error
    ELSE Truth(IF IsBigint(a) /\ IsBigint(b) THEN mp_int_compare(a[2], b[2]) = 0
               ELSE IF IsBigrat(a) /\ IsBigrat(b) THEN mp_rat_compare(a[2], b[2]) = 0
               ELSE a = b))

\* Wrong variant: the infinities are compared as if both of them were exact.
knum_ltp_exact(x, y) == OnSame(x, y, LAMBDA a, b, t :
    IF t >= TRwnpv THEN Error
    ELSE IF t = TDouble THEN Truth(DLess(a, b))
    ELSE IF t >= TEInf THEN Truth(a # b /\ (a = EMInf \/ b = EPInf))
    ELSE Truth(mp_rat_compare(AsBigrat(a), AsBigrat(b)) < 0))

SameLess(a, b, t) ==
    IF t >= TRwnpv THEN Error
    ELSE IF t = TFixint THEN Truth(a[2] < b[2])
    ELSE IF t = TBigint THEN Truth(mp_int_compare(AsBigint(a), AsBigint(b)) < 0)
    ELSE IF t = TBigrat THEN Truth(mp_rat_compare(AsBigrat(a), AsBigrat(b)) < 0)
    ELSE IF t = TDouble THEN Truth(DLess(a, b))
    ELSE Truth(a # b /\ (a = Infinity(t, FALSE) \/ b = Infinity(t, TRUE)))

knum_ltp(x, y) == OnSame(x, y, SameLess)

Not(v) == IF v = Error THEN Error ELSE Truth(v = No)
knum_lep(x, y) == Not(knum_ltp(y, x))
knum_gtp(x, y) == knum_ltp(y, x)
knum_gep(x, y) == Not(knum_ltp(x, y))

------------------------------------------------------------------------------
(* Arithmetic                                                               *)

knum_plus(x, y) == OnSame(x, y, LAMBDA a, b, t :
    IF t = TFixint /\ kfit_int32_t(a[2] + b[2]) THEN Fixint(a[2] + b[2])
    ELSE IF t <= TBigint THEN kbigint_plus(AsBigint(a), AsBigint(b))
    ELSE IF t = TBigrat THEN kbigrat_try_integer(mp_rat_add(AsBigrat(a), AsBigrat(b)))
    ELSE IF t = TDouble THEN Strictly(DPlus(a, b), a # DNeg(b))
    ELSE IF t >= TRwnpv THEN arith_return(IF t = TRwnpv THEN RWNPV ELSE Undefined)
    ELSE IF ~IsInf(a) THEN b
    ELSE IF ~IsInf(b) \/ a = b THEN a
    ELSE arith_return(RWNPV))

knum_times(x, y) == OnSame(x, y, LAMBDA a, b, t :
    IF t = TFixint /\ kfit_int32_t(a[2] * b[2]) THEN Fixint(a[2] * b[2])
    ELSE IF t <= TBigint THEN kbigint_times(AsBigint(a), AsBigint(b))
    ELSE IF t = TBigrat THEN kbigrat_try_integer(mp_rat_mul(AsBigrat(a), AsBigrat(b)))
    ELSE IF t = TDouble THEN Strictly(DTimes(a, b), a # DZero /\ b # DZero)
    ELSE IF t >= TRwnpv THEN arith_return(IF t = TRwnpv THEN RWNPV ELSE Undefined)
    ELSE IF kfast_zerop(a) \/ kfast_zerop(b) THEN arith_return(RWNPV)
    ELSE Infinity(t, knum_same_signp(a, b)))

knum_minus(x, y) == OnSame(x, y, LAMBDA a, b, t :
    IF t = TFixint /\ kfit_int32_t(a[2] - b[2]) THEN Fixint(a[2] - b[2])
    ELSE IF t <= TBigint THEN kbigint_minus(AsBigint(a), AsBigint(b))
    ELSE IF t = TBigrat THEN kbigrat_try_integer(mp_rat_sub(AsBigrat(a), AsBigrat(b)))
    ELSE IF t = TDouble THEN Strictly(DMinus(a, b), a # b)
    ELSE IF t >= TRwnpv THEN arith_return(IF t = TRwnpv THEN RWNPV ELSE Undefined)
    ELSE IF ~IsInf(a) THEN kneg_inf(b)
    ELSE IF ~IsInf(b) \/ a # b THEN a
    ELSE arith_return(RWNPV))

\* The division of C: the quotient loses its fraction, the rest has the sign of n.
CQuotient(n, d) == IF (n < 0) = (d < 0) THEN Abs(n) \div Abs(d) ELSE -(Abs(n) \div Abs(d))
CRest(n, d) == n - CQuotient(n, d) * d

knum_divided(x, y) == OnSame(x, y, LAMBDA a, b, t :
    IF kfast_zerop(b) THEN Error
    ELSE IF t = TFixint /\ CRest(a[2], b[2]) = 0 /\ kfit_int32_t(CQuotient(a[2], b[2]))
    THEN Fixint(CQuotient(a[2], b[2]))
    ELSE IF t <= TBigrat THEN kbigrat_try_integer(mp_rat_div(AsBigrat(a), AsBigrat(b)))
    ELSE IF t = TDouble THEN Strictly(DDivided(a, b), a # DZero)
    ELSE IF t >= TRwnpv THEN arith_return(IF t = TRwnpv THEN RWNPV ELSE Undefined)
    ELSE IF IsInf(a) /\ IsInf(b) THEN Error
    ELSE IF IsInf(a) THEN Infinity(t, knum_same_signp(a, b))
    ELSE IF t = TEInf THEN Fixint(0) ELSE DZero)

knum_abs(v) ==
    CASE IsFixint(v) /\ v[2] # MinFix -> Fixint(Abs(v[2]))
      [] IsBigint(v) \/ v = Fixint(MinFix) -> kbigint_abs(AsBigint(v))
      [] IsBigrat(v) -> <<"bigrat", mp_rat_abs(v[2])>>
      [] IsDouble(v) -> DAbs(v)
      [] IsInf(v) -> Infinity(ttype(v), TRUE)
      [] v = RWNPV -> arith_return(RWNPV)
      [] v = Undefined -> Error

\* Of numbers of the machine: both lose their factors of 2, then the greater the less.
RECURSIVE Odd(_)
Odd(n) == IF n % 2 = 1 THEN n ELSE Odd(n \div 2)

RECURSIVE OddGcd(_, _)
OddGcd(a, b) == IF a = 0 THEN b
                ELSE IF b = 0 THEN a
                ELSE IF Odd(a) < Odd(b) THEN OddGcd(Odd(a), (Odd(b) - Odd(a)) \div 2)
                ELSE OddGcd((Odd(a) - Odd(b)) \div 2, Odd(b))

RECURSIVE PositiveGcd(_, _)
PositiveGcd(a, b) == IF a % 2 = 0 /\ b % 2 = 0 THEN 2 * PositiveGcd(a \div 2, b \div 2)
                     ELSE OddGcd(a, b)

kgcd32_64(a, b) == IF a = 0 \/ b = 0 THEN Abs(a) + Abs(b) ELSE PositiveGcd(Abs(a), Abs(b))
klcm32_64(a, b) == (Abs(a) \div kgcd32_64(a, b)) * Abs(b)

SameGcd(a, b, t) ==
    IF t = TFixint /\ kfit_int32_t(kgcd32_64(a[2], b[2])) THEN Fixint(kgcd32_64(a[2], b[2]))
    ELSE IF t <= TBigint THEN kbigint_gcd(AsBigint(a), AsBigint(b))
    ELSE IF kfast_zerop(b) \/ ~IsInf(a) THEN knum_abs(a)
    ELSE IF kfast_zerop(a) \/ ~IsInf(b) THEN knum_abs(b)
    ELSE Infinity(t, TRUE)

SameLcm(a, b, t) ==
    IF kfast_zerop(a) \/ kfast_zerop(b) THEN arith_return(RWNPV)
    ELSE IF t >= TRwnpv THEN Error     \* the lcm so far has no primary value
    ELSE IF t = TFixint /\ kfit_int32_t(klcm32_64(a[2], b[2])) THEN Fixint(klcm32_64(a[2], b[2]))
    ELSE IF t <= TBigint THEN kbigint_lcm(AsBigint(a), AsBigint(b))
    ELSE Infinity(t, TRUE)

\* The two of them make doubles exact, and what comes of these inexact.
RECURSIVE knum_gcd_lcm(_, _, _)
knum_gcd_lcm(op, x, y) == OnSame(x, y, LAMBDA a, b, t :
    IF t = TDouble /\ (op = "gcd" \/ ~(kfast_zerop(a) \/ kfast_zerop(b)))
    THEN OnExact(a, b, LAMBDA p, q : knum_gcd_lcm(op, p, q))
    ELSE IF op = "gcd" THEN SameGcd(a, b, t) ELSE SameLcm(a, b, t))

------------------------------------------------------------------------------
(* Rationals                                                                *)

\* Of an exact number, or of the one that a double is.
OfExact(v, Of(_)) == IF IsDouble(v) THEN ToInexact(Of(kinexact_to_exact(v))) ELSE Of(v)

NumeratorOf(e) == IF IsBigrat(e) THEN kbigrat_numerator(e[2]) ELSE e
DenominatorOf(e) == IF IsBigrat(e) THEN kbigrat_denominator(e[2]) ELSE Fixint(1)

knum_numerator_denominator(v, op) ==
    OfExact(v, LAMBDA e : IF op = "numerator" THEN NumeratorOf(e) ELSE DenominatorOf(e))

knum_real_to_integer(v, mode) ==
    CASE IsEInteger(v) -> v
      [] IsBigrat(v) -> kbigrat_to_integer(v[2], mode)
      [] IsDouble(v) -> kdouble_to_integer(v, mode)
      [] IsInf(v) -> Error
      [] v = RWNPV -> arith_return(RWNPV)

SameSimplest(a, b, t) ==
    IF t <= TBigrat THEN kbigrat_simplest_rational(AsBigrat(a), AsBigrat(b))
    ELSE IF a = b THEN Error
    ELSE IF knegativep(a) /\ kpositivep(b) THEN IF t = TEInf THEN Fixint(0) ELSE DZero
    ELSE IF knegativep(a) THEN knum_real_to_integer(b, "floor")
    ELSE knum_real_to_integer(a, "ceiling")

SameRationalize(a, b, t) ==
    IF t <= TBigrat THEN kbigrat_rationalize(AsBigrat(a), AsBigrat(b))
    ELSE IF IsInf(a) /\ ~IsInf(b) THEN Error
    ELSE IF t = TEInf THEN Fixint(0) ELSE DZero

RECURSIVE knum_rational(_, _, _)
knum_rational(op, x, y) == OnSame(x, y, LAMBDA a, b, t :
    IF t >= TRwnpv \/ (op = "simplest-rational" /\ SameLess(b, a, t) # No) THEN Error
    ELSE IF t = TDouble THEN OnExact(a, b, LAMBDA p, q : knum_rational(op, p, q))
    ELSE IF op = "rationalize" THEN SameRationalize(a, b, t) ELSE SameSimplest(a, b, t))

------------------------------------------------------------------------------
(* div, mod and their like                                                  *)

\* The rest of the division of C, moved between low and high.
Adjusted(n, d, low, high) ==
    LET q == CQuotient(n, d)
        r == CRest(n, d)
        up == IF d < 0 THEN <<q + 1, r - d>> ELSE <<q - 1, r + d>>
        down == IF d < 0 THEN <<q - 1, r + d>> ELSE <<q + 1, r - d>>
    IN  IF r < low THEN up ELSE IF r >= high THEN down ELSE <<q, r>>

kfixint_div_mod(n, d) == Adjusted(n, d, 0, Abs(d))
kfixint_div0_mod0(n, d) == Adjusted(n, d, -(Abs(d) \div 2), (Abs(d) + 1) \div 2)

\* The quotient of two rationals is a Bigint that is read as if it were a Bigrat:
\* what lies behind it decides whether it is made a fixint that fits.
ReadAsBigrat(z) == {<<"bigint", z>>, kbigint_try_fixint(z)}

\* The outcomes: a quotient and a rest, or an error.
DivideSame(a, b, t, zero) ==
    LET small == MinFix + 3..MaxFix - 2
    IN  IF kfast_zerop(b) THEN {Error}
        ELSE IF t = TFixint /\ a[2] \in small /\ b[2] \in small
        THEN {With(IF zero THEN kfixint_div0_mod0(a[2], b[2]) ELSE kfixint_div_mod(a[2], b[2]),
                   LAMBDA w : <<Fixint(w[1]), Fixint(w[2])>>)}
        ELSE IF t <= TBigint
        THEN {With(IF zero THEN kbigint_div0_mod0(AsBigint(a), AsBigint(b))
                   ELSE kbigint_div_mod(AsBigint(a), AsBigint(b)),
                   LAMBDA w : <<kbigint_try_fixint(w.q), kbigint_try_fixint(w.r)>>)}
        ELSE IF t = TBigrat
        THEN With(IF zero THEN kbigrat_div0_mod0(AsBigrat(a), AsBigrat(b))
                  ELSE kbigrat_div_mod(AsBigrat(a), AsBigrat(b)),
                  LAMBDA w : {<<q, kbigrat_try_integer(w.r)>> : q \in ReadAsBigrat(w.q)})
        ELSE IF t = TDouble THEN {IF zero THEN kdouble_div0_mod0(a, b) ELSE kdouble_div_mod(a, b)}
        ELSE IF t = TRwnpv /\ ~strict THEN {<<RWNPV, RWNPV>>}
        ELSE {Error}     \* an infinity, with a finite number or another; or no primary value

kdiv_mod(x, y, zero) ==
    With(kensure_same_exactness(x, y), LAMBDA n :
         IF Failed(n) THEN {Error} ELSE DivideSame(n[1], n[2], max_ttype(n[1], n[2]), zero))

------------------------------------------------------------------------------
(* Lists of operands                                                        *)

All(l) == l.a \o l.c
Before(v, l) == [l EXCEPT !.a = <<v>> \o @]
Every(s, P(_)) == \A i \in DOMAIN s : P(s[i])
Each(l, P(_)) == Every(All(l), P)

Folded(Op(_, _), base, s) ==
    FoldLeft(LAMBDA acc, v : IF acc = Error THEN Error ELSE Op(acc, v), base, s)

\* The operands before the cycle and those in it each make one number, and these two
\* the result; Series is what the numbers of the cycle come to in the end.
Combined(l, Op(_, _), unit, Series(_, _)) ==
    With(Both(l.a, l.c, LAMBDA s : Folded(Op, unit, s)), LAMBDA w :
         IF Failed(w) THEN Error
         ELSE IF l.c = <<>> /\ ~IsNoPrimary(w[1]) THEN w[1]
         ELSE With(Series(l.c, w[2]), LAMBDA v : IF v = Error THEN Error ELSE Op(w[1], v)))

\* A cycle adds up to an infinity, unless all of it is zero.
SumOfCycle(c, cres) ==
    IF IsNoPrimary(cres) THEN cres
    ELSE IF ~kfast_zerop(cres)
    THEN Infinity(IF Every(c, IsExact) THEN TEInf ELSE TIInf, ~knegativep(cres))
    ELSE IF Every(c, kfast_zerop) THEN cres ELSE RWNPV

\* A cycle multiplies to nothing or to an infinity, unless all of it is one.
ProductOfCycle(c, cres) ==
    LET exact == Every(c, IsExact)
    IN  IF kfast_zerop(cres) THEN cres
        ELSE IF kfast_onep(cres)
        THEN IF ~Every(c, kfast_onep) THEN RWNPV ELSE IF exact THEN Fixint(1) ELSE DOne
        ELSE With(knum_ltp(cres, Fixint(1)), LAMBDA below :
             IF kpositivep(cres) /\ below = Yes THEN IF exact THEN Fixint(0) ELSE DZero
             ELSE IF below = Error THEN Error
             ELSE IF below = No THEN Infinity(IF exact THEN TEInf ELSE TIInf, TRUE)
             ELSE RWNPV)

kplus(l) == Combined(l, knum_plus, Fixint(0), SumOfCycle)
ktimes(l) == Combined(l, knum_times, Fixint(1), ProductOfCycle)

\* The first operand and the sum, or the product, of the others.
kminus(v, sum) == IF sum = Error THEN Error ELSE knum_minus(v, sum)
kdivided(v, product) == IF product = Error THEN Error ELSE knum_divided(v, product)

\* The operand itself is returned, exact or not.
kmin_max(l, min) ==
    Folded(LAMBDA res, v :
               With(IF min THEN <<v, res>> ELSE <<res, v>>, LAMBDA w :
               With(knum_ltp(w[1], w[2]), LAMBDA less :
                    IF less = Error THEN Error ELSE IF less = Yes THEN v ELSE res)),
           IF min THEN EPInf ELSE EMInf, All(l))

kgcd_lcm(op, l) ==
    LET finite == ~Each(l, LAMBDA v : IsInf(v) \/ kfast_zerop(v))
        base == IF op = "gcd" THEN Fixint(0) ELSE Fixint(1)
    IN  IF ~Each(l, kimp_intp) THEN Error
        ELSE IF op = "gcd" /\ All(l) = <<>> THEN EPInf
        ELSE With(Folded(LAMBDA x, y : knum_gcd_lcm(op, x, y), base, All(l)), LAMBDA res :
             IF res = Error \/ op = "lcm" THEN res
             ELSE IF finite THEN arith_return(res) ELSE arith_return(RWNPV))

\* Every operand and the next; in a cycle the last and the first too.
ftyped_kbpredp(l, Type(_), Pred(_, _)) ==
    LET s == IF l.c = <<>> THEN All(l) ELSE Append(All(l), l.c[1])
        results == {Pred(s[i], s[i + 1]) : i \in 1..Len(s) - 1}
    IN  IF ~Each(l, Type) \/ Error \in results THEN Error ELSE Truth(No \notin results)

ftyped_predp(l, Type(_), Pred(_)) == IF Each(l, Type) THEN Truth(Each(l, Pred)) ELSE Error
ftypep(l, Pred(_)) == Truth(Each(l, Pred))

------------------------------------------------------------------------------
(* Texts: sequences of characters; the name of a special number is one.      *)

RECURSIVE Digits(_, _)
Digits(n, radix) == (IF n < radix THEN <<>> ELSE Digits(n \div radix, radix))
                    \o <<s_val2ch(n % radix)>>

number_to_string(v, radix) ==
    CASE IsFixint(v) -> (IF v[2] < 0 THEN <<"-">> ELSE <<>>) \o Digits(Abs(v[2]), radix)
      [] IsBigint(v) -> mp_int_to_string(v[2], radix)
      [] IsBigrat(v) -> mp_rat_to_string(v[2], radix)
      [] IsDouble(v) -> IF radix = 10 THEN kdouble_print_string(v) ELSE Error
      [] OTHER -> v

kspecial_numbers == {EPInf, EMInf, IPInf, IMInf, RWNPV, Undefined}

\* An exactness and a radix, each at most once.  Of the exactness only "e" is exact.
RECURSIVE ReadPrefixes(_)
ReadPrefixes(w) ==
    LET c == w.s[2]
        rest == SubSeq(w.s, 3, Len(w.s))
        radix == CASE c \in {"b", "B"} -> 2 [] c \in {"o", "O"} -> 8
                   [] c \in {"d", "D"} -> 10 [] c \in {"x", "X"} -> 16 [] OTHER -> 0
    IN  IF ~Begins(w.s, "#") THEN w
        ELSE IF Len(w.s) > 1 /\ c \in {"e", "E", "i", "I"} /\ w.exactness = "default"
        THEN ReadPrefixes([w EXCEPT !.s = rest, !.exactness = IF c = "e" THEN "exact" ELSE "inexact"])
        ELSE IF Len(w.s) > 1 /\ radix # 0 /\ ~w.radixp
        THEN ReadPrefixes([w EXCEPT !.s = rest, !.radix = radix, !.radixp = TRUE])
        ELSE [w EXCEPT !.bad = TRUE, !.s = <<>>]

ReadWith(w) ==
    With(IF w.radix = 10 THEN krational_read_decimal(w.s)
         ELSE [decimal |-> FALSE, value |-> krational_read(w.radix, w.s)], LAMBDA d :
         IF d.value = NotRead THEN Error
         ELSE IF w.exactness = "inexact" \/ (w.exactness = "default" /\ d.decimal)
         THEN ToInexact(d.value) ELSE d.value)

string_to_number(s, radix) ==
    IF s \in kspecial_numbers THEN s
    ELSE With(ReadPrefixes([s |-> s, radix |-> radix, exactness |-> "default", radixp |-> FALSE,
                            bad |-> FALSE]), LAMBDA w :
              IF w.bad THEN Error ELSE ReadWith(w))

------------------------------------------------------------------------------
(* The calls                                                                *)

Init ==
    /\ strict = FALSE
    /\ call = [op |-> "none", args |-> <<>>]
    /\ out = <<"#inert">>

Call(op, args, res) ==
    /\ call' = [op |-> op, args |-> args]
    /\ out' = res
    /\ UNCHANGED strict

\* with-strict-arithmetic: a dynamic extent with another value.
WithStrictArithmetic ==
    /\ strict' \in BOOLEAN
    /\ UNCHANGED <<call, out>>

Arithmetic ==
    \E v \in Numbers, l \in Operands :
        \/ \E minus \in BOOLEAN :
              Call(IF minus THEN "-" ELSE "+", <<v, l>>,
                   With(kplus(IF minus THEN l ELSE Before(v, l)), LAMBDA sum :
                        IF minus THEN kminus(v, sum) ELSE sum))
        \/ \E divided \in BOOLEAN :
              Call(IF divided THEN "/" ELSE "*", <<v, l>>,
                   With(ktimes(IF divided THEN l ELSE Before(v, l)), LAMBDA product :
                        IF divided THEN kdivided(v, product) ELSE product))
        \/ \E min \in BOOLEAN : Call(IF min THEN "min" ELSE "max", <<v, l>>,
                                     kmin_max(Before(v, l), min))
        \/ \E op \in {"gcd", "lcm"} : Call(op, <<v, l>>, kgcd_lcm(op, Before(v, l)))

Comparison ==
    \E v \in Numbers, l \in Operands :
        LET s == Before(v, l)
        IN  \/ Call("=?", <<v, l>>, ftyped_kbpredp(s, knumber_wpvp, knum_eqp))
            \/ Call("<?", <<v, l>>, ftyped_kbpredp(s, knumber_wpvp, knum_ltp))
            \/ Call("<=?", <<v, l>>, ftyped_kbpredp(s, knumber_wpvp, knum_lep))
            \/ Call(">?", <<v, l>>, ftyped_kbpredp(s, knumber_wpvp, knum_gtp))
            \/ Call(">=?", <<v, l>>, ftyped_kbpredp(s, knumber_wpvp, knum_gep))

Predicate ==
    \E l \in Operands :
        \/ Call("number?", <<l>>, ftypep(l, LAMBDA v : TRUE))
        \/ Call("integer?", <<l>>, ftypep(l, kintegerp))
        \/ Call("exact-integer?", <<l>>, ftypep(l, IsEInteger))
        \/ Call("u8?", <<l>>, ftypep(l, ku8p))
        \/ Call("rational?", <<l>>, ftypep(l, krationalp))
        \/ Call("real?", <<l>>, ftypep(l, krealp))
        \/ Call("finite?", <<l>>, ftyped_predp(l, knumber_wpvp, LAMBDA v : ~IsInf(v)))
        \/ Call("zero?", <<l>>, ftyped_predp(l, knumber_wpvp, kfast_zerop))
        \/ Call("positive?", <<l>>, ftyped_predp(l, knumber_wpvp, kpositivep))
        \/ Call("negative?", <<l>>, ftyped_predp(l, knumber_wpvp, knegativep))
        \/ Call("odd?", <<l>>, ftyped_predp(l, kintegerp, koddp))
        \/ Call("even?", <<l>>, ftyped_predp(l, kintegerp, kevenp))
        \/ Call("exact?", <<l>>, ftyped_predp(l, LAMBDA v : TRUE, IsExact))
        \/ Call("inexact?", <<l>>, ftyped_predp(l, LAMBDA v : TRUE, IsInexact))

\* div returns the first of the two, mod the second, div-and-mod both.
DivisionWithRest ==
    \E x, y \in Numbers, zero \in BOOLEAN :
        /\ krealp(x) /\ krealp(y)
        /\ \E w \in kdiv_mod(x, y, zero) :
              Call(IF zero THEN "div0-and-mod0" ELSE "div-and-mod", <<x, y>>, w)

Rationals ==
    \/ \E v \in Numbers : /\ krationalp(v)
                          /\ \E op \in {"numerator", "denominator"} :
                                Call(op, <<v>>, knum_numerator_denominator(v, op))
    \/ \E x, y \in Numbers : /\ krealp(x) /\ krealp(y)
                             /\ \E op \in {"simplest-rational", "rationalize"} :
                                   Call(op, <<x, y>>, knum_rational(op, x, y))

Rounding ==
    \E v \in Numbers, mode \in {"floor", "ceiling", "truncate", "round"} :
        krealp(v) /\ Call(mode, <<v>>, knum_real_to_integer(v, mode))

Magnitude == \E v \in Numbers : Call("abs", <<v>>, knum_abs(v))

\* make-inexact ignores the bounds it is given.
Exactness ==
    \E v \in Numbers :
        /\ krealp(v)
        /\ \/ \E op \in {"real->inexact", "make-inexact"} : Call(op, <<v>>, ToInexact(v))
           \/ \E op \in {"real->exact", "get-real-exact-primary"} :
                 Call(op, <<v>>, kinexact_to_exact(v))
           \/ Call("get-real-internal-primary", <<v>>, IF v = RWNPV THEN Error ELSE v)
           \/ Call("get-real-exact-bounds", <<v>>,
                   IF IsExact(v) THEN <<v, v>> ELSE <<EMInf, EPInf>>)
           \/ Call("get-real-internal-bounds", <<v>>,
                   IF IsExact(v) THEN <<v, v>> ELSE <<IMInf, IPInf>>)

Writing == \E v \in Numbers, radix \in Radixes :
              Call("number->string", <<v, radix>>, number_to_string(v, radix))

Reading == \E s \in Texts, radix \in Radixes :
              Call("string->number", <<s, radix>>, string_to_number(s, radix))

Next == /\ call.op = "none"
        /\ \/ WithStrictArithmetic
           \/ Writing
           \/ Reading
           \/ Arithmetic
           \/ Comparison
           \/ Predicate
           \/ DivisionWithRest
           \/ Rationals
           \/ Rounding
           \/ Magnitude
           \/ Exactness

Spec == Init /\ [][Next]_vars

==============================================================================
