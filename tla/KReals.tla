-------------------------------- MODULE KReals -------------------------------
(***************************************************************************)
(* The inexact numbers: doubles, how exact numbers are made of them and    *)
(* they of exact numbers, and how they are written.                        *)
(*                                                                         *)
(* A finite double is <<"double", p, q>>: the fraction p / q in lowest     *)
(* terms, q a power of 2.  ktag_double makes infinities objects of their   *)
(* own and leaves no negative zero, so neither is a double here; the       *)
(* arithmetic of the machine (IEEE 754, to the nearest, ties to even) is   *)
(* that of a format with fewer bits.                                       *)
(***************************************************************************)
EXTENDS KRationals

CONSTANTS Precision,    \* bits of the significand: 53
          FractionBits, \* every double is a multiple of 2 ^ -FractionBits
          MaxExponent   \* and less than 2 ^ MaxExponent

ASSUME DoubleFormat == /\ Precision \in Nat \ {0} /\ MaxExponent \in Nat /\ FractionBits \in Nat
                       /\ DigitBit < Precision /\ Precision < MaxExponent

MinExponent == -FractionBits

EPInf == <<"#e+infinity">>
EMInf == <<"#e-infinity">>
IPInf == <<"#i+infinity">>
IMInf == <<"#i-infinity">>
RWNPV == <<"#real">>
Undefined == <<"#undefined">>
Error == <<"error">>

IsDouble(v) == v[1] = "double"
IsEInf(v) == v \in {EPInf, EMInf}
IsIInf(v) == v \in {IPInf, IMInf}
IsNoPrimary(v) == v \in {RWNPV, Undefined}
IsInexact(v) == IsDouble(v) \/ IsIInf(v) \/ IsNoPrimary(v)
IsExact(v) == ~IsInexact(v)

------------------------------------------------------------------------------
(* The machine's arithmetic                                                 *)

Abs(n) == IF n < 0 THEN -n ELSE n
Scaled(n, e) == IF e > 0 THEN n * 2 ^ e ELSE n

RECURSIVE Double(_, _)
Double(p, q) == IF q > 1 /\ p % 2 = 0 THEN Double(p \div 2, q \div 2)
                ELSE <<"double", p, q>>

HalfEven(n, d) ==
    LET q == n \div d
        r == 2 * (n % d)
    IN  IF r > d \/ (r = d /\ q % 2 = 1) THEN q + 1 ELSE q

DNeg(x) == IF IsDouble(x) THEN <<"double", -x[2], x[3]>>
           ELSE IF x = IPInf THEN IMInf ELSE IPInf
NegatedIf(neg, d) == IF neg THEN DNeg(d) ELSE d

\* ktag_double of the double nearest to p / q.
Rounded(p, q) ==
    LET fits == {e \in MinExponent..MaxExponent - Precision :
                    Scaled(Abs(p), -e) < Scaled(q, e) * 2 ^ Precision}
        AtScale(e, m) ==
            IF Scaled(m, e) >= Scaled(1, -e) * 2 ^ MaxExponent THEN IPInf
            ELSE Double(Scaled(m, e), Scaled(1, -e))
    IN  NegatedIf(p < 0, IF fits = {} THEN IPInf
                         ELSE With(CHOOSE e \in fits : \A f \in fits : e <= f, LAMBDA e :
                                   AtScale(e, HalfEven(Scaled(Abs(p), -e), Scaled(q, e)))))

\* Of finite doubles; y is not zero where it divides.
DPlus(x, y) == Rounded(x[2] * y[3] + y[2] * x[3], x[3] * y[3])
DMinus(x, y) == Rounded(x[2] * y[3] - y[2] * x[3], x[3] * y[3])
DTimes(x, y) == Rounded(x[2] * y[2], x[3] * y[3])
DDivided(x, y) == Rounded((IF y[2] < 0 THEN -x[2] ELSE x[2]) * y[3], x[3] * Abs(y[2]))
DLess(x, y) == x[2] * y[3] < y[2] * x[3]
DAbs(x) == <<"double", Abs(x[2]), x[3]>>
DZero == <<"double", 0, 1>>
DOne == <<"double", 1, 1>>
IsWhole(x) == x[3] = 1

\* fmod: exact, with the sign of the dividend.
Fmod(x, y) ==
    LET a == Abs(x[2]) * y[3]
        b == Abs(y[2]) * x[3]
        r == a % b
    IN  Double(IF x[2] < 0 THEN -r ELSE r, x[3] * y[3])

\* An infinity stays what it is when it is rounded or one more or less is asked.
Floor(x) == IF IsDouble(x) THEN Rounded(x[2] \div x[3], 1) ELSE x
Stepped(x, n) == IF IsDouble(x) THEN DPlus(x, <<"double", n, 1>>) ELSE x

------------------------------------------------------------------------------
(* Exact and inexact                                                        *)

Radix == <<"double", MP_RADIX, 1>>

\* The number so far and the next digit.
Horner(accum, digit) ==
    With(IF IsDouble(accum) THEN DTimes(accum, Radix) ELSE accum, LAMBDA shifted :
         IF IsDouble(shifted) THEN DPlus(shifted, <<"double", digit, 1>>) ELSE shifted)

kbigint_to_double(b) ==
    NegatedIf(b.neg, FoldRight(LAMBDA digit, accum : Horner(accum, digit), b.digits, DZero))

RECURSIVE Shrunk(_, _)
Shrunk(d, n) == IF n = 0 \/ ~IsDouble(d) THEN d ELSE Shrunk(DDivided(d, Radix), n - 1)

\* The digits of the fraction, until what they add is too small for a double.
RECURSIVE SumOfDigits(_, _, _)
SumOfDigits(rem, digit, accum) ==
    With(mp_int_div(rem.num, rem.den).q, LAMBDA int_part :
    With(kbigint_to_double(int_part), LAMBDA whole :
    With(Shrunk(whole, digit), LAMBDA di :
         IF mp_rat_compare_zero(rem) <= 0 \/ (whole # DZero /\ di = DZero) THEN accum
         ELSE SumOfDigits(mp_rat_mul_int(mp_rat_sub_int(rem, int_part), s_fake(MP_RADIX)),
                          digit + 1,
                          IF ~IsDouble(accum) THEN accum
                          ELSE IF ~IsDouble(di) THEN di ELSE DPlus(accum, di)))))

kbigrat_to_double(r) == NegatedIf(CMPZ(r.num) < 0, SumOfDigits(mp_rat_abs(r), 0, DZero))

kexact_to_inexact(v, strict) ==
    IF IsFixint(v) THEN <<"double", v[2], 1>>
    ELSE IF IsBigint(v) \/ IsBigrat(v)
    THEN With(IF IsBigint(v) THEN kbigint_to_double(v[2]) ELSE kbigrat_to_double(v[2]), LAMBDA d :
              IF strict /\ (d = DZero \/ ~IsDouble(d)) THEN Error ELSE d)
    ELSE IF v = EPInf THEN IPInf
    ELSE IF v = EMInf THEN IMInf
    ELSE v

\* A digit is loaded in two halves that are signed.
Loaded(id) == LET high == id - id \div 2
              IN  id \div 2 + (IF high > MaxFix THEN high - MP_RADIX ELSE high)

\* Of n = d, an integer that is not negative.
RECURSIVE DigitsOf(_, _)
DigitsOf(n, power) ==
    IF n = 0 THEN Zero
    ELSE mp_int_add(mp_int_mul_pow2(s_fake(Loaded(n % MP_RADIX)), power),
                    DigitsOf(n \div MP_RADIX, power + DigitBit))

SignedIf(neg, b) == IF neg THEN mp_int_neg(b) ELSE b
kdouble_to_bigint(n) == SignedIf(n < 0, DigitsOf(Abs(n), 0))

\* The fraction is not what is returned, but the simplest within half a unit.
kdouble_to_bigrat(d) ==
    LET den == s_fake(d[3])
        half_ulp == mp_rat_recip(IntRat(mp_int_mul_pow2(den, 1)))
    IN  With(mp_rat_div(IntRat(kdouble_to_bigint(Abs(d[2]))), IntRat(den)), LAMBDA res :
             kbigrat_rationalize(IF d[2] < 0 THEN mp_rat_neg(res) ELSE res, half_ulp))

kinexact_to_exact(v) ==
    IF IsDouble(v)
    THEN IF ~IsWhole(v) THEN kdouble_to_bigrat(v)
         ELSE IF kfit_int32_t(v[2]) THEN Fixint(v[2])
         ELSE <<"bigint", kdouble_to_bigint(v[2])>>
    ELSE IF v = IPInf THEN EPInf
    ELSE IF v = IMInf THEN EMInf
    ELSE IF IsNoPrimary(v) THEN Error
    ELSE v

------------------------------------------------------------------------------
(* Division and rounding                                                    *)

\* The quotient is already rounded down: it is too small once it is adjusted.
kdouble_div_mod(n, d) ==
    With(<<Floor(DDivided(n, d)), Fmod(n, d)>>, LAMBDA w :
         IF w[2][2] >= 0 THEN w
         ELSE IF d[2] < 0 THEN <<Stepped(w[1], 1), DMinus(w[2], d)>>
         ELSE <<Stepped(w[1], -1), DPlus(w[2], d)>>)

DoubleStep(w, d, n, add) == <<Stepped(w[1], n), IF add THEN DPlus(w[2], d) ELSE DMinus(w[2], d)>>

kdouble_div0_mod0(n, d) ==
    With(<<Floor(DDivided(n, d)), Fmod(n, d)>>, LAMBDA w :
    With(DDivided(DAbs(d), <<"double", 2, 1>>), LAMBDA dmax :
         IF DLess(w[2], DNeg(dmax))
         THEN IF d[2] < 0 THEN DoubleStep(w, d, 1, FALSE) ELSE DoubleStep(w, d, -1, TRUE)
         ELSE IF ~DLess(w[2], dmax)
         THEN IF d[2] < 0 THEN DoubleStep(w, d, 1, TRUE) ELSE DoubleStep(w, d, -1, FALSE)
         ELSE w))

kdouble_to_integer(d, mode) ==
    LET down == d[2] \div d[3]
    IN  Rounded(IF mode = "floor" \/ IsWhole(d) \/ (mode = "truncate" /\ d[2] > 0) THEN down
                ELSE IF mode \in {"ceiling", "truncate"} THEN down + 1
                ELSE IF d[2] < 0 THEN -HalfEven(-d[2], d[3]) ELSE HalfEven(d[2], d[3]), 1)

------------------------------------------------------------------------------
(* Writing a double: the digits that tell it from its neighbours             *)

Ten == s_fake(10)
Times10(z) == mp_int_mul_value(z, 10)
CeilingOfTenth(s) == mp_int_div(mp_int_add_value(s, 9), Ten).q

\* w: r, s, mm, mp and k.  First r grows to at least a tenth of s, ...
RECURSIVE Grown(_)
Grown(w) ==
    IF mp_int_compare(w.r, CeilingOfTenth(w.s)) >= 0 THEN w
    ELSE Grown([w EXCEPT !.k = @ - 1, !.r = Times10(@), !.mm = Times10(@), !.mp = Times10(@)])

\* ... then s until the number rounded up is less than it.
RECURSIVE Fitted(_)
Fitted(w) ==
    IF mp_int_compare(mp_int_add(mp_int_mul_value(w.r, 2), w.mp), mp_int_mul_value(w.s, 2)) < 0
    THEN w
    ELSE Fitted([w EXCEPT !.k = @ + 1, !.s = Times10(@)])

\* The neighbour below a power of 2 is nearer than the one above.
simple_fixup(f, w) ==
    LET Shift(z) == mp_int_mul_pow2(z, 1)
    IN  Fitted(Grown(IF mp_int_compare(f, mp_int_mul_pow2(One, Precision - 1)) # 0 THEN w
                     ELSE [w EXCEPT !.r = Shift(@), !.s = Shift(@), !.mp = Shift(@)]))

\* The digits from the first on, and the place of the last: low and high say that
\* the digit, or the one after it, is near enough.
LastDigit(digit, low, high, cmp) ==
    IF high /\ (low => cmp > 0 \/ (cmp = 0 /\ digit % 2 = 1)) THEN digit + 1 ELSE digit

RECURSIVE Generated(_, _)
Generated(w, digits) ==
    With([w EXCEPT !.mm = Times10(@), !.mp = Times10(@), !.k = @ - 1], LAMBDA x :
    With(mp_int_div(Times10(w.r), w.s), LAMBDA d :
    With(mp_int_mul_value(d.r, 2), LAMBDA twice :
    With(<<mp_int_compare(twice, x.mm) < 0,
           mp_int_compare(twice, mp_int_sub(mp_int_mul_value(w.s, 2), x.mp)) > 0>>, LAMBDA near :
         LET digit == d.q.digits[1]
         IN  IF near = <<FALSE, FALSE>>
             THEN Generated([x EXCEPT !.r = d.r], Append(digits, digit))
             ELSE [digits |-> Append(digits, LastDigit(digit, near[1], near[2],
                                                       mp_int_compare(twice, w.s))),
                   k |-> x.k]))))

\* h is the place of the first digit; d is positive.
dtoa(d) ==
    LET e == CHOOSE e \in MinExponent..MaxExponent :      \* frexp
                /\ Scaled(d[2], -e) < Scaled(d[3], e)
                /\ 2 * Scaled(d[2], -e) >= Scaled(d[3], e)
        f == s_fake(Scaled(d[2], Precision - e) \div (d[3] * Scaled(1, e - Precision)))
        unit == mp_int_mul_pow2(One, Abs(e - Precision))
        w == IF e >= Precision
             THEN [r |-> mp_int_mul_pow2(f, e - Precision), s |-> One, k |-> 0,
                   mm |-> unit, mp |-> unit]
             ELSE [r |-> f, s |-> unit, k |-> 0, mm |-> One, mp |-> One]
    IN  With(simple_fixup(f, w), LAMBDA fixed :
        With(Generated(fixed, <<>>), LAMBDA g :
             [digits |-> [i \in DOMAIN g.digits |-> s_val2ch(g.digits[i])],
              h |-> fixed.k - 1, k |-> g.k]))

\* Wrong variant: one zero too few.
NZeros_less(n) == [i \in 1..n - 1 |-> "0"]

NZeros(n) == [i \in 1..n |-> "0"]

kdouble_print_string(d) ==
    IF d = DZero THEN <<"0", ".", "0">>
    ELSE With(dtoa(DAbs(d)), LAMBDA w :
              (IF d[2] < 0 THEN <<"-">> ELSE <<>>)
              \o (IF w.h < 0 THEN <<"0", ".">> \o NZeros(-w.h - 1) \o w.digits
                  ELSE IF w.k >= 0 THEN w.digits \o NZeros(w.k) \o <<".", "0">>
                  ELSE SubSeq(w.digits, 1, w.h + 1) \o <<".">> \o From(w.digits, w.h + 2)))

==============================================================================
