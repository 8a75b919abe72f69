------------------------------- MODULE KBigints ------------------------------
(***************************************************************************)
(* The big integers of IMath, digit by digit, and the conversion between   *)
(* them and the fixints, that are as wide as one digit.                    *)
(*                                                                         *)
(* A magnitude is a sequence of digits, the least first.  The buffers the  *)
(* C code passes to its loops are values here: what two of them share, and *)
(* the zeros above the digits that are used, are left out.                 *)
(***************************************************************************)
EXTENDS Integers, Sequences, FiniteSets, SequencesExt

CONSTANTS DigitBit,      \* MP_DIGIT_BIT: 32 in the code
          MultThreshold  \* MP_MULT_THRESH: 22 in the code

ASSUME DigitWidth == DigitBit \in Nat /\ DigitBit % 4 = 0 /\ DigitBit > 0
ASSUME Threshold == MultThreshold \in Nat /\ MultThreshold >= 4

MP_RADIX == 2 ^ DigitBit
MP_DIGIT_MAX == MP_RADIX - 1
MP_WORD_MAX == MP_RADIX * MP_RADIX - 1
UPPER_HALF(w) == w \div MP_RADIX
LOWER_HALF(w) == w % MP_RADIX

MaxFix == MP_RADIX \div 2 - 1
MinFix == -MaxFix - 1
kfit_int32_t(n) == n \in MinFix..MaxFix

Bigger(a, b) == IF a >= b THEN a ELSE b
Smaller(a, b) == IF a <= b THEN a ELSE b

\* F of a value that is computed once, and the two values F has of x and of y
\* (SubSeq makes TLC compute them once too).
With(v, F(_)) == F(v)
Both(x, y, F(_)) == SubSeq([i \in 1..2 |-> F(<<x, y>>[i])], 1, 2)

------------------------------------------------------------------------------
(* Magnitudes                                                               *)

Zeros(n) == [i \in 1..n |-> 0]
Digit(s, i) == IF i \in DOMAIN s THEN s[i] ELSE 0
Top(s) == s[Len(s)]
From(s, i) == SubSeq(s, i, Len(s))

\* d, with the digits of s over its own from position at + 1 on.
Written(d, at, s) ==
    [i \in DOMAIN d |-> IF i > at /\ i <= at + Len(s) THEN s[i - at] ELSE d[i]]

CLAMP(s) ==
    LET IsTop(n) == (n = 1 \/ s[n] # 0) /\ \A j \in n + 1..Len(s) : s[j] = 0
    IN  SubSeq(s, 1, CHOOSE n \in 1..Len(s) : IsTop(n))

\* A loop over n digits: the word at each of them is made with the half carried
\* from the word before it.  The carry out is one more digit, the last.
Halves(w) == <<LOWER_HALF(w), UPPER_HALF(w)>>

Carried(n, Word(_, _), carry) ==
    LET f[i \in 0..n] == IF i = 0 THEN <<carry>>
                         ELSE With(f[i - 1], LAMBDA s : Front(s) \o Halves(Word(i, Top(s))))
    IN  f[n]

s_cdig(a, b) ==
    LET top == CHOOSE i \in DOMAIN a : a[i] # b[i] /\ \A j \in i + 1..Len(a) : a[j] = b[j]
    IN  IF a = b THEN 0 ELSE IF a[top] > b[top] THEN 1 ELSE -1

s_ucmp(a, b) == IF Len(a) > Len(b) THEN 1
                ELSE IF Len(b) > Len(a) THEN -1 ELSE s_cdig(a, b)

\* The digits of a number of the machine that is not negative.
RECURSIVE s_vpack(_)
s_vpack(v) == IF v < MP_RADIX THEN <<v>>
              ELSE <<LOWER_HALF(v)>> \o s_vpack(UPPER_HALF(v))

\* Wrong variant: the carry is lost where the shorter number ends.
s_uadd_short(a, b) ==
    Carried(Bigger(Len(a), Len(b)),
            LAMBDA i, c : (IF i = Smaller(Len(a), Len(b)) + 1 THEN 0 ELSE c)
                          + Digit(a, i) + Digit(b, i), 0)

s_uadd(a, b) == Carried(Bigger(Len(a), Len(b)),
                        LAMBDA i, c : c + Digit(a, i) + Digit(b, i), 0)

\* A half carried of 1 says that there is no borrow.
s_usub(a, b) == Front(Carried(Len(a), LAMBDA i, c : MP_RADIX + a[i] - (1 - c)
                                                   - Digit(b, i), 1))

\* The product of a digit and b, added to the digits of d from k on.
MulRow(d, digit, b, k) == Carried(Len(b), LAMBDA j, c : digit * b[j] + c + d[k + j - 1], 0)

s_umul(a, b) ==
    LET f[k \in 0..Len(a)] ==
            IF k = 0 THEN Zeros(Len(a) + Len(b))
            ELSE With(f[k - 1], LAMBDA d :
                      IF a[k] = 0 THEN d ELSE Written(d, k - 1, MulRow(d, a[k], b, k)))
    IN  f[Len(a)]

\* The product of two parts each, of bot digits the lower ones: the products w of the
\* lower and of the higher ones, and, added in between, of the lower with the higher.
Joined(bot, w, inner, n) ==
    With(s_uadd(SubSeq(inner, 1, 2 * bot + 1), From(w[1], bot + 1)), LAMBDA mid :
         SubSeq(SubSeq(w[1], 1, bot) \o SubSeq(mid, 1, bot)
                \o s_uadd(From(mid, bot + 1), w[2]), 1, n))

\* Karatsuba: (a1 + a0)(b1 + b0) - a0b0 - a1b1 = a1b0 + a0b1.
RECURSIVE s_kmul(_, _)
s_kmul(a, b) ==
    LET bot == (Len(a) + 1) \div 2
        Parts(s) == <<SubSeq(s, 1, bot), From(s, bot + 1)>>
    IN  IF Len(b) > Len(a) THEN s_kmul(b, a)
        ELSE IF Len(a) < MultThreshold \/ Len(b) <= bot THEN s_umul(a, b)
        ELSE With(<<Parts(a), Parts(b)>>, LAMBDA p :
             With(<<s_kmul(p[1][1], p[2][1]), s_kmul(p[1][2], p[2][2])>>, LAMBDA w :
             With(Both(p[1], p[2], LAMBDA s : s_uadd(s[1], s[2])), LAMBDA t :
                  Joined(bot, w, s_usub(s_usub(s_kmul(t[1], t[2]), w[1]), w[2]),
                         Len(a) + Len(b)))))

\* Each product t of two digits that differ counts twice: the word may overflow.
Doubled(t, u) ==
    LET w == (t + t) % (MP_WORD_MAX + 1)
        v == (w + u) % (MP_WORD_MAX + 1)
        ov == t > MP_WORD_MAX \div 2 \/ MP_WORD_MAX - u < w
    IN  <<LOWER_HALF(v), UPPER_HALF(v) + IF ov THEN MP_RADIX ELSE 0>>

\* The digits from 2 * i - 1 on, with the products of digit i added to those of d.
SquareRow(a, d, i) ==
    LET w == a[i] * a[i] + d[2 * i - 1]
        g[j \in i..Len(a)] ==
            IF j = i THEN <<LOWER_HALF(w), UPPER_HALF(w)>>
            ELSE LET s == g[j - 1]
                 IN  Front(s) \o Doubled(a[i] * a[j], Top(s) + d[i + j - 1])
        rest == From(d, Len(a) + i)
    IN  With(g[Len(a)], LAMBDA s :
             Front(s) \o Front(Carried(Len(rest), LAMBDA k, c : c + rest[k], Top(s))))

s_usqr(a) ==
    LET f[i \in 0..Len(a)] ==
            IF i = 0 THEN Zeros(2 * Len(a))
            ELSE IF a[i] = 0 THEN f[i - 1]
            ELSE With(f[i - 1], LAMBDA d : Written(d, 2 * i - 2, SquareRow(a, d, i)))
    IN  f[Len(a)]

RECURSIVE s_ksqr(_)
s_ksqr(a) ==
    LET bot == (Len(a) + 1) \div 2
        Twice(s) == Carried(Len(s), LAMBDA i, c : 2 * s[i] + c, 0)
    IN  IF Len(a) <= MultThreshold THEN s_usqr(a)
        ELSE With(<<SubSeq(a, 1, bot), From(a, bot + 1)>>, LAMBDA p :
                  Joined(bot, Both(p[1], p[2], s_ksqr), Twice(s_kmul(p[1], p[2])), 2 * Len(a)))

s_dbmul(a, b) == Carried(Len(a), LAMBDA i, c : a[i] * b + c, 0)
NoZero(s) == IF Top(s) = 0 THEN Front(s) ELSE s
s_dmul(a, b) == NoZero(s_dbmul(a, b))
s_dadd(a, b) == NoZero(Carried(Len(a), LAMBDA i, c : a[i] + c, b))

s_ddiv(a, b) ==
    LET f[i \in 1..Len(a) + 1] ==
            IF i > Len(a) THEN [quotient |-> <<>>, rest |-> 0]
            ELSE LET w == f[i + 1].rest * MP_RADIX + a[i]
                 IN  [quotient |-> <<w \div b>> \o f[i + 1].quotient, rest |-> w % b]
    IN  [f[1] EXCEPT !.quotient = CLAMP(@)]

------------------------------------------------------------------------------
(* Shifts                                                                   *)

s_qdiv(z, p2) ==
    LET low == 2 ^ (p2 % DigitBit)
        Shifted(s) == [i \in DOMAIN s |->
                         s[i] \div low + LOWER_HALF(Digit(s, i + 1) * (MP_RADIX \div low))]
    IN  IF p2 \div DigitBit >= Len(z) THEN <<0>>
        ELSE CLAMP(Shifted(From(z, p2 \div DigitBit + 1)))

s_qmod(z, p2) ==
    LET start == p2 \div DigitBit + 1
    IN  IF start > Len(z) THEN z
        ELSE CLAMP([i \in 1..start |-> IF i < start THEN z[i]
                                       ELSE z[i] % 2 ^ (p2 % DigitBit)])

s_qmul(z, p2) ==
    IF p2 = 0 THEN z
    ELSE CLAMP(Zeros(p2 \div DigitBit)
               \o Carried(Len(z), LAMBDA i, c : z[i] * 2 ^ (p2 % DigitBit) + c, 0))

\* The number of the bit that is the lowest one set.
LowestBit(d) == CHOOSE k \in 0..DigitBit - 1 : d % 2 ^ k = 0 /\ d % 2 ^ (k + 1) # 0

s_dp2k(z) ==
    LET i == CHOOSE i \in DOMAIN z : z[i] # 0 /\ \A j \in 1..i - 1 : z[j] = 0
    IN  IF z = <<0>> THEN 1 ELSE (i - 1) * DigitBit + LowestBit(z[i])

s_isp2(z) ==
    IF \E i \in 1..Len(z) - 1 : z[i] # 0 THEN -1
    ELSE IF Top(z) = 0 THEN (Len(z) - 1) * DigitBit
    ELSE With(LowestBit(Top(z)), LAMBDA k :
              IF Top(z) = 2 ^ k THEN (Len(z) - 1) * DigitBit + k ELSE -1)

\* How far the divisor is shifted for its high bit to be set.
s_norm(b) == CHOOSE k \in 0..DigitBit - 1 : (Top(b) * 2 ^ k) \div (MP_RADIX \div 2) = 1

------------------------------------------------------------------------------
(* Long division.  r is the part of the dividend that is being divided, rest *)
(* the digits below it, q the digits of the quotient, the highest first.     *)

\* The estimate is t / btop: too large by a little, or made to fit a digit.
Estimate(r, b) ==
    With(IF Len(r) > 1 /\ Top(r) < Top(b) THEN Top(r) * MP_RADIX + r[Len(r) - 1] ELSE Top(r),
         LAMBDA pfx : Smaller(pfx \div Top(b), MP_DIGIT_MAX))

RECURSIVE Lowered(_, _, _, _)
Lowered(r, b, qdigit, t) ==
    IF s_ucmp(t, r) <= 0 THEN [qdigit |-> qdigit, t |-> t]
    ELSE Lowered(r, b, qdigit - 1, CLAMP(s_usub(t, b)))

Corrected(r, b, qdigit) == Lowered(r, b, qdigit, CLAMP(s_dbmul(b, qdigit)))

RECURSIVE Division(_, _, _, _, _)
Division(r, rest, b, q, skip) ==
    IF s_ucmp(b, r) <= 0
    THEN With(Corrected(r, b, Estimate(r, b)), LAMBDA c :
             Division(CLAMP(s_usub(r, c.t)), rest, b, Append(q, c.qdigit), 0))
    ELSE With(IF skip >= 1 /\ q # <<>> THEN Append(q, 0) ELSE q, LAMBDA zero :
              IF rest = <<>> THEN [q |-> zero, r |-> r]
              ELSE Division(CLAMP(<<Top(rest)>> \o r), Front(rest), b, zero, skip + 1))

s_udiv(a, b) ==
    With(s_norm(b), LAMBDA k :
    With(Both(a, b, LAMBDA z : s_qmul(z, k)), LAMBDA n :
    With(Division(<<Top(n[1])>>, Front(n[1]), n[2], <<>>, 0), LAMBDA w :
         [quotient |-> CLAMP(Reverse(w.q)), rest |-> s_qdiv(w.r, k)])))

------------------------------------------------------------------------------
(* Integers with a sign                                                     *)

Big(neg, digits) == [neg |-> neg, digits |-> digits]
Zero == Big(FALSE, <<0>>)
CMPZ(z) == IF z.digits = <<0>> THEN 0 ELSE IF z.neg THEN -1 ELSE 1
WithoutZeroSign(z) == IF z.digits = <<0>> THEN Zero ELSE z

\* The bigint of a fixint: s_fake, and the stack bigints of the interpreter.
s_fake(v) == Big(v < 0, s_vpack(IF v < 0 THEN -v ELSE v))

mp_int_abs(a) == [a EXCEPT !.neg = FALSE]
mp_int_neg(a) == IF CMPZ(a) = 0 THEN a ELSE [a EXCEPT !.neg = ~@]

\* a + b where their signs differ: the less is taken from the greater.
Difference(a, b, cmp) ==
    IF cmp = 0 THEN Zero
    ELSE With(IF cmp < 0 THEN <<b, a>> ELSE <<a, b>>, LAMBDA w :
              Big(w[1].neg, CLAMP(s_usub(w[1].digits, w[2].digits))))

mp_int_add(a, b) ==
    IF a.neg = b.neg THEN Big(a.neg, NoZero(s_uadd(a.digits, b.digits)))
    ELSE Difference(a, b, s_ucmp(a.digits, b.digits))

mp_int_sub(a, b) ==
    IF a.neg # b.neg THEN Big(a.neg, NoZero(s_uadd(a.digits, b.digits)))
    ELSE Difference(a, [b EXCEPT !.neg = ~@], s_ucmp(a.digits, b.digits))

mp_int_add_value(a, v) == mp_int_add(a, s_fake(v))
mp_int_sub_value(a, v) == mp_int_sub(a, s_fake(v))

mp_int_mul(a, b) ==
    IF CMPZ(a) = 0 \/ CMPZ(b) = 0 THEN Zero
    ELSE Big(a.neg # b.neg, CLAMP(s_kmul(a.digits, b.digits)))

mp_int_mul_value(a, v) == mp_int_mul(a, s_fake(v))
mp_int_mul_pow2(a, p2) == [a EXCEPT !.digits = s_qmul(@, p2)]
mp_int_sqr(a) == Big(FALSE, CLAMP(s_ksqr(a.digits)))

\* The divisor is not zero.
mp_int_div(a, b) ==
    With(s_ucmp(a.digits, b.digits), LAMBDA cmp :
         IF cmp < 0 THEN [q |-> Zero, r |-> a]
         ELSE IF cmp = 0 THEN [q |-> Big(a.neg # b.neg, <<1>>), r |-> Zero]
         ELSE With(With(s_isp2(b.digits), LAMBDA lg :
                        IF lg < 0 THEN s_udiv(a.digits, b.digits)
                        ELSE [quotient |-> s_qdiv(a.digits, lg), rest |-> s_qmod(a.digits, lg)]),
              LAMBDA w : [q |-> WithoutZeroSign(Big(a.neg # b.neg, w.quotient)),
                          r |-> WithoutZeroSign(Big(a.neg, w.rest))]))

mp_int_div_pow2(a, p2) ==
    [q |-> WithoutZeroSign([a EXCEPT !.digits = s_qdiv(@, p2)]),
     r |-> [a EXCEPT !.digits = s_qmod(@, p2)]]

mp_int_compare(a, b) ==
    IF a.neg # b.neg THEN IF a.neg THEN -1 ELSE 1
    ELSE (IF a.neg THEN -1 ELSE 1) * s_ucmp(a.digits, b.digits)

mp_int_compare_value(z, v) ==
    IF (v < 0) # z.neg THEN IF v < 0 THEN 1 ELSE -1
    ELSE (IF v < 0 THEN -1 ELSE 1) * s_ucmp(z.digits, s_fake(v).digits)

mp_int_is_odd(z) == z.digits[1] % 2 = 1
mp_int_count_bits(z) ==
    IF CMPZ(z) = 0 THEN 1
    ELSE (Len(z.digits) - 1) * DigitBit
         + CHOOSE k \in 1..DigitBit : Top(z.digits) \in 2 ^ (k - 1)..2 ^ k - 1

\* Squares and multiplies, by the bits of an exponent that is not negative.
RECURSIVE Power(_, _, _)
Power(c, t, bits) ==
    IF bits = <<>> THEN c
    ELSE With(IF bits[1] = 1 THEN mp_int_mul(c, t) ELSE c, LAMBDA d :
             IF Len(bits) = 1 THEN d ELSE Power(d, mp_int_sqr(t), Tail(bits)))

RECURSIVE Bits(_)
Bits(v) == IF v = 0 THEN <<>> ELSE <<v % 2>> \o Bits(v \div 2)

mp_int_expt_value(a, v) == Power(s_fake(1), s_fake(a), Bits(v))

\* Every bit of the digits below the top, then those of the top up to its last.
mp_int_expt_full(a, b) ==
    LET n == Len(b.digits)
        all == [i \in 1..(n - 1) * DigitBit |->
                  (b.digits[(i - 1) \div DigitBit + 1] \div 2 ^ ((i - 1) % DigitBit)) % 2]
    IN  Power(s_fake(1), a, all \o Bits(Top(b.digits)))

\* Stein: u and v lose their factors of 2, and the greater of them the other.
RECURSIVE GcdLoop(_, _, _)
GcdLoop(u, v, t) ==
    With(With([t EXCEPT !.digits = s_qdiv(@, s_dp2k(t.digits))], LAMBDA odd :
              IF CMPZ(odd) > 0 THEN <<odd, v>> ELSE <<u, mp_int_neg(odd)>>), LAMBDA w :
         With(mp_int_sub(w[1], w[2]), LAMBDA d :
              IF CMPZ(d) = 0 THEN mp_int_abs(w[1]) ELSE GcdLoop(w[1], w[2], d)))

\* Of two numbers that are not both zero.
mp_int_gcd(a, b) ==
    IF CMPZ(a) = 0 THEN mp_int_abs(b)
    ELSE IF CMPZ(b) = 0 THEN mp_int_abs(a)
    ELSE With(Smaller(s_dp2k(a.digits), s_dp2k(b.digits)), LAMBDA k :
         With(Both(a, b, LAMBDA z : Big(FALSE, s_qdiv(z.digits, k))), LAMBDA w :
              mp_int_mul_pow2(GcdLoop(w[1], w[2], IF mp_int_is_odd(w[1]) THEN mp_int_neg(w[2])
                                                  ELSE w[1]), k)))

mp_int_lcm(a, b) == mp_int_mul(mp_int_div(a, mp_int_gcd(a, b)).q, b)

------------------------------------------------------------------------------
(* Characters and machine numbers                                           *)

DigitChars == <<"0", "1", "2", "3", "4", "5", "6", "7", "8", "9", "a", "b", "c", "d", "e", "f">>
s_val2ch(v) == DigitChars[v + 1]
\* -1: not a digit in this radix.
s_ch2val(c, radix) ==
    IF \E v \in 0..radix - 1 : DigitChars[v + 1] = c
    THEN CHOOSE v \in 0..radix - 1 : DigitChars[v + 1] = c ELSE -1

RECURSIVE DigitsIn(_, _)
DigitsIn(s, radix) ==
    IF s = <<0>> THEN <<>>
    ELSE LET d == s_ddiv(s, radix)
         IN  DigitsIn(d.quotient, radix) \o <<s_val2ch(d.rest)>>

mp_int_to_string(z, radix) ==
    IF CMPZ(z) = 0 THEN <<"0">>
    ELSE (IF z.neg THEN <<"-">> ELSE <<>>) \o DigitsIn(z.digits, radix)

\* The number, and what of the characters is left.
RECURSIVE ReadDigits(_, _, _)
ReadDigits(z, radix, s) ==
    IF s = <<>> \/ s_ch2val(s[1], radix) < 0 THEN [z |-> CLAMP(z), rest |-> s]
    ELSE ReadDigits(s_dadd(s_dmul(z, radix), s_ch2val(s[1], radix)), radix, Tail(s))

mp_int_read_cstring(radix, s) ==
    LET signed == s # <<>> /\ s[1] \in {"-", "+"}
        w == ReadDigits(<<0>>, radix, IF signed THEN Tail(s) ELSE s)
    IN  [z |-> WithoutZeroSign(Big(signed /\ s[1] = "-", w.z)), rest |-> w.rest]

\* Wrong variant: the least fixint stays a big integer.
kbigint_try_fixint_symmetric(b) ==
    IF Len(b.digits) = 1 /\ b.digits[1] <= MaxFix
    THEN <<"fixint", IF b.neg THEN -b.digits[1] ELSE b.digits[1]>> ELSE <<"bigint", b>>

kbigint_try_fixint(b) ==
    LET n == IF b.neg THEN -b.digits[1] ELSE b.digits[1]
    IN  IF Len(b.digits) = 1 /\ kfit_int32_t(n) THEN <<"fixint", n>> ELSE <<"bigint", b>>

==============================================================================
