------------------------------ MODULE KRationals -----------------------------
(***************************************************************************)
(* The big rationals of IMath over the big integers, and the operations    *)
(* the interpreter makes of both for its exact numbers.                    *)
(*                                                                         *)
(* An exact number is <<"fixint", n>>, <<"bigint", b>> or <<"bigrat", r>>, *)
(* with b an integer of KBigints and r a record of two.                    *)
(***************************************************************************)
EXTENDS KBigints

Rat(num, den) == [num |-> num, den |-> den]
One == s_fake(1)
IntRat(z) == Rat(z, One)

\* A numerator and a denominator that is positive.
Signed(n, d) == Rat([n EXCEPT !.neg = n.neg # d.neg], mp_int_abs(d))

s_rat_reduce(r) ==
    IF CMPZ(r.num) = 0 THEN Rat(r.num, One)
    ELSE With(mp_int_gcd(r.num, r.den), LAMBDA g :
              IF mp_int_compare_value(g, 1) = 0 THEN Signed(r.num, r.den)
              ELSE With(Both(r.num, r.den, LAMBDA z : mp_int_div(z, g).q), LAMBDA w :
                        Signed(w[1], w[2])))

\* The products of two pairs of integers.
Products(x, y) == Both(x, y, LAMBDA w : mp_int_mul(w[1], w[2]))

s_rat_combine(a, b, Op(_, _)) ==
    With(IF mp_int_compare(a.den, b.den) = 0 THEN <<<<a.num, b.num>>, a.den>>
         ELSE <<Products(<<a.num, b.den>>, <<b.num, a.den>>), mp_int_mul(a.den, b.den)>>,
         LAMBDA w : s_rat_reduce(Rat(Op(w[1][1], w[1][2]), w[2])))

ReducedPair(w) == s_rat_reduce(Rat(w[1], w[2]))
mp_rat_set_value(n, d) == s_rat_reduce(Rat(s_fake(n), s_fake(d)))
mp_rat_add(a, b) == s_rat_combine(a, b, mp_int_add)
mp_rat_sub(a, b) == s_rat_combine(a, b, mp_int_sub)
mp_rat_mul(a, b) == ReducedPair(Products(<<a.num, b.num>>, <<a.den, b.den>>))
mp_rat_div(a, b) == ReducedPair(Products(<<a.num, b.den>>, <<a.den, b.num>>))
mp_rat_add_int(a, z) == s_rat_reduce([a EXCEPT !.num = mp_int_add(@, mp_int_mul(z, a.den))])
mp_rat_sub_int(a, z) == s_rat_reduce([a EXCEPT !.num = mp_int_sub(@, mp_int_mul(z, a.den))])
mp_rat_mul_int(a, z) == s_rat_reduce([a EXCEPT !.num = mp_int_mul(@, z)])
mp_rat_div_int(a, z) == s_rat_reduce([a EXCEPT !.den = mp_int_mul(@, z)])
mp_rat_abs(a) == [a EXCEPT !.num = mp_int_abs(@)]
mp_rat_neg(a) == [a EXCEPT !.num = mp_int_neg(@)]

\* The signs are exchanged with the numbers, and then once more.
mp_rat_recip(a) == Rat([a.den EXCEPT !.neg = a.num.neg], [a.num EXCEPT !.neg = a.den.neg])

mp_rat_compare_unsigned(a, b) ==
    IF s_ucmp(a.den.digits, b.den.digits) = 0 THEN s_ucmp(a.num.digits, b.num.digits)
    ELSE With(Products(<<a.num, b.den>>, <<b.num, a.den>>), LAMBDA w :
              s_ucmp(w[1].digits, w[2].digits))

mp_rat_compare(a, b) ==
    IF a.num.neg # b.num.neg THEN IF a.num.neg THEN -1 ELSE 1
    ELSE (IF a.num.neg THEN -1 ELSE 1) * mp_rat_compare_unsigned(a, b)

mp_rat_compare_zero(a) == CMPZ(a.num)
mp_rat_is_integer(a) == mp_int_compare_value(a.den, 1) = 0

------------------------------------------------------------------------------
(* Reading and writing                                                      *)

mp_rat_to_string(r, radix) ==
    mp_int_to_string(r.num, radix)
    \o IF CMPZ(r.num) = 0 THEN <<>> ELSE <<"/">> \o mp_int_to_string(r.den, radix)

\* What a reader answers: whether it understood, the number, what is left.
Read(result, r, rest) == [result |-> result, r |-> r, rest |-> rest]
OkIfAll(rest) == IF rest = <<>> THEN "ok" ELSE "truncated"
Begins(s, c) == s # <<>> /\ s[1] = c

\* After a numerator and what follows it, its denominator.
ReadDenominator(n, d) ==
    IF d.rest # <<>> THEN Read("truncated", Rat(n, d.z), d.rest)
    ELSE IF CMPZ(d.z) = 0 THEN Read("undefined", Rat(n, d.z), d.rest)
    ELSE Read("ok", s_rat_reduce(Rat(n, d.z)), d.rest)

mp_rat_read_cstring(radix, s) ==
    With(mp_int_read_cstring(radix, s), LAMBDA n :
         IF ~Begins(n.rest, "/") THEN Read(OkIfAll(n.rest), IntRat(n.z), n.rest)
         ELSE ReadDenominator(n.z, mp_int_read_cstring(radix, Tail(n.rest))))

RECURSIVE WithoutZeros(_, _)
WithoutZeros(z, radix) ==
    With(mp_int_div(z, s_fake(radix)), LAMBDA d :
         IF CMPZ(d.r) = 0 THEN WithoutZeros(d.q, radix) ELSE z)

RECURSIVE PowerFrom(_, _, _)
PowerFrom(p, radix, z) ==
    IF mp_int_compare(p, z) < 0 THEN PowerFrom(mp_int_mul_value(p, radix), radix, z) ELSE p

LeadingZeros(s) == Cardinality({i \in DOMAIN s : \A j \in 1..i : s[j] = "0"})

\* The part after the point is read as an integer.
WithFraction(radix, n, frac, zeros, neg) ==
    With(mp_int_mul(PowerFrom(s_fake(radix), radix, frac), mp_int_expt_value(radix, zeros)),
         LAMBDA power :
         s_rat_reduce(Rat([mp_int_add(mp_int_abs(mp_int_mul(n, power)), frac) EXCEPT !.neg = neg],
                          power)))

ReadFraction(radix, s, n, after, f) ==
    IF CMPZ(f.z) = 0 THEN Read(OkIfAll(f.rest), IntRat(n), f.rest)
    ELSE Read(OkIfAll(f.rest),
              WithFraction(radix, n, WithoutZeros(f.z, radix), LeadingZeros(after), s[1] = "-"),
              f.rest)

mp_rat_read_cdecimal(radix, s) ==
    With(mp_int_read_cstring(radix, s), LAMBDA n :
         LET after == Tail(n.rest)
         IN  IF ~Begins(n.rest, ".") THEN Read(OkIfAll(n.rest), IntRat(n.z), n.rest)
             ELSE IF after = <<>> THEN Read("ok", IntRat(n.z), after)
             ELSE IF after[1] \in {"+", "-"} THEN Read("truncated", IntRat(n.z), n.rest)
             ELSE ReadFraction(radix, s, n.z, after, mp_int_read_cstring(radix, after)))

mp_rat_read_ustring(radix, s) ==
    With(mp_rat_read_cstring(radix, s), LAMBDA w :
         IF w.result = "truncated" /\ Begins(w.rest, ".")
         THEN mp_rat_read_cdecimal(radix, s) ELSE w)

------------------------------------------------------------------------------
(* Exact numbers of the interpreter                                         *)

Fixint(n) == <<"fixint", n>>
IsFixint(v) == v[1] = "fixint"
IsBigint(v) == v[1] = "bigint"
IsBigrat(v) == v[1] = "bigrat"

\* kensure_bigint and kensure_bigrat
AsBigint(v) == IF IsFixint(v) THEN s_fake(v[2]) ELSE v[2]
AsBigrat(v) == IF IsBigrat(v) THEN v[2] ELSE IntRat(AsBigint(v))

kbigrat_try_integer(r) ==
    IF mp_rat_is_integer(r) THEN kbigint_try_fixint(r.num) ELSE <<"bigrat", r>>

kbigint_plus(a, b) == kbigint_try_fixint(mp_int_add(a, b))
kbigint_times(a, b) == kbigint_try_fixint(mp_int_mul(a, b))
kbigint_minus(a, b) == kbigint_try_fixint(mp_int_sub(a, b))
kbigint_gcd(a, b) == kbigint_try_fixint(mp_int_gcd(a, b))
kbigint_lcm(a, b) == kbigint_try_fixint(mp_int_abs(mp_int_lcm(a, b)))
kbigint_abs(a) == <<"bigint", mp_int_abs(a)>>

\* Wrong variant: the sign of the divisor is not looked at.
UpByDivisor(q, r, d) == [q |-> mp_int_sub_value(q, 1), r |-> mp_int_add(r, d)]

\* One divisor more or less in the rest, for one less or more in the quotient.
Up(q, r, d) == IF CMPZ(d) < 0 THEN [q |-> mp_int_add_value(q, 1), r |-> mp_int_sub(r, d)]
               ELSE [q |-> mp_int_sub_value(q, 1), r |-> mp_int_add(r, d)]
Down(q, r, d) == IF CMPZ(d) < 0 THEN [q |-> mp_int_sub_value(q, 1), r |-> mp_int_add(r, d)]
                 ELSE [q |-> mp_int_add_value(q, 1), r |-> mp_int_sub(r, d)]

kbigint_div_mod(n, d) ==
    With(mp_int_div(n, d), LAMBDA w : IF CMPZ(w.r) < 0 THEN Up(w.q, w.r, d) ELSE w)

kbigint_div0_mod0(n, d) ==
    With(mp_int_div(n, d), LAMBDA w :
         LET twice == mp_int_mul_pow2(w.r, 1)
         IN  IF mp_int_compare(twice, mp_int_abs(d)) >= 0 THEN Down(w.q, w.r, d)
             ELSE IF mp_int_compare(twice, mp_int_neg(mp_int_abs(d))) < 0 THEN Up(w.q, w.r, d)
             ELSE w)

\* n / d without its fraction, and what is left of n with a given quotient.
Truncated(div) == mp_int_div(div.num, div.den).q
RestOf(div, d, q) == mp_rat_mul(mp_rat_sub_int(div, q), d)

\* The quotient of a negative number is adjusted, whether there is a rest or not.
kbigrat_div_mod(n, d) ==
    With(mp_rat_div(n, d), LAMBDA div :
    With(IF CMPZ(n.num) >= 0 THEN Truncated(div)
         ELSE mp_int_add_value(Truncated(div), IF CMPZ(d.num) < 0 THEN 1 ELSE -1), LAMBDA q :
         [q |-> q, r |-> RestOf(div, d, q)]))

\* One step back adds the divisor to the rest.
RatStep(w, d, back) ==
    IF back THEN [q |-> mp_int_sub_value(w.q, 1), r |-> mp_rat_add(w.r, d)]
    ELSE [q |-> mp_int_add_value(w.q, 1), r |-> mp_rat_sub(w.r, d)]

InHalf(w, d, half) ==
    IF mp_rat_compare(w.r, half) >= 0 THEN RatStep(w, d, CMPZ(d.num) < 0)
    ELSE IF mp_rat_compare(w.r, mp_rat_neg(half)) < 0 THEN RatStep(w, d, CMPZ(d.num) >= 0)
    ELSE w

kbigrat_div0_mod0(n, d) ==
    With(mp_rat_div(n, d), LAMBDA div :
    With(Truncated(div), LAMBDA q :
         InHalf([q |-> q, r |-> RestOf(div, d, q)], d, mp_rat_abs(mp_rat_div_int(d, s_fake(2))))))

kbigrat_numerator(r) == kbigint_try_fixint(r.num)
kbigrat_denominator(r) == kbigint_try_fixint(r.den)

RoundsUp(q, cmp) == cmp > 0 \/ (cmp = 0 /\ mp_int_is_odd(q))

kbigrat_to_integer(r, mode) ==
    With(mp_int_div(mp_int_abs(r.num), r.den), LAMBDA w :
         LET neg == CMPZ(r.num) < 0
             q == IF neg THEN mp_int_neg(w.q) ELSE w.q
             away == \/ mode = "ceiling" /\ CMPZ(r.num) > 0 /\ CMPZ(w.r) # 0
                     \/ mode = "floor" /\ neg /\ CMPZ(w.r) # 0
                     \/ /\ mode = "round"
                        /\ RoundsUp(q, mp_int_compare(mp_int_mul_pow2(w.r, 1), r.den))
         IN  kbigint_try_fixint(IF ~away THEN q ELSE mp_int_add_value(q, IF neg THEN -1 ELSE 1)))

\* Of 0 < n1/d1 < n2/d2; the calls that wait are on the stack of the state.
RECURSIVE simplest(_, _, _, _)
simplest(n1, d1, n2, d2) ==
    With(mp_int_div(n1, d1), LAMBDA w1 :
         IF CMPZ(w1.r) = 0 THEN IntRat(w1.q)
         ELSE With(mp_int_div(n2, d2), LAMBDA w2 :
              IF mp_int_compare(w1.q, w2.q) # 0 THEN IntRat(mp_int_add_value(w1.q, 1))
              ELSE With(simplest(d2, w2.r, d1, w1.r), LAMBDA s :
                   mp_rat_div_int(mp_rat_add_int(mp_rat_mul_int(IntRat(w1.q), s.num), s.den),
                                  s.num))))

SimplestBetween(x, y) ==
    LET negative == mp_rat_compare_zero(y) < 0
        low == IF negative THEN mp_rat_neg(y) ELSE x
        high == IF negative THEN mp_rat_neg(x) ELSE y
        Negated(r) == IF negative THEN mp_rat_neg(r) ELSE r
    IN  IF mp_rat_compare_zero(low) <= 0 THEN IntRat(Zero)
        ELSE Negated(simplest(low.num, low.den, high.num, high.den))

\* Two numbers that are equal are returned as they came.
kbigrat_simplest_rational(a, b) ==
    With(mp_rat_compare(a, b), LAMBDA cmp :
         IF cmp = 0 THEN <<"bigrat", a>>
         ELSE kbigrat_try_integer(With(IF cmp > 0 THEN <<b, a>> ELSE <<a, b>>, LAMBDA w :
                                       SimplestBetween(w[1], w[2]))))

kbigrat_rationalize(a, b) == kbigrat_simplest_rational(mp_rat_sub(a, b), mp_rat_add(a, b))

------------------------------------------------------------------------------
(* Numbers the program writes                                               *)

IsSign(c) == c \in {"+", "-"}

\* A sign next to the first c of the characters.
SignNextTo(s, c) ==
    LET at == {i \in DOMAIN s : s[i] = c}
        i == CHOOSE i \in at : \A j \in at : i <= j
    IN  at # {} /\ \/ i < Len(s) /\ IsSign(s[i + 1])
                   \/ i > 1 /\ IsSign(s[i - 1])

NotRead == <<"not a number">>

kinteger_read(radix, s) ==
    With(mp_int_read_cstring(radix, s), LAMBDA w :
         IF w.rest = <<>> THEN kbigint_try_fixint(w.z) ELSE NotRead)

krational_read(radix, s) ==
    With(mp_rat_read_cstring(radix, s), LAMBDA w :
         IF w.result # "ok" \/ SignNextTo(s, "/") THEN NotRead ELSE kbigrat_try_integer(w.r))

\* r times 10 to the power z.
TimesPower(r, z, scale) ==
    IF CMPZ(z) < 0 THEN mp_rat_mul(r, mp_rat_recip(mp_rat_add_int(IntRat(Zero), scale)))
    ELSE mp_rat_mul_int(r, scale)

ReadExponent(r, expt) ==
    IF expt.rest # <<>> THEN NotRead
    ELSE kbigrat_try_integer(TimesPower(r, expt.z,
                                        mp_int_expt_full(s_fake(10), mp_int_abs(expt.z))))

\* An exponent comes only after a decimal point with a digit after it.
krational_read_decimal(s) ==
    With(mp_rat_read_ustring(10, s), LAMBDA w :
         LET used == SubSeq(s, 1, Len(s) - Len(w.rest))
             decimal == w.result # "undefined" /\ \E i \in DOMAIN used : used[i] = "."
             exponent == /\ decimal /\ w.result = "truncated" /\ Top(used) # "."
                         /\ w.rest[1] \in {"e", "s", "f", "d", "l"}
             pointLast == ~exponent /\ s # <<>> /\ Top(s) = "."
             slash == \E i \in DOMAIN s : s[i] = "/"
             refused == IF slash THEN SignNextTo(s, "/")
                        ELSE SignNextTo(s, ".") \/ pointLast
         IN  [decimal |-> decimal,
              value |-> IF refused THEN NotRead
                        ELSE IF exponent THEN ReadExponent(w.r, mp_int_read_cstring(10, Tail(w.rest)))
                        ELSE IF w.result # "ok" THEN NotRead
                        ELSE kbigrat_try_integer(w.r)])

==============================================================================
