----------------------------- MODULE KNumbersLaws ----------------------------
(***************************************************************************)
(* What the calls of KNumbers must return: the arithmetic of the rationals *)
(* as TLA+ has it, and the laws of the operations.                         *)
(***************************************************************************)
EXTENDS KNumbers

------------------------------------------------------------------------------
(* What numbers are                                                         *)

RECURSIVE Sum(_)
Sum(digits) == IF digits = <<>> THEN 0 ELSE digits[1] + MP_RADIX * Sum(Tail(digits))
ValueOf(z) == IF z.neg THEN -Sum(z.digits) ELSE Sum(z.digits)

IsFinite(v) == v[1] \in {"fixint", "bigint", "bigrat", "double"}
Exact(v) == v[1] \in {"fixint", "bigint", "bigrat"}

\* The numerator and the denominator of a finite number.
P(v) == CASE IsFixint(v) \/ IsDouble(v) -> v[2]
          [] IsBigint(v) -> ValueOf(v[2])
          [] IsBigrat(v) -> ValueOf(v[2].num)
Q(v) == CASE IsFixint(v) \/ IsBigint(v) -> 1
          [] IsDouble(v) -> v[3]
          [] IsBigrat(v) -> ValueOf(v[2].den)
Is(v, p, q) == IsFinite(v) /\ P(v) * q = p * Q(v)

\* The greatest common divisor of two numbers that are not both zero.
RECURSIVE Euclid(_, _)
Euclid(a, b) == IF b = 0 THEN Abs(a) ELSE Euclid(b, Abs(a) % Abs(b))

\* Where the estimate of s_udiv goes wrong: a part of the dividend has one digit
\* more than the divisor, and the same first digit.  Both are shifted for the
\* divisor to begin with a bit that is set; a power of 2 does not come here.
Misdivides(a, b) ==
    LET k == s_norm(s_fake(Abs(b)).digits)
        n == Abs(a) * 2 ^ k
        d == Abs(b) * 2 ^ k
        digits == s_fake(d).digits
        unit == MP_RADIX ^ (Len(digits) - 1)
    IN  /\ Abs(a) > Abs(b) /\ s_isp2(digits) < 0
        /\ \E j \in 0..Len(s_fake(n).digits) - Len(digits) - 1 :
              ((n \div MP_RADIX ^ (j + 1)) % d) \div unit = Top(digits)

\* A fraction is reduced by two divisions.
Reduces(p, q) ==
    p = 0 \/ LET g == Euclid(p, q) IN g = 1 \/ ~(Misdivides(p, g) \/ Misdivides(q, g))

LowestTerms(v) == IsBigrat(v) => Q(v) > 1 /\ Euclid(P(v), Q(v)) = 1

------------------------------------------------------------------------------
(* Properties                                                               *)

\* Exact arithmetic is that of the rationals: the result is the sum, difference,
\* product or quotient, in lowest terms, whatever digits and signs the operands
\* have and whether they are fixints or not, and only division by zero fails.
\* (Where a division inside misdivides, which is excluded, it is not.)
ArithmeticIsExact ==
    LET x == call.args[1]
        y == call.args[2].a[1]
        p == IF call.op = "*" THEN P(x) * P(y)
             ELSE IF call.op = "/" THEN P(x) * Q(y)
             ELSE IF call.op = "+" THEN P(x) * Q(y) + P(y) * Q(x) ELSE P(x) * Q(y) - P(y) * Q(x)
        q == IF call.op = "/" THEN Q(x) * P(y) ELSE Q(x) * Q(y)
        g == IF call.op \in {"+", "-"} /\ Q(x) = Q(y) THEN Q(x) ELSE 1
    IN  call.op \in {"+", "-", "*", "/"} /\ Exact(x) /\ Len(call.args[2].a) = 1
        /\ call.args[2].c = <<>> /\ Exact(y)
        => IF q = 0 THEN out = Error
           ELSE Reduces(p \div g, q \div g) => Is(out, p, q) /\ Exact(out) /\ LowestTerms(out)

\* A rational is rounded to the integer next to it on the side that is asked for,
\* ties to even, and numbers that are integers to themselves.
RoundingIsExact ==
    LET v == call.args[1]
        down == P(v) \div Q(v)
        twice == 2 * (P(v) % Q(v))
        nearest == IF twice > Q(v) \/ (twice = Q(v) /\ down % 2 = 1) THEN down + 1 ELSE down
        up == IF twice = 0 THEN down ELSE down + 1
    IN  call.op \in {"floor", "ceiling", "truncate", "round"} /\ Exact(v)
        /\ ~Misdivides(P(v), Q(v))
        => Is(out, CASE call.op = "floor" -> down [] call.op = "ceiling" -> up
                     [] call.op = "truncate" -> (IF P(v) < 0 THEN up ELSE down)
                     [] call.op = "round" -> nearest, 1)

\* gcd and lcm of two integers, not zero, are the greatest divisor and the least
\* multiple they have in common, and positive.
DivisorsAreGreatest ==
    LET x == call.args[1]
        y == call.args[2].a[1]
        g == Euclid(P(x), P(y))
    IN  call.op \in {"gcd", "lcm"} /\ IsEInteger(x) /\ Len(call.args[2].a) = 1
        /\ call.args[2].c = <<>> /\ IsEInteger(y) /\ P(x) # 0 /\ P(y) # 0
        => IF call.op = "gcd" THEN Is(out, g, 1)
           ELSE ~Misdivides(P(x), g) => Is(out, (Abs(P(x)) \div g) * Abs(P(y)), 1)

\* The simplest rational between two others lies between them, and no number with
\* a smaller denominator, or with the same and nearer to zero, does.
SimplestIsLeast ==
    LET x == call.args[1]
        y == call.args[2]
        Between(p, q) == P(x) * q <= p * Q(x) /\ p * Q(y) <= P(y) * q
    IN  call.op = "simplest-rational" /\ Exact(x) /\ Exact(y) /\ out # Error
        => /\ Exact(out) /\ Between(P(out), Q(out))
           /\ \A q \in 1..Q(out), p \in -Abs(P(out))..Abs(P(out)) :
                 Between(p, q) => q = Q(out) /\ Abs(p) = Abs(P(out))

\* All of these.
ResultsAreExact == ArithmeticIsExact /\ RoundingIsExact /\ DivisorsAreGreatest /\ SimplestIsLeast

\* One number has one representation: fixints are the integers that fit, big
\* integers are the others, without zeros above their digits, and rationals have
\* a denominator other than 1.  eq?, equal? and the keys of tables rely on it.
\* (The quotient of rationals, the simplest rational between two that are equal,
\* as x + y and x - y are in rationalize if y is 0, and what is made exact of a
\* double that has a digit of ones, are known to break it.)
CanonicalNumber(v) ==
    /\ IsFixint(v) => kfit_int32_t(v[2])
    /\ IsBigint(v) => ~kfit_int32_t(ValueOf(v[2])) /\ Top(v[2].digits) # 0
    /\ IsBigrat(v) => /\ Q(v) > 1 /\ Top(v[2].num.digits) # 0 /\ Top(v[2].den.digits) # 0
    /\ IsDouble(v) => v \in {Rounded(v[2], v[3])}

AllOnes(v) == IsDouble(v) /\ \E i \in DOMAIN s_fake(Abs(v[2])).digits :
                                s_fake(Abs(v[2])).digits[i] = MP_DIGIT_MAX
KnownToBreak ==
    \/ /\ call.op = "simplest-rational" /\ Exact(call.args[1]) /\ Exact(call.args[2])
       /\ P(call.args[1]) * Q(call.args[2]) = P(call.args[2]) * Q(call.args[1])
    \/ call.op = "rationalize" /\ Exact(call.args[2]) /\ P(call.args[2]) = 0
    \/ call.op \in {"real->exact", "get-real-exact-primary"} /\ AllOnes(call.args[1])
ManyNumbers == {"div-and-mod", "div0-and-mod0", "get-real-exact-bounds", "get-real-internal-bounds"}

Canonical == call.op \notin ManyNumbers /\ ~KnownToBreak /\ IsFinite(out) => CanonicalNumber(out)

\* The quotient is an integer, the dividend is the quotient times the divisor and
\* the rest, and the rest is from 0 on below the divisor's magnitude, or for
\* div0 within half of it.  (For exact numbers; not where a division misdivides,
\* nor for a rational that is negative and a multiple of the divisor.)
DivModLaw ==
    LET n == call.args[1]
        d == call.args[2]
        q == out[1]
        r == out[2]
        size == Abs(P(d)) * Q(r)              \* |d| and r with the same denominator
        rest == P(r) * Q(d)
        np == P(n) * Q(d)                     \* n / d = np / dp
        dp == P(d) * Q(n)
        g == Euclid(np, dp)
        rational == IsBigrat(n) \/ IsBigrat(d)
        divides == /\ ~Misdivides(np, dp)
                   /\ rational => /\ Reduces(np, dp)
                                  /\ Reduces(((np - P(q) * dp) \div g) * P(d), (dp \div g) * Q(d))
        multiple == rational /\ call.op = "div-and-mod" /\ P(n) < 0 /\ np % Abs(dp) = 0
    IN  call.op \in {"div-and-mod", "div0-and-mod0"} /\ Exact(n) /\ Exact(d) /\ P(d) # 0
        /\ divides /\ ~multiple
        => /\ Is(r, P(n) * Q(d) - P(q) * P(d) * Q(n), Q(n) * Q(d)) /\ Q(q) = 1
           /\ IF call.op = "div-and-mod" THEN 0 <= rest /\ rest < size
              ELSE -size <= 2 * rest /\ 2 * rest < size

\* A division of two integers leaves the quotient and the rest, as the comment before
\* s_udiv says, whatever their digits are.
DivisionIsExact ==
    LET n == call.args[1]
        d == call.args[2]
    IN  call.op = "div-and-mod" /\ IsEInteger(n) /\ IsEInteger(d) /\ P(d) # 0
        => P(n) = P(out[1]) * P(d) + P(out[2]) /\ 0 <= P(out[2]) /\ P(out[2]) < Abs(P(d))

\* Comparisons order the numbers by what they are, the infinities at the ends,
\* across all representations; exact numbers are compared with inexact ones as the
\* doubles they become.
Order(v) == CASE v \in {EMInf, IMInf} -> <<-1, 0>> [] v \in {EPInf, IPInf} -> <<1, 0>>
              [] OTHER -> <<P(v), Q(v)>>
Less(x, y) == Order(x)[1] * Order(y)[2] < Order(y)[1] * Order(x)[2]
              \/ (Order(x) # Order(y) /\ (Order(x) = <<-1, 0>> \/ Order(y) = <<1, 0>>))

ComparesValues ==
    call.op \in {"=?", "<?", "<=?", ">?", ">=?"} /\ Len(call.args[2].a) = 1
    /\ call.args[2].c = <<>> /\ out # Error
    => With(kensure_same_exactness(call.args[1], call.args[2].a[1]), LAMBDA n :
            LET less == Less(n[1], n[2])
                more == Less(n[2], n[1])
            IN  out = Truth(CASE call.op = "=?" -> ~less /\ ~more
                              [] call.op = "<?" -> less
                              [] call.op = "<=?" -> ~more
                              [] call.op = ">?" -> more
                              [] call.op = ">=?" -> ~less))

\* What is written is read again as the number it was written for, in every radix;
\* of a double, no other double is nearer to what is written.
ReadsBack ==
    call.op = "number->string" /\ out # Error =>
        IF IsDouble(call.args[1])
        THEN LET i == CHOOSE i \in DOMAIN out : out[i] = "."
                 digits == SelectSeq(out, LAMBDA c : c # ".")
                 p == ValueOf(mp_int_read_cstring(10, digits).z)
             IN  Rounded(p, 10 ^ (Len(out) - i)) = call.args[1]
        ELSE string_to_number(out, call.args[2]) = call.args[1]

==============================================================================
