------------------------------- MODULE MCNumbers ------------------------------
(* KNumbers with digits of 4 bits and doubles of 6.  The fixints are -8..7, so  *)
(* that numbers of two and three digits are small; the operands lie around the  *)
(* limits of a digit and of a fixint, and have common divisors of one and of    *)
(* two digits.                                                                  *)
EXTENDS KNumbersLaws

Integer(n) == IF kfit_int32_t(n) THEN Fixint(n) ELSE <<"bigint", s_fake(n)>>
Ratio(p, q) == <<"bigrat", Rat(s_fake(p), s_fake(q))>>

MCIntegers == {Integer(n) : n \in {-289, -256, -16, -9, -8, -7, -1, 0, 1, 2, 6, 7, 8, 15, 16, 17,
                                   100, 255, 257, 1000}}
MCRatios == {Ratio(-1, 2), Ratio(1, 2), Ratio(1, 3), Ratio(5, 3), Ratio(-7, 2), Ratio(17, 2),
             Ratio(5, 17), Ratio(256, 3), Ratio(-100, 51)}
MCDoubles == {<<"double", p, 1>> : p \in {-15, 0, 1, 3, 1008}}
             \cup {<<"double", p, q>> : p \in {-5, 1, 63}, q \in {2, 64}}
MCNumbers == MCIntegers \cup MCRatios \cup MCDoubles \cup kspecial_numbers

List(a, c) == [a |-> a, c |-> c]
MCOperands ==
    {List(<<v>>, <<>>) : v \in MCNumbers}
    \cup {List(<<>>, <<>>), List(<<Fixint(7), Integer(-9)>>, <<>>), List(<<Fixint(1), EPInf>>, <<>>)}
    \cup {List(<<>>, <<v>>) : v \in {Fixint(0), Fixint(1), Fixint(2), Fixint(-1), Ratio(1, 2), DOne,
                                     RWNPV, IMInf}}
    \cup {List(<<Fixint(3)>>, <<Fixint(2), v>>) : v \in {Ratio(1, 2), Fixint(-2), DZero}}

MCTexts == {<<"1", "2">>, <<"-", "9", "/", "6">>, <<"1", ".", "2", "5">>, <<"2", ".", "5", "e", "1">>,
            <<"2", ".", "5", "e", "-", "1">>, <<"#", "x", "f", "f">>, <<"#", "e", "0", ".", "5">>,
            <<"#", "i", "1", "/", "3">>, <<"1", "/", "0">>, <<"1", "2", "x">>, <<"#", "b", "1", "2">>,
            <<"1", "/", "-", "2">>, <<"1", ".">>, <<"#", "e", "#", "x", "1", "0">>, <<"#">>,
            <<"#", "b", "#", "o", "1">>, <<"0", ".", "0", "2">>, <<"#e+infinity">>, <<>>}

==============================================================================
