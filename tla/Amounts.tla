------------------------------- MODULE Amounts -------------------------------
(***************************************************************************)
(* What the modules about prices share: Option and Decimal, as far as they *)
(* need them.                                                              *)
(***************************************************************************)
EXTENDS Integers, Sequences, FiniteSets

CONSTANT
    Off          \* None

Abs(x) == IF x < 0 THEN -x ELSE x
Larger(x, y) == IF x > y THEN x ELSE y
Smaller(x, y) == IF x < y THEN x ELSE y

\* Decimal::round_dp: to the nearest, and to the even one in the middle.
RoundHalfEven(n, d) ==
    LET q == n \div d
        r == 2 * (n % d)
    IN  IF r > d \/ (r = d /\ q % 2 = 1) THEN q + 1 ELSE q
=============================================================================
