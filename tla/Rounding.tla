------------------------------ MODULE Rounding ------------------------------
(* Python's round() of a quotient: to the nearest, and a half to the even.   *)
EXTENDS Integers

RoundHalfEven(n, d) ==
    LET down == n \div d
        rest == 2 * (n % d)
    IN  IF rest > d \/ (rest = d /\ down % 2 = 1) THEN down + 1 ELSE down
=============================================================================
