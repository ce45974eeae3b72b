------------------------------ MODULE Rounding ------------------------------
(***************************************************************************)
(* Python's arithmetic on whole numbers: round() of a quotient, which      *)
(* takes a half to the even neighbour, and the clamp and the steps the     *)
(* planners build from it.                                                 *)
(***************************************************************************)
EXTENDS Integers

(* round(n / d)                                                              *)
Round(n, d) ==
  LET q == n \div d
      r == 2 * (n % d)
  IN  IF r > d \/ (r = d /\ q % 2 = 1) THEN q + 1 ELSE q

Quantise(value, step) == IF step <= 0 THEN value ELSE Round(value, step) * step

Abs(n) == IF n < 0 THEN -n ELSE n

Lesser(m, n) == IF m < n THEN m ELSE n
Greater(m, n) == IF m > n THEN m ELSE n

Clamp(value, low, high) == Greater(low, Lesser(high, value))
=============================================================================
