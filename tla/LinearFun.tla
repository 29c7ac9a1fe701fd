----------------------------- MODULE LinearFun -----------------------------
(***************************************************************************)
(* The piecewise linear functions that every skill is made of              *)
(* (src/taikorank/linear_fun.c), and the conversion to an int.  A function *)
(* is the sequence of the points <<x, y>> of its YAML vector; its values   *)
(* are in fixed point, rounded down.                                       *)
(***************************************************************************)
EXTENDS Integers, Sequences, FiniteSets, FiniteSetsExt

Infinity == 1000000000 \* ERROR_VAL, out of the bounds of all the functions

\* find_interval_linear: 0 is none.
Interval(f, x) ==
  LET after == {i \in 2..Len(f) : x <= f[i][1]}
  IN IF x < f[1][1] \/ after = {} THEN 0 ELSE Min(after) - 1
LfEval(f, x) ==
  LET i == Interval(f, x)
  IN IF i = 0 THEN Infinity
     ELSE f[i][2] + ((x - f[i][1]) * (f[i + 1][2] - f[i][2])) \div (f[i + 1][1] - f[i][1])

Trunc(a, b) == IF a >= 0 THEN a \div b ELSE -((-a) \div b) \* (int) a/b, b > 0
=============================================================================
