------------------------------ MODULE EngineMath ------------------------------
(***************************************************************************)
(* The integer arithmetic of the settlement-engine contract.               *)
(***************************************************************************)
EXTENDS Integers

CONSTANTS FEE_BPS, BPS_DENOMINATOR

ASSUME FeeAssumption ==
    /\ BPS_DENOMINATOR \in Nat \ {0}
    /\ FEE_BPS \in 0 .. BPS_DENOMINATOR

\* Division of i128 values truncates toward zero.
Quot(a, b) == IF a >= 0 THEN a \div b ELSE -((-a) \div b)

Smaller(a, b) == IF a < b THEN a ELSE b

\* Mutant: the loop stops after one iteration.
isqrtOneStep(value) == IF value < 2 THEN value ELSE (value + 1) \div 2

\* Integer square root by Newton's method, from x = value down.
isqrt(value) ==
    LET newton[x \in Nat \ {0}] ==
          LET y == (x + value \div x) \div 2 IN IF y < x THEN newton[y] ELSE x
    IN  IF value < 2 THEN (IF value < 0 THEN 0 ELSE value) ELSE newton[value]

\* The protocol fee on an input of n.
Fee(n) == (n * FEE_BPS) \div BPS_DENOMINATOR

\* Mutant: the payout is rounded up.
AmountOutUp(n, r) == LET net == n - Fee(n) IN (net * r[2] + r[1] + net - 1) \div (r[1] + net)

\* What a swap of n pays against reserves r = <<reserve_in, reserve_out>>, net
\* of the fee.
AmountOut(n, r) == LET net == n - Fee(n) IN (net * r[2]) \div (r[1] + net)
=============================================================================
