------------------------------ MODULE SwapAmounts ------------------------------
(***************************************************************************)
(* Conversions of the swap form (frontend/src/utils/numbers.ts).  A        *)
(* decimal amount is its whole part and the digits after the point.        *)
(***************************************************************************)
EXTENDS Integers, Sequences, FiniteSetsExt

CONSTANTS Significands,    \* a double's significand is below it: 2^53
          PowersOfTwo,     \* the powers of two within the range of a double
          FixedLimit       \* toFixed writes an exponent from here on: 10^21

ASSUME DoubleAssumption ==
    /\ Significands \in Nat /\ Significands >= 16
    /\ PowersOfTwo \subseteq Nat \ {0} /\ 1 \in PowersOfTwo
    /\ \A p \in PowersOfTwo \ {1} : \E h \in PowersOfTwo : p = 2 * h
    /\ FixedLimit \in Nat

\* Exact conversion to base units: the digits after the point are padded with
\* zeros and follow those before it.  <<>> when it throws.
toBaseUnits(amount, decimals) ==
    LET padded(k) == IF k <= Len(amount.frac) THEN amount.frac[k] ELSE 0
        units[k \in 0 .. decimals] == IF k = 0 THEN amount.whole ELSE 10 * units[k - 1] + padded(k)
    IN  IF Len(amount.frac) > decimals THEN <<>> ELSE <<units[decimals]>>

\* Back to a decimal, without trailing zeros; front[k] lacks the last k digits.
fromBaseUnits(units, decimals) ==
    LET front[k \in 0 .. decimals] == IF k = 0 THEN units ELSE front[k - 1] \div 10
        digit(k) == front[decimals - k] % 10
        n == Max({0} \cup {k \in 1 .. decimals : digit(k) # 0})
    IN  [whole |-> front[decimals], frac |-> [k \in 1 .. n |-> digit(k)]]

------------------------------------------------------------------------------
(* JavaScript numbers.  A double is a record [num, den], den a power of two.   *)

\* The whole number nearest to a / b, the even one of two.
RoundEven(a, b) ==
    LET low == a \div b
        twice == 2 * (a % b)
    IN  IF twice > b \/ (twice = b /\ low % 2 = 1) THEN low + 1 ELSE low

\* The double nearest to a / b: a / b is scaled by a power of two to lie between
\* Significands / 2 and Significands, rounded there and scaled back.
Double(a, b) ==
    LET coarser == CHOOSE p \in PowersOfTwo : a < p * b * Significands /\ (p = 1 \/ 2 * a >= p * b * Significands)
        finer == CHOOSE p \in PowersOfTwo : 2 * p * a >= b * Significands /\ (p = 1 \/ p * a < b * Significands)
    IN  IF a = 0 THEN [num |-> 0, den |-> 1]
        ELSE [num |-> coarser * RoundEven(finer * a, coarser * b), den |-> finer]

\* x - y, for x = 1, and x * y.  The quotient by a power of two is exact.
OneMinus(y) == Double(y.den - y.num, y.den)
Times(x, y) ==
    LET z == Double(x.num * y.num, 1)
    IN  [num |-> z.num, den |-> z.den * x.den * y.den]

\* Mutant: the digits after the last are cut off.
toFixedDown(x, token) == IF x.num >= FixedLimit * x.den THEN <<>> ELSE <<(x.num * token) \div x.den>>

\* x with the digits of one token, in base units: the nearest, the larger of two.
\* <<>> stands for the exponent of a large x, a string toBaseUnits throws at.
toFixed(x, token) ==
    IF x.num >= FixedLimit * x.den THEN <<>>
    ELSE <<(2 * x.num * token + x.den) \div (2 * x.den)>>

\* The minimum output for an input of n base units, in base units.
applySlippage(n, bps, decimals) ==
    LET token == toBaseUnits([whole |-> 1, frac |-> <<>>], decimals)[1]
        value == Double(n, token)
    IN  toFixed(Times(value, OneMinus(Double(bps, 10000))), token)
=============================================================================
