----------------------------- MODULE MCAlgorithms -----------------------------
(***************************************************************************)
(* Checks the algorithms against reference definitions, on inputs that     *)
(* Next walks through: the contract's integer arithmetic (EngineMath), the *)
(* form's conversions (SwapAmounts), key generation and threshold          *)
(* decryption (ThresholdMath); and the steps of the limiter (RateLimit).   *)
(***************************************************************************)
EXTENDS EngineMath, ThresholdMath, SwapAmounts, RateLimit

CONSTANTS MaxValue, MaxReserve,    \* bounds of the amounts and reserves
          Decimals, SlippageBps

Token == toBaseUnits([whole |-> 1, frac |-> <<>>], Decimals)[1]    \* its base units

\* DEFAULT_SLIPPAGE_BPS is 100.  The slippage is wider than the error of the
\* doubles and below one half, and the amounts are within their range.
ASSUME BoundsAssumption ==
    /\ MaxValue \in Nat /\ MaxReserve \in Nat
    /\ Decimals \in Nat
    /\ SlippageBps \in Nat
    /\ SlippageBps * Significands \in 40000 .. 5000 * Significands - 40000
    /\ \E p \in PowersOfTwo : p > 8 * (MaxValue + L) /\ p >= Token * Significands /\ p >= 10000 * Significands

VARIABLES n,          \* an amount, or the random scalar of an encryption
          r,          \* the reserves, or <<>>
          dealing     \* the dealers' polynomials, or <<>>

Dealings == [Participants -> [1 .. Threshold -> Scalar]]

Init ==
    /\ LimitInit
    /\ \/ n = 0 /\ r \in (1 .. MaxReserve) \X (1 .. MaxReserve) /\ dealing = <<>>
       \/ n = 1 /\ r = <<>> /\ dealing \in Dealings
       \/ n = 0 /\ r = <<>> /\ dealing = <<>>

Last == CASE r # <<>> -> MaxValue [] dealing # <<>> -> L - 1 [] OTHER -> 0
Next ==
    \/ n < Last /\ n' = n + 1 /\ UNCHANGED <<r, dealing, limitVars>>
    \/ Last = 0 /\ LimitNext /\ UNCHANGED <<n, r, dealing>>
Spec == Init /\ [][Next]_<<n, r, dealing, limitVars>>

------------------------------------------------------------------------------
\* isqrt returns the floor of the square root: the LP shares of a first deposit
\* are never more than the geometric mean of its amounts.
IsqrtIsFloorRoot == isqrt(n) * isqrt(n) <= n /\ n < (isqrt(n) + 1) * (isqrt(n) + 1)

\* quote_swap pays the largest amount that does not lower the reserve product
\* of the net input, and never the whole reserve.
AmountOutIsLargest ==
    r # <<>> =>
        LET net == n - Fee(n)
            KeepsProduct(out) == (r[1] + net) * (r[2] - out) >= r[1] * r[2]
        IN  /\ AmountOut(n, r) \in 0 .. r[2] - 1
            /\ \A out \in 0 .. r[2] : KeepsProduct(out) <=> out <= AmountOut(n, r)

\* What the form displays converts back to the same base units.  The minimum it
\* derives from an amount in doubles is positive and at most the amount, and
\* differs from the amount less the tolerated slippage by at most half a unit and
\* four parts in 2^53 of the amount; only an amount of 10^21 tokens has none.
FormAmountsAreExact ==
    LET minimum == applySlippage(n, SlippageBps, Decimals)
    IN  /\ toBaseUnits(fromBaseUnits(n, Decimals), Decimals) = <<n>>
        /\ minimum = <<>> => n >= FixedLimit * Token
        /\ minimum # <<>> =>
               LET off == 20000 * minimum[1] - 2 * n * (10000 - SlippageBps)
               IN  /\ n > 0 => minimum[1] \in 1 .. n
                   /\ \A d \in {off, -off} : (d - 10000) * Significands <= 80000 * n

------------------------------------------------------------------------------
(* The outcome of a dealing, when it has one.                               *)
Qual == Qualified(dealing)
Keyed == dealing # <<>> /\ CanFinalize(dealing, Qual)
Key(j) == KeyShare(dealing, Qual, j)

\* An honest dealer stays qualified but for a share that is zero, and then every
\* validator's secret share lies behind its public verification key: the last
\* check of finalize throws at nobody.
KeysMatchCommitments ==
    dealing # <<>> =>
        /\ Qual = {d \in DOMAIN dealing : \A j \in Participants : f(dealing[d], j) # 0}
        /\ \A j \in Participants : Key(j) = VerificationKey(dealing, Qual, j)

\* The proof of a correct share is accepted, whatever the prover's random
\* scalar and the hash, but for the one response that is not a scalar; the
\* same proof is never accepted for another point, the byzantine validator's.
ProofsAreExact ==
    Keyed => \A j \in Participants :
        LET y == Key(j) Y == VerificationKey(dealing, Qual, j)
        IN  \A k \in Scalar, c \in 0 .. L - 1 :
                LET ds == partialDecrypt(j, y, n, k, c)
                IN  /\ verifyDecryptionShare(ds, Y, n) <=> mod(k + c * y) # 0
                    /\ \A D \in Scalar : verifyDecryptionShare([ds EXCEPT !.share = D], Y, n) => D = ds.share

\* Any Threshold shares, in any order and with repetitions, combine to the point
\* that opens a ciphertext made for the group key, and only for its user.
AnyThresholdOpens ==
    Keyed =>
        LET ct == encryptOrder("order", GroupKey(dealing, Qual), "alice", n)
            shares == [j \in Participants |-> partialDecrypt(j, Key(j), n, 1, 1)]
        IN  \A s \in [1 .. Threshold + 1 -> Participants] :
                LET K == combineShares([p \in DOMAIN s |-> shares[s[p]]])
                IN  IF Cardinality({s[p] : p \in DOMAIN s}) < Threshold THEN K = <<>>
                    ELSE /\ decryptWithSharedPoint(ct, K[1], "alice") = <<"order">>
                         /\ decryptWithSharedPoint(ct, K[1], "bob") = <<>>
                         /\ \A X \in Scalar \ {K[1]} : decryptWithSharedPoint(ct, X, "alice") = <<>>
=============================================================================
