----------------------------- MODULE ThresholdMath -----------------------------
(***************************************************************************)
(* The arithmetic of key generation and threshold decryption               *)
(* (backend/src/crypto/threshold.ts, dkg.ts) and the order cipher          *)
(* (crypto/orderCipher.ts), over a group of small prime order.             *)
(*                                                                         *)
(* A point is written as its logarithm to the base G: G is 1, the identity *)
(* is 0, adding points adds, multiplying by a scalar multiplies (mod L).   *)
(* SHA-512 is taken to be free of collisions: a DLEQ challenge stands for  *)
(* the list of points that was hashed.  HKDF and AES-GCM are ideal: a body *)
(* opens under the key and the associated data it was made with.           *)
(***************************************************************************)
EXTENDS Integers, Sequences, FiniteSetsExt

CONSTANTS L,               \* order of the group
          Participants,    \* the validators' share indices
          Threshold        \* shares needed, the number of coefficients

ASSUME PrimeOrder == L \in Nat \ {0, 1} /\ \A d \in 2 .. L - 1 : L % d # 0
ASSUME IndexRange ==
    /\ Participants \subseteq 1 .. L - 1
    /\ Threshold \in 1 .. Cardinality(Participants)

Scalar == 1 .. L - 1       \* what randomScalar and hexToScalar return
Identity == 0

mod(a) == a % L
SumOver(terms) == FoldFunction(LAMBDA t, acc : mod(acc + t), 0, terms)
ProductOver(factors) == FoldFunction(LAMBDA t, acc : mod(acc * t), 1, factors)

------------------------------------------------------------------------------
(* Dealing and deriving keys: dkg.ts.  A dealer's polynomial is the         *)
(* sequence of its coefficients; its commitments are the same points.       *)

f(coeffs, x) ==
    LET horner[k \in 1 .. Len(coeffs) + 1] ==
            IF k > Len(coeffs) THEN 0 ELSE mod(horner[k + 1] * x + coeffs[k])
    IN  horner[1]

\* Mutant: the powers start one too high.
evalCommitmentsShifted(C, j) == SumOver([k \in DOMAIN C |-> C[k] * j ^ k])

evalCommitments(C, j) ==
    LET sum[k \in 0 .. Len(C)] ==
            IF k = 0 THEN [acc |-> Identity, power |-> 1]
            ELSE [acc   |-> mod(sum[k - 1].acc + C[k] * sum[k - 1].power),
                  power |-> mod(sum[k - 1].power * j)]
    IN  sum[Len(C)].acc

\* A zero share is no scalar, so it never matches: its dealer is complained
\* about and cannot answer.
shareMatches(s, C, j) == s \in Scalar /\ s = evalCommitments(C, j)

\* The dealers that computePublicResult keeps when each sends, and publishes on
\* a complaint, what f gives; dealing[d] is d's polynomial.
Qualified(dealing) ==
    {d \in DOMAIN dealing : \A j \in Participants : shareMatches(f(dealing[d], j), dealing[d], j)}

GroupKey(dealing, qual) == SumOver([d \in qual |-> dealing[d][1]])
VerificationKey(dealing, qual, j) == SumOver([d \in qual |-> evalCommitments(dealing[d], j)])
KeyShare(dealing, qual, j) == SumOver([d \in qual |-> f(dealing[d], j)])

\* finalize returns a key at every participant: none of its checks throws.
CanFinalize(dealing, qual) ==
    /\ Cardinality(qual) >= Threshold
    /\ GroupKey(dealing, qual) # Identity
    /\ \A j \in Participants : KeyShare(dealing, qual, j) # 0

------------------------------------------------------------------------------
(* Decryption shares: threshold.ts.                                         *)

\* k is the prover's random scalar, c the value of the hash.
partialDecrypt(j, y, R, k, c) ==
    [index |-> j, share |-> mod(y * R),
     c |-> c, z |-> mod(k + c * y),
     hashed |-> <<1, y, R, mod(y * R), k, mod(k * R)>>]

\* Mutant: the decryption share is left out of the hash.
verifyDecryptionShareUnbound(ds, Yi, R) ==
    /\ Identity \notin {Yi, R, ds.share}
    /\ ds.z \in Scalar
    /\ ds.hashed[2] = Yi /\ ds.hashed[5] = mod(ds.z - ds.c * Yi)

verifyDecryptionShare(ds, Yi, R) ==
    /\ Identity \notin {Yi, R, ds.share}
    /\ ds.z \in Scalar
    /\ ds.hashed = <<1, Yi, R, ds.share, mod(ds.z - ds.c * Yi), mod(ds.z * R - ds.c * ds.share)>>

modInverse(a) ==           \* Fermat, by repeated squaring
    LET pow[e \in 0 .. L - 2] ==
            [b \in 0 .. L - 1 |->
                IF e = 0 THEN 1
                ELSE mod(pow[e \div 2][mod(b * b)] * (IF e % 2 = 1 THEN b ELSE 1))]
    IN  pow[L - 2][mod(a)]

lagrangeAtZero(i, indices) ==
    LET others == indices \ {i}
        num == ProductOver([j \in others |-> j])
        den == ProductOver([j \in others |-> j - i])
    IN  mod(num * modInverse(den))

\* Mutant: repeated shares are not merged.
combineSharesRepeated(shares) ==
    IF Len(shares) < Threshold THEN <<>>
    ELSE LET indices == {shares[p].index : p \in 1 .. Threshold}
         IN  <<SumOver([p \in 1 .. Threshold |-> shares[p].share * lagrangeAtZero(shares[p].index, indices)])>>

\* The Map keeps an index at its first position with its last share; the first
\* Threshold indices are used.  <<>> when there are too few.
combineShares(shares) ==
    LET firsts == {p \in DOMAIN shares : \A q \in 1 .. p - 1 : shares[q].index # shares[p].index}
        used == {p \in firsts : Cardinality({q \in firsts : q < p}) < Threshold}
        indices == {shares[p].index : p \in used}
        last(i) == shares[Max({p \in DOMAIN shares : shares[p].index = i})]
    IN  IF Cardinality(used) < Threshold THEN <<>>
        ELSE <<SumOver([i \in indices |-> last(i).share * lagrangeAtZero(i, indices)])>>

------------------------------------------------------------------------------
(* The order cipher: orderCipher.ts, the same file in backend and frontend. *)

deriveAesKey(R, K) == <<R, K>>
aad(R, user) == <<R, user>>

encryptOrder(plaintext, Y, user, r) ==
    LET R == r IN [R |-> R, key |-> deriveAesKey(R, mod(Y * r)), aad |-> aad(R, user), body |-> plaintext]

\* <<>> when authentication fails.
decryptWithSharedPoint(ct, K, user) ==
    IF ct.R # Identity /\ ct.key = deriveAesKey(ct.R, K) /\ ct.aad = aad(ct.R, user)
    THEN <<ct.body>> ELSE <<>>
=============================================================================
