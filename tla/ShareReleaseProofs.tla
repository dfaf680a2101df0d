-------------------------- MODULE ShareReleaseProofs --------------------------
(***************************************************************************)
(* Proofs about ShareRelease for any number of validators, batches and     *)
(* ciphertexts.                                                            *)
(***************************************************************************)
EXTENDS ShareRelease, FiniteSetTheorems, TLAPS

\* Each call of a round is one of the running round, and no validator serves
\* two of them: without this an answer could be counted for the wrong round.
RoundCalls ==
    /\ \A c \in calls : c.ofRound =>
         /\ round # NoRound
         /\ c.batch = round.batch
         /\ c.list = round.list
    /\ \A c, d \in calls : c.ofRound /\ d.ofRound /\ c.validator = d.validator => c = d

TypeInv == TypeOK /\ RoundCalls

\* What a validator read from the ledger is still true: attestations are
\* written once.
ReadIsAttested ==
    \A c \in calls : c.record # NoRecord => attested[c.batch] = c.record

\* A validator that checks releases shares of attested lists only.
ReleasedIsAttested ==
    \A r \in released : r.validator \notin Skip =>
      attested[r.batch] # NoRecord /\ attested[r.batch].content_hash = batchCommitment(r.list)

AttestInv == ReadIsAttested /\ ReleasedIsAttested

\* The shares a round counts as good have been released for its list.
GoodWasReleased ==
    round # NoRound => \A v \in round.good :
      /\ v \notin Byzantine
      /\ [validator |-> v, batch |-> round.batch, list |-> round.list] \in released

DecryptInv == GoodWasReleased /\ DecryptedWasOpenable

--------------------------------------------------------------------------------
\* Two lists with the same commitment are the same list.
LEMMA CommitmentInjective ==
    ASSUME NEW s, NEW t, batchCommitment(s) = batchCommitment(t)
    PROVE  s = t
  <1>1. batchCommitment(s).items = s /\ batchCommitment(t).items = t
    BY DEF batchCommitment
  <1> QED BY <1>1

\* A new call is well typed.
LEMMA CallTyped ==
    ASSUME NEW v \in Validators, NEW b \in BatchIds, NEW s \in Lists, NEW r \in BOOLEAN
    PROVE  Call(v, b, s, r) \in CallSet
  BY DEF Call, CallSet

\* The answer to a call of the round, or to none of its calls, keeps the round
\* well typed.
LEMMA AnswerTyped ==
    ASSUME TypeInv, NEW c \in calls, NEW good \in BOOLEAN, Answer(c, good)
    PROVE  /\ round' \in RoundSet \cup {NoRound}
           /\ c.ofRound => /\ round # NoRound /\ round' # NoRound
                           /\ round'.batch = round.batch /\ round'.list = round.list
                           /\ round'.waiting = round.waiting \ {c.validator}
                           /\ round'.good \subseteq round.good \cup (IF good THEN {c.validator} ELSE {})
           /\ ~c.ofRound => round' = round
  <1>1. CASE ~c.ofRound
    BY <1>1 DEF Answer, TypeInv, TypeOK
  <1>2. CASE c.ofRound
    <2>1. round \in RoundSet /\ c.validator \in Validators
      BY <1>2 DEF TypeInv, TypeOK, RoundCalls, CallSet
    <2>2. round' = [round EXCEPT !.waiting = @ \ {c.validator},
                                 !.good = IF good THEN @ \cup {c.validator} ELSE @]
      BY <1>2 DEF Answer
    <2>3. round' \in RoundSet
      BY <2>1, <2>2 DEF RoundSet
    <2>4. round' # NoRound /\ round # NoRound
      BY <2>1, <2>3, ReleaseAssumption
    <2> QED BY <1>2, <2>1, <2>2, <2>3, <2>4 DEF RoundSet
  <1> QED BY <1>1, <1>2

\* When a call of the round is answered, or leaves the round, the calls that
\* remain are those the round still waits for.
LEMMA CallEnds ==
    ASSUME TypeInv, NEW c \in calls, NEW good \in BOOLEAN, Answer(c, good),
           NEW D, D \subseteq CallSet, \A d \in D : ~d.ofRound, calls' = (calls \ {c}) \cup D,
           UNCHANGED <<initialized, attested, asked, decrypted>>,
           released' \subseteq [validator : Validators, batch : BatchIds, list : Lists]
    PROVE  TypeInv'
  <1>1. round' \in RoundSet \cup {NoRound}
    BY AnswerTyped
  <1>2. { k.validator : k \in { k \in calls' : k.ofRound } } = IF round' = NoRound THEN {} ELSE round'.waiting
    <2>1. { k \in calls' : k.ofRound } = { k \in calls : k.ofRound } \ {c}
      OBVIOUS
    <2>2. CASE c.ofRound
      <3>1. { k.validator : k \in { k \in calls : k.ofRound } \ {c} }
              = { k.validator : k \in { k \in calls : k.ofRound } } \ {c.validator}
        BY <2>2 DEF TypeInv, RoundCalls
      <3> QED BY <2>1, <2>2, <3>1, AnswerTyped DEF TypeInv, TypeOK
    <2>3. CASE ~c.ofRound
      BY <2>1, <2>3, AnswerTyped DEF TypeInv, TypeOK
    <2> QED BY <2>2, <2>3
  <1>3. TypeOK'
    BY <1>1, <1>2 DEF TypeInv, TypeOK
  <1>4. RoundCalls'
    <2>1. \A k \in calls' : k.ofRound => k \in calls /\ k # c
      OBVIOUS
    <2>2. \A k \in calls' : k.ofRound => round' # NoRound /\ k.batch = round'.batch /\ k.list = round'.list
      BY <2>1, AnswerTyped DEF TypeInv, RoundCalls
    <2>3. \A k, d \in calls' : k.ofRound /\ d.ofRound /\ k.validator = d.validator => k = d
      BY <2>1 DEF TypeInv, RoundCalls
    <2> QED BY <2>2, <2>3 DEF RoundCalls
  <1> QED BY <1>3, <1>4 DEF TypeInv

\* Every step keeps the types and the bookkeeping of the round's calls.
LEMMA TypeStep == TypeInv /\ [Next]_vars => TypeInv'
  <1> SUFFICES ASSUME TypeInv, [Next]_vars PROVE TypeInv'
    OBVIOUS
  <1>1. CASE initialize
    BY <1>1 DEF initialize, TypeInv, TypeOK, RoundCalls
  <1>2. ASSUME NEW b \in BatchIds, NEW n \in OrderCounts, NEW h \in Commitments, create_batch(b, n, h)
        PROVE  TypeInv'
    <2>1. [order_count |-> n, content_hash |-> h] \in Attestations
      BY DEF Attestations
    <2>2. attested' \in [BatchIds -> Attestations \cup {NoRecord}]
      BY <1>2, <2>1 DEF create_batch, TypeInv, TypeOK
    <2> QED BY <1>2, <2>2 DEF create_batch, TypeInv, TypeOK, RoundCalls
  <1>3. ASSUME NEW v \in Validators, NEW b \in BatchIds, NEW s \in Lists, requestDecryptionShares(v, b, s)
        PROVE  TypeInv'
    <2>1. Call(v, b, s, FALSE) \in CallSet
      BY CallTyped
    <2>2. ~Call(v, b, s, FALSE).ofRound
      BY DEF Call
    <2>3. { k \in calls' : k.ofRound } = { k \in calls : k.ofRound }
      BY <1>3, <2>2 DEF requestDecryptionShares
    <2>4. asked' \in 0 .. MaxAsked
      BY <1>3, ReleaseAssumption DEF requestDecryptionShares, Ask, TypeInv, TypeOK
    <2>5. TypeOK'
      BY <1>3, <2>1, <2>3, <2>4 DEF requestDecryptionShares, vaultVars, TypeInv, TypeOK
    <2>6. RoundCalls'
      BY <1>3, <2>3 DEF requestDecryptionShares, TypeInv, RoundCalls
    <2> QED BY <2>5, <2>6 DEF TypeInv
  <1>4. ASSUME NEW c \in calls, getBatch(c) PROVE TypeInv'
    <2> DEFINE d == [c EXCEPT !.read = TRUE, !.record = attested[c.batch]]
    <2>1. c \in CallSet
      BY DEF TypeInv, TypeOK
    <2>2. /\ d \in CallSet
          /\ d.ofRound = c.ofRound /\ d.validator = c.validator /\ d.batch = c.batch /\ d.list = c.list
      BY <2>1 DEF CallSet, TypeInv, TypeOK
    <2>3. calls' = (calls \ {c}) \cup {d}
      BY <1>4 DEF getBatch
    <2> HIDE DEF d
    <2>4. { k.validator : k \in { k \in calls' : k.ofRound } } = { k.validator : k \in { k \in calls : k.ofRound } }
      BY <2>2, <2>3
    <2>5. TypeOK'
      BY <1>4, <2>2, <2>3, <2>4 DEF getBatch, vaultVars, TypeInv, TypeOK
    <2>6. RoundCalls'
      BY <1>4, <2>2, <2>3 DEF getBatch, TypeInv, RoundCalls
    <2> QED BY <2>5, <2>6 DEF TypeInv
  <1>5. ASSUME NEW c \in calls, Release(c) PROVE TypeInv'
    <2>1. c \in CallSet
      BY DEF TypeInv, TypeOK
    <2>2. [validator |-> c.validator, batch |-> c.batch, list |-> c.list] \in
             [validator : Validators, batch : BatchIds, list : Lists]
      BY <2>1 DEF CallSet
    <2>3. released' \subseteq [validator : Validators, batch : BatchIds, list : Lists]
      BY <1>5, <2>2 DEF Release, TypeInv, TypeOK
    <2>4. calls' = (calls \ {c}) \cup {}
      BY <1>5 DEF Release
    <2>5. Answer(c, c.validator \notin Byzantine) /\ UNCHANGED <<initialized, attested, asked, decrypted>>
      BY <1>5 DEF Release, vaultVars
    <2>6. (c.validator \notin Byzantine) \in BOOLEAN
      OBVIOUS
    <2> DEFINE none == {} good == c.validator \notin Byzantine
    <2>7. calls' = (calls \ {c}) \cup none /\ none \subseteq CallSet /\ \A d \in none : ~d.ofRound
      BY <2>4
    <2>8. Answer(c, good) /\ good \in BOOLEAN
      BY <2>5, <2>6
    <2> HIDE DEF none, good
    <2> QED BY <2>3, <2>5, <2>7, <2>8, CallEnds
  <1>6. ASSUME NEW c \in calls, Refuse(c) \/ ReadError(c) PROVE TypeInv'
    <2>1. calls' = (calls \ {c}) \cup {}
      BY <1>6 DEF Refuse, ReadError
    <2>2. /\ Answer(c, FALSE) /\ UNCHANGED <<initialized, attested, asked, decrypted>>
          /\ released' \subseteq [validator : Validators, batch : BatchIds, list : Lists]
      BY <1>6 DEF Refuse, ReadError, vaultVars, TypeInv, TypeOK
    <2> DEFINE none == {}
    <2>3. calls' = (calls \ {c}) \cup none /\ none \subseteq CallSet /\ \A d \in none : ~d.ofRound
      BY <2>1
    <2> HIDE DEF none
    <2> QED BY <2>2, <2>3, CallEnds
  <1>7. ASSUME NEW c \in calls, Timeout(c) PROVE TypeInv'
    <2> DEFINE d == [c EXCEPT !.ofRound = FALSE]
    <2>1. c \in CallSet
      BY DEF TypeInv, TypeOK
    <2>2. d \in CallSet /\ ~d.ofRound
      BY <2>1 DEF CallSet
    <2>3. PICK late \in SUBSET {d} : calls' = (calls \ {c}) \cup late
      BY <1>7 DEF Timeout
    <2>4. late \subseteq CallSet /\ \A k \in late : ~k.ofRound
      BY <2>2
    <2>5. /\ Answer(c, FALSE) /\ UNCHANGED <<initialized, attested, asked, decrypted>>
          /\ released' \subseteq [validator : Validators, batch : BatchIds, list : Lists]
      BY <1>7 DEF Timeout, vaultVars, TypeInv, TypeOK
    <2> QED BY <2>3, <2>4, <2>5, CallEnds
  <1>8. ASSUME NEW b \in BatchIds, NEW s \in Lists, coordinateDecryption(b, s) PROVE TypeInv'
    <2> DEFINE New == { Call(v, b, s, TRUE) : v \in Validators }
    <2>1. New \subseteq CallSet
      BY CallTyped
    <2>2. \A v \in Validators : /\ Call(v, b, s, TRUE).ofRound /\ Call(v, b, s, TRUE).validator = v
                                /\ Call(v, b, s, TRUE).batch = b /\ Call(v, b, s, TRUE).list = s
      BY DEF Call
    <2>3. round' \in RoundSet /\ round' # NoRound /\ round'.waiting = Validators
            /\ round'.batch = b /\ round'.list = s
      BY <1>8, ReleaseAssumption DEF coordinateDecryption, RoundSet
    <2>4. \A k \in calls : ~k.ofRound
      BY <1>8 DEF coordinateDecryption, TypeInv, RoundCalls
    <2>5. calls' = calls \cup New
      BY <1>8 DEF coordinateDecryption
    <2>6. { k \in calls' : k.ofRound } = New
      BY <2>2, <2>4, <2>5
    <2>7. { k.validator : k \in New } = Validators
      <3>1. \A k \in New : k.validator \in Validators
        BY <2>2
      <3>2. \A v \in Validators : Call(v, b, s, TRUE) \in New /\ Call(v, b, s, TRUE).validator = v
        BY <2>2
      <3> HIDE DEF New
      <3> QED BY <3>1, <3>2
    <2>8. asked' \in 0 .. MaxAsked
      BY <1>8, ReleaseAssumption DEF coordinateDecryption, Ask, TypeInv, TypeOK
    <2>9. TypeOK'
      BY <1>8, <2>1, <2>3, <2>5, <2>6, <2>7, <2>8 DEF coordinateDecryption, vaultVars, TypeInv, TypeOK
    <2>10. \A k \in calls' : k.ofRound => \E v \in Validators : k = Call(v, b, s, TRUE)
      BY <2>6
    <2>11. \A k \in calls' : k.ofRound => k.batch = b /\ k.list = s /\ k = Call(k.validator, b, s, TRUE)
      <3> SUFFICES ASSUME NEW k \in calls', k.ofRound
                   PROVE  k.batch = b /\ k.list = s /\ k = Call(k.validator, b, s, TRUE)
        OBVIOUS
      <3>1. PICK v \in Validators : k = Call(v, b, s, TRUE)
        BY <2>10
      <3>2. k.batch = b /\ k.list = s /\ k.validator = v
        BY <2>2, <3>1
      <3> QED BY <3>1, <3>2
    <2>12. RoundCalls'
      <3>1. \A k, d \in calls' : k.ofRound /\ d.ofRound /\ k.validator = d.validator => k = d
        BY <2>11
      <3> QED BY <2>3, <2>11, <3>1 DEF RoundCalls
    <2> QED BY <2>9, <2>12 DEF TypeInv
  <1>9. CASE Combine
    <2>1. round \in RoundSet /\ round.waiting = {}
      BY <1>9 DEF Combine, TypeInv, TypeOK
    <2>2. \A k \in calls : ~k.ofRound
      <3>1. { k.validator : k \in { k \in calls : k.ofRound } } = {}
        BY <1>9, <2>1 DEF Combine, TypeInv, TypeOK
      <3> QED BY <3>1
    <2>3. Elems(round.list) \subseteq Ciphertexts
      BY <2>1, ReleaseAssumption DEF RoundSet, Elems
    <2>4. decrypted' \subseteq Ciphertexts
      BY <1>9, <2>3 DEF Combine, TypeInv, TypeOK
    <2>5. { k.validator : k \in { k \in calls' : k.ofRound } } = {}
      BY <1>9, <2>2 DEF Combine
    <2>6. TypeOK'
      BY <1>9, <2>4, <2>5 DEF Combine, vaultVars, TypeInv, TypeOK
    <2>7. RoundCalls'
      BY <1>9, <2>2 DEF Combine, RoundCalls
    <2> QED BY <2>6, <2>7 DEF TypeInv
  <1>10. CASE UNCHANGED vars
    BY <1>10 DEF vars, vaultVars, TypeInv, TypeOK, RoundCalls
  <1> QED BY <1>1, <1>2, <1>3, <1>4, <1>5, <1>6, <1>7, <1>8, <1>9, <1>10 DEF Next, Serve

\* The types and the bookkeeping of the round's calls are invariant.
LEMMA TypeInvariant == Spec => []TypeInv
  <1>1. Init => TypeInv
    <2> SUFFICES ASSUME Init PROVE TypeInv
      OBVIOUS
    <2>1. attested \in [BatchIds -> Attestations \cup {NoRecord}] /\ asked \in 0 .. MaxAsked
      BY ReleaseAssumption DEF Init
    <2>2. { c.validator : c \in { k \in calls : k.ofRound } } = {}
      BY DEF Init
    <2>3. TypeOK
      BY <2>1, <2>2 DEF Init, TypeOK
    <2> QED BY <2>3 DEF Init, TypeInv, RoundCalls
  <1> QED BY <1>1, TypeStep, PTL DEF Spec

\* The vault, the validators and the coordinator keep their types, and a round
\* waits for exactly the calls that will answer it.
THEOREM TypeCorrect == Spec => []TypeOK
  BY TypeInvariant, PTL DEF TypeInv

--------------------------------------------------------------------------------
\* An attestation that exists is never changed.
LEMMA AttestationStays ==
    ASSUME TypeInv, [Next]_vars, NEW b \in BatchIds, attested[b] # NoRecord
    PROVE  attested'[b] = attested[b]
  <1>1. CASE UNCHANGED attested
    BY <1>1
  <1>2. ASSUME NEW d \in BatchIds, NEW n \in OrderCounts, NEW h \in Commitments, create_batch(d, n, h)
        PROVE  attested'[b] = attested[b]
    BY <1>2 DEF create_batch, TypeInv, TypeOK
  <1> QED BY <1>1, <1>2 DEF Next, Serve, initialize, requestDecryptionShares, getBatch, Release, Refuse,
             ReadError, Timeout, coordinateDecryption, Combine, vars, vaultVars

\* What validators read, and what they release, stays attested.
LEMMA AttestStep == TypeInv /\ AttestInv /\ [Next]_vars => AttestInv'
  <1> SUFFICES ASSUME TypeInv, AttestInv, [Next]_vars PROVE AttestInv'
    OBVIOUS
  <1>1. \A c \in calls : c.batch \in BatchIds /\ (c.record # NoRecord => attested'[c.batch] = c.record)
    <2> SUFFICES ASSUME NEW c \in calls
                 PROVE  c.batch \in BatchIds /\ (c.record # NoRecord => attested'[c.batch] = c.record)
      OBVIOUS
    <2>1. c.batch \in BatchIds
      BY DEF TypeInv, TypeOK, CallSet
    <2> QED BY <2>1, AttestationStays DEF AttestInv, ReadIsAttested
  <1>2. ReadIsAttested'
    <2>1. CASE calls' \subseteq calls
      BY <1>1, <2>1 DEF ReadIsAttested
    <2>2. ASSUME NEW v \in Validators, NEW b \in BatchIds, NEW s \in Lists, requestDecryptionShares(v, b, s)
          PROVE  ReadIsAttested'
      BY <1>1, <2>2 DEF requestDecryptionShares, Call, ReadIsAttested
    <2>3. ASSUME NEW b \in BatchIds, NEW s \in Lists, coordinateDecryption(b, s)
          PROVE  ReadIsAttested'
      <3>1. \A c \in calls' : c \in calls \/ c.record = NoRecord
        BY <2>3 DEF coordinateDecryption, Call
      <3> QED BY <1>1, <3>1 DEF ReadIsAttested
    <2>4. ASSUME NEW c \in calls, getBatch(c) PROVE ReadIsAttested'
      <3> DEFINE d == [c EXCEPT !.read = TRUE, !.record = attested[c.batch]]
      <3>1. c \in CallSet
        BY DEF TypeInv, TypeOK
      <3>2. d.record = attested[c.batch] /\ d.batch = c.batch
        BY <3>1 DEF CallSet
      <3>3. calls' = (calls \ {c}) \cup {d} /\ attested' = attested
        BY <2>4 DEF getBatch, vaultVars
      <3> HIDE DEF d
      <3> QED BY <1>1, <3>2, <3>3 DEF ReadIsAttested
    <2>5. ASSUME NEW c \in calls, Timeout(c) PROVE ReadIsAttested'
      <3> DEFINE d == [c EXCEPT !.ofRound = FALSE]
      <3>1. c \in CallSet
        BY DEF TypeInv, TypeOK
      <3>2. d.record = c.record /\ d.batch = c.batch
        BY <3>1 DEF CallSet
      <3>3. calls' \subseteq calls \cup {d}
        BY <2>5 DEF Timeout
      <3> HIDE DEF d
      <3> QED BY <1>1, <3>2, <3>3 DEF ReadIsAttested
    <2> QED BY <2>1, <2>2, <2>3, <2>4, <2>5 DEF Next, Serve, initialize, create_batch, Release, Refuse,
               ReadError, Combine, vars, vaultVars
  <1>3. ReleasedIsAttested'
    <2>1. ASSUME NEW r \in released, r.validator \notin Skip
          PROVE  attested'[r.batch] # NoRecord /\ attested'[r.batch].content_hash = batchCommitment(r.list)
      <3>1. r.batch \in BatchIds
        BY DEF TypeInv, TypeOK
      <3> QED BY <2>1, <3>1, AttestationStays DEF AttestInv, ReleasedIsAttested
    <2>2. CASE released' = released
      BY <2>1, <2>2 DEF ReleasedIsAttested
    <2>3. ASSUME NEW c \in calls, Release(c) PROVE ReleasedIsAttested'
      <3> DEFINE r == [validator |-> c.validator, batch |-> c.batch, list |-> c.list]
      <3>1. released' = released \cup {r} /\ attested' = attested
        BY <2>3 DEF Release, vaultVars
      <3>2. c.validator \notin Skip => /\ c.record # NoRecord
                                        /\ c.record.content_hash = batchCommitment(c.list)
        BY <2>3 DEF Release, assertBatchSealed
      <3>3. r.validator \notin Skip => /\ attested'[r.batch] # NoRecord
                                        /\ attested'[r.batch].content_hash = batchCommitment(r.list)
        BY <1>1, <3>1, <3>2
      <3> HIDE DEF r
      <3> QED BY <2>1, <3>1, <3>3 DEF ReleasedIsAttested
    <2> QED BY <2>2, <2>3 DEF Next, Serve, initialize, create_batch, requestDecryptionShares, getBatch,
               Refuse, ReadError, Timeout, coordinateDecryption, Combine, vars, vaultVars
  <1> QED BY <1>2, <1>3 DEF AttestInv

\* Types and attestations are invariant.
LEMMA AttestInvariant == Spec => [](TypeInv /\ AttestInv)
  <1>1. Init => AttestInv
    BY DEF Init, AttestInv, ReadIsAttested, ReleasedIsAttested
  <1> QED BY <1>1, AttestStep, TypeInvariant, PTL DEF Spec

\* Validators that check the seal release shares of one ordered list per batch.
THEOREM OneListPerBatch == Spec => []BatchIsFixed
  <1>1. AttestInv => BatchIsFixed
    BY CommitmentInjective DEF AttestInv, ReleasedIsAttested, BatchIsFixed
  <1> QED BY <1>1, AttestInvariant, PTL

--------------------------------------------------------------------------------
\* Shares are never taken back.
LEMMA ReleasedGrows ==
    ASSUME [Next]_vars PROVE released \subseteq released'
  BY DEF Next, Serve, initialize, create_batch, requestDecryptionShares, getBatch, Release,
         Refuse, ReadError, Timeout, coordinateDecryption, Combine, vars, vaultVars

\* A set of validators is finite, and its subsets are no larger.
LEMMA SubsetOfValidators ==
    ASSUME NEW T \in SUBSET Validators, NEW S \in SUBSET T
    PROVE  Cardinality(S) \in Nat /\ Cardinality(T) \in Nat /\ Cardinality(S) <= Cardinality(T)
  <1>1. IsFiniteSet(T)
    BY FS_Subset, ReleaseAssumption
  <1>2. IsFiniteSet(S) /\ Cardinality(S) <= Cardinality(T)
    BY <1>1, FS_Subset
  <1> QED BY <1>1, <1>2, FS_CardinalityType

\* What can be opened can be opened for good.
LEMMA OpenableGrows ==
    ASSUME released \subseteq released' PROVE Openable \subseteq Openable'
  <1> SUFFICES ASSUME NEW c \in Ciphertexts, Cardinality(Holders(c)) >= Threshold
               PROVE  Cardinality(Holders(c)') >= Threshold
    BY DEF Openable
  <1>1. Holders(c) \subseteq Holders(c)' /\ Holders(c)' \subseteq Validators
    BY DEF Holders
  <1>2. /\ Cardinality(Holders(c)) \in Nat /\ Cardinality(Holders(c)') \in Nat
        /\ Cardinality(Holders(c)) <= Cardinality(Holders(c)')
    BY <1>1, SubsetOfValidators
  <1> QED BY <1>2, ReleaseAssumption

\* A threshold of shares includes one of a validator that checked the seal.
LEMMA OpenableIsSealed ==
    ASSUME TypeInv, AttestInv PROVE Openable \subseteq Promise!Contents
  <1> SUFFICES ASSUME NEW c \in Ciphertexts, Cardinality(Holders(c)) >= Threshold
               PROVE  c \in Promise!Contents
    BY DEF Openable
  <1>1. Holders(c) \subseteq Validators
    BY DEF Holders
  <1>2. \E v \in Holders(c) : v \notin Skip
    <2> SUFFICES ASSUME Holders(c) \subseteq Skip PROVE FALSE
      OBVIOUS
    <2>1. /\ Cardinality(Holders(c)) \in Nat /\ Cardinality(Skip) \in Nat
          /\ Cardinality(Holders(c)) <= Cardinality(Skip)
      BY SubsetOfValidators, ReleaseAssumption
    <2> QED BY <2>1, ReleaseAssumption
  <1>3. PICK r \in released : r.validator \notin Skip /\ c \in Elems(r.list)
    BY <1>2 DEF Holders
  <1>4. r.batch \in BatchIds /\ r.list \in Lists
    BY DEF TypeInv, TypeOK
  <1>5. attested[r.batch] # NoRecord /\ attested[r.batch].content_hash.items = r.list
    <2>1. attested[r.batch] # NoRecord /\ attested[r.batch].content_hash = batchCommitment(r.list)
      BY <1>3 DEF AttestInv, ReleasedIsAttested
    <2>2. batchCommitment(r.list).items = r.list
      BY DEF batchCommitment
    <2> QED BY <2>1, <2>2
  <1>6. SealedLists[r.batch] = r.list /\ r.list # NoRecord
    BY <1>4, <1>5, ReleaseAssumption DEF SealedLists
  <1> QED BY <1>3, <1>4, <1>6 DEF Promise!Contents, Elems

\* Every step seals one new batch, or opens ciphertexts of sealed batches, or
\* does neither.
LEMMA PromiseStep ==
    TypeInv /\ AttestInv /\ [Next]_vars => [Promise!Next]_<<SealedLists, Openable>>
  <1> SUFFICES ASSUME TypeInv, AttestInv, [Next]_vars
               PROVE  [Promise!Next]_<<SealedLists, Openable>>
    OBVIOUS
  <1>1. ASSUME NEW b \in BatchIds, NEW n \in OrderCounts, NEW h \in Commitments, create_batch(b, n, h)
        PROVE  \E s \in Lists : Promise!Seal(b, s)
    <2>1. PICK s \in Lists : h = batchCommitment(s)
      BY DEF Commitments
    <2>2. [order_count |-> n, content_hash |-> h] \in Attestations
      BY DEF Attestations
    <2>3. [order_count |-> n, content_hash |-> h] # NoRecord
      BY <2>2, ReleaseAssumption
    <2>4. attested' = [attested EXCEPT ![b] = [order_count |-> n, content_hash |-> h]] /\ attested[b] = NoRecord
      BY <1>1 DEF create_batch
    <2>5. h.items = s
      BY <2>1 DEF batchCommitment
    <2>6. SealedLists[b] = NoRecord
      BY <2>4 DEF SealedLists
    <2>7. SealedLists' = [SealedLists EXCEPT ![b] = s]
      <3>1. attested'[b] # NoRecord /\ attested'[b].content_hash = h
        BY <2>3, <2>4 DEF TypeInv, TypeOK
      <3>2. \A d \in BatchIds \ {b} : attested'[d] = attested[d]
        BY <2>4 DEF TypeInv, TypeOK
      <3> QED BY <2>5, <3>1, <3>2 DEF SealedLists
    <2>8. Openable' = Openable
      BY <1>1 DEF create_batch, Openable, Holders
    <2> QED BY <2>6, <2>7, <2>8 DEF Promise!Seal
  <1>2. ASSUME attested' = attested PROVE Promise!Open(Openable')
    <2>1. SealedLists' = SealedLists
      BY <1>2 DEF SealedLists
    <2>2. Openable' \subseteq Promise!Contents'
      <3>1. TypeInv' /\ AttestInv'
        BY TypeStep, AttestStep
      <3>2. (TypeInv /\ AttestInv => Openable \subseteq Promise!Contents)'
        BY OpenableIsSealed, PTL
      <3> QED BY <3>1, <3>2
    <2>3. Promise!Contents' = Promise!Contents
      BY <2>1 DEF Promise!Contents
    <2>4. Openable' = Openable \cup Openable'
      BY ReleasedGrows, OpenableGrows
    <2> QED BY <2>1, <2>2, <2>3, <2>4 DEF Promise!Open
  <1>3. Openable' \in SUBSET Ciphertexts
    BY DEF Openable
  <1>4. attested' = attested \/ \E b \in BatchIds, n \in OrderCounts, h \in Commitments : create_batch(b, n, h)
    BY DEF Next, Serve, initialize, requestDecryptionShares, getBatch, Release,
           Refuse, ReadError, Timeout, coordinateDecryption, Combine, vars, vaultVars
  <1> QED BY <1>1, <1>2, <1>3, <1>4 DEF Promise!Next

\* Whatever the coordinator does, batches are sealed once and only sealed
\* ciphertexts can be opened, as long as fewer than a threshold of validators
\* skip the check.
THEOREM PromiseKept == Spec => ImplementsPromise
  <1>1. Init => Promise!Init
    <2> SUFFICES ASSUME Init PROVE Promise!Init
      OBVIOUS
    <2>1. SealedLists = [b \in BatchIds |-> NoRecord]
      BY DEF Init, SealedLists
    <2>2. Openable = {}
      <3>1. \A c \in Ciphertexts : Holders(c) = {}
        BY DEF Init, Holders
      <3>2. Cardinality({}) = 0
        BY FS_EmptySet
      <3>3. \A c \in Ciphertexts : ~(Cardinality(Holders(c)) >= Threshold)
        <4> SUFFICES ASSUME NEW c \in Ciphertexts PROVE ~(Cardinality(Holders(c)) >= Threshold)
          OBVIOUS
        <4>1. Cardinality(Holders(c)) = 0
          BY <3>1, <3>2
        <4> QED BY <4>1, ReleaseAssumption
      <3> QED BY <3>3 DEF Openable
    <2> QED BY <2>1, <2>2 DEF Promise!Init
  <1> QED BY <1>1, PromiseStep, AttestInvariant, PTL DEF Spec, ImplementsPromise, Promise!Spec

--------------------------------------------------------------------------------
\* A round counts shares that were released, and decrypts with enough of them.
LEMMA DecryptStep == TypeInv /\ DecryptInv /\ [Next]_vars => DecryptInv'
  <1> SUFFICES ASSUME TypeInv, DecryptInv, [Next]_vars PROVE DecryptInv'
    OBVIOUS
  <1>1. released \subseteq released' /\ Openable \subseteq Openable'
    BY ReleasedGrows, OpenableGrows
  <1>2. CASE UNCHANGED <<round, decrypted>>
    BY <1>1, <1>2 DEF DecryptInv, GoodWasReleased, DecryptedWasOpenable
  <1>3. ASSUME NEW c \in calls, NEW good \in BOOLEAN, Answer(c, good), UNCHANGED decrypted,
               good => /\ c.validator \notin Byzantine
                       /\ [validator |-> c.validator, batch |-> c.batch, list |-> c.list] \in released'
        PROVE  DecryptInv'
    <2>1. GoodWasReleased'
      <3>1. CASE ~c.ofRound
        BY <1>1, <1>3, <3>1, AnswerTyped DEF DecryptInv, GoodWasReleased
      <3>2. CASE c.ofRound
        <4>1. /\ round # NoRound
              /\ round'.batch = round.batch /\ round'.list = round.list
              /\ round'.good \subseteq round.good \cup (IF good THEN {c.validator} ELSE {})
          BY <1>3, <3>2, AnswerTyped
        <4>2. c.batch = round.batch /\ c.list = round.list
          BY <3>2 DEF TypeInv, RoundCalls
        <4> QED BY <1>1, <1>3, <4>1, <4>2 DEF DecryptInv, GoodWasReleased
      <3> QED BY <3>1, <3>2
    <2> QED BY <1>1, <1>3, <2>1 DEF DecryptInv, DecryptedWasOpenable
  <1>4. ASSUME NEW c \in calls, Release(c) PROVE DecryptInv'
    <2> DEFINE good == c.validator \notin Byzantine
    <2>1. Answer(c, good) /\ good \in BOOLEAN /\ UNCHANGED decrypted
      BY <1>4 DEF Release
    <2>2. good => /\ c.validator \notin Byzantine
                  /\ [validator |-> c.validator, batch |-> c.batch, list |-> c.list] \in released'
      BY <1>4 DEF Release
    <2> HIDE DEF good
    <2> QED BY <1>3, <2>1, <2>2
  <1>5. ASSUME NEW c \in calls, Refuse(c) \/ ReadError(c) \/ Timeout(c) PROVE DecryptInv'
    BY <1>3, <1>5 DEF Refuse, ReadError, Timeout
  <1>6. ASSUME NEW b \in BatchIds, NEW s \in Lists, coordinateDecryption(b, s) PROVE DecryptInv'
    BY <1>1, <1>6 DEF coordinateDecryption, DecryptInv, GoodWasReleased, DecryptedWasOpenable
  <1>7. CASE Combine
    <2>1. GoodWasReleased'
      BY <1>7 DEF Combine, GoodWasReleased
    <2>2. round \in RoundSet /\ round # NoRound
      BY <1>7 DEF Combine, TypeInv, TypeOK
    <2>3. Enough(round.good) => Elems(round.list) \subseteq Openable
      <3> SUFFICES ASSUME Enough(round.good), NEW c \in Elems(round.list) PROVE c \in Openable
        OBVIOUS
      <3>1. c \in Ciphertexts
        BY <2>2, ReleaseAssumption DEF RoundSet, Elems
      <3>2. round.good \subseteq Validators
        BY <2>2 DEF RoundSet
      <3>3. round.good \subseteq Holders(c)
        BY <2>2, <3>2 DEF Holders, DecryptInv, GoodWasReleased
      <3>4. Holders(c) \subseteq Validators
        BY DEF Holders
      <3>5. /\ Cardinality(round.good) \in Nat /\ Cardinality(Holders(c)) \in Nat
            /\ Cardinality(round.good) <= Cardinality(Holders(c))
        BY <3>3, <3>4, SubsetOfValidators
      <3> QED BY <3>1, <3>5, ReleaseAssumption DEF Enough, Openable
    <2>4. DecryptedWasOpenable'
      BY <1>1, <1>7, <2>3 DEF Combine, DecryptInv, DecryptedWasOpenable
    <2> QED BY <2>1, <2>4 DEF DecryptInv
  <1> QED BY <1>2, <1>4, <1>5, <1>6, <1>7 DEF Next, Serve, initialize, create_batch,
             requestDecryptionShares, getBatch, vars, vaultVars

\* coordinateDecryption decrypts only what a threshold of correct, released
\* shares opens, whichever answers were late or bad.
THEOREM DecryptsWithEnoughShares == Spec => []DecryptedWasOpenable
  <1>1. Init => DecryptInv
    BY DEF Init, DecryptInv, GoodWasReleased, DecryptedWasOpenable
  <1>2. DecryptInv => DecryptedWasOpenable
    BY DEF DecryptInv
  <1> QED BY <1>1, <1>2, DecryptStep, TypeInvariant, PTL DEF Spec
=============================================================================
