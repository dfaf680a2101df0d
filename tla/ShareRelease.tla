----------------------------- MODULE ShareRelease -----------------------------
(***************************************************************************)
(* Sealing and threshold decryption: the order-vault contract's batch      *)
(* attestations, the validators that check them before they release        *)
(* decryption shares, and validatorService.coordinateDecryption.           *)
(*                                                                         *)
(* The coordinator is not trusted: it may seal any list, and ask any       *)
(* validator for the shares of any list under any batch id, at any time.   *)
(* A validator's ledger read is an await, so a batch can be sealed between *)
(* the read and the check, and calls of one validator overlap.             *)
(*                                                                         *)
(* SHA-256 is collision-free: a commitment is the length and the ordered   *)
(* list it was computed over.  A share is correct or not; Threshold        *)
(* correct shares open a ciphertext and fewer reveal nothing.              *)
(***************************************************************************)
EXTENDS Integers, Sequences, FiniteSets

CONSTANTS
    Validators,
    Threshold,
    Skip,           \* validators running with 'insecure-skip'
    Byzantine,      \* validators whose shares fail the DLEQ check
    Unreliable,     \* validators that may fail to answer in time
    BatchIds,
    Ciphertexts,
    NoRecord,       \* get_batch returned nothing
    NoRound,        \* no coordinateDecryption is running
    Lists,          \* bound: lists of ciphertexts that are sealed or asked for
    OrderCounts,    \* bound: counts that are attested
    MaxAsked        \* bound: rounds and single requests the coordinator makes

Elems(s) == { s[i] : i \in DOMAIN s }

\* Mutant: the ciphertexts are hashed in an order of their own.
batchCommitmentUnordered(ciphertexts) ==
    [n |-> Len(ciphertexts),
     items |-> CHOOSE s \in Lists : Len(s) = Len(ciphertexts) /\ Elems(s) = Elems(ciphertexts)]

batchCommitment(ciphertexts) == [n |-> Len(ciphertexts), items |-> ciphertexts]

Commitments == { batchCommitment(s) : s \in Lists }

Attestations == [order_count : OrderCounts, content_hash : Commitments]
CallSet == [validator : Validators, batch : BatchIds, list : Lists, ofRound : BOOLEAN,
            read : BOOLEAN, record : Attestations \cup {NoRecord}]
RoundSet == [batch : BatchIds, list : Lists, waiting : SUBSET Validators, good : SUBSET Validators]

\* Fewer than a threshold of validators run with 'insecure-skip' ("for local
\* development only").
ASSUME ReleaseAssumption ==
    /\ IsFiniteSet(Validators)
    /\ Threshold \in Nat \ {0}
    /\ Skip \subseteq Validators
    /\ Cardinality(Skip) < Threshold
    /\ Byzantine \subseteq Validators
    /\ Unreliable \subseteq Validators
    /\ Lists \subseteq Seq(Ciphertexts)
    /\ OrderCounts \subseteq Nat
    /\ MaxAsked \in Nat
    /\ NoRecord \notin Lists \cup Attestations
    /\ NoRound \notin RoundSet

VARIABLES
    initialized,    \* order-vault: ADMIN is set
    attested,       \* order-vault: BATCH records, or NoRecord
    calls,          \* requestDecryptionShares calls being served
    asked,          \* number of rounds and single requests so far
    released,       \* shares that have left a validator
    round,          \* the running coordinateDecryption, or NoRound
    decrypted       \* ciphertexts coordinateDecryption has opened

vaultVars == <<initialized, attested>>
vars == <<vaultVars, calls, asked, released, round, decrypted>>

Init ==
    /\ initialized = FALSE
    /\ attested = [b \in BatchIds |-> NoRecord]
    /\ calls = {}
    /\ asked = 0
    /\ released = {}
    /\ round = NoRound
    /\ decrypted = {}

--------------------------------------------------------------------------------
(* order-vault                                                                *)

initialize ==
    /\ ~initialized
    /\ initialized' = TRUE
    /\ UNCHANGED <<attested, calls, asked, released, round, decrypted>>

\* Mutant: an existing attestation is overwritten.
create_batch_overwrites(b, order_count, content_hash) ==
    /\ initialized
    /\ attested' = [attested EXCEPT ![b] = [order_count |-> order_count, content_hash |-> content_hash]]
    /\ UNCHANGED <<initialized, calls, asked, released, round, decrypted>>

\* Called by the admin; BatchAlreadyExists otherwise.  The contract does not
\* relate the count to the hash.
create_batch(b, order_count, content_hash) ==
    /\ initialized
    /\ attested[b] = NoRecord
    /\ attested' = [attested EXCEPT ![b] = [order_count |-> order_count, content_hash |-> content_hash]]
    /\ UNCHANGED <<initialized, calls, asked, released, round, decrypted>>

--------------------------------------------------------------------------------
(* A validator: LocalValidator.requestDecryptionShares                        *)

Call(v, b, s, ofRound) ==
    [validator |-> v, batch |-> b, list |-> s, ofRound |-> ofRound, read |-> FALSE, record |-> NoRecord]

Ask == asked < MaxAsked /\ asked' = asked + 1

\* Any request that reaches a validator besides those of coordinateDecryption.
requestDecryptionShares(v, b, s) ==
    /\ Ask
    /\ calls' = calls \cup {Call(v, b, s, FALSE)}
    /\ UNCHANGED <<vaultVars, released, round, decrypted>>

\* ledger.getBatch: get_batch read through a simulated transaction.
getBatch(c) ==
    /\ c.validator \notin Skip
    /\ ~c.read
    /\ calls' = (calls \ {c}) \cup {[c EXCEPT !.read = TRUE, !.record = attested[c.batch]]}
    /\ UNCHANGED <<vaultVars, asked, released, round, decrypted>>

\* assertBatchSealed does not throw.
assertBatchSealed(record, s) ==
    /\ record # NoRecord
    /\ record.order_count = Len(s)
    /\ record.content_hash = batchCommitment(s)

\* The coordinator gets an answer to a call of coordinateDecryption.  Shares
\* whose DLEQ proof fails are dropped.
Answer(c, good) ==
    round' = IF c.ofRound
               THEN [round EXCEPT !.waiting = @ \ {c.validator},
                                  !.good = IF good THEN @ \cup {c.validator} ELSE @]
               ELSE round

Release(c) ==
    /\ c.validator \in Skip \/ (c.read /\ assertBatchSealed(c.record, c.list))
    /\ released' = released \cup {[validator |-> c.validator, batch |-> c.batch, list |-> c.list]}
    /\ calls' = calls \ {c}
    /\ Answer(c, c.validator \notin Byzantine)
    /\ UNCHANGED <<vaultVars, asked, decrypted>>

\* The batch is not sealed as asked.
Refuse(c) ==
    /\ c.validator \notin Skip
    /\ c.read
    /\ ~assertBatchSealed(c.record, c.list)
    /\ calls' = calls \ {c}
    /\ Answer(c, FALSE)
    /\ UNCHANGED <<vaultVars, asked, released, decrypted>>

\* The ledger cannot be read.
ReadError(c) ==
    /\ c.validator \in Unreliable \ Skip
    /\ ~c.read
    /\ calls' = calls \ {c}
    /\ Answer(c, FALSE)
    /\ UNCHANGED <<vaultVars, asked, released, decrypted>>

--------------------------------------------------------------------------------
(* The coordinator: validatorService.coordinateDecryption                     *)

\* Promise.allSettled over all validators, for the whole batch at once.
coordinateDecryption(b, s) ==
    /\ Ask
    /\ round = NoRound
    /\ round' = [batch |-> b, list |-> s, waiting |-> Validators, good |-> {}]
    /\ calls' = calls \cup { Call(v, b, s, TRUE) : v \in Validators }
    /\ UNCHANGED <<vaultVars, released, decrypted>>

\* Mutant: a late answer is still taken for one of the round.
TimeoutKeepsCall(c) ==
    /\ c.ofRound
    /\ c.validator \in Unreliable
    /\ Answer(c, FALSE)
    /\ UNCHANGED <<vaultVars, calls, asked, released, decrypted>>

\* RemoteValidator gives up after TIMEOUT_MS; the validator may go on serving
\* the call, or may never have seen it.
Timeout(c) ==
    /\ c.ofRound
    /\ c.validator \in Unreliable
    /\ \E late \in SUBSET {[c EXCEPT !.ofRound = FALSE]} : calls' = (calls \ {c}) \cup late
    /\ Answer(c, FALSE)
    /\ UNCHANGED <<vaultVars, asked, released, decrypted>>

\* Mutants: one validator that fails fails the round (Promise.all); one share
\* fewer than the threshold.
EnoughAll(good) == good = Validators
EnoughFewer(good) == Cardinality(good) >= Threshold - 1

Enough(good) == Cardinality(good) >= Threshold

\* With enough valid shares every ciphertext of the list is decrypted.
Combine ==
    /\ round # NoRound
    /\ round.waiting = {}
    /\ decrypted' = IF Enough(round.good) THEN decrypted \cup Elems(round.list) ELSE decrypted
    /\ round' = NoRound
    /\ UNCHANGED <<vaultVars, calls, asked, released>>

--------------------------------------------------------------------------------
Serve(c) == getBatch(c) \/ Release(c) \/ Refuse(c) \/ ReadError(c)

Next ==
    \/ initialize
    \/ \E b \in BatchIds, n \in OrderCounts, h \in Commitments : create_batch(b, n, h)
    \/ \E v \in Validators, b \in BatchIds, s \in Lists : requestDecryptionShares(v, b, s)
    \/ \E c \in calls : Serve(c) \/ Timeout(c)
    \/ \E b \in BatchIds, s \in Lists : coordinateDecryption(b, s)
    \/ Combine

Spec == Init /\ [][Next]_vars

\* A call of a round is served or timed out, and the round then ends.
FairSpec ==
    /\ Spec
    /\ WF_vars(\E c \in calls : c.ofRound /\ (Serve(c) \/ Timeout(c)))
    /\ WF_vars(Combine)

--------------------------------------------------------------------------------
(* Properties.                                                                *)

\* Type invariant; the calls of a round are those it is waiting for.
TypeOK ==
    /\ initialized \in BOOLEAN
    /\ attested \in [BatchIds -> Attestations \cup {NoRecord}]
    /\ calls \subseteq CallSet
    /\ asked \in 0 .. MaxAsked
    /\ released \subseteq [validator : Validators, batch : BatchIds, list : Lists]
    /\ round \in RoundSet \cup {NoRound}
    /\ decrypted \subseteq Ciphertexts
    /\ { c.validator : c \in { k \in calls : k.ofRound } } =
         IF round = NoRound THEN {} ELSE round.waiting

\* The ciphertexts for which a threshold of correct shares has left the
\* validators, and the abstract promise: whatever the coordinator asks for, it
\* can open a ciphertext only after a batch that contains it was sealed, and a
\* sealed batch never changes.
Holders(c) == { v \in Validators \ Byzantine :
                  \E r \in released : r.validator = v /\ c \in Elems(r.list) }
Openable == { c \in Ciphertexts : Cardinality(Holders(c)) >= Threshold }
SealedLists == [b \in BatchIds |->
                  IF attested[b] = NoRecord THEN NoRecord ELSE attested[b].content_hash.items]
Promise == INSTANCE SealThenOpen WITH sealed <- SealedLists, opened <- Openable
ImplementsPromise == Promise!Spec

\* Validators that check the seal never release shares for two different lists,
\* or two orders of one list, under the same batch: the order of settlement is
\* fixed before anybody can see what is in the batch.
BatchIsFixed ==
    \A r, q \in released :
      r.batch = q.batch /\ r.validator \notin Skip /\ q.validator \notin Skip => r.list = q.list

\* coordinateDecryption never decrypts with fewer than Threshold correct shares
\* having been released, although it only hears of the answers that come in time.
DecryptedWasOpenable == decrypted \subseteq Openable

\* "any `threshold' good ones suffice": with enough correct and reachable
\* validators, a round that starts after its list was sealed decrypts all of it,
\* whatever the others answer, fail to answer, or are asked meanwhile.
Starting(b, s) ==
    /\ round = [batch |-> b, list |-> s, waiting |-> Validators, good |-> {}]
    /\ \A c \in calls : c.ofRound => ~c.read
SealedBatchDecrypts ==
    \A b \in BatchIds, s \in Lists :
      Starting(b, s) /\ assertBatchSealed(attested[b], s) ~> Elems(s) \subseteq decrypted
=============================================================================
