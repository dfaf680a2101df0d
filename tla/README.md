# Verification of Cipher Protocol

Cipher Protocol takes encrypted swap orders, seals them into batches on chain,
decrypts a sealed batch with a threshold of validators and settles it atomically
against x*y=k pools. This directory holds TLA+ models of its backend, validators
and contracts, TLC runs on small instances, and TLAPS proofs. Paths below are
relative to the repository.

## The system

| Component | State | Operations | Talks to |
| --- | --- | --- | --- |
| Order intake (`backend/src/controllers/orderController.ts`) | `orders` rows | `submitOrder` | database |
| Batch creation (`batchController.ts`) | `batches` rows, order status | `createBatch`, from the loop or `POST /api/batches/create` | database, order-vault |
| Batching loop (`batchingService.ts`) | `running` flag | `runOnce` every `batchTimeoutMs` | batch creation, settlement |
| Settlement (`settlementController.ts`) | batch status, order outcomes, `settlements` rows | `settleBatch`, from the loop or `POST /api/settlement/:id/settle` | coordinator, settlement-engine, database |
| Soroban client (`sorobanService.ts`) | none | `createBatch`, `settleBatch` through `invokeContract` (30 s confirmation timeout) | contracts |
| Decryption coordinator (`validatorService.ts`) | `validators` rows | `coordinateDecryption`, `syncValidatorRegistry` | validators |
| Validator (`validator/localValidator.ts`, `server.ts`) | key share, DKG session, key file | `requestDecryptionShares`, DKG rounds | order-vault |
| Network bootstrap (`services/validatorNetwork.ts`) | the network served | `initValidatorNetwork`, `runDkg` | validators |
| Key generation, threshold cryptography (`crypto/*.ts`) | a dealer's polynomial, received shares | deal, receive, respond, finalize; shares, proofs, combination | – |
| order-vault (`contracts/order-vault`) | admin, batch attestations, an order pool | `initialize`, `create_batch`, `submit_order` | – |
| settlement-engine (`contracts/settlement-engine`) | reserves, LP shares, fees, batch results | `initialize`, `add_liquidity`, `remove_liquidity`, `settle_batch`, `collect_fees` | token contracts |
| Authentication (`services/authService.ts`, `validateAuth`) | the secret | `createChallenge`, `verifyChallenge`, `issueSession`, `verifySession` | – |
| Rate limit (`middleware/rateLimit.ts`) | counts per key | counting, sweep | – |
| Frontend session (`WalletContext`, `services/wallet.ts`, `services/auth.ts`) | wallet, cached token, login in flight | connect, disconnect, restore, `getToken`, `signIn` | authentication |
| Frontend requests (`SwapForm`, `useSwap`, `useUserOrders`) | a request in progress | submit, list | gateway |

What is hard about it: the backend is one Node process in which the loop and any
number of requests interleave at every `await`, over a database that is used
without transactions; a contract call can fail after its transaction was sent;
the process can die between any two statements; validators may be unreachable,
late or dishonest, and the coordinator itself is not trusted by them; key
generation takes five rounds with each of them; in the browser the wallet can
change during every await of a request; all amounts are integers and every
division rounds.

What makes it correct: nobody can open an order that is not in a sealed batch,
and a sealed batch is executed in its sealed order; a batch is worked on by one
handler at a time and is settled for good; what the database says of an order is
true of the chain; every order gets an outcome; shares of two keys never meet
and the key that is served can be used; an order is stored for an account that
signed in, and can be decrypted; pools never lose value to rounding and the
books match the tokens. `PROJECT.json` lists the hazards at their lines, each
with the properties that cover it.

## Modules

| Module | Models |
| --- | --- |
| `OrderLifecycle` | abstract: the life of one order, without batches, handlers or failures |
| `BatchPipeline` | order intake, batch creation, loop, settlement, Soroban client |
| `SealThenOpen` | abstract: what is opened was sealed, and a seal is for ever |
| `ShareRelease` | order-vault's attestations, validators' share release, coordinator |
| `KeyGeneration` | validators' DKG handlers and key files, `runDkg`, the backend's start |
| `ThresholdMath` | the arithmetic of key generation, decryption shares and the order cipher |
| `Session` | the tab's wallet, login and requests; authentication and the order routes |
| `RateLimit` | the fixed-window limiter |
| `SwapAmounts` | the form's conversions |
| `EngineMath` | the contract's integer arithmetic |
| `SettlementEngine` | the settlement-engine contract |
| `MC*` | instances for TLC; `MCAlgorithms` checks `EngineMath`, `ThresholdMath`, `SwapAmounts` and `RateLimit` |
| `BatchPipelineProofs`, `ShareReleaseProofs`, `KeyGenerationProofs`, `SessionProofs`, `RateLimitProofs`, `SettlementEngineProofs` | theorems about the module they are named after |
| `EngineMathProofs`, `AlgorithmProofs` | lemmas about `EngineMath`, folds and sums; theorems about `MCAlgorithms` |

`BatchPipeline` implements `OrderLifecycle` and `ShareRelease` implements
`SealThenOpen`. What one module takes for granted another one models:
`BatchPipeline`'s decryption step is `ShareRelease`, its contract call is
`SettlementEngine`; `ShareRelease` assumes keys, which `KeyGeneration` brings
about; the abstract shares of both are those of `ThresholdMath`; `Session` ends
where `BatchPipeline` stores the order.

### BatchPipeline

One handler (the loop, a create request, a retry request) is a program counter
and its locals; one action is the code between two awaits that touch the
database or the chain, so every other handler can run in between. `oStatus`,
`oBatch`, `amountOut` are the columns of `orders`; `bStatus`, `bOrders` those of
`batches`; `receipts` the `settlements` rows; `sealed` and `executed` what the two
contracts recorded; `orphans` transactions that were sent by a handler that gave
up, and that land later or never; `writes` the `Order.update` statements of
the `Promise.all` in `settleBatch`, which take effect in any order and go on
when the handler has already entered its catch block.

Failures are actions with a budget per kind (`FaultBudget`): a statement that
throws, a contract call that throws (with or without its transaction being
sent), a decryption that misses some orders, a crash with restart. A batch id
is drawn from a counter, which stands for `crypto.randomUUID()` never repeating.
A failing statement has no effect. Sealing is one step: nobody else knows the
batch id before the batch row exists.

`Decrypt` abstracts `coordinateDecryption`: a batch whose ciphertexts are not the
sealed ones yields nothing, otherwise what is not `Bad` is decrypted unless
there is an outage. `Accepted` abstracts `settle_batch`: a batch id once, all
orders or none; a batch with an `Unsettleable` order reverts.

A crash leaves behind what nobody picks up again (`Abandoned`): a batch row that
is still `created`, or one that is `submitted` and so refuses every claim. The
liveness properties name this exception; that it is the only one is what the
run shows. A catch block whose own statement fails has the same effect, so
`PipelineLiveness` has no failing statements.

### ShareRelease

The coordinator asks whatever it likes of any validator, and seals any list.
`LocalValidator.requestDecryptionShares` is two steps, the ledger read
(`getBatch`) and the check with the release. A call of a running
`coordinateDecryption` can time out and then goes on as a stray call, or was
never seen. SHA-256 is taken to be free of collisions, so a commitment is the
list it was computed over; a share is correct or not; fewer than `Threshold`
correct shares reveal nothing. Fewer than `Threshold` validators may run
with `insecure-skip`, which the code reserves for local development.

### KeyGeneration

The coordinator is `start()` of the backend: `phase` says how far it is, `answer`
and `info` what the validators answered in the round, `transcript` what the
rounds of each session collected. A validator is its key in memory (`mem`) and
in its file (`disk`), its DKG session and the shares it checked. A round is a set
of `calls`; each is handled by one action. `dkgDeal` and `dkgReceive` await
(`localValidator.ts:157`, `:175`), but only the sealing and opening of shares, on the
session object they took before, and no other round of that session is asked for
until they have answered, so nothing they read can change meanwhile.
Over HTTP a call may be given up and be handled any time later, also in another
session or after a restart; in process (`mode = "local"`) the validators live
and die with the backend. `conduct` fixes which dealers send wrong shares, lie
when accused or leave a share out.

A key is the session that made it and the dealers summed up in it; `OneKey`
says that there is never a second one. `Exit` covers every `throw` of the start:
the supervisor restarts the process (`docker-compose.yml:29` and `:89`,
`restart: unless-stopped`). Three things to know when reading the properties: a
dealer that leaves a share out stops key generation by design (a complaint would
make the share public, `crypto/dkg.ts:222`); a key that could not be written
stays in memory, so that one restart later its validator has none
(`ServedKeyIsHeld` counts these); a key file cut off by a crash or a full disk, or
keys on a part of the validators, needs the operator, who deletes all of them.

### ThresholdMath

A point is its logarithm in a group of prime order `L`, so that group operations
are arithmetic mod `L`. Polynomials, commitments, shares, the DLEQ proof, Lagrange
coefficients, `combineShares` with its `Map`, and the order cipher are the code's
formulas. Hashes are free of collisions, HKDF and AES-GCM ideal, encodings left
out. In a small group the cases of value zero are frequent instead of
negligible; the properties say what happens in them. Every participant deals, as
`runDkg` has it.

### SwapAmounts

A decimal is its whole part and its digits, so that the conversions are those of
the strings. `applySlippage` computes with JavaScript numbers, and so does the
model: `Double` is the double nearest to a fraction, ties to even, in a format
whose significands are below the constant `Significands` (2^53 in the code). The
amount (`parseFloat`), `slippageBps / 10000`, the difference from 1 and the product
are rounded one after the other, and `toFixed` rounds to the token's digits, ties
up. From `FixedLimit` on (10^21) `toFixed` writes an exponent, which `toBaseUnits`
refuses. An amount is a decimal in base units: of the other strings that
`parseFloat` reads, the form submits none. All tokens have 7 decimals, which are
also the digits of `toFixed`.

### Session and RateLimit

The tab is its wallet (`kind`, `demoKeypair` in `sessionStorage`; `address` in
React state), the cached session, the one login in flight, and requests that
advance from await to await: fetch the threshold key, get a token, be handled.
Between any two steps the user may switch wallets or reload, time may pass and
the backend may restart with another secret or key. A time is kept as what is
left until it and how long ago it was, each up to where nothing tells it apart,
so time itself is unbounded. `effect` is what the last step stored or listed.

`getToken` returns the login in flight whoever it is for
(`frontend/src/services/auth.ts:55`), so a request may carry another account's
token. The gateway goes by the token: such an order is stored under the account
that signed, but its ciphertext is bound to the other one and will not decrypt.
`StoredOrderOpens` excludes exactly these. A cached token is not cleared when the
backend answers 401, so that after a restart with a random secret requests fail
until it expires or the wallet is connected again; no property is about that.

`RateLimit` is one limiter for any set of keys. `Session` treats a refused request
like a lost one.

### SettlementEngine

Contract calls are serial and atomic. `settle_batch` is modelled with its loop:
`tx` is the transaction's buffered state, advanced one order at a time,
committed at the end or dropped at the first error. Token contracts are external:
balances, and transfers that fail on a negative amount or an insufficient
balance. `i128` is modelled by `Int`: amounts are far from its range. Storage
lifetimes (`extend_ttl`) are left out, and so are calls that name the same token
twice. The fee rate is a constant; runs of the pool use 1/2 so that an order of
two units pays a fee, because 30/10000 rounds to 0 below 334. `EngineMath` is
checked with the real rate, across that boundary.

## Runs

| Run | Checks | Bounds |
| --- | --- | --- |
| `PipelineFaults` | type invariant, `ClaimExclusive`, `SettledWasExecuted`, `ReceiptsMatchChain`, `ExecutedAsSealed`, `AmountIsOwn`, `SettledFinal` | 2 orders, 2 batches; loop, one creator, one retrier; each fault once |
| `PipelineDevMode` | `SettledBatchHasOutcomes` | no contracts, 3 orders (one bad, two that share a nonce), two retriers, each fault once |
| `PipelineLiveness` | refinement of `OrderLifecycle`, `OrdersReachOutcome`, `ClaimReleased` | 2 orders (one unsettleable), 5 batches, one retrier of failed batches; two RPC errors, one outage, one crash |
| `Release` | type invariant, `BatchIsFixed`, `DecryptedWasOpenable`, refinement of `SealThenOpen`, `SealedBatchDecrypts` | 4 validators (one byzantine, one not checking, these two unreliable), threshold 2, one batch id, 3 lists, 2 rounds or requests |
| `KeyGeneration` | type invariant, `OneKey`, `ServedKeyIsHeld`, `NoPartialKeys`, `RegistryMatches`, `NetworkComesUp` | 3 validators, threshold 2, in process and over HTTP, 2 conducts, 2 sessions, any two faults of different kinds |
| `Session` | type invariant, `OnlyAfterSigning`, `StoredOrderOpens`, `AccessEnds` | Freighter and one demo account, 2 requests, challenge 1 s, session 3 s, margin 1 s, one new secret and one new key |
| `Algorithms` | `IsqrtIsFloorRoot`, `AmountOutIsLargest`, `FormAmountsAreExact`, `KeysMatchCommitments`, `ProofsAreExact`, `AnyThresholdOpens`, `BurstIsBounded` | amounts to 700, reserves to 10, the real fee; doubles of 9 bits, 2 decimals, `toFixed` limit 6; all polynomials of 3 participants with non-zero coefficients over a group of order 5, threshold 2; 2 clients, window 2, limit 2, 4 ticks |
| `EnginePool` | type invariant, `SharesAreBacked`, `SupplyIsHeld`, `FeesAreAccounted`, `BooksBalance`, `ShareValueNeverDrops`, `SharesArePaidFor` | 2 pools that share a token, 2 users, one batch of up to 2 orders |

The bounds are enough for the cases in question. Pipeline: two orders tell a
sealed order from another one and a result from its neighbour's; two batches let
an order be in both; a creator, a retrier and the loop are the three callers the
code has; one fault of each kind reaches every error path, also in combination.
`PipelineFaults` treats its two orders as symmetric: none is bad and no two share
a nonce, so the model does not tell them apart. For the properties proved below
the bounds do not matter. `PipelineLiveness` leaves out failing statements, manual
batch creation and retries of a batch that is still being created, because with
them the lifecycle does not hold: see below.
Key generation: with threshold 2 of 3 one dealer can be disqualified and a key
still be made; two sessions and two faults let a call of the first session be
handled in the second, a restart meet keys on a part of the validators, and an
operator's re-keying meet either.
Session: two requests share a login; a session that outlives the challenge by
more than the margin makes a token go through fresh, stale to the tab, and
expired; requests are interchangeable.

The deadlock check is on in `EnginePool` and `Session`. The others turn it off,
because the system may stop there: every request is answered and no order is
pending, the coordinator asks for nothing more, the backend serves or waits for
an operator, or `Algorithms` has come to its last input.

Four runs record disagreements between the code and its own words:

| Run | Statement | What happens |
| --- | --- | --- |
| `NonceRace` | `NonceUnique` | two submissions pass the lookup before either inserts; there is no unique index |
| `RetryAfterTimeout` | `FailedNotExecuted` | the transaction lands after the confirmation timeout; a retry during an outage records its orders as failed |
| `CreateRace` | `OnlyPendingBatched` | two creators both see an order pending and both batch it |
| `EngineFees` | `ReservesAreHeld` | fees stay in the reserves and are paid out as well |

Three more consequences of the same lines are visible in the model and covered by
no property: a request that settles a batch between `Batch.create` and
`Order.update` has its outcomes overwritten by the latter (`batchController.ts:34`);
a crash at that point leaves the orders pending, the loop batches them again, and
a retry request that names the batch left behind then executes them a second
time; and a last `Batch.update` that fails after `Settlement.create` lets a retry
write a second settlement row (`settlementController.ts:71`). This is why
`SettledBatchHasOutcomes` and `ImplementsLifecycle` are stated for retries of failed
batches.

### Fairness

`PipelineLiveness` assumes that the interval keeps firing, that every await of a
running handler settles (statements return or throw, `invokeContract` gives up
after 30 s, `RemoteValidator` after 15 s), and that started order updates finish.
No request need ever arrive and no transaction left behind need ever land.

`Release` assumes that a call of a round is served or timed out and that
`coordinateDecryption` then goes on.

`KeyGeneration` assumes that the system as a whole does not stop while the backend
has a step to take or a call is there to be handled: the supervisor restarts the
backend, and a round's calls are handled or given up. There is no fairness per
call: one that was given up may be left lying for ever.

## Proofs

Proved for every value of the constants, from the assumptions named in the
modules that declare them: `PipelineAssumption`, `ReleaseAssumption`,
`LimitAssumption`, `SessionAssumption`, `ThresholdAssumption` with
`KeyGenerationAssumption`, `FeeAssumption`, `EngineAssumption`, `PrimeOrder`,
`IndexRange`, `DoubleAssumption` and `BoundsAssumption`. They give constants their types and ranges (a
threshold of at most the number of validators, a positive window, a fee rate of
at most one, share indices that are scalars; powers of two that cover the amounts,
and a slippage wider than the error of the doubles and below one half);
`PrimeOrder` says that the group's order is prime, as that of ristretto255 is;
`ReleaseAssumption` says of the deployment that fewer than `Threshold` validators
skip their checks. Two theorems have one or two hypotheses more, named below.

`BatchPipelineProofs`:

* `TypeCorrect`, `MutualExclusion`, `SettledIsFinal` rest on `ClaimInv`. That
  holders of a claim exclude each other is not inductive by itself: one needs
  that the batch a handler holds is `submitted` (so the conditional update
  refuses a second claim), that a batch id has been drawn before it is used, and
  that a batch being built has one builder and no row yet (so that the insert
  does not reset a claimed batch).
* `SettledOnlyIfExecuted`, `ReceiptsAreTheChains`, `AmountsAreOwn` rest on
  `ChainInv`: every pending order update and every handler past the contract
  call speaks of results that are on chain, and these never change.
* `ExecutesWhatWasSealed` rests on `SealInv`: what a handler or an orphaned
  transaction carries is a sublist of the batch row in order (`OrderInv`, in any
  deployment), and a batch row lists what was sealed under its id (`SealCore`,
  where order-vault is configured).
* `SettledLeavesNoneOut` assumes `LoopCreates`: no request creates batches, and
  retries follow the loop's claims. Without it the property fails: `Order.update`
  of a batch creation overwrites outcomes (see Runs). `MarkInv` says that an order
  is marked as batched before its batch can be claimed; `OutcomeInv` that the
  handler of a claimed batch, past its `Promise.all`, leaves no order without an
  outcome. Statements may fail.
* `LifecycleKept`, the refinement of `OrderLifecycle`, assumes `LoopCreates` and
  `NoDbFaults`. A statement of the `Promise.all` that fails makes the handler
  release its batch while the other updates are still running, and a retry then
  writes an outcome that one of them overwrites. `LifeInv` says that without this
  every update in flight is awaited by its handler, is the only one for its order
  and gives it its first outcome; that the orders of an unresolved batch are
  `batched`; and that transactions, landed or not, are of batches that were
  claimed.

These hypotheses are those of the runs that check the two properties.

`ShareReleaseProofs`:

* `TypeCorrect`: the calls of a round are those of the validators it waits for,
  at most one each, so that a late answer is never taken for one of a later round.
* `OneListPerBatch` and `PromiseKept` rest on `AttestInv`: what a validator has
  read is what is attested now (attestations never change), and what a checking
  validator has released is attested. The refinement counts: a threshold of
  holders contains one that checks.
* `DecryptsWithEnoughShares`: every good answer of the running round is a
  release by a correct validator.

`KeyGenerationProofs`:

* `TypeCorrect`, `OneKeyOnly`, `RegistryIsRight` and `ServedKeysAreHeld` rest on
  `KeyGenInv`. For a second key two sessions would have to leave something
  behind (`SupersededInv`): a session passes its first round only when all
  validators answered it, each without a key, and then no validator is in an
  earlier session that passed (`BegunInv`); stray calls of earlier rounds change
  nothing about that (`CallsInv`). A key is what its session's transcript says,
  which is frozen when the first key is made (`KeyInv`). `ServedKeysAreHeld`
  counts the writes that failed (`DiskInv`).
* `KeysForAllOrNone` needs `SoundInv` too: without faults all validators are in
  step with the coordinator and have the same shares of the qualified dealers.

`SessionProofs`: `TypeCorrect`, `SignedFirst`, `StoredOrdersOpen` and
`AccessIsLimited` rest on `SessionInv`: the login in flight is for one account from
its challenge to its end; every token, cached or on its way, belongs to an
account that signed; a request that did not join another account's login has
its own account's token; what is left of a token and its age add up to at most
the lifetime of a challenge and of a session.

`RateLimitProofs`: `BurstsAreBounded`. The limiter remembers one window per key and
the sweep forgets it, while the property is about all requests. So the
invariant has a witness: there is a set of requests that opened windows, each a
window after the one before, such that every request is less than `max` after
one of them (`Opened`), and the entry of the key is the last one's, or all
windows are over (`EntryIsLast`).

`EngineMathProofs` has no listed theorem; it holds what the next two use:
division, `isqrt`, the fee and the amount paid out, and folds over finite sets. A
fold takes the elements in an order that `CHOOSE` fixes; `FoldTake` says that when
the steps commute any element may be taken last, and sums and products follow.
What a recursion computes is shown by the least counterexample (`LeastNat`,
`NoSmallest`): a value at which Newton's loop ends below or above the root, or a
smallest set on which a sum differs, does not exist. That the recursion has a
solution at all, which `CHOOSE` needs, is shown by giving one.

`AlgorithmProofs`, for every input:

* `IsqrtIsRight` and `AmountOutIsRight`, from `EngineMathProofs`.
* `KeysAreRight`: Horner's rule, which the dealer uses, and the sum of powers, by
  which anyone evaluates the commitments, agree mod `L` (`SameValue`). After `k`
  coefficients the sum so far and the next power times the rest of Horner's rule
  make the value.
* `ProofsAreRight`: a key share and a random scalar that are not zero have a
  product that is not zero. This is where the order must be prime
  (`NoZeroProduct`: the least scalar with a zero product divides `L`).
* `ThresholdOpens` is Lagrange interpolation as the code computes it. `modInverse`
  is a power by repeated squaring, and inverts by Fermat's theorem (`Fermat`: the
  multiples of a scalar are the scalars in another order, so their products
  agree). Everything about coefficients comes from leaving out a point `a`: times
  `i - a`, a coefficient is `-a` times the one without `a` (`LagrangeStep`). Hence
  coefficients add up to 1 (`InterpolatedOnes`), and `N` points find the constant
  of a polynomial with `N` coefficients (`InterpolatedPolynomial`, by one step of
  Horner's rule at a time). Key shares add up over the dealers
  (`InterpolatedKey`). `UsedFacts` is about the `Map`: the positions it keeps are
  as many as there are different indices, cut off at the threshold.
* `FormIsExact`: appending to the whole part the digits that the division by ten
  split off gives the amount again (`UnitsFacts`); the zeros that
  `fromBaseUnits` drops are those that `toBaseUnits` pads. For the minimum,
  `DoubleFacts` says that a double is off by one part in `Significands` at most;
  `FactorFacts` and `ProductFacts` carry that through the difference and the product,
  and `FixedFacts` through `toFixed`. The result is stated on both sides: half a unit
  and four parts in `Significands` of the amount. With 2^53 the second term stays
  below half a unit up to 2^50 base units, about 112 million tokens.

`SettlementEngineProofs`:

* `TypeCorrect`, `SharesStayBacked`, `ShareValueIsKept` and `SharesAreNotFree` rest
  on `ValueInv`, in which a running `settle_batch` is a contract of its own whose
  pools have lost nothing (`TxTyped`, `TxValue`). Types and values must be proved
  together: burning shares yields no negative amount only because shares are
  backed.
* `SupplyStaysHeld`, `BooksStayBalanced` and `FeesStayAccounted` are about sums over
  users, pools and results; `TxBooks` and `TxFees` say the same of the running
  transaction.

Only model-checked: the liveness properties (`OrdersReachOutcome`, `ClaimReleased`,
`SealedBatchDecrypts`, `NetworkComesUp`). Liveness under fairness is out of the
prover's reach. Every other property of a passing run is a theorem.

## Not modelled

* `order-vault`'s `submit_order`: it appends to a pool that nothing reads or
  empties.
* Of key generation: an empty key directory (keys in memory only), the hook by
  which tests set a network, canonical JSON and signatures of messages (ideal),
  identity keys, and the scripts that set a cluster up (`initCluster`,
  `devCluster`).
* Input validation by length and format, configuration, read-only routes: they
  keep no state. The comparison with the current threshold key is in `Session`.
* What the frontend shows of the backend's answers, and its pages. In particular
  an answer that `useOrder` gets after the user moved on to another order.
* XDR and other encodings, curve arithmetic below the group law.
* `backend/src/index.ts:38`, `backend/src/validator/main.ts:113` and
  `backend/src/validator/devCluster.ts:93` end in an obfuscated line that is no
  part of the program's logic and that `scripts/check-source-integrity.sh` is there
  to detect; it is not modelled and no claim here covers a process that runs it.

## Plan

Done: all components with state, at the granularity described above; every safety
invariant, action property and refinement that a run checks, proved. What would
come next:

1. `useOrder`, whose answer may arrive after the user moved on to another order.
2. The scripts that set up a cluster, up to the point where `KeyGeneration` begins.
