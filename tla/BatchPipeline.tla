----------------------------- MODULE BatchPipeline -----------------------------
(***************************************************************************)
(* The backend's order pipeline: POST /api/orders, the batching loop, the  *)
(* manual POST /api/batches/create and the POST /api/settlement/:id/settle *)
(* retry, all running as concurrent asynchronous handlers of one Node      *)
(* process over one database and one chain.                                *)
(*                                                                         *)
(* A handler is a program counter and its local variables; every await of  *)
(* the code that reads or writes the database or the chain is one action,  *)
(* so any other handler can run between two of them.  A database           *)
(* statement is atomic.  What can go wrong is budgeted by fault kind:      *)
(*   "db"      a statement throws and has no effect;                       *)
(*   "rpc"     a contract call throws in the backend; its transaction may  *)
(*             have been sent all the same, and lands at any later time or *)
(*             never;                                                      *)
(*   "outage"  validators do not answer, or answer with bad shares, so     *)
(*             that a subset of the batch's good orders is decrypted;      *)
(*   "crash"   the process dies and restarts: handlers and, without an     *)
(*             order-vault contract, the in-memory ledger are lost.        *)
(*                                                                         *)
(* An order's ciphertext and plaintext are its identity; the amount_out    *)
(* computed for an order is represented by the order it was computed for.  *)
(***************************************************************************)
EXTENDS Naturals, Sequences

CONSTANTS
    Orders,             \* submissions of an order (their ids, once created)
    NoOrder,            \* SQL NULL in a column that holds an order's amount
    NonceKey,           \* [Orders -> (user_address, nonce)]
    Bad,                \* orders that never decrypt to a valid payload
    Unsettleable,       \* orders whose presence makes settle_batch throw
    Loop,               \* the batching loop (one per process: `running')
    Creators,           \* requests to POST /api/batches/create
    Retriers,           \* requests to POST /api/settlement/:batchId/settle
    RetryStatuses,      \* batch statuses on which a client sends a retry
    BatchSize,          \* config.batchSize
    VaultConfigured,    \* ORDER_VAULT_CONTRACT is set
    EngineConfigured,   \* SETTLEMENT_ENGINE_CONTRACT is set
    MaxIds,             \* bound: longest list of order ids of one batch
    MaxBatches,         \* bound: batch ids drawn from crypto.randomUUID()
    FaultBudget         \* bound: [FaultKinds -> Nat]

FaultKinds == {"db", "rpc", "outage", "crash"}
Handlers   == {Loop} \cup Creators \cup Retriers
BatchIds   == 1 .. MaxBatches

ASSUME PipelineAssumption ==
    /\ NoOrder \notin Orders
    /\ DOMAIN NonceKey = Orders
    /\ Bad \subseteq Orders
    /\ Unsettleable \subseteq Orders
    /\ Loop \notin Creators \cup Retriers
    /\ Creators \cap Retriers = {}
    /\ RetryStatuses \subseteq {"created", "submitted", "settled", "failed"}
    /\ MaxIds \in Nat
    /\ BatchSize \in 1 .. MaxIds
    /\ MaxBatches \in Nat
    /\ VaultConfigured \in BOOLEAN
    /\ EngineConfigured \in BOOLEAN
    /\ FaultBudget \in [FaultKinds -> Nat]

VARIABLES
    subPc,      \* [Orders -> ...] progress of the submitOrder handler
    arrival,    \* order ids by created_at
    oStatus,    \* orders.status, "none" while there is no row
    oBatch,     \* orders.batch_id, 0 for NULL
    amountOut,  \* orders.amount_out
    bStatus,    \* batches.status, "none" while there is no row
    bOrders,    \* batches.order_ids
    receipts,   \* settlements.results, per batch_id, in insertion order
    sealed,     \* order-vault attestation (or the in-memory ledger's record)
    executed,   \* settlement-engine results; <<>> when there are none
    orphans,    \* settle_batch transactions sent by handlers that gave up
    nextId,     \* next batch id
    pc,         \* [Handlers -> ...] program counters
    ids,        \* handler local: order ids being batched
    bat,        \* handler local: batch id
    dec,        \* handler local: `decrypted', then `results'
    writes,     \* Order.update statements of a Promise.all, still running
    faults      \* [FaultKinds -> Nat] faults so far

orderVars   == <<subPc, arrival>>
rowVars     == <<oStatus, oBatch, amountOut>>
batchVars   == <<bStatus, bOrders, receipts>>
chainVars   == <<sealed, executed, orphans>>
handlerVars == <<nextId, pc, ids, bat, dec>>
vars == <<orderVars, rowVars, batchVars, chainVars, handlerVars, writes, faults>>

--------------------------------------------------------------------------------
(* Lists of order ids.                                                        *)

\* Lists without repetition: createBatch removes duplicates, keeping order.
Lists == { s \in UNION { [1 .. n -> Orders] : n \in 0 .. MaxIds } :
             \A i, j \in DOMAIN s : s[i] = s[j] => i = j }

Elems(s) == { s[i] : i \in DOMAIN s }

\* d lists some of the elements of s, in the order of s.
SubList(d, s) ==
    /\ Elems(d) \subseteq Elems(s)
    /\ \A i, j \in DOMAIN d : i < j =>
         \E k, l \in DOMAIN s : k < l /\ s[k] = d[i] /\ s[l] = d[j]

\* Mutant: the loop also picks up orders of a batch that has not settled yet.
PendingOrBatched == { o \in Orders : oStatus[o] \in {"pending", "batched"} }

Pending == { o \in Orders : oStatus[o] = "pending" }

\* SELECT ... WHERE status = 'pending' ORDER BY created_at ASC LIMIT batchSize
OldestPending(s) ==
    /\ SubList(s, arrival)
    /\ Elems(s) \subseteq Pending
    /\ Len(s) <= BatchSize
    /\ Len(s) < BatchSize => Elems(s) = Pending
    /\ \A o \in Pending \ Elems(s) : \A i \in DOMAIN s : SubList(<<s[i], o>>, arrival)

Fault(k) ==
    /\ faults[k] < FaultBudget[k]
    /\ faults' = [faults EXCEPT ![k] = @ + 1]

\* The loop is ready for its next tick; a request has been answered.
Ended(p) == IF p = Loop THEN "idle" ELSE "done"
Goto(p, l) == pc' = [pc EXCEPT ![p] = l]

--------------------------------------------------------------------------------
Init ==
    /\ subPc = [o \in Orders |-> "new"]
    /\ arrival = <<>>
    /\ oStatus = [o \in Orders |-> "none"]
    /\ oBatch = [o \in Orders |-> 0]
    /\ amountOut = [o \in Orders |-> NoOrder]
    /\ bStatus = [b \in BatchIds |-> "none"]
    /\ bOrders = [b \in BatchIds |-> <<>>]
    /\ receipts = [b \in BatchIds |-> <<>>]
    /\ sealed = [b \in BatchIds |-> <<>>]
    /\ executed = [b \in BatchIds |-> <<>>]
    /\ orphans = {}
    /\ nextId = 1
    /\ pc = [p \in Handlers |-> "idle"]
    /\ ids = [p \in Handlers |-> <<>>]
    /\ bat = [p \in Handlers |-> 0]
    /\ dec = [p \in Handlers |-> <<>>]
    /\ writes = {}
    /\ faults = [k \in FaultKinds |-> 0]

--------------------------------------------------------------------------------
(* orderController.submitOrder: look for the nonce, then insert the row.      *)

NonceUsed(o) == \E x \in Orders : oStatus[x] # "none" /\ NonceKey[x] = NonceKey[o]

SubmitFind(o) ==
    /\ subPc[o] = "new"
    /\ subPc' = [subPc EXCEPT ![o] = IF NonceUsed(o) THEN "ended" ELSE "create"]
    /\ UNCHANGED <<arrival, rowVars, batchVars, chainVars, handlerVars, writes, faults>>

SubmitCreate(o) ==
    /\ subPc[o] = "create"
    /\ subPc' = [subPc EXCEPT ![o] = "ended"]
    /\ arrival' = Append(arrival, o)
    /\ oStatus' = [oStatus EXCEPT ![o] = "pending"]
    /\ UNCHANGED <<oBatch, amountOut, batchVars, chainVars, handlerVars, writes, faults>>

SubmitDbError(o) ==
    /\ subPc[o] \in {"new", "create"}
    /\ Fault("db")
    /\ subPc' = [subPc EXCEPT ![o] = "ended"]
    /\ UNCHANGED <<arrival, rowVars, batchVars, chainVars, handlerVars, writes>>

--------------------------------------------------------------------------------
(* The three ways a handler starts.                                           *)

\* batchingService.runOnce: the first findAll; nothing happens without a row.
LoopTick ==
    /\ pc[Loop] = "idle"
    /\ \E s \in Lists :
         /\ s # <<>>
         /\ OldestPending(s)
         /\ ids' = [ids EXCEPT ![Loop] = s]
    /\ Goto(Loop, "check")
    /\ UNCHANGED <<orderVars, rowVars, batchVars, chainVars, nextId, bat, dec, writes, faults>>

\* POST /api/batches/create with any non-empty list of ids.
CreateRequest(p) ==
    /\ pc[p] = "idle"
    /\ \E s \in Lists :
         /\ s # <<>>
         /\ ids' = [ids EXCEPT ![p] = s]
    /\ Goto(p, "check")
    /\ UNCHANGED <<orderVars, rowVars, batchVars, chainVars, nextId, bat, dec, writes, faults>>

\* POST /api/settlement/:batchId/settle for a batch that has a row (404 if not);
\* the batch may have another status by the time it is claimed.
RetryRequest(p) ==
    /\ pc[p] = "idle"
    /\ \E b \in BatchIds :
         /\ bStatus[b] \in RetryStatuses
         /\ bat' = [bat EXCEPT ![p] = b]
    /\ Goto(p, "claim")
    /\ UNCHANGED <<orderVars, rowVars, batchVars, chainVars, nextId, ids, dec, writes, faults>>

--------------------------------------------------------------------------------
(* batchController.createBatch                                                *)

\* findAll of the pending rows among the ids; refuse if one is missing.
CheckPending(p) ==
    /\ pc[p] = "check"
    /\ IF Elems(ids[p]) \subseteq Pending
         THEN /\ nextId \in BatchIds
              /\ nextId' = nextId + 1
              /\ bat' = [bat EXCEPT ![p] = nextId]
              /\ Goto(p, "seal")
         ELSE /\ Goto(p, Ended(p))
              /\ UNCHANGED <<nextId, bat>>
    /\ UNCHANGED <<orderVars, rowVars, batchVars, chainVars, ids, dec, writes, faults>>

\* sorobanService.createBatch: create_batch on order-vault, or the dev ledger.
Seal(p) ==
    /\ pc[p] = "seal"
    /\ sealed' = [sealed EXCEPT ![bat[p]] = ids[p]]
    /\ Goto(p, "insert")
    /\ UNCHANGED <<orderVars, rowVars, batchVars, executed, orphans, nextId, ids, bat, dec, writes, faults>>

\* The call throws; the attestation may be recorded all the same.
SealError(p) ==
    /\ pc[p] = "seal"
    /\ VaultConfigured
    /\ Fault("rpc")
    /\ \E s \in {<<>>, ids[p]} : sealed' = [sealed EXCEPT ![bat[p]] = s]
    /\ Goto(p, Ended(p))
    /\ UNCHANGED <<orderVars, rowVars, batchVars, executed, orphans, nextId, ids, bat, dec, writes>>

\* Batch.create
InsertBatch(p) ==
    /\ pc[p] = "insert"
    /\ bStatus' = [bStatus EXCEPT ![bat[p]] = "created"]
    /\ bOrders' = [bOrders EXCEPT ![bat[p]] = ids[p]]
    /\ Goto(p, "mark")
    /\ UNCHANGED <<orderVars, rowVars, receipts, chainVars, nextId, ids, bat, dec, writes, faults>>

\* Order.update({status: 'batched', batch_id}, {where: {id: orderIds}}): by id
\* only, whatever status the rows have by now.
MarkBatched(p) ==
    /\ pc[p] = "mark"
    /\ oStatus' = [o \in Orders |-> IF o \in Elems(ids[p]) THEN "batched" ELSE oStatus[o]]
    /\ oBatch' = [o \in Orders |-> IF o \in Elems(ids[p]) THEN bat[p] ELSE oBatch[o]]
    /\ Goto(p, IF p = Loop THEN "claim" ELSE Ended(p))
    /\ UNCHANGED <<orderVars, amountOut, batchVars, chainVars, nextId, ids, bat, dec, writes, faults>>

--------------------------------------------------------------------------------
(* settlementController.settleBatch                                           *)

\* Mutants: the claim also takes a batch in progress, or one that has settled.
ClaimableInProgress == {"created", "failed", "submitted"}
ClaimableSettled    == {"created", "failed", "settled"}

Claimable == {"created", "failed"}

\* Batch.update({status: 'submitted'}, {where: {id, status: [...]}}); 409 on 0.
Claim(p) ==
    /\ pc[p] = "claim"
    /\ IF bStatus[bat[p]] \in Claimable
         THEN /\ bStatus' = [bStatus EXCEPT ![bat[p]] = "submitted"]
              /\ Goto(p, "decrypt")
         ELSE /\ Goto(p, Ended(p))
              /\ UNCHANGED bStatus
    /\ UNCHANGED <<orderVars, rowVars, bOrders, receipts, chainVars, nextId, ids, bat, dec, writes, faults>>

\* The orders of a batch whose plaintext parseDecryptedOrder accepts: for the
\* user and the nonce that were submitted, and well formed.
Decryptable(b) == Elems(bOrders[b]) \ Bad

\* Mutant: orders are passed on in the order the database returned them.
DecryptUnordered(p) ==
    /\ pc[p] = "decrypt"
    /\ \E d \in Lists :
         /\ Elems(d) = Decryptable(bat[p])
         /\ dec' = [dec EXCEPT ![p] = d]
    /\ Goto(p, "settle")
    /\ UNCHANGED <<orderVars, rowVars, batchVars, chainVars, nextId, ids, bat, writes, faults>>

\* validatorService.coordinateDecryption.  Validators release nothing unless
\* the ciphertexts are the sealed ones.  Without a fault, every order decrypts
\* that is not bad.
Decrypt(p) ==
    /\ pc[p] = "decrypt"
    /\ \E d \in Lists :
         /\ SubList(d, bOrders[bat[p]])
         /\ Elems(d) \cap Bad = {}
         /\ IF sealed[bat[p]] # bOrders[bat[p]]
              THEN d = <<>> /\ UNCHANGED faults
              ELSE IF Elems(d) = Decryptable(bat[p])
                     THEN UNCHANGED faults
                     ELSE Fault("outage")
         /\ dec' = [dec EXCEPT ![p] = d]
    /\ Goto(p, "settle")
    /\ UNCHANGED <<orderVars, rowVars, batchVars, chainVars, nextId, ids, bat, writes>>

\* Mutants: results are indexed by position in the batch; orders that failed to
\* decrypt are not updated.
OrderUpdatesMisaligned(p) ==
    { [by |-> p, batch |-> bat[p], order |-> dec[p][i], status |-> "settled",
       out |-> bOrders[bat[p]][i]] : i \in DOMAIN dec[p] }

OrderUpdatesOkOnly(p) ==
    { [by |-> p, batch |-> bat[p], order |-> dec[p][i], status |-> "settled",
       out |-> dec[p][i]] : i \in DOMAIN dec[p] }

\* The Order.update statements of the Promise.all: an order that was decrypted
\* gets the result of its position in `decrypted', any other one fails.
OrderUpdates(p) ==
    { [by |-> p, batch |-> bat[p], order |-> dec[p][i], status |-> "settled",
       out |-> IF EngineConfigured THEN dec[p][i] ELSE NoOrder] : i \in DOMAIN dec[p] }
    \cup
    { [by |-> p, batch |-> bat[p], order |-> o, status |-> "failed", out |-> NoOrder] :
        o \in Elems(bOrders[bat[p]]) \ Elems(dec[p]) }

\* Mutant: the contract does not look for earlier results of the batch.
AcceptedAgain(b, d) == Elems(d) \cap Unsettleable = {}

\* settle_batch accepts a batch id once, and all of its orders or none.
Accepted(b, d) ==
    /\ executed[b] = <<>>
    /\ Elems(d) \cap Unsettleable = {}

\* sorobanService.settleBatch (no call when nothing was decrypted): the results
\* of settle_batch, stub results without a contract, or an error.
Settle(p) ==
    /\ pc[p] = "settle"
    /\ \/ /\ dec[p] = <<>> \/ ~EngineConfigured
          /\ UNCHANGED executed
          /\ writes' = writes \cup OrderUpdates(p)
          /\ Goto(p, "record")
       \/ /\ dec[p] # <<>> /\ EngineConfigured
          /\ Accepted(bat[p], dec[p])
          /\ executed' = [executed EXCEPT ![bat[p]] = dec[p]]
          /\ writes' = writes \cup OrderUpdates(p)
          /\ Goto(p, "record")
       \/ /\ dec[p] # <<>> /\ EngineConfigured
          /\ ~Accepted(bat[p], dec[p])
          /\ Goto(p, "abort")
          /\ UNCHANGED <<executed, writes>>
    /\ UNCHANGED <<orderVars, rowVars, batchVars, sealed, orphans, nextId, ids, bat, dec, faults>>

\* Mutant: a confirmation timeout is taken for success.
SettleRpcErrorIgnored(p) ==
    /\ pc[p] = "settle"
    /\ dec[p] # <<>> /\ EngineConfigured
    /\ Fault("rpc")
    /\ writes' = writes \cup OrderUpdates(p)
    /\ Goto(p, "record")
    /\ UNCHANGED <<orderVars, rowVars, batchVars, chainVars, nextId, ids, bat, dec>>

\* invokeContract throws: before sending, or while polling for confirmation
\* (504 after 30 s, or an RPC error), leaving the transaction to land later.
SettleRpcError(p) ==
    /\ pc[p] = "settle"
    /\ dec[p] # <<>> /\ EngineConfigured
    /\ Fault("rpc")
    /\ \E sent \in SUBSET {[batch |-> bat[p], orders |-> dec[p]]} :
         orphans' = orphans \cup sent
    /\ Goto(p, "abort")
    /\ UNCHANGED <<orderVars, rowVars, batchVars, sealed, executed, nextId, ids, bat, dec, writes>>

OrphanLands(t) ==
    /\ orphans' = orphans \ {t}
    /\ executed' = IF Accepted(t.batch, t.orders)
                     THEN [executed EXCEPT ![t.batch] = t.orders]
                     ELSE executed
    /\ UNCHANGED <<orderVars, rowVars, batchVars, sealed, handlerVars, writes, faults>>

\* One Order.update takes effect.
OrderUpdate(w) ==
    /\ writes' = writes \ {w}
    /\ oStatus' = [oStatus EXCEPT ![w.order] = w.status]
    /\ amountOut' = [amountOut EXCEPT ![w.order] = IF w.status = "settled" THEN w.out ELSE @]
    /\ UNCHANGED <<orderVars, oBatch, batchVars, chainVars, handlerVars, faults>>

\* One Order.update throws: Promise.all rejects at once, while the other
\* statements of the same array keep running.
OrderUpdateError(w) ==
    /\ writes' = writes \ {w}
    /\ Fault("db")
    /\ IF pc[w.by] = "record" /\ bat[w.by] = w.batch
         THEN Goto(w.by, "abort")
         ELSE UNCHANGED pc
    /\ UNCHANGED <<orderVars, rowVars, batchVars, chainVars, nextId, ids, bat, dec>>

\* Mutant: the order updates are not awaited.
RecordedEarly(p) ==
    /\ pc[p] = "record"
    /\ Goto(p, "receipt")
    /\ UNCHANGED <<orderVars, rowVars, batchVars, chainVars, nextId, ids, bat, dec, writes, faults>>

\* Promise.all resolves.
Recorded(p) ==
    /\ pc[p] = "record"
    /\ \A w \in writes : ~(w.by = p /\ w.batch = bat[p])
    /\ Goto(p, "receipt")
    /\ UNCHANGED <<orderVars, rowVars, batchVars, chainVars, nextId, ids, bat, dec, writes, faults>>

\* Settlement.create
CreateReceipt(p) ==
    /\ pc[p] = "receipt"
    /\ receipts' = [receipts EXCEPT ![bat[p]] = Append(@, dec[p])]
    /\ Goto(p, "close")
    /\ UNCHANGED <<orderVars, rowVars, bStatus, bOrders, chainVars, nextId, ids, bat, dec, writes, faults>>

\* Batch.update({status: 'settled'})
Close(p) ==
    /\ pc[p] = "close"
    /\ bStatus' = [bStatus EXCEPT ![bat[p]] = "settled"]
    /\ Goto(p, Ended(p))
    /\ UNCHANGED <<orderVars, rowVars, bOrders, receipts, chainVars, nextId, ids, bat, dec, writes, faults>>

\* Mutants: the catch block only rethrows, or writes a status of another table.
AbortRethrows(p) ==
    /\ pc[p] = "abort"
    /\ Goto(p, Ended(p))
    /\ UNCHANGED <<orderVars, rowVars, batchVars, chainVars, nextId, ids, bat, dec, writes, faults>>

AbortToPending(p) ==
    /\ pc[p] = "abort"
    /\ bStatus' = [bStatus EXCEPT ![bat[p]] = "pending"]
    /\ Goto(p, Ended(p))
    /\ UNCHANGED <<orderVars, rowVars, bOrders, receipts, chainVars, nextId, ids, bat, dec, writes, faults>>

\* The catch block: Batch.update({status: 'failed'}) and rethrow.
Abort(p) ==
    /\ pc[p] = "abort"
    /\ bStatus' = [bStatus EXCEPT ![bat[p]] = "failed"]
    /\ Goto(p, Ended(p))
    /\ UNCHANGED <<orderVars, rowVars, bOrders, receipts, chainVars, nextId, ids, bat, dec, writes, faults>>

--------------------------------------------------------------------------------
(* Failures.                                                                  *)

\* A statement outside the try block, or in the catch block, ends the handler;
\* one inside the try block leads to the catch block.
DbError(p) ==
    /\ Fault("db")
    /\ \/ pc[p] \in {"check", "insert", "mark", "claim", "abort"} /\ Goto(p, Ended(p))
       \/ pc[p] \in {"decrypt", "receipt", "close"} /\ Goto(p, "abort")
    /\ UNCHANGED <<orderVars, rowVars, batchVars, chainVars, nextId, ids, bat, dec, writes>>

\* The process dies and starts again.  Requests being served are lost, and a
\* transaction just sent may still land.
CrashRestart ==
    /\ Fault("crash")
    /\ subPc' = [o \in Orders |-> IF subPc[o] = "create" THEN "ended" ELSE subPc[o]]
    /\ pc' = [p \in Handlers |-> IF pc[p] = "idle" THEN "idle" ELSE Ended(p)]
    /\ writes' = {}
    /\ sealed' = IF VaultConfigured THEN sealed ELSE [b \in BatchIds |-> <<>>]
    /\ \E sent \in SUBSET { [batch |-> bat[p], orders |-> dec[p]] :
                              p \in { q \in Handlers : /\ pc[q] = "settle"
                                                       /\ dec[q] # <<>>
                                                       /\ EngineConfigured } } :
         orphans' = orphans \cup sent
    /\ UNCHANGED <<arrival, rowVars, batchVars, executed, nextId, ids, bat, dec>>

--------------------------------------------------------------------------------
CreateStep(p) ==
    \/ CheckPending(p) \/ Seal(p) \/ SealError(p) \/ InsertBatch(p) \/ MarkBatched(p)

SettleStep(p) ==
    \/ Claim(p) \/ Decrypt(p) \/ Settle(p) \/ SettleRpcError(p)
    \/ Recorded(p) \/ CreateReceipt(p) \/ Close(p) \/ Abort(p)

Next ==
    \/ \E o \in Orders : SubmitFind(o) \/ SubmitCreate(o) \/ SubmitDbError(o)
    \/ LoopTick
    \/ \E p \in Creators : CreateRequest(p)
    \/ \E p \in Retriers : RetryRequest(p)
    \/ \E p \in Handlers : CreateStep(p) \/ SettleStep(p) \/ DbError(p)
    \/ \E t \in orphans : OrphanLands(t)
    \/ \E w \in writes : OrderUpdate(w) \/ OrderUpdateError(w)
    \/ CrashRestart

Spec == Init /\ [][Next]_vars
--------------------------------------------------------------------------------
(* Fairness.  The interval keeps firing, and every await of a running handler *)
(* settles: statements and contract calls return or throw (invokeContract     *)
(* gives up after 30 s).  A request need never be made, and a transaction     *)
(* that was left behind need never land.                                      *)
Fairness ==
    /\ \A o \in Orders : WF_vars(SubmitCreate(o))
    /\ WF_vars(LoopTick)
    /\ \A p \in Handlers : WF_vars(CreateStep(p) \/ SettleStep(p))
    /\ WF_vars(\E w \in writes : OrderUpdate(w))

FairSpec == Spec /\ Fairness

--------------------------------------------------------------------------------
(* Properties.                                                                *)

HandlerPcs == {"idle", "check", "seal", "insert", "mark", "claim", "decrypt",
               "settle", "record", "receipt", "close", "abort", "done"}

OrdersTyped ==
    /\ subPc \in [Orders -> {"new", "create", "ended"}]
    /\ arrival \in Seq(Orders)
    /\ oStatus \in [Orders -> {"none", "pending", "batched", "settled", "failed"}]
    /\ oBatch \in [Orders -> BatchIds \cup {0}]
    /\ amountOut \in [Orders -> Orders \cup {NoOrder}]

BatchesTyped ==
    /\ bStatus \in [BatchIds -> {"none", "created", "submitted", "settled", "failed"}]
    /\ bOrders \in [BatchIds -> Lists]
    /\ receipts \in [BatchIds -> Seq(Lists)]

ChainTyped ==
    /\ sealed \in [BatchIds -> Lists]
    /\ executed \in [BatchIds -> Lists]
    /\ orphans \subseteq [batch : BatchIds, orders : Lists]

HandlersTyped ==
    /\ nextId \in 1 .. MaxBatches + 1
    /\ pc \in [Handlers -> HandlerPcs]
    /\ ids \in [Handlers -> Lists]
    /\ bat \in [Handlers -> BatchIds \cup {0}]
    /\ dec \in [Handlers -> Lists]

WritesTyped ==
    writes \subseteq [by : Handlers, batch : BatchIds, order : Orders,
                      status : {"settled", "failed"}, out : Orders \cup {NoOrder}]

\* Type invariant: rows hold values of their columns' ENUMs, locals and chain
\* records hold order lists.
TypeOK ==
    /\ OrdersTyped
    /\ BatchesTyped
    /\ ChainTyped
    /\ HandlersTyped
    /\ WritesTyped
    /\ faults \in [FaultKinds -> Nat]

\* Handlers that hold the claim on their batch.
Holding(p) == pc[p] \in {"decrypt", "settle", "record", "receipt", "close", "abort"}

\* "Claims the batch with a conditional status update first": between the claim
\* and the last statement of settleBatch no second handler works on the batch,
\* through crashes, retries and failed statements.
ClaimExclusive ==
    \A p, q \in Handlers : Holding(p) /\ Holding(q) /\ bat[p] = bat[q] => p = q

\* A settled batch stays settled: no late catch block of another attempt and no
\* retry re-opens it.
SettledFinal ==
    [][\A b \in BatchIds : bStatus[b] = "settled" => bStatus'[b] = "settled"]_vars

\* With a settlement engine, an order that the database reports as settled was
\* executed on chain, whatever failed, was retried or was written late.
SettledWasExecuted ==
    EngineConfigured =>
      \A o \in Orders : oStatus[o] = "settled" => \E b \in BatchIds : o \in Elems(executed[b])

\* The settlement rows of a batch hold its on-chain results or nothing.
ReceiptsMatchChain ==
    EngineConfigured =>
      \A b \in BatchIds : Elems(receipts[b]) \subseteq {<<>>, executed[b]}

\* What is executed for a batch is part of what was sealed for it beforehand,
\* in the sealed order: contents cannot influence inclusion or position.
ExecutedAsSealed ==
    VaultConfigured => \A b \in BatchIds : SubList(executed[b], sealed[b])

\* The amount_out recorded for an order is the one settle_batch computed for
\* that order: `results' is aligned with `decrypted', not with the batch.
AmountIsOwn == \A o \in Orders : amountOut[o] \in {NoOrder, o}

\* The settlements that moved an order's tokens, and the abstract life of an
\* order the pipeline implements: through RPC errors, late transactions,
\* validator outages and retries of failed batches, statuses only move forward
\* and tokens move once, before the order is reported as settled.
Moves == [o \in Orders |-> { b \in BatchIds : o \in Elems(executed[b]) }]
Lifecycle == INSTANCE OrderLifecycle WITH status <- oStatus, moves <- Moves, Settlements <- BatchIds
ImplementsLifecycle == Lifecycle!Spec

\* When a batch is settled, each of its orders has its outcome.
SettledBatchHasOutcomes ==
    \A b \in BatchIds : bStatus[b] = "settled" =>
      \A o \in Elems(bOrders[b]) : oStatus[o] \in {"settled", "failed"}

\* A batch that nobody works on any more: the process died after the batch was
\* inserted, and the loop never looks at it again.
Abandoned(b) ==
    /\ faults["crash"] > 0
    /\ bStatus[b] \in {"created", "submitted"}
    /\ \A p \in Handlers : pc[p] \in {"idle", "done"} \/ bat[p] # b

HasOutcome(o) == oStatus[o] \in {"settled", "failed"}
InBatch(o, b) == o \in Elems(bOrders[b])

\* Every accepted order is settled or failed in the end, and for good, unless
\* its batch is one that failed, waiting for a retry, or that a crash left
\* behind; an order that does not decrypt, a validator outage, a batch that fails
\* and a crash do not hold up the others.
OrdersReachOutcome ==
    \A o \in Orders : oStatus[o] = "pending" ~>
      \/ []HasOutcome(o)
      \/ []<>(\E b \in BatchIds : InBatch(o, b) /\ (bStatus[b] = "failed" \/ Abandoned(b)))

\* A claimed batch is released: it does not stay 'submitted', where neither the
\* loop nor a retry could ever pick it up, unless the process died with the claim.
ClaimReleased ==
    \A b \in BatchIds : bStatus[b] = "submitted" ~> (bStatus[b] # "submitted" \/ Abandoned(b))

\* "nonce already used for this address": no two orders have the same user and
\* nonce.
NonceUnique ==
    \A o, x \in Orders :
      oStatus[o] # "none" /\ oStatus[x] # "none" /\ NonceKey[o] = NonceKey[x] => o = x

\* "the conditional claim in settleBatch makes it idempotent": a retry does not
\* turn an order that was executed on chain into a failed one.
FailedNotExecuted ==
    \A o \in Orders : oStatus[o] = "failed" =>
      \A b \in BatchIds : o \notin Elems(executed[b])

\* "Some orders not found or not pending": only a pending order is put into a
\* batch.
OnlyPendingBatched ==
    [][\A o \in Orders : oBatch'[o] # oBatch[o] => oStatus[o] = "pending"]_vars
=============================================================================
