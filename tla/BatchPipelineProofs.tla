-------------------------- MODULE BatchPipelineProofs --------------------------
(***************************************************************************)
(* Proofs about BatchPipeline for any orders, requests, batch size, fault  *)
(* budgets and contract configuration.                                     *)
(***************************************************************************)
EXTENDS BatchPipeline, TLAPS

\* Handlers whose local `bat' is the id of a batch.
Located(p) == pc[p] \in {"seal", "insert", "mark", "claim"} \/ Holding(p)

\* Handlers of createBatch that have drawn an id but not inserted its row.
Building(p) == pc[p] \in {"seal", "insert"}

\* A handler past its first step works on a batch id that was drawn.
BatIsDrawn ==
    \A p \in Handlers : Located(p) => bat[p] \in BatchIds /\ bat[p] < nextId

\* An id that was not drawn yet has no row.
UndrawnHasNoRow == \A b \in BatchIds : b >= nextId => bStatus[b] = "none"

\* A batch under construction has no row, and one builder only.
BuildingHasNoRow == \A p \in Handlers : Building(p) => bStatus[bat[p]] = "none"
BuildExclusive ==
    \A p, q \in Handlers : Building(p) /\ Building(q) /\ bat[p] = bat[q] => p = q

\* The row of a claimed batch says so.
HeldIsSubmitted == \A p \in Handlers : Holding(p) => bStatus[bat[p]] = "submitted"

\* The inductive invariant behind mutual exclusion.
ClaimInv ==
    /\ TypeOK
    /\ BatIsDrawn
    /\ UndrawnHasNoRow
    /\ BuildingHasNoRow
    /\ BuildExclusive
    /\ HeldIsSubmitted
    /\ ClaimExclusive

--------------------------------------------------------------------------------
\* The empty list is a list of order ids.
LEMMA EmptyList == <<>> \in Lists /\ Elems(<<>>) = {}
<1>1. <<>> \in [1 .. 0 -> Orders]
  OBVIOUS
<1>2. 0 \in 0 .. MaxIds
  BY PipelineAssumption
<1> QED
  BY <1>1, <1>2 DEF Lists, Elems

\* The elements of a list are orders.
LEMMA ElemsAreOrders == \A s \in Lists : Elems(s) \subseteq Orders
  BY DEF Lists, Elems

\* An entry of a list is an order.
LEMMA EntryIsOrder == \A s \in Lists : \A i \in DOMAIN s : s[i] \in Orders
  BY DEF Lists


\* Every step keeps the submissions and the rows of orders typed.
LEMMA OrdersTypedStep ==
    ASSUME TypeOK, BatIsDrawn, [Next]_vars
    PROVE  OrdersTyped'
<1> USE DEF TypeOK, OrdersTyped, orderVars, rowVars
<1>1. ASSUME NEW o \in Orders, SubmitFind(o) PROVE OrdersTyped'
  BY <1>1 DEF SubmitFind
<1>2. ASSUME NEW o \in Orders, SubmitCreate(o) PROVE OrdersTyped'
  BY <1>2 DEF SubmitCreate
<1>3. ASSUME NEW o \in Orders, SubmitDbError(o) PROVE OrdersTyped'
  BY <1>3 DEF SubmitDbError
<1>4. ASSUME NEW p \in Handlers, MarkBatched(p) PROVE OrdersTyped'
  BY <1>4 DEF MarkBatched, HandlersTyped
<1>5. ASSUME NEW w \in writes, OrderUpdate(w) PROVE OrdersTyped'
  BY <1>5 DEF OrderUpdate, WritesTyped
<1>6. CASE CrashRestart
  BY <1>6 DEF CrashRestart
<1>7. CASE UNCHANGED <<orderVars, rowVars>>
  BY <1>7
<1> QED
  BY <1>1, <1>2, <1>3, <1>4, <1>5, <1>6, <1>7
     DEF Next, CreateStep, SettleStep, vars, LoopTick, CreateRequest, RetryRequest,
         CheckPending, Seal, SealError, InsertBatch, Claim, Decrypt, Settle, SettleRpcError,
         Recorded, CreateReceipt, Close, Abort, DbError, OrphanLands, OrderUpdateError

\* Every step keeps the rows of batches and settlements typed.
LEMMA BatchesTypedStep ==
    ASSUME TypeOK, BatIsDrawn, [Next]_vars
    PROVE  BatchesTyped'
<1> USE DEF TypeOK, BatchesTyped, HandlersTyped, batchVars
<1>1. ASSUME NEW p \in Handlers, InsertBatch(p) PROVE BatchesTyped'
  BY <1>1 DEF InsertBatch
<1>2. ASSUME NEW p \in Handlers, Claim(p) PROVE BatchesTyped'
  BY <1>2 DEF Claim
<1>3. ASSUME NEW p \in Handlers, CreateReceipt(p) PROVE BatchesTyped'
  <2>1. bat[p] \in BatchIds /\ dec[p] \in Lists /\ receipts[bat[p]] \in Seq(Lists)
    BY <1>3 DEF CreateReceipt, BatIsDrawn, Located, Holding
  <2>2. Append(receipts[bat[p]], dec[p]) \in Seq(Lists)
    BY <2>1
  <2> QED
    BY <1>3, <2>2 DEF CreateReceipt
<1>4. ASSUME NEW p \in Handlers, Close(p) \/ Abort(p) PROVE BatchesTyped'
  BY <1>4 DEF Close, Abort
<1>5. CASE UNCHANGED batchVars
  BY <1>5
<1> QED
  BY <1>1, <1>2, <1>3, <1>4, <1>5
     DEF Next, CreateStep, SettleStep, vars, SubmitFind, SubmitCreate, SubmitDbError, LoopTick,
         CreateRequest, RetryRequest, CheckPending, Seal, SealError, MarkBatched, Decrypt, Settle,
         SettleRpcError, Recorded, DbError, OrphanLands, OrderUpdate, OrderUpdateError, CrashRestart

\* Every step keeps the chain's records typed.
LEMMA ChainTypedStep ==
    ASSUME TypeOK, BatIsDrawn, [Next]_vars
    PROVE  ChainTyped'
<1> USE DEF TypeOK, ChainTyped, HandlersTyped, chainVars
<1>1. ASSUME NEW p \in Handlers, Seal(p) PROVE ChainTyped'
  BY <1>1 DEF Seal
<1>2. ASSUME NEW p \in Handlers, SealError(p) PROVE ChainTyped'
  <2>1. PICK s \in {<<>>, ids[p]} : sealed' = [sealed EXCEPT ![bat[p]] = s]
    BY <1>2 DEF SealError
  <2>2. s \in Lists
    BY <2>1, EmptyList
  <2> QED
    BY <1>2, <2>1, <2>2 DEF SealError
<1>3. ASSUME NEW p \in Handlers, Settle(p) PROVE ChainTyped'
  BY <1>3 DEF Settle
<1>4. ASSUME NEW p \in Handlers, SettleRpcError(p) PROVE ChainTyped'
  BY <1>4 DEF SettleRpcError, BatIsDrawn, Located, Holding
<1>5. ASSUME NEW t \in orphans, OrphanLands(t) PROVE ChainTyped'
  BY <1>5 DEF OrphanLands
<1>6. CASE CrashRestart
  BY <1>6, EmptyList DEF CrashRestart, BatIsDrawn, Located, Holding
<1>7. CASE UNCHANGED chainVars
  BY <1>7
<1> QED
  BY <1>1, <1>2, <1>3, <1>4, <1>5, <1>6, <1>7
     DEF Next, CreateStep, SettleStep, vars, SubmitFind, SubmitCreate, SubmitDbError, LoopTick,
         CreateRequest, RetryRequest, CheckPending, InsertBatch, MarkBatched, Claim, Decrypt,
         Recorded, CreateReceipt, Close, Abort, DbError, OrderUpdate, OrderUpdateError

\* Every step keeps the order updates in flight typed.
LEMMA WritesTypedStep ==
    ASSUME TypeOK, BatIsDrawn, [Next]_vars
    PROVE  WritesTyped'
<1> USE DEF TypeOK, WritesTyped
<1>1. ASSUME NEW p \in Handlers, Settle(p) PROVE WritesTyped'
  <2>1. bat[p] \in BatchIds /\ dec[p] \in Lists /\ bOrders[bat[p]] \in Lists
    BY <1>1 DEF Settle, BatIsDrawn, Located, Holding, HandlersTyped, BatchesTyped
  <2>2. OrderUpdates(p) \subseteq [by : Handlers, batch : BatchIds, order : Orders,
                                   status : {"settled", "failed"}, out : Orders \cup {NoOrder}]
    BY <2>1, ElemsAreOrders, EntryIsOrder DEF OrderUpdates
  <2> QED
    BY <1>1, <2>2 DEF Settle
<1>2. CASE writes' \subseteq writes
  BY <1>2
<1> QED
  BY <1>1, <1>2
     DEF Next, CreateStep, SettleStep, vars, SubmitFind, SubmitCreate, SubmitDbError, LoopTick,
         CreateRequest, RetryRequest, CheckPending, Seal, SealError, InsertBatch, MarkBatched,
         Claim, Decrypt, SettleRpcError, Recorded, CreateReceipt, Close, Abort, DbError,
         OrphanLands, OrderUpdate, OrderUpdateError, CrashRestart

\* Every step keeps the handlers' locals typed.
LEMMA HandlersTypedStep ==
    ASSUME TypeOK, BatIsDrawn, [Next]_vars
    PROVE  HandlersTyped'
<1> USE PipelineAssumption DEF TypeOK, HandlersTyped, HandlerPcs, handlerVars, Goto, Ended
<1>1. CASE LoopTick
  BY <1>1 DEF LoopTick, Handlers
<1>2. ASSUME NEW p \in Creators, CreateRequest(p) PROVE HandlersTyped'
  BY <1>2 DEF CreateRequest, Handlers
<1>3. ASSUME NEW p \in Retriers, RetryRequest(p) PROVE HandlersTyped'
  BY <1>3 DEF RetryRequest, Handlers
<1>4. ASSUME NEW p \in Handlers, CheckPending(p) PROVE HandlersTyped'
  BY <1>4 DEF CheckPending, BatchIds
<1>5. ASSUME NEW p \in Handlers, Seal(p) \/ SealError(p) \/ InsertBatch(p) \/ MarkBatched(p)
      PROVE  HandlersTyped'
  BY <1>5 DEF Seal, SealError, InsertBatch, MarkBatched
<1>6. ASSUME NEW p \in Handlers, Claim(p) \/ Close(p) \/ Abort(p) \/ Recorded(p) \/ CreateReceipt(p)
      PROVE  HandlersTyped'
  BY <1>6 DEF Claim, Close, Abort, Recorded, CreateReceipt
<1>7. ASSUME NEW p \in Handlers, Decrypt(p) PROVE HandlersTyped'
  BY <1>7 DEF Decrypt
<1>8. ASSUME NEW p \in Handlers, Settle(p) \/ SettleRpcError(p) \/ DbError(p) PROVE HandlersTyped'
  BY <1>8 DEF Settle, SettleRpcError, DbError
<1>9. ASSUME NEW w \in writes, OrderUpdateError(w) PROVE HandlersTyped'
  BY <1>9 DEF OrderUpdateError, WritesTyped
<1>10. CASE CrashRestart
  BY <1>10 DEF CrashRestart
<1>11. CASE UNCHANGED handlerVars
  BY <1>11
<1> QED
  BY <1>1, <1>2, <1>3, <1>4, <1>5, <1>6, <1>7, <1>8, <1>9, <1>10, <1>11
     DEF Next, CreateStep, SettleStep, vars, SubmitFind, SubmitCreate, SubmitDbError,
         OrphanLands, OrderUpdate

\* Every step keeps the fault counters typed.
LEMMA FaultsTypedStep ==
    ASSUME TypeOK, [Next]_vars
    PROVE  faults' \in [FaultKinds -> Nat]
<1>1. ASSUME NEW k \in FaultKinds, Fault(k) PROVE faults' \in [FaultKinds -> Nat]
  BY <1>1 DEF Fault, TypeOK
<1>2. CASE UNCHANGED faults
  BY <1>2 DEF TypeOK
<1> QED
  BY <1>1, <1>2
     DEF FaultKinds, Next, CreateStep, SettleStep, vars, SubmitFind, SubmitCreate, SubmitDbError, LoopTick,
         CreateRequest, RetryRequest, CheckPending, Seal, SealError, InsertBatch, MarkBatched,
         Claim, Decrypt, Settle, SettleRpcError, Recorded, CreateReceipt, Close, Abort, DbError,
         OrphanLands, OrderUpdate, OrderUpdateError, CrashRestart

\* Every step keeps the type invariant.
LEMMA TypeStep ==
    ASSUME TypeOK, BatIsDrawn, [Next]_vars
    PROVE  TypeOK'
  BY OrdersTypedStep, BatchesTypedStep, ChainTypedStep, WritesTypedStep, HandlersTypedStep,
     FaultsTypedStep DEF TypeOK

--------------------------------------------------------------------------------
\* The initial states satisfy the invariant: no row, no handler under way.
LEMMA ClaimInvInit == Init => ClaimInv
<1> SUFFICES ASSUME Init PROVE ClaimInv
  OBVIOUS
<1>1. TypeOK
  BY EmptyList, PipelineAssumption
     DEF Init, TypeOK, OrdersTyped, BatchesTyped, ChainTyped, HandlersTyped, HandlerPcs,
         WritesTyped, BatchIds
<1> QED
  BY <1>1 DEF Init, ClaimInv, BatIsDrawn, UndrawnHasNoRow, BuildingHasNoRow, BuildExclusive,
              HeldIsSubmitted, ClaimExclusive, Located, Building, Holding

\* What a step of one handler must keep, apart from types: the part of the
\* invariant about program counters, ids and batch statuses.
ClaimCore ==
    /\ BatIsDrawn
    /\ UndrawnHasNoRow
    /\ BuildingHasNoRow
    /\ BuildExclusive
    /\ HeldIsSubmitted
    /\ ClaimExclusive

\* A step that draws no id, changes no status and moves handlers at most out of
\* (or within) the stages of their batch keeps the claim discipline.
LEMMA QuietStep ==
    ASSUME ClaimInv,
           UNCHANGED <<bStatus, nextId>>,
           \A q \in Handlers :
             /\ Located(q)' => Located(q) /\ bat'[q] = bat[q]
             /\ Building(q)' => Building(q)
             /\ Holding(q)' => Holding(q)
    PROVE  ClaimCore'
<1>1. \A q \in Handlers : Holding(q)' \/ Building(q)' => Located(q)'
  BY DEF Located, Building, Holding
<1>2. BatIsDrawn' /\ UndrawnHasNoRow'
  BY DEF ClaimInv, BatIsDrawn, UndrawnHasNoRow
<1>3. BuildingHasNoRow' /\ HeldIsSubmitted'
  BY <1>1 DEF ClaimInv, BuildingHasNoRow, HeldIsSubmitted
<1>4. BuildExclusive' /\ ClaimExclusive'
  BY <1>1 DEF ClaimInv, BuildExclusive, ClaimExclusive
<1> QED
  BY <1>2, <1>3, <1>4 DEF ClaimCore

\* Every step keeps the claim discipline.
LEMMA ClaimCoreStep ==
    ASSUME ClaimInv, [Next]_vars
    PROVE  ClaimCore'
<1> USE DEF TypeOK, HandlersTyped, BatchesTyped, Located, Building, Holding, Goto, Ended
<1>0. TypeOK
  BY DEF ClaimInv
<1>1. CASE LoopTick
  BY <1>0, <1>1, QuietStep, PipelineAssumption DEF LoopTick, Handlers, batchVars
<1>2. ASSUME NEW p \in Creators, CreateRequest(p) PROVE ClaimCore'
  BY <1>0, <1>2, QuietStep, PipelineAssumption DEF CreateRequest, Handlers, batchVars
<1>3. ASSUME NEW p \in Retriers, RetryRequest(p) PROVE ClaimCore'
  BY <1>0, <1>3, PipelineAssumption
     DEF RetryRequest, Handlers, batchVars, BatchIds, ClaimInv, ClaimCore, BatIsDrawn,
         UndrawnHasNoRow, BuildingHasNoRow, BuildExclusive, HeldIsSubmitted, ClaimExclusive
<1>4. ASSUME NEW p \in Handlers, CheckPending(p) PROVE ClaimCore'
  <2>1. CASE Elems(ids[p]) \subseteq Pending
    <3>1. /\ nextId \in BatchIds /\ nextId' = nextId + 1 /\ UNCHANGED bStatus
          /\ bat' = [bat EXCEPT ![p] = nextId] /\ pc' = [pc EXCEPT ![p] = "seal"]
      BY <1>4, <2>1 DEF CheckPending, batchVars
    <3>2. \A q \in Handlers : Located(q) => bat[q] \in BatchIds /\ bat[q] < nextId
      BY DEF ClaimInv, BatIsDrawn
    <3>3. BatIsDrawn' /\ UndrawnHasNoRow'
      BY <1>0, <3>1, <3>2 DEF ClaimInv, BatIsDrawn, UndrawnHasNoRow, BatchIds
    <3>4. bStatus[nextId] = "none"
      BY <3>1 DEF ClaimInv, UndrawnHasNoRow, BatchIds
    <3>5. BuildingHasNoRow' /\ BuildExclusive'
      BY <1>0, <3>1, <3>2, <3>4 DEF ClaimInv, BuildingHasNoRow, BuildExclusive, BatchIds
    <3>6. HeldIsSubmitted' /\ ClaimExclusive'
      BY <1>0, <3>1 DEF ClaimInv, HeldIsSubmitted, ClaimExclusive
    <3> QED
      BY <3>3, <3>5, <3>6 DEF ClaimCore
  <2>2. CASE ~(Elems(ids[p]) \subseteq Pending)
    BY <1>0, <1>4, <2>2, QuietStep DEF CheckPending, batchVars
  <2> QED
    BY <2>1, <2>2
<1>5. ASSUME NEW p \in Handlers, Seal(p) PROVE ClaimCore'
  BY <1>0, <1>5, QuietStep DEF Seal, batchVars
<1>6. ASSUME NEW p \in Handlers, SealError(p) PROVE ClaimCore'
  BY <1>0, <1>6, QuietStep DEF SealError, batchVars
<1>7. ASSUME NEW p \in Handlers, InsertBatch(p) PROVE ClaimCore'
  BY <1>0, <1>7
     DEF InsertBatch, ClaimInv, ClaimCore, BatIsDrawn, UndrawnHasNoRow, BuildingHasNoRow,
         BuildExclusive, HeldIsSubmitted, ClaimExclusive, BatchIds
<1>8. ASSUME NEW p \in Handlers, MarkBatched(p) PROVE ClaimCore'
  BY <1>0, <1>8, QuietStep DEF MarkBatched, batchVars
<1>9. ASSUME NEW p \in Handlers, Claim(p) PROVE ClaimCore'
  <2>1. CASE bStatus[bat[p]] \in Claimable
    <3>1. /\ bat[p] \in BatchIds /\ bat[p] < nextId /\ UNCHANGED <<nextId, bat>>
          /\ pc[p] = "claim" /\ pc' = [pc EXCEPT ![p] = "decrypt"]
          /\ bStatus' = [bStatus EXCEPT ![bat[p]] = "submitted"]
      BY <1>9, <2>1 DEF Claim, ClaimInv, BatIsDrawn
    <3>2. bStatus[bat[p]] # "none" /\ bStatus[bat[p]] # "submitted"
      BY <2>1 DEF Claimable
    <3>3. BatIsDrawn' /\ UndrawnHasNoRow'
      BY <1>0, <3>1, <3>2 DEF ClaimInv, BatIsDrawn, UndrawnHasNoRow, BatchIds
    <3>4. BuildingHasNoRow' /\ BuildExclusive'
      BY <1>0, <3>1, <3>2 DEF ClaimInv, BuildingHasNoRow, BuildExclusive
    <3>5. HeldIsSubmitted' /\ ClaimExclusive'
      BY <1>0, <3>1, <3>2 DEF ClaimInv, BatIsDrawn, HeldIsSubmitted, ClaimExclusive
    <3> QED
      BY <3>3, <3>4, <3>5 DEF ClaimCore
  <2>2. CASE bStatus[bat[p]] \notin Claimable
    BY <1>0, <1>9, <2>2, QuietStep DEF Claim
  <2> QED
    BY <2>1, <2>2
<1>10. ASSUME NEW p \in Handlers, Close(p) \/ Abort(p) PROVE ClaimCore'
  <2>1. PICK st \in {"settled", "failed"} : bStatus' = [bStatus EXCEPT ![bat[p]] = st]
    BY <1>10 DEF Close, Abort
  <2>2. /\ Holding(p) /\ UNCHANGED <<nextId, bat>> /\ pc' = [pc EXCEPT ![p] = Ended(p)]
        /\ bat[p] \in BatchIds /\ bat[p] < nextId
    BY <1>10 DEF Close, Abort, ClaimInv, BatIsDrawn
  <2>3. BatIsDrawn'
    BY <1>0, <2>2 DEF ClaimInv, BatIsDrawn
  <2>4. UndrawnHasNoRow'
    BY <1>0, <2>1, <2>2 DEF ClaimInv, UndrawnHasNoRow, BatchIds
  <2>5. BuildingHasNoRow' /\ BuildExclusive'
    BY <1>0, <2>1, <2>2 DEF ClaimInv, BatIsDrawn, BuildingHasNoRow, BuildExclusive, HeldIsSubmitted
  <2>6. HeldIsSubmitted' /\ ClaimExclusive'
    BY <1>0, <2>1, <2>2 DEF ClaimInv, BatIsDrawn, HeldIsSubmitted, ClaimExclusive
  <2> QED
    BY <2>3, <2>4, <2>5, <2>6 DEF ClaimCore
<1>11. ASSUME NEW p \in Handlers, Decrypt(p) PROVE ClaimCore'
  BY <1>0, <1>11, QuietStep DEF Decrypt, batchVars
<1>12. ASSUME NEW p \in Handlers, Settle(p) PROVE ClaimCore'
  BY <1>0, <1>12, QuietStep DEF Settle, batchVars
<1>13. ASSUME NEW p \in Handlers, SettleRpcError(p) PROVE ClaimCore'
  BY <1>0, <1>13, QuietStep DEF SettleRpcError, batchVars
<1>14. ASSUME NEW p \in Handlers, Recorded(p) PROVE ClaimCore'
  BY <1>0, <1>14, QuietStep DEF Recorded, batchVars
<1>15. ASSUME NEW p \in Handlers, CreateReceipt(p) PROVE ClaimCore'
  BY <1>0, <1>15, QuietStep DEF CreateReceipt
<1>16. ASSUME NEW p \in Handlers, DbError(p) PROVE ClaimCore'
  BY <1>0, <1>16, QuietStep DEF DbError, batchVars
<1>17. ASSUME NEW w \in writes, OrderUpdateError(w) PROVE ClaimCore'
  BY <1>0, <1>17, QuietStep DEF OrderUpdateError, WritesTyped, batchVars
<1>18. CASE CrashRestart
  BY <1>0, <1>18, QuietStep DEF CrashRestart, batchVars
<1>19. CASE UNCHANGED <<batchVars, handlerVars>>
  BY <1>19, QuietStep DEF batchVars, handlerVars
<1> QED
  BY <1>1, <1>2, <1>3, <1>4, <1>5, <1>6, <1>7, <1>8, <1>9, <1>10, <1>11, <1>12, <1>13, <1>14,
     <1>15, <1>16, <1>17, <1>18, <1>19
     DEF Next, CreateStep, SettleStep, vars, SubmitFind, SubmitCreate, SubmitDbError,
         OrphanLands, OrderUpdate

\* Every step keeps the inductive invariant.
LEMMA ClaimInvStep == ClaimInv /\ [Next]_vars => ClaimInv'
<1> SUFFICES ASSUME ClaimInv, [Next]_vars PROVE ClaimInv'
  OBVIOUS
<1>1. TypeOK'
  BY TypeStep DEF ClaimInv
<1>2. ClaimCore'
  BY ClaimCoreStep
<1> QED
  BY <1>1, <1>2 DEF ClaimInv, ClaimCore
\* In every behaviour the inductive invariant holds.
LEMMA ClaimInvariant == Spec => []ClaimInv
  BY ClaimInvInit, ClaimInvStep, PTL DEF Spec

\* Rows, locals and chain records always have their types.
THEOREM TypeCorrect == Spec => []TypeOK
<1>1. ClaimInv => TypeOK
  BY DEF ClaimInv
<1> QED
  BY <1>1, ClaimInvariant, PTL

\* At most one handler at a time is past the claim of a batch, for any number
\* of concurrent retries and creations, and through failed statements, lost
\* confirmations and restarts.
THEOREM MutualExclusion == Spec => []ClaimExclusive
<1>1. ClaimInv => ClaimExclusive
  BY DEF ClaimInv
<1> QED
  BY <1>1, ClaimInvariant, PTL

\* No step takes a settled batch out of that status.
THEOREM SettledIsFinal == Spec => SettledFinal
<1>1. ASSUME ClaimInv, [Next]_vars
      PROVE  [\A b \in BatchIds : bStatus[b] = "settled" => bStatus'[b] = "settled"]_vars
  <2> SUFFICES ASSUME NEW b \in BatchIds, bStatus[b] = "settled" PROVE bStatus'[b] = "settled"
    OBVIOUS
  <2>0. TypeOK
    BY <1>1 DEF ClaimInv
  <2> USE DEF TypeOK, BatchesTyped
  <2>1. ASSUME NEW p \in Handlers, InsertBatch(p) PROVE bStatus'[b] = "settled"
    BY <1>1, <2>0, <2>1 DEF InsertBatch, ClaimInv, BuildingHasNoRow, Building
  <2>2. ASSUME NEW p \in Handlers, Claim(p) PROVE bStatus'[b] = "settled"
    BY <2>0, <2>2 DEF Claim, Claimable
  <2>3. ASSUME NEW p \in Handlers, Close(p) \/ Abort(p) PROVE bStatus'[b] = "settled"
    BY <1>1, <2>0, <2>3 DEF Close, Abort, ClaimInv, HeldIsSubmitted, Holding
  <2>4. CASE UNCHANGED bStatus
    BY <2>4
  <2> QED
    BY <1>1, <2>1, <2>2, <2>3, <2>4
       DEF Next, CreateStep, SettleStep, vars, batchVars, SubmitFind, SubmitCreate, SubmitDbError,
           LoopTick, CreateRequest, RetryRequest, CheckPending, Seal, SealError, MarkBatched,
           Decrypt, Settle, SettleRpcError, Recorded, CreateReceipt, DbError, OrphanLands,
           OrderUpdate, OrderUpdateError, CrashRestart
<1> QED
  BY <1>1, ClaimInvariant, PTL DEF Spec, SettledFinal
--------------------------------------------------------------------------------
(* What the database says against what the chain did.                         *)

\* A status update in flight that says settled is about an executed order.
WritesExecuted ==
    EngineConfigured =>
      \A w \in writes : w.status = "settled" => w.order \in Elems(executed[w.batch])

\* The results a handler is about to record are the chain's.
ResultsMatchChain ==
    EngineConfigured =>
      \A p \in Handlers : pc[p] \in {"record", "receipt"} => dec[p] \in {<<>>, executed[bat[p]]}

\* An update in flight carries the amount of its own order.
WritesOwn == \A w \in writes : w.out \in {NoOrder, w.order}

ChainCore ==
    /\ WritesExecuted
    /\ SettledWasExecuted
    /\ ResultsMatchChain
    /\ ReceiptsMatchChain
    /\ WritesOwn
    /\ AmountIsOwn

ChainInv == ClaimInv /\ ChainCore

\* settle_batch's results are written once: no step changes or erases them.
LEMMA ResultsAreFinal ==
    ASSUME ClaimInv, [Next]_vars
    PROVE  \A b \in BatchIds : executed[b] # <<>> => executed'[b] = executed[b]
<1> USE DEF ClaimInv, TypeOK, ChainTyped, Accepted
<1>1. ASSUME NEW p \in Handlers, Settle(p)
      PROVE  \A b \in BatchIds : executed[b] # <<>> => executed'[b] = executed[b]
  BY <1>1 DEF Settle
<1>2. ASSUME NEW t \in orphans, OrphanLands(t)
      PROVE  \A b \in BatchIds : executed[b] # <<>> => executed'[b] = executed[b]
  BY <1>2 DEF OrphanLands
<1>3. CASE UNCHANGED executed
  BY <1>3
<1> QED
  BY <1>1, <1>2, <1>3
     DEF Next, CreateStep, SettleStep, vars, chainVars, SubmitFind, SubmitCreate, SubmitDbError,
         LoopTick, CreateRequest, RetryRequest, CheckPending, Seal, SealError, InsertBatch,
         MarkBatched, Claim, Decrypt, SettleRpcError, Recorded, CreateReceipt, Close, Abort,
         DbError, OrderUpdate, OrderUpdateError, CrashRestart

\* An order executed in a batch stays so.
LEMMA ExecutionIsFinal ==
    ASSUME ClaimInv, [Next]_vars
    PROVE  \A b \in BatchIds : Elems(executed[b]) \subseteq Elems(executed'[b])
  BY ResultsAreFinal, EmptyList

\* The updates a handler issues after settle_batch are about executed orders
\* and carry their own amounts.
LEMMA UpdatesMatchChain ==
    ASSUME ClaimInv, [Next]_vars, NEW p \in Handlers, Settle(p), NEW w \in OrderUpdates(p),
           pc'[p] = "record"
    PROVE  /\ w.out \in {NoOrder, w.order}
           /\ EngineConfigured /\ w.status = "settled" => w.order \in Elems(executed'[w.batch])
<1>1. bat[p] \in BatchIds /\ dec[p] \in Lists
  BY DEF Settle, ClaimInv, BatIsDrawn, Located, Holding, TypeOK, HandlersTyped
<1>2. w.out \in {NoOrder, w.order}
  BY DEF OrderUpdates
<1>3. ASSUME EngineConfigured, w.status = "settled" PROVE w.order \in Elems(executed'[w.batch])
  <2>1. w.batch = bat[p] /\ w.order \in Elems(dec[p])
    BY <1>3 DEF OrderUpdates, Elems
  <2>2. dec[p] # <<>>
    BY <2>1, EmptyList
  <2>3. executed' = [executed EXCEPT ![bat[p]] = dec[p]]
    BY <1>3, <2>2 DEF Settle, Goto, ClaimInv, TypeOK, HandlersTyped
  <2> QED
    BY <1>1, <2>1, <2>3 DEF ClaimInv, TypeOK, ChainTyped
<1> QED
  BY <1>2, <1>3

\* A 'settled' update is under way only for an order that was executed, and carries
\* that order's own amount.
LEMMA WritesStep ==
    ASSUME ChainInv, [Next]_vars
    PROVE  WritesExecuted' /\ WritesOwn'
<1>0. ClaimInv /\ WritesExecuted /\ WritesOwn /\ WritesTyped
  BY DEF ChainInv, ChainCore, ClaimInv, TypeOK
<1>1. \A w \in writes : /\ w.out \in {NoOrder, w.order}
                        /\ EngineConfigured /\ w.status = "settled" =>
                             w.order \in Elems(executed'[w.batch])
  BY <1>0, ExecutionIsFinal DEF WritesExecuted, WritesOwn, WritesTyped
<1>2. ASSUME NEW p \in Handlers, Settle(p) PROVE WritesExecuted' /\ WritesOwn'
  <2>1. CASE writes' = writes \cup OrderUpdates(p) /\ Goto(p, "record")
    <3>1. pc'[p] = "record"
      BY <1>0, <2>1 DEF Goto, ClaimInv, TypeOK, HandlersTyped
    <3>2. \A w \in OrderUpdates(p) :
            /\ w.out \in {NoOrder, w.order}
            /\ EngineConfigured /\ w.status = "settled" => w.order \in Elems(executed'[w.batch])
      BY <1>0, <1>2, <3>1, UpdatesMatchChain
    <3> QED
      BY <1>1, <2>1, <3>2 DEF WritesExecuted, WritesOwn
  <2>2. CASE writes' = writes
    BY <1>1, <2>2 DEF WritesExecuted, WritesOwn
  <2> QED
    BY <1>2, <2>1, <2>2 DEF Settle
<1>3. CASE writes' \subseteq writes
  BY <1>1, <1>3 DEF WritesExecuted, WritesOwn
<1> QED
  BY <1>2, <1>3
     DEF Next, CreateStep, SettleStep, vars, SubmitFind, SubmitCreate, SubmitDbError, LoopTick,
         CreateRequest, RetryRequest, CheckPending, Seal, SealError, InsertBatch, MarkBatched,
         Claim, Decrypt, SettleRpcError, Recorded, CreateReceipt, Close, Abort, DbError,
         OrphanLands, OrderUpdate, OrderUpdateError, CrashRestart

\* A row says 'settled', or holds an amount, only by such an update.
LEMMA RowsStep ==
    ASSUME ChainInv, [Next]_vars
    PROVE  SettledWasExecuted' /\ AmountIsOwn'
<1>0. /\ ClaimInv /\ OrdersTyped /\ WritesTyped
      /\ SettledWasExecuted /\ AmountIsOwn /\ WritesExecuted /\ WritesOwn
  BY DEF ChainInv, ChainCore, ClaimInv, TypeOK
<1>1. \A b \in BatchIds : Elems(executed[b]) \subseteq Elems(executed'[b])
  BY <1>0, ExecutionIsFinal
<1>2. ASSUME NEW o \in Orders, SubmitCreate(o) PROVE SettledWasExecuted' /\ AmountIsOwn'
  BY <1>0, <1>1, <1>2 DEF SubmitCreate, SettledWasExecuted, AmountIsOwn, OrdersTyped
<1>3. ASSUME NEW p \in Handlers, MarkBatched(p) PROVE SettledWasExecuted' /\ AmountIsOwn'
  BY <1>0, <1>1, <1>3 DEF MarkBatched, SettledWasExecuted, AmountIsOwn, OrdersTyped
<1>4. ASSUME NEW w \in writes, OrderUpdate(w) PROVE SettledWasExecuted' /\ AmountIsOwn'
  <2>1. w.batch \in BatchIds /\ w.order \in Orders /\ w.out \in {NoOrder, w.order}
    BY <1>0 DEF WritesTyped, WritesOwn
  <2>2. SettledWasExecuted'
    BY <1>0, <1>1, <1>4, <2>1 DEF OrderUpdate, SettledWasExecuted, WritesExecuted, OrdersTyped
  <2>3. AmountIsOwn'
    BY <1>0, <1>4, <2>1 DEF OrderUpdate, AmountIsOwn, OrdersTyped
  <2> QED
    BY <2>2, <2>3
<1>5. CASE UNCHANGED <<oStatus, amountOut>>
  BY <1>0, <1>1, <1>5 DEF SettledWasExecuted, AmountIsOwn
<1> QED
  BY <1>2, <1>3, <1>4, <1>5
     DEF Next, CreateStep, SettleStep, vars, rowVars, SubmitFind, SubmitDbError, LoopTick,
         CreateRequest, RetryRequest, CheckPending, Seal, SealError, InsertBatch, Claim, Decrypt,
         Settle, SettleRpcError, Recorded, CreateReceipt, Close, Abort, DbError, OrphanLands,
         OrderUpdateError, CrashRestart

\* A handler comes to record results by settling; until the receipt is written
\* its batch and its results stay the same.
LEMMA ResultsAreKept ==
    ASSUME ClaimInv, [Next]_vars, ~\E p \in Handlers : Settle(p),
           NEW q \in Handlers, pc'[q] \in {"record", "receipt"}
    PROVE  pc[q] \in {"record", "receipt"} /\ dec'[q] = dec[q] /\ bat'[q] = bat[q]
<1> USE PipelineAssumption DEF Goto, Ended
<1>0. HandlersTyped /\ WritesTyped
  BY DEF ClaimInv, TypeOK
<1> USE DEF HandlersTyped
<1>1. CASE LoopTick \/ (\E p \in Creators : CreateRequest(p)) \/ (\E p \in Retriers : RetryRequest(p))
  BY <1>0, <1>1 DEF LoopTick, CreateRequest, RetryRequest, Handlers
<1>2. ASSUME NEW p \in Handlers, CreateStep(p)
      PROVE  pc[q] \in {"record", "receipt"} /\ dec'[q] = dec[q] /\ bat'[q] = bat[q]
  BY <1>0, <1>2 DEF CreateStep, CheckPending, Seal, SealError, InsertBatch, MarkBatched
<1>3. ASSUME NEW p \in Handlers, SettleStep(p)
      PROVE  pc[q] \in {"record", "receipt"} /\ dec'[q] = dec[q] /\ bat'[q] = bat[q]
  BY <1>0, <1>3 DEF SettleStep, Claim, Decrypt, SettleRpcError, Recorded, CreateReceipt, Close, Abort
<1>4. ASSUME NEW p \in Handlers, DbError(p)
      PROVE  pc[q] \in {"record", "receipt"} /\ dec'[q] = dec[q] /\ bat'[q] = bat[q]
  BY <1>0, <1>4 DEF DbError
<1>5. ASSUME NEW w \in writes, OrderUpdateError(w)
      PROVE  pc[q] \in {"record", "receipt"} /\ dec'[q] = dec[q] /\ bat'[q] = bat[q]
  BY <1>0, <1>5 DEF OrderUpdateError, WritesTyped
<1>6. CASE CrashRestart
  BY <1>0, <1>6 DEF CrashRestart
<1>7. CASE UNCHANGED handlerVars
  BY <1>7 DEF handlerVars
<1> QED
  BY <1>1, <1>2, <1>3, <1>4, <1>5, <1>6, <1>7
     DEF Next, vars, SubmitFind, SubmitCreate, SubmitDbError, OrphanLands, OrderUpdate

\* The results a handler holds after the contract call are the chain's.
LEMMA ResultsStep ==
    ASSUME ChainInv, [Next]_vars
    PROVE  ResultsMatchChain'
<1> SUFFICES ASSUME EngineConfigured, NEW q \in Handlers, pc'[q] \in {"record", "receipt"}
             PROVE  dec'[q] \in {<<>>, executed'[bat'[q]]}
  BY DEF ResultsMatchChain
<1>0. /\ ClaimInv /\ ResultsMatchChain /\ HandlersTyped /\ ChainTyped
      /\ \A r \in Handlers : Located(r) => bat[r] \in BatchIds
  BY DEF ChainInv, ChainCore, ClaimInv, TypeOK, BatIsDrawn
<1>1. CASE pc[q] \in {"record", "receipt"} /\ dec'[q] = dec[q] /\ bat'[q] = bat[q]
  BY <1>0, <1>1, ResultsAreFinal DEF ResultsMatchChain, Located, Holding
<1>2. ASSUME NEW p \in Handlers, Settle(p) PROVE dec'[q] \in {<<>>, executed'[bat'[q]]}
  <2>1. CASE p = q
    BY <1>0, <1>2, <2>1 DEF Settle, Goto, HandlersTyped, ChainTyped, Located, Holding
  <2>2. CASE p # q
    BY <1>0, <1>1, <1>2, <2>2 DEF Settle, Goto, HandlersTyped
  <2> QED
    BY <2>1, <2>2
<1> QED
  BY <1>0, <1>1, <1>2, ResultsAreKept

\* A settlement row is written from such results.
LEMMA ReceiptsStep ==
    ASSUME ChainInv, [Next]_vars
    PROVE  ReceiptsMatchChain'
<1> SUFFICES ASSUME EngineConfigured, NEW b \in BatchIds
             PROVE  Elems(receipts'[b]) \subseteq {<<>>, executed'[b]}
  BY DEF ReceiptsMatchChain
<1>0. ClaimInv /\ ReceiptsMatchChain /\ ResultsMatchChain /\ BatchesTyped /\ HandlersTyped
  BY DEF ChainInv, ChainCore, ClaimInv, TypeOK
<1>1. Elems(receipts[b]) \subseteq {<<>>, executed'[b]}
  BY <1>0, ResultsAreFinal DEF ReceiptsMatchChain
<1>2. ASSUME NEW p \in Handlers, CreateReceipt(p)
      PROVE  Elems(receipts'[b]) \subseteq {<<>>, executed'[b]}
  <2>1. dec[p] \in {<<>>, executed[bat[p]]} /\ executed' = executed /\ dec[p] \in Lists
    BY <1>0, <1>2 DEF CreateReceipt, ResultsMatchChain, chainVars, HandlersTyped
  <2>2. CASE b # bat[p]
    BY <1>0, <1>1, <1>2, <2>2 DEF CreateReceipt, BatchesTyped
  <2>3. CASE b = bat[p]
    <3>1. receipts[b] \in Seq(Lists) /\ receipts'[b] = Append(receipts[b], dec[p])
      BY <1>0, <1>2, <2>3 DEF CreateReceipt, BatchesTyped
    <3>2. Elems(receipts'[b]) \subseteq Elems(receipts[b]) \cup {dec[p]}
      BY <2>1, <3>1 DEF Elems
    <3> QED
      BY <1>1, <2>1, <2>3, <3>2
  <2> QED
    BY <2>2, <2>3
<1>3. CASE UNCHANGED receipts
  BY <1>1, <1>3
<1> QED
  BY <1>2, <1>3
     DEF Next, CreateStep, SettleStep, vars, batchVars, SubmitFind, SubmitCreate, SubmitDbError,
         LoopTick, CreateRequest, RetryRequest, CheckPending, Seal, SealError, InsertBatch,
         MarkBatched, Claim, Decrypt, Settle, SettleRpcError, Recorded, Close, Abort, DbError,
         OrphanLands, OrderUpdate, OrderUpdateError, CrashRestart

\* What the database says of execution agrees with the chain after every step.
LEMMA ChainInvStep == ChainInv /\ [Next]_vars => ChainInv'
  BY ClaimInvStep, WritesStep, RowsStep, ResultsStep, ReceiptsStep DEF ChainInv, ChainCore

\* In the beginning neither says anything.
LEMMA ChainInvInit == Init => ChainInv
  BY ClaimInvInit, EmptyList
     DEF Init, ChainInv, ChainCore, WritesExecuted, SettledWasExecuted, ResultsMatchChain,
         ReceiptsMatchChain, WritesOwn, AmountIsOwn

\* What the database says of execution agrees with the chain.
LEMMA ChainInvariant == Spec => []ChainInv
  BY ChainInvInit, ChainInvStep, PTL DEF Spec

\* With a settlement engine, the database calls an order settled only if the
\* chain executed it.
THEOREM SettledOnlyIfExecuted == Spec => []SettledWasExecuted
<1>1. ChainInv => SettledWasExecuted
  BY DEF ChainInv, ChainCore
<1> QED
  BY <1>1, ChainInvariant, PTL

\* A settlement row holds the batch's on-chain results or none.
THEOREM ReceiptsAreTheChains == Spec => []ReceiptsMatchChain
<1>1. ChainInv => ReceiptsMatchChain
  BY DEF ChainInv, ChainCore
<1> QED
  BY <1>1, ChainInvariant, PTL

\* The amount recorded for an order was computed for that order.
THEOREM AmountsAreOwn == Spec => []AmountIsOwn
<1>1. ChainInv => AmountIsOwn
  BY DEF ChainInv, ChainCore
<1> QED
  BY <1>1, ChainInvariant, PTL

--------------------------------------------------------------------------------
(* What is executed against what was sealed.                                  *)

\* A batch with a row was sealed with exactly the row's orders.
RowsAreSealed == \A b \in BatchIds : bStatus[b] # "none" => sealed[b] = bOrders[b]

\* So was one whose row is about to be inserted.
InsertIsSealed == \A p \in Handlers : pc[p] = "insert" => sealed[bat[p]] = ids[p]

\* Without a row nothing is executed, and nothing sent.
ExecutedHasRow == \A b \in BatchIds : executed[b] # <<>> => bStatus[b] # "none"

ExecutedInOrder == \A b \in BatchIds : SubList(executed[b], bOrders[b])
DecryptedInOrder ==
    \A p \in Handlers : pc[p] = "settle" => SubList(dec[p], bOrders[bat[p]])
OrphansInOrder ==
    \A t \in orphans : bStatus[t.batch] # "none" /\ SubList(t.orders, bOrders[t.batch])

OrderCore ==
    /\ ExecutedHasRow
    /\ ExecutedInOrder
    /\ DecryptedInOrder
    /\ OrphansInOrder

SealCore == RowsAreSealed /\ InsertIsSealed

OrderInv == ClaimInv /\ OrderCore
SealInv == OrderInv /\ (VaultConfigured => SealCore)

\* The empty list is part of every list.
LEMMA EmptySubList == \A s : SubList(<<>>, s)
  BY EmptyList DEF SubList

\* The row of a batch, once inserted, keeps its orders and stays.
LEMMA RowsStay ==
    ASSUME ClaimInv, [Next]_vars, NEW b \in BatchIds, bStatus[b] # "none"
    PROVE  bStatus'[b] # "none" /\ bOrders'[b] = bOrders[b]
<1>0. BatchesTyped
  BY DEF ClaimInv, TypeOK
<1>1. ASSUME NEW p \in Handlers, InsertBatch(p)
      PROVE  bStatus'[b] # "none" /\ bOrders'[b] = bOrders[b]
  BY <1>0, <1>1 DEF InsertBatch, BatchesTyped, ClaimInv, BuildingHasNoRow, Building
<1>2. ASSUME NEW p \in Handlers, Claim(p) \/ Close(p) \/ Abort(p)
      PROVE  bStatus'[b] # "none" /\ bOrders'[b] = bOrders[b]
  BY <1>0, <1>2 DEF Claim, Close, Abort, BatchesTyped
<1>3. CASE UNCHANGED <<bStatus, bOrders>>
  BY <1>3
<1> QED
  BY <1>1, <1>2, <1>3
     DEF Next, CreateStep, SettleStep, vars, batchVars, SubmitFind, SubmitCreate, SubmitDbError,
         LoopTick, CreateRequest, RetryRequest, CheckPending, Seal, SealError, MarkBatched,
         Decrypt, Settle, SettleRpcError, Recorded, CreateReceipt, DbError, OrphanLands,
         OrderUpdate, OrderUpdateError, CrashRestart

\* A handler that holds a claim holds it on a batch that has a row.
LEMMA HeldHasRow ==
    ASSUME ClaimInv, NEW p \in Handlers, Holding(p)
    PROVE  bat[p] \in BatchIds /\ bStatus[bat[p]] # "none"
  BY DEF ClaimInv, BatIsDrawn, HeldIsSubmitted, Located

\* A batch row lists what was sealed for its id.
LEMMA RowsAreSealedStep ==
    ASSUME ClaimInv, SealCore, VaultConfigured, [Next]_vars
    PROVE  RowsAreSealed'
<1>0. RowsAreSealed /\ InsertIsSealed /\ BatchesTyped /\ ChainTyped /\ HandlersTyped /\ BuildingHasNoRow
  BY DEF ClaimInv, SealCore, TypeOK
<1>1. ASSUME NEW p \in Handlers, Seal(p) \/ SealError(p) PROVE RowsAreSealed'
  BY <1>0, <1>1 DEF Seal, SealError, batchVars, RowsAreSealed, ChainTyped, BuildingHasNoRow, Building
<1>2. ASSUME NEW p \in Handlers, InsertBatch(p) PROVE RowsAreSealed'
  BY <1>0, <1>2 DEF InsertBatch, chainVars, RowsAreSealed, InsertIsSealed, BatchesTyped
<1>3. ASSUME NEW p \in Handlers, Claim(p) PROVE RowsAreSealed'
  BY <1>0, <1>3 DEF Claim, Claimable, chainVars, RowsAreSealed, BatchesTyped
<1>4. ASSUME NEW p \in Handlers, Close(p) \/ Abort(p) PROVE RowsAreSealed'
  BY <1>0, <1>4, HeldHasRow DEF Close, Abort, Holding, chainVars, RowsAreSealed, BatchesTyped
<1>5. CASE UNCHANGED <<bStatus, bOrders, sealed>>
  BY <1>5, <1>0 DEF RowsAreSealed
<1> QED
  BY <1>1, <1>2, <1>3, <1>4, <1>5
     DEF Next, CreateStep, SettleStep, vars, batchVars, chainVars, SubmitFind, SubmitCreate,
         SubmitDbError, LoopTick, CreateRequest, RetryRequest, CheckPending, MarkBatched,
         Decrypt, Settle, SettleRpcError, Recorded, CreateReceipt, DbError, OrphanLands,
         OrderUpdate, OrderUpdateError, CrashRestart

\* A batch is sealed by the time its row is inserted.
LEMMA InsertIsSealedStep ==
    ASSUME ClaimInv, SealCore, VaultConfigured, [Next]_vars
    PROVE  InsertIsSealed'
<1>0. InsertIsSealed /\ ChainTyped /\ HandlersTyped /\ WritesTyped /\ BatIsDrawn /\ BuildExclusive
  BY DEF ClaimInv, SealCore, TypeOK
<1> USE DEF InsertIsSealed, HandlersTyped, Goto, Ended
<1>1. ASSUME NEW p \in Handlers, Seal(p) \/ SealError(p) PROVE InsertIsSealed'
  <2>1. \A q \in Handlers : q # p /\ pc[q] = "insert" => bat[q] # bat[p]
    BY <1>0, <1>1 DEF BuildExclusive, Building, Seal, SealError
  <2>2. bat[p] \in BatchIds
    BY <1>0, <1>1 DEF BatIsDrawn, Located, Seal, SealError
  <2>3. CASE Seal(p)
    BY <1>0, <2>1, <2>2, <2>3 DEF Seal, ChainTyped
  <2>4. CASE SealError(p)
    <3>1. PICK s \in {<<>>, ids[p]} : sealed' = [sealed EXCEPT ![bat[p]] = s]
      BY <2>4 DEF SealError
    <3>2. UNCHANGED <<ids, bat>> /\ pc' = [pc EXCEPT ![p] = Ended(p)] /\ Ended(p) # "insert"
      BY <2>4 DEF SealError
    <3>3. ASSUME NEW q \in Handlers, pc'[q] = "insert" PROVE q # p /\ pc[q] = "insert"
      BY <1>0, <3>2, <3>3
    <3> QED
      BY <1>0, <2>1, <2>2, <3>1, <3>2, <3>3 DEF ChainTyped
  <2> QED
    BY <1>1, <2>3, <2>4
<1>2. ASSUME NEW p \in Handlers, CreateStep(p), ~(Seal(p) \/ SealError(p)) PROVE InsertIsSealed'
  BY <1>0, <1>2 DEF CreateStep, CheckPending, InsertBatch, MarkBatched, chainVars
<1>3. ASSUME NEW p \in Handlers, SettleStep(p) PROVE InsertIsSealed'
  BY <1>0, <1>3 DEF SettleStep, Claim, Decrypt, Settle, SettleRpcError, Recorded, CreateReceipt,
                    Close, Abort, chainVars
<1>4. ASSUME NEW p \in Handlers, DbError(p) PROVE InsertIsSealed'
  BY <1>0, <1>4 DEF DbError, chainVars
<1>5. CASE LoopTick \/ (\E p \in Creators : CreateRequest(p)) \/ (\E p \in Retriers : RetryRequest(p))
  BY <1>0, <1>5, PipelineAssumption DEF LoopTick, CreateRequest, RetryRequest, Handlers, chainVars
<1>6. ASSUME NEW w \in writes, OrderUpdateError(w) PROVE InsertIsSealed'
  BY <1>0, <1>6 DEF OrderUpdateError, WritesTyped, chainVars
<1>7. CASE CrashRestart
  BY <1>0, <1>7 DEF CrashRestart
<1>8. CASE UNCHANGED <<sealed, handlerVars>>
  BY <1>0, <1>8 DEF handlerVars
<1> QED
  BY <1>1, <1>2, <1>3, <1>4, <1>5, <1>6, <1>7, <1>8
     DEF Next, vars, chainVars, SubmitFind, SubmitCreate, SubmitDbError, OrphanLands, OrderUpdate

\* Both parts about executed orders: executed batches have rows, and execute
\* their orders in row order.
LEMMA ExecutedStep ==
    ASSUME OrderInv, [Next]_vars
    PROVE  ExecutedHasRow' /\ ExecutedInOrder'
<1>0. /\ ClaimInv /\ ExecutedHasRow /\ ExecutedInOrder /\ DecryptedInOrder /\ OrphansInOrder
      /\ ChainTyped /\ BatchesTyped
  BY DEF OrderInv, ClaimInv, OrderCore, TypeOK
<1>1. ASSUME NEW b \in BatchIds, executed'[b] = executed[b]
      PROVE  /\ executed'[b] # <<>> => bStatus'[b] # "none"
             /\ SubList(executed'[b], bOrders'[b])
  <2>1. CASE executed[b] = <<>>
    BY <1>1, <2>1, EmptySubList
  <2>2. CASE executed[b] # <<>>
    BY <1>0, <1>1, <2>2, RowsStay DEF ExecutedHasRow, ExecutedInOrder
  <2> QED
    BY <2>1, <2>2
<1>2. ASSUME NEW p \in Handlers, Settle(p) PROVE ExecutedHasRow' /\ ExecutedInOrder'
  <2>1. bat[p] \in BatchIds /\ bStatus[bat[p]] # "none" /\ SubList(dec[p], bOrders[bat[p]])
    BY <1>0, <1>2, HeldHasRow DEF Settle, Holding, DecryptedInOrder
  <2>2. \A b \in BatchIds : executed'[b] = executed[b] \/ (b = bat[p] /\ executed'[b] = dec[p])
    BY <1>0, <1>2 DEF Settle, ChainTyped
  <2> QED
    BY <1>1, <1>2, <2>1, <2>2 DEF Settle, batchVars, ExecutedHasRow, ExecutedInOrder
<1>3. ASSUME NEW t \in orphans, OrphanLands(t) PROVE ExecutedHasRow' /\ ExecutedInOrder'
  <2>1. \A b \in BatchIds : executed'[b] = executed[b] \/ (b = t.batch /\ executed'[b] = t.orders)
    BY <1>0, <1>3 DEF OrphanLands, ChainTyped
  <2> QED
    BY <1>0, <1>1, <1>3, <2>1 DEF OrphanLands, batchVars, ExecutedHasRow, ExecutedInOrder, OrphansInOrder
<1>4. CASE UNCHANGED executed
  BY <1>1, <1>4 DEF ExecutedHasRow, ExecutedInOrder
<1> QED
  BY <1>2, <1>3, <1>4
     DEF Next, CreateStep, SettleStep, vars, chainVars, SubmitFind, SubmitCreate, SubmitDbError,
         LoopTick, CreateRequest, RetryRequest, CheckPending, Seal, SealError, InsertBatch,
         MarkBatched, Claim, Decrypt, SettleRpcError, Recorded, CreateReceipt, Close, Abort,
         DbError, OrderUpdate, OrderUpdateError, CrashRestart

\* A handler decrypts orders of its batch in the batch's order.
LEMMA DecryptedInOrderStep ==
    ASSUME OrderInv, [Next]_vars
    PROVE  DecryptedInOrder'
<1>0. ClaimInv /\ DecryptedInOrder /\ HandlersTyped /\ WritesTyped
  BY DEF OrderInv, ClaimInv, OrderCore, TypeOK
<1> USE DEF HandlersTyped, Goto, Ended
<1>1. ASSUME \A q \in Handlers : pc'[q] = "settle" =>
               pc[q] = "settle" /\ dec'[q] = dec[q] /\ bat'[q] = bat[q]
      PROVE  DecryptedInOrder'
  BY <1>0, <1>1, HeldHasRow, RowsStay DEF DecryptedInOrder, Holding
<1>2. ASSUME NEW p \in Handlers, Decrypt(p) PROVE DecryptedInOrder'
  BY <1>0, <1>2 DEF Decrypt, batchVars, DecryptedInOrder
<1>3. ASSUME NEW p \in Handlers, CreateStep(p) PROVE DecryptedInOrder'
  BY <1>0, <1>1, <1>3 DEF CreateStep, CheckPending, Seal, SealError, InsertBatch, MarkBatched
<1>4. ASSUME NEW p \in Handlers, SettleStep(p), ~Decrypt(p) PROVE DecryptedInOrder'
  BY <1>0, <1>1, <1>4 DEF SettleStep, Claim, Settle, SettleRpcError, Recorded, CreateReceipt, Close, Abort
<1>5. ASSUME NEW p \in Handlers, DbError(p) PROVE DecryptedInOrder'
  BY <1>0, <1>1, <1>5 DEF DbError
<1>6. CASE LoopTick \/ (\E p \in Creators : CreateRequest(p)) \/ (\E p \in Retriers : RetryRequest(p))
  BY <1>0, <1>1, <1>6, PipelineAssumption DEF LoopTick, CreateRequest, RetryRequest, Handlers
<1>7. ASSUME NEW w \in writes, OrderUpdateError(w) PROVE DecryptedInOrder'
  BY <1>0, <1>1, <1>7 DEF OrderUpdateError, WritesTyped
<1>8. CASE CrashRestart
  BY <1>0, <1>1, <1>8 DEF CrashRestart
<1>9. CASE UNCHANGED handlerVars
  BY <1>1, <1>9 DEF handlerVars
<1> QED
  BY <1>2, <1>3, <1>4, <1>5, <1>6, <1>7, <1>8, <1>9
     DEF Next, vars, SubmitFind, SubmitCreate, SubmitDbError, OrphanLands, OrderUpdate

\* A transaction left behind carries orders of its batch in the batch's order.
LEMMA OrphansInOrderStep ==
    ASSUME OrderInv, [Next]_vars
    PROVE  OrphansInOrder'
<1>0. ClaimInv /\ OrphansInOrder /\ DecryptedInOrder /\ ChainTyped
  BY DEF OrderInv, ClaimInv, OrderCore, TypeOK
<1>1. \A t \in orphans : bStatus'[t.batch] # "none" /\ SubList(t.orders, bOrders'[t.batch])
  BY <1>0, RowsStay DEF OrphansInOrder, ChainTyped
<1>2. ASSUME NEW p \in Handlers, pc[p] = "settle"
      PROVE  bStatus'[bat[p]] # "none" /\ SubList(dec[p], bOrders'[bat[p]])
  BY <1>0, <1>2, HeldHasRow, RowsStay DEF Holding, DecryptedInOrder
<1>3. ASSUME NEW p \in Handlers, SettleRpcError(p) PROVE OrphansInOrder'
  BY <1>1, <1>2, <1>3 DEF SettleRpcError, OrphansInOrder
<1>4. CASE CrashRestart
  BY <1>1, <1>2, <1>4 DEF CrashRestart, OrphansInOrder
<1>5. CASE orphans' \subseteq orphans
  BY <1>1, <1>5 DEF OrphansInOrder
<1> QED
  BY <1>3, <1>4, <1>5
     DEF Next, CreateStep, SettleStep, vars, chainVars, SubmitFind, SubmitCreate, SubmitDbError,
         LoopTick, CreateRequest, RetryRequest, CheckPending, Seal, SealError, InsertBatch,
         MarkBatched, Claim, Decrypt, Settle, Recorded, CreateReceipt, Close, Abort, DbError,
         OrphanLands, OrderUpdate, OrderUpdateError

\* Every step keeps executions within the rows of their batches.
LEMMA OrderInvStep == OrderInv /\ [Next]_vars => OrderInv'
  BY ClaimInvStep, ExecutedStep, DecryptedInOrderStep, OrphansInOrderStep DEF OrderInv, OrderCore

\* So do the initial states, where nothing is executed.
LEMMA OrderInvInit == Init => OrderInv
  BY ClaimInvInit, EmptySubList
     DEF Init, OrderInv, OrderCore, ExecutedHasRow, ExecutedInOrder, DecryptedInOrder, OrphansInOrder

\* With order-vault, seals, rows and executions agree.
LEMMA SealInvariant == Spec => []SealInv
<1>1. Init => SealInv
  BY OrderInvInit DEF Init, SealInv, SealCore, RowsAreSealed, InsertIsSealed
<1>2. SealInv /\ [Next]_vars => SealInv'
  BY OrderInvStep, RowsAreSealedStep, InsertIsSealedStep DEF SealInv, OrderInv, SealCore
<1> QED
  BY <1>1, <1>2, PTL DEF Spec

\* With an order vault, a batch executes a part of what was sealed for it, in
\* the sealed order.
THEOREM ExecutesWhatWasSealed == Spec => []ExecutedAsSealed
<1>1. SealInv => ExecutedAsSealed
  BY EmptySubList
     DEF SealInv, SealCore, OrderInv, OrderCore, RowsAreSealed, ExecutedHasRow, ExecutedInOrder,
         ExecutedAsSealed
<1> QED
  BY <1>1, SealInvariant, PTL

--------------------------------------------------------------------------------
(* The life of an order.  Two requests that both batch an order, and a request  *)
(* that settles a batch before its orders are marked, break it                  *)
(* (batchController.ts): these results are about deployments in which only the  *)
(* loop creates batches, and retries are sent for batches it has claimed.       *)
LoopCreates == Creators = {} /\ "created" \notin RetryStatuses

\* A batch that a handler has claimed at some time, and one whose orders carry
\* its id.
Claimed(b) == bStatus[b] \in {"submitted", "settled", "failed"}
Marked(b) == Claimed(b) \/ (pc[Loop] = "claim" /\ bat[Loop] = b)

\* Status and batch id that an order has from the time it is marked.
OfBatch(o, b) == oStatus[o] \in {"batched", "settled", "failed"} /\ oBatch[o] = b

\* A submission that has not ended has no row.
NewHasNoRow == \A o \in Orders : subPc[o] # "ended" => oStatus[o] = "none"

\* Only the loop is in createBatch, and retries are of batches it has claimed.
OnlyLoopBatches == \A p \in Handlers : pc[p] \in {"check", "seal", "insert", "mark"} => p = Loop
RetriesClaimed == \A p \in Retriers : pc[p] = "claim" => Claimed(bat[p])

\* The orders the loop is about to mark are still pending, in a row that nobody
\* has claimed; and so is the row when it comes to claim it.
ToMarkIsPending ==
    pc[Loop] \in {"seal", "insert", "mark"} => \A o \in Elems(ids[Loop]) : oStatus[o] = "pending"
MarkIsCreated ==
    pc[Loop] = "mark" => bStatus[bat[Loop]] = "created" /\ bOrders[bat[Loop]] = ids[Loop]
ClaimIsCreated == pc[Loop] = "claim" => bStatus[bat[Loop]] = "created"

\* Orders of a marked batch carry its id, so no order is in two of them.
MarkedIsBatched ==
    \A b \in BatchIds : Marked(b) => \A o \in Elems(bOrders[b]) : OfBatch(o, b)

\* An update in flight is about an order of a claimed batch.
WritesMarked == \A w \in writes : Claimed(w.batch) /\ w.order \in Elems(bOrders[w.batch])

MarkCore ==
    /\ NewHasNoRow
    /\ OnlyLoopBatches
    /\ RetriesClaimed
    /\ ToMarkIsPending
    /\ MarkIsCreated
    /\ ClaimIsCreated
    /\ MarkedIsBatched
    /\ WritesMarked

MarkInv == OrderInv /\ MarkCore

\* A handler moves by a step of its own, by a statement of its that fails, or when
\* the process restarts.
LEMMA HandlerStep ==
    ASSUME ClaimInv, [Next]_vars, NEW q \in Handlers
    PROVE  \/ pc'[q] = pc[q] /\ bat'[q] = bat[q] /\ ids'[q] = ids[q] /\ dec'[q] = dec[q]
           \/ pc'[q] \in {"idle", "done"}
           \/ q = Loop /\ LoopTick
           \/ q \in Creators /\ CreateRequest(q)
           \/ q \in Retriers /\ RetryRequest(q)
           \/ CreateStep(q)
           \/ SettleStep(q)
           \/ DbError(q)
           \/ \E w \in writes : OrderUpdateError(w) /\ w.by = q
<1> DEFINE Still == pc'[q] = pc[q] /\ bat'[q] = bat[q] /\ ids'[q] = ids[q] /\ dec'[q] = dec[q]
<1>0. HandlersTyped /\ WritesTyped
  BY DEF ClaimInv, TypeOK
<1> USE DEF HandlersTyped, Goto
<1>1. CASE LoopTick /\ q # Loop
  BY <1>0, <1>1 DEF LoopTick
<1>2. ASSUME NEW p \in Handlers, q # p,
             CreateRequest(p) \/ RetryRequest(p) \/ CreateStep(p) \/ SettleStep(p) \/ DbError(p)
      PROVE  Still
  <2>1. CASE CreateRequest(p) \/ RetryRequest(p) \/ CreateStep(p)
    BY <1>0, <1>2, <2>1
       DEF CreateRequest, RetryRequest, CreateStep, CheckPending, Seal, SealError, InsertBatch, MarkBatched
  <2>2. CASE SettleStep(p) \/ DbError(p)
    BY <1>0, <1>2, <2>2
       DEF SettleStep, DbError, Claim, Decrypt, Settle, SettleRpcError, Recorded, CreateReceipt, Close, Abort
  <2> QED
    BY <1>2, <2>1, <2>2
<1>3. ASSUME NEW w \in writes, OrderUpdateError(w), w.by # q PROVE Still
  BY <1>0, <1>3 DEF OrderUpdateError, WritesTyped
<1>4. CASE CrashRestart
  BY <1>0, <1>4 DEF CrashRestart, Ended
<1>5. CASE UNCHANGED handlerVars
  BY <1>5 DEF handlerVars
<1>6. Creators \subseteq Handlers /\ Retriers \subseteq Handlers
  BY DEF Handlers
<1> HIDE DEF Still
<1>7. CASE UNCHANGED vars
  BY <1>5, <1>7 DEF vars
<1>8. CASE Next
  <2>1. CASE \E o \in Orders : SubmitFind(o) \/ SubmitCreate(o) \/ SubmitDbError(o)
    BY <1>5, <2>1 DEF SubmitFind, SubmitCreate, SubmitDbError
  <2>2. CASE \E t \in orphans : OrphanLands(t)
    BY <1>5, <2>2 DEF OrphanLands
  <2>3. CASE \E w \in writes : OrderUpdate(w)
    BY <1>5, <2>3 DEF OrderUpdate
  <2>4. CASE \E p \in Handlers : p # q /\ \/ CreateRequest(p) \/ RetryRequest(p)
                                          \/ CreateStep(p) \/ SettleStep(p) \/ DbError(p)
    BY <1>2, <2>4 DEF Still
  <2>5. CASE \E w \in writes : OrderUpdateError(w) /\ w.by # q
    BY <1>3, <2>5 DEF Still
  <2> QED
    BY <1>1, <1>4, <1>6, <1>8, <2>1, <2>2, <2>3, <2>4, <2>5 DEF Next, Still
<1> QED
  BY <1>7, <1>8

\* With the loop as the only creator, an order's row changes in three ways: it is
\* inserted, it is marked while pending, or an order of a claimed batch gets an
\* outcome.
LEMMA OrderRowStep ==
    ASSUME LoopCreates, MarkInv, [Next]_vars, NEW o \in Orders
    PROVE  \/ oStatus'[o] = oStatus[o] /\ oBatch'[o] = oBatch[o]
           \/ SubmitCreate(o) /\ oStatus[o] = "none" /\ oStatus'[o] = "pending"
           \/ /\ MarkBatched(Loop) /\ o \in Elems(ids[Loop])
              /\ oStatus[o] = "pending" /\ oStatus'[o] = "batched" /\ oBatch'[o] = bat[Loop]
           \/ /\ \E w \in writes : OrderUpdate(w) /\ w.order = o
              /\ oStatus[o] \in {"batched", "settled", "failed"}
              /\ oStatus'[o] \in {"settled", "failed"} /\ oBatch'[o] = oBatch[o]
<1>0. OrdersTyped /\ WritesTyped /\ MarkCore
  BY DEF MarkInv, OrderInv, ClaimInv, TypeOK
<1> USE DEF OrdersTyped
<1>1. ASSUME NEW x \in Orders, SubmitCreate(x)
      PROVE  \/ oStatus'[o] = oStatus[o] /\ oBatch'[o] = oBatch[o]
             \/ SubmitCreate(o) /\ oStatus[o] = "none" /\ oStatus'[o] = "pending"
  BY <1>0, <1>1 DEF SubmitCreate, MarkCore, NewHasNoRow
<1>2. ASSUME NEW p \in Handlers, MarkBatched(p)
      PROVE  \/ oStatus'[o] = oStatus[o] /\ oBatch'[o] = oBatch[o]
             \/ /\ MarkBatched(Loop) /\ o \in Elems(ids[Loop])
                /\ oStatus[o] = "pending" /\ oStatus'[o] = "batched" /\ oBatch'[o] = bat[Loop]
  <2>1. p = Loop /\ pc[Loop] = "mark"
    BY <1>0, <1>2 DEF MarkBatched, MarkCore, OnlyLoopBatches
  <2> QED
    BY <1>0, <1>2, <2>1 DEF MarkBatched, MarkCore, ToMarkIsPending
<1>3. ASSUME NEW w \in writes, OrderUpdate(w)
      PROVE  \/ oStatus'[o] = oStatus[o] /\ oBatch'[o] = oBatch[o]
             \/ /\ \E v \in writes : OrderUpdate(v) /\ v.order = o
                /\ oStatus[o] \in {"batched", "settled", "failed"}
                /\ oStatus'[o] \in {"settled", "failed"} /\ oBatch'[o] = oBatch[o]
  <2>1. /\ w.order \in Orders /\ w.status \in {"settled", "failed"}
        /\ w.batch \in BatchIds /\ OfBatch(w.order, w.batch)
    BY <1>0 DEF WritesTyped, MarkCore, WritesMarked, MarkedIsBatched, Marked
  <2>2. /\ oStatus' = [oStatus EXCEPT ![w.order] = w.status] /\ oBatch' = oBatch
    BY <1>3 DEF OrderUpdate
  <2> QED
    BY <1>0, <1>3, <2>1, <2>2 DEF OfBatch
<1>4. CASE UNCHANGED <<oStatus, oBatch>>
  BY <1>4
<1> QED
  BY <1>1, <1>2, <1>3, <1>4
     DEF Next, CreateStep, SettleStep, vars, rowVars, SubmitFind, SubmitDbError, LoopTick,
         CreateRequest, RetryRequest, CheckPending, Seal, SealError, InsertBatch, Claim, Decrypt,
         Settle, SettleRpcError, Recorded, CreateReceipt, Close, Abort, DbError, OrphanLands,
         OrderUpdateError, CrashRestart

\* A marked order stays marked, with its batch, and an outcome stays an outcome.
LEMMA MarkStays ==
    ASSUME LoopCreates, MarkInv, [Next]_vars, NEW o \in Orders, NEW b \in BatchIds, OfBatch(o, b)
    PROVE  OfBatch(o, b)' /\ (HasOutcome(o) => HasOutcome(o)')
  BY OrderRowStep DEF OfBatch, HasOutcome

\* A batch's status changes in four ways.
LEMMA BatchRowStep ==
    ASSUME ClaimInv, [Next]_vars, NEW b \in BatchIds
    PROVE  \/ bStatus'[b] = bStatus[b]
           \/ \E p \in Handlers :
                /\ bat[p] = b
                /\ \/ InsertBatch(p) /\ bStatus[b] = "none" /\ bStatus'[b] = "created"
                   \/ Claim(p) /\ bStatus[b] \in {"created", "failed"} /\ bStatus'[b] = "submitted"
                   \/ Close(p) /\ bStatus[b] = "submitted" /\ bStatus'[b] = "settled"
                   \/ Abort(p) /\ bStatus[b] = "submitted" /\ bStatus'[b] = "failed"
<1>0. BatchesTyped /\ BuildingHasNoRow /\ HeldIsSubmitted
  BY DEF ClaimInv, TypeOK
<1> USE DEF BatchesTyped
<1>1. ASSUME NEW p \in Handlers, InsertBatch(p), bStatus'[b] # bStatus[b]
      PROVE  bat[p] = b /\ bStatus[b] = "none" /\ bStatus'[b] = "created"
  BY <1>0, <1>1 DEF InsertBatch, BuildingHasNoRow, Building
<1>2. ASSUME NEW p \in Handlers, Claim(p), bStatus'[b] # bStatus[b]
      PROVE  bat[p] = b /\ bStatus[b] \in {"created", "failed"} /\ bStatus'[b] = "submitted"
  BY <1>0, <1>2 DEF Claim, Claimable
<1>3. ASSUME NEW p \in Handlers, Close(p), bStatus'[b] # bStatus[b]
      PROVE  bat[p] = b /\ bStatus[b] = "submitted" /\ bStatus'[b] = "settled"
  BY <1>0, <1>3 DEF Close, HeldIsSubmitted, Holding
<1>4. ASSUME NEW p \in Handlers, Abort(p), bStatus'[b] # bStatus[b]
      PROVE  bat[p] = b /\ bStatus[b] = "submitted" /\ bStatus'[b] = "failed"
  BY <1>0, <1>4 DEF Abort, HeldIsSubmitted, Holding
<1>5. CASE UNCHANGED bStatus
  BY <1>5
<1>6. CASE \E p \in Handlers : InsertBatch(p) \/ Claim(p) \/ Close(p) \/ Abort(p)
  BY <1>1, <1>2, <1>3, <1>4, <1>6
<1> QED
  BY <1>5, <1>6
     DEF Next, CreateStep, SettleStep, vars, batchVars, SubmitFind, SubmitCreate, SubmitDbError,
         LoopTick, CreateRequest, RetryRequest, CheckPending, Seal, SealError, MarkBatched,
         Decrypt, Settle, SettleRpcError, Recorded, CreateReceipt, DbError, OrphanLands,
         OrderUpdate, OrderUpdateError, CrashRestart

\* A batch that was claimed once never becomes claimable for the first time again.
LEMMA ClaimedStays ==
    ASSUME ClaimInv, [Next]_vars, NEW b \in BatchIds, Claimed(b)
    PROVE  Claimed(b)'
  BY BatchRowStep DEF Claimed

\* A batch that is claimed for the first time is claimed by the loop, which has
\* marked its orders.
LEMMA FirstClaim ==
    ASSUME LoopCreates, MarkInv, [Next]_vars, NEW b \in BatchIds, Claimed(b)', ~Claimed(b)
    PROVE  Claim(Loop) /\ bat[Loop] = b
<1>1. PICK p \in Handlers : bat[p] = b /\ Claim(p)
  BY BatchRowStep DEF Claimed, MarkInv, OrderInv
<1>2. p \notin Creators /\ p \notin Retriers
  BY <1>1 DEF LoopCreates, MarkInv, MarkCore, RetriesClaimed, Claim
<1> QED
  BY <1>1, <1>2 DEF Handlers

\* The row of a batch stays 'created' until the loop claims it.
LEMMA CreatedStays ==
    ASSUME LoopCreates, MarkInv, [Next]_vars, NEW b \in BatchIds, bStatus[b] = "created"
    PROVE  \/ bStatus'[b] = "created" /\ bOrders'[b] = bOrders[b]
           \/ Claim(Loop) /\ bat[Loop] = b
<1>1. ClaimInv
  BY DEF MarkInv, OrderInv
<1>2. bOrders'[b] = bOrders[b]
  BY <1>1, RowsStay
<1>3. bStatus'[b] = "created" \/ Claimed(b)'
  BY <1>1, BatchRowStep DEF Claimed
<1> QED
  BY <1>2, <1>3, FirstClaim DEF Claimed

\* A batch is marked by the loop.
LEMMA MarkedComesFrom ==
    ASSUME LoopCreates, MarkInv, [Next]_vars, NEW b \in BatchIds, Marked(b)'
    PROVE  Marked(b) \/ (MarkBatched(Loop) /\ bat[Loop] = b)
<1>1. ClaimInv /\ HandlersTyped /\ Loop \in Handlers
  BY DEF MarkInv, OrderInv, ClaimInv, TypeOK, Handlers
<1>2. CASE Claimed(b)'
  BY <1>2, FirstClaim DEF Marked, Claim
<1>3. CASE pc'[Loop] = "claim" /\ bat'[Loop] = b
  <2>1. CASE CreateStep(Loop)
    BY <1>1, <1>3, <2>1
       DEF CreateStep, CheckPending, Seal, SealError, InsertBatch, MarkBatched, Goto, Ended, HandlersTyped
  <2>2. CASE SettleStep(Loop) \/ DbError(Loop)
    BY <1>1, <1>3, <2>2
       DEF SettleStep, DbError, Claim, Decrypt, Settle, SettleRpcError, Recorded, CreateReceipt,
           Close, Abort, Goto, Ended, HandlersTyped
  <2>3. CASE LoopTick
    BY <1>1, <1>3, <2>3 DEF LoopTick, Goto, HandlersTyped
  <2>4. CASE \E w \in writes : OrderUpdateError(w) /\ w.by = Loop
    BY <1>1, <1>3, <2>4 DEF OrderUpdateError, Goto, HandlersTyped, Marked
  <2>5. Loop \notin Creators /\ Loop \notin Retriers
    BY PipelineAssumption
  <2> QED
    BY <1>1, <1>3, <2>1, <2>2, <2>3, <2>4, <2>5, HandlerStep DEF Marked
<1> QED
  BY <1>2, <1>3 DEF Marked

\* A submission that has not ended had not ended before, and has no row.
LEMMA NewHasNoRowStep ==
    ASSUME LoopCreates, MarkInv, [Next]_vars
    PROVE  NewHasNoRow'
<1> SUFFICES ASSUME NEW o \in Orders, subPc'[o] # "ended" PROVE oStatus'[o] = "none"
  BY DEF NewHasNoRow
<1>0. OrdersTyped /\ NewHasNoRow
  BY DEF MarkInv, MarkCore, OrderInv, ClaimInv, TypeOK
<1>1. subPc[o] # "ended"
  <2>1. CASE \E x \in Orders : SubmitFind(x) \/ SubmitCreate(x) \/ SubmitDbError(x)
    BY <1>0, <2>1 DEF SubmitFind, SubmitCreate, SubmitDbError, OrdersTyped
  <2>2. CASE CrashRestart
    BY <1>0, <2>2 DEF CrashRestart, OrdersTyped
  <2>3. CASE UNCHANGED subPc
    BY <2>3
  <2> QED
    BY <2>1, <2>2, <2>3
       DEF Next, CreateStep, SettleStep, vars, orderVars, LoopTick, CreateRequest, RetryRequest,
           CheckPending, Seal, SealError, InsertBatch, MarkBatched, Claim, Decrypt, Settle,
           SettleRpcError, Recorded, CreateReceipt, Close, Abort, DbError, OrphanLands,
           OrderUpdate, OrderUpdateError
<1>2. oStatus[o] = "none"
  BY <1>0, <1>1 DEF NewHasNoRow
<1>3. ~SubmitCreate(o)
  BY <1>0 DEF SubmitCreate, OrdersTyped
<1> QED
  BY <1>2, <1>3, OrderRowStep

\* What the invariant says of handlers before their claim.
LEMMA BeforeClaimStep ==
    ASSUME LoopCreates, MarkInv, [Next]_vars
    PROVE  OnlyLoopBatches' /\ RetriesClaimed'
<1>0. ClaimInv /\ HandlersTyped /\ OnlyLoopBatches /\ RetriesClaimed /\ BatIsDrawn
  BY DEF MarkInv, MarkCore, OrderInv, ClaimInv, TypeOK
<1>1. Creators = {} /\ "created" \notin RetryStatuses
  BY DEF LoopCreates
<1>2. ASSUME NEW q \in Handlers, pc'[q] \in {"check", "seal", "insert", "mark"} PROVE q = Loop
  <2>1. CASE CreateStep(q)
    BY <1>0, <2>1
       DEF CreateStep, CheckPending, Seal, SealError, InsertBatch, MarkBatched, OnlyLoopBatches
  <2>2. ~SettleStep(q) /\ ~DbError(q)
    BY <1>0, <1>2
       DEF SettleStep, DbError, Claim, Decrypt, Settle, SettleRpcError, Recorded, CreateReceipt,
           Close, Abort, Goto, Ended, HandlersTyped
  <2>3. ~RetryRequest(q)
    BY <1>0, <1>2 DEF RetryRequest, Goto, HandlersTyped
  <2>4. ASSUME NEW w \in writes, OrderUpdateError(w), w.by = q PROVE pc[q] = pc'[q]
    BY <1>0, <1>2, <2>4 DEF OrderUpdateError, Goto, HandlersTyped
  <2> QED
    BY <1>0, <1>1, <1>2, <2>1, <2>2, <2>3, <2>4, HandlerStep DEF OnlyLoopBatches
<1>3. ASSUME NEW q \in Retriers, pc'[q] = "claim" PROVE Claimed(bat[q])' 
  <2>0. q \in Handlers /\ q # Loop
    BY PipelineAssumption DEF Handlers
  <2>1. ~CreateStep(q)
    BY <1>0, <2>0
       DEF CreateStep, CheckPending, Seal, SealError, InsertBatch, MarkBatched, OnlyLoopBatches
  <2>2. ~SettleStep(q) /\ ~DbError(q)
    BY <1>0, <1>3, <2>0
       DEF SettleStep, DbError, Claim, Decrypt, Settle, SettleRpcError, Recorded, CreateReceipt,
           Close, Abort, Goto, Ended, HandlersTyped
  <2>3. CASE pc[q] = "claim" /\ bat'[q] = bat[q]
    <3>1. bat[q] \in BatchIds /\ Claimed(bat[q])
      BY <1>0, <2>0, <2>3 DEF BatIsDrawn, Located, RetriesClaimed
    <3>2. \A b \in BatchIds : Claimed(b) => Claimed(b)'
      BY <1>0, ClaimedStays
    <3> QED
      BY <2>3, <3>1, <3>2 DEF Claimed
  <2>4. CASE RetryRequest(q)
    <3>1. PICK b \in BatchIds : bStatus[b] \in RetryStatuses /\ bat' = [bat EXCEPT ![q] = b]
      BY <2>4 DEF RetryRequest
    <3>2. bat'[q] = b /\ bStatus' = bStatus
      BY <1>0, <2>0, <2>4, <3>1 DEF RetryRequest, batchVars, HandlersTyped
    <3> QED
      BY <1>1, <3>1, <3>2, PipelineAssumption DEF Claimed
  <2>5. ASSUME NEW w \in writes, OrderUpdateError(w), w.by = q PROVE pc[q] = pc'[q] /\ bat'[q] = bat[q]
    BY <1>0, <1>3, <2>0, <2>5 DEF OrderUpdateError, Goto, HandlersTyped
  <2> QED
    BY <1>0, <1>1, <1>3, <2>0, <2>1, <2>2, <2>3, <2>4, <2>5, HandlerStep
<1> QED
  BY <1>2, <1>3 DEF OnlyLoopBatches, RetriesClaimed

\* The loop's own steps through createBatch.
LEMMA LoopStep ==
    ASSUME ClaimInv, [Next]_vars, pc'[Loop] \in {"seal", "insert", "mark", "claim"}
    PROVE  \/ pc'[Loop] = pc[Loop] /\ bat'[Loop] = bat[Loop] /\ ids'[Loop] = ids[Loop]
           \/ CheckPending(Loop) /\ pc'[Loop] = "seal"
           \/ Seal(Loop) /\ pc'[Loop] = "insert"
           \/ InsertBatch(Loop) /\ pc'[Loop] = "mark"
           \/ MarkBatched(Loop) /\ pc'[Loop] = "claim"
<1>0. HandlersTyped /\ Loop \in Handlers /\ Loop \notin Creators /\ Loop \notin Retriers
  BY PipelineAssumption DEF ClaimInv, TypeOK, Handlers
<1>1. CASE CreateStep(Loop)
  BY <1>0, <1>1
     DEF CreateStep, CheckPending, Seal, SealError, InsertBatch, MarkBatched, Goto, Ended, HandlersTyped
<1>2. ~SettleStep(Loop) /\ ~DbError(Loop) /\ ~LoopTick
  BY <1>0
     DEF SettleStep, DbError, Claim, Decrypt, Settle, SettleRpcError, Recorded, CreateReceipt,
         Close, Abort, LoopTick, Goto, Ended, HandlersTyped
<1>3. ASSUME NEW w \in writes, OrderUpdateError(w), w.by = Loop
      PROVE  pc'[Loop] = pc[Loop] /\ bat'[Loop] = bat[Loop] /\ ids'[Loop] = ids[Loop]
  BY <1>0, <1>3 DEF OrderUpdateError, Goto, HandlersTyped
<1> QED
  BY <1>0, <1>1, <1>2, <1>3, HandlerStep

\* From the check to the update, the orders the loop marks stay pending.
LEMMA ToMarkIsPendingStep ==
    ASSUME LoopCreates, MarkInv, [Next]_vars
    PROVE  ToMarkIsPending'
<1>0. ClaimInv /\ HandlersTyped /\ ToMarkIsPending /\ Loop \in Handlers
  BY DEF MarkInv, MarkCore, OrderInv, ClaimInv, TypeOK, Handlers
<1> SUFFICES ASSUME pc'[Loop] \in {"seal", "insert", "mark"}
             PROVE  \A o \in Elems(ids'[Loop]) : oStatus'[o] = "pending"
  BY DEF ToMarkIsPending, Elems
<1>1. CASE pc'[Loop] = pc[Loop] /\ ids'[Loop] = ids[Loop]
  <2> SUFFICES ASSUME NEW o \in Elems(ids[Loop]) PROVE oStatus'[o] = "pending"
    BY <1>1
  <2>1. o \in Orders
    BY <1>0, ElemsAreOrders DEF HandlersTyped
  <2>2. oStatus[o] = "pending"
    BY <1>0, <1>1 DEF ToMarkIsPending
  <2>3. ~MarkBatched(Loop)
    BY <1>0, <1>1 DEF MarkBatched, Goto, HandlersTyped
  <2> QED
    BY <2>1, <2>2, <2>3, OrderRowStep
<1>2. CASE CheckPending(Loop) /\ pc'[Loop] = "seal"
  BY <1>0, <1>2 DEF CheckPending, Pending, rowVars, Goto, Ended, HandlersTyped
<1>3. CASE Seal(Loop)
  BY <1>0, <1>3 DEF Seal, ToMarkIsPending, rowVars
<1>4. CASE InsertBatch(Loop)
  BY <1>0, <1>4 DEF InsertBatch, ToMarkIsPending, rowVars
<1> QED
  BY <1>0, <1>1, <1>2, <1>3, <1>4, LoopStep

\* From the insert to the claim, the loop's row stays as it was inserted.
LEMMA LoopRowStep ==
    ASSUME LoopCreates, MarkInv, [Next]_vars
    PROVE  MarkIsCreated' /\ ClaimIsCreated'
<1>0. /\ ClaimInv /\ HandlersTyped /\ BatchesTyped /\ MarkIsCreated /\ ClaimIsCreated /\ BatIsDrawn
      /\ Loop \in Handlers
  BY DEF MarkInv, MarkCore, OrderInv, ClaimInv, TypeOK, Handlers
<1>1. ASSUME pc'[Loop] = "mark"
      PROVE  bStatus'[bat'[Loop]] = "created" /\ bOrders'[bat'[Loop]] = ids'[Loop]
  <2>1. CASE pc[Loop] = "mark" /\ bat'[Loop] = bat[Loop] /\ ids'[Loop] = ids[Loop]
    <3>1. bat[Loop] \in BatchIds /\ bStatus[bat[Loop]] = "created" /\ bOrders[bat[Loop]] = ids[Loop]
      BY <1>0, <2>1 DEF BatIsDrawn, Located, MarkIsCreated
    <3>2. ~Claim(Loop)
      BY <2>1 DEF Claim
    <3> QED
      BY <2>1, <3>1, <3>2, CreatedStays
  <2>2. CASE InsertBatch(Loop)
    BY <1>0, <2>2 DEF InsertBatch, BatIsDrawn, Located, BatchesTyped
  <2> QED
    BY <1>0, <1>1, <2>1, <2>2, LoopStep
<1>2. ASSUME pc'[Loop] = "claim" PROVE bStatus'[bat'[Loop]] = "created"
  <2>1. CASE pc[Loop] = "claim" /\ bat'[Loop] = bat[Loop]
    <3>1. bat[Loop] \in BatchIds /\ bStatus[bat[Loop]] = "created"
      BY <1>0, <2>1 DEF BatIsDrawn, Located, ClaimIsCreated
    <3>2. ~Claim(Loop)
      BY <1>0, <1>2 DEF Claim, Goto, Ended, HandlersTyped
    <3> QED
      BY <2>1, <3>1, <3>2, CreatedStays
  <2>2. CASE MarkBatched(Loop)
    BY <1>0, <2>2 DEF MarkBatched, MarkIsCreated, batchVars
  <2> QED
    BY <1>0, <1>2, <2>1, <2>2, LoopStep
<1> QED
  BY <1>1, <1>2 DEF MarkIsCreated, ClaimIsCreated

\* Orders of a marked batch carry its id: marking takes pending orders only, and
\* the orders of a marked batch are pending no more.
LEMMA MarkedIsBatchedStep ==
    ASSUME LoopCreates, MarkInv, [Next]_vars
    PROVE  MarkedIsBatched'
<1>0. /\ ClaimInv /\ HandlersTyped /\ BatchesTyped /\ Loop \in Handlers
      /\ MarkedIsBatched /\ MarkIsCreated /\ ClaimIsCreated
  BY DEF MarkInv, MarkCore, OrderInv, ClaimInv, TypeOK, Handlers
<1>1. ASSUME NEW b \in BatchIds, Marked(b), NEW o \in Elems(bOrders'[b]) PROVE OfBatch(o, b)'
  <2>1. bStatus[b] # "none"
    BY <1>0, <1>1 DEF Marked, Claimed, ClaimIsCreated
  <2>2. o \in Elems(bOrders[b])
    BY <1>0, <1>1, <2>1, RowsStay
  <2>3. o \in Orders /\ OfBatch(o, b)
    BY <1>0, <1>1, <2>2, ElemsAreOrders DEF MarkedIsBatched, BatchesTyped
  <2> QED
    BY <2>3, MarkStays
<1>2. ASSUME NEW b \in BatchIds, MarkBatched(Loop), bat[Loop] = b, NEW o \in Elems(bOrders'[b])
      PROVE  OfBatch(o, b)'
  <2>1. bOrders'[b] = ids[Loop] /\ bOrders' = bOrders
    BY <1>0, <1>2 DEF MarkBatched, MarkIsCreated, batchVars
  <2>2. o \in Elems(ids[Loop]) /\ o \in Orders
    BY <1>0, <1>2, <2>1, ElemsAreOrders DEF BatchesTyped
  <2> QED
    BY <1>2, <2>2 DEF MarkBatched, OfBatch
<1> SUFFICES ASSUME NEW b \in BatchIds, Marked(b)', NEW o \in Elems(bOrders'[b])
             PROVE  OfBatch(o, b)'
  BY DEF MarkedIsBatched, Elems
<1> QED
  BY <1>1, <1>2, MarkedComesFrom

\* An update in flight stays there until it takes effect, fails or is lost in a
\* restart; new ones come from the contract call, for orders of the handler's batch.
LEMMA WritesOfBatch ==
    ASSUME OrderInv, [Next]_vars, NEW w \in writes', w \notin writes
    PROVE  \E p \in Handlers : /\ Settle(p) /\ pc'[p] = "record" /\ w \in OrderUpdates(p)
                               /\ w.by = p /\ w.batch = bat[p] /\ w.order \in Elems(bOrders[bat[p]])
                               /\ writes' = writes \cup OrderUpdates(p)
<1>0. HandlersTyped /\ DecryptedInOrder
  BY DEF OrderInv, OrderCore, ClaimInv, TypeOK
<1>1. PICK p \in Handlers : Settle(p)
  BY DEF Next, CreateStep, SettleStep, vars, SubmitFind, SubmitCreate, SubmitDbError, LoopTick,
         CreateRequest, RetryRequest, CheckPending, Seal, SealError, InsertBatch, MarkBatched,
         Claim, Decrypt, SettleRpcError, Recorded, CreateReceipt, Close, Abort, DbError,
         OrphanLands, OrderUpdate, OrderUpdateError, CrashRestart
<1>2. writes' = writes \cup OrderUpdates(p) /\ pc'[p] = "record" /\ w \in OrderUpdates(p)
  BY <1>0, <1>1 DEF Settle, Goto, HandlersTyped
<1>3. Elems(dec[p]) \subseteq Elems(bOrders[bat[p]])
  BY <1>0, <1>1 DEF Settle, DecryptedInOrder, SubList
<1>4. w.by = p /\ w.batch = bat[p] /\ w.order \in Elems(bOrders[bat[p]])
  BY <1>2, <1>3 DEF OrderUpdates, Elems
<1> QED
  BY <1>1, <1>2, <1>4

\* Updates in flight are about orders of claimed batches.
LEMMA WritesMarkedStep ==
    ASSUME LoopCreates, MarkInv, [Next]_vars
    PROVE  WritesMarked'
<1>0. ClaimInv /\ OrderInv /\ WritesTyped /\ WritesMarked /\ HeldIsSubmitted
  BY DEF MarkInv, MarkCore, OrderInv, ClaimInv, TypeOK
<1>1. ASSUME NEW b \in BatchIds, Claimed(b) PROVE Claimed(b)' /\ bOrders'[b] = bOrders[b]
  BY <1>0, <1>1, ClaimedStays, RowsStay DEF Claimed
<1> SUFFICES ASSUME NEW w \in writes' PROVE Claimed(w.batch)' /\ w.order \in Elems(bOrders'[w.batch])
  BY DEF WritesMarked, Claimed
<1>2. CASE w \in writes
  BY <1>0, <1>1, <1>2 DEF WritesMarked, WritesTyped
<1>3. CASE w \notin writes
  <2>1. PICK p \in Handlers : Settle(p) /\ w.batch = bat[p] /\ w.order \in Elems(bOrders[bat[p]])
    BY <1>0, <1>3, WritesOfBatch
  <2>2. Holding(p)
    BY <2>1 DEF Settle, Holding
  <2>3. bat[p] \in BatchIds /\ Claimed(bat[p])
    BY <1>0, <2>2, HeldHasRow DEF HeldIsSubmitted, Claimed
  <2> QED
    BY <1>1, <2>1, <2>3
<1> QED
  BY <1>2, <1>3

\* Every step keeps the invariant about marked batches.
LEMMA MarkInvStep ==
    ASSUME LoopCreates, MarkInv, [Next]_vars
    PROVE  MarkInv'
<1>1. OrderInv'
  BY OrderInvStep DEF MarkInv
<1>2. MarkCore'
  BY NewHasNoRowStep, BeforeClaimStep, ToMarkIsPendingStep, LoopRowStep, MarkedIsBatchedStep,
     WritesMarkedStep DEF MarkCore
<1> QED
  BY <1>1, <1>2 DEF MarkInv

\* No batch is marked in the beginning.
LEMMA MarkInvInit == Init => MarkInv
<1> SUFFICES ASSUME Init PROVE MarkInv
  OBVIOUS
<1>1. OrderInv
  BY OrderInvInit
<1>2. /\ oStatus = [o \in Orders |-> "none"] /\ pc = [p \in Handlers |-> "idle"]
      /\ bStatus = [b \in BatchIds |-> "none"] /\ writes = {} /\ Loop \in Handlers
      /\ Retriers \subseteq Handlers
  BY DEF Init, Handlers
<1>3. NewHasNoRow /\ OnlyLoopBatches /\ RetriesClaimed /\ ToMarkIsPending /\ MarkIsCreated /\ ClaimIsCreated
  BY <1>2 DEF NewHasNoRow, OnlyLoopBatches, RetriesClaimed, ToMarkIsPending, MarkIsCreated, ClaimIsCreated
<1>4. MarkedIsBatched /\ WritesMarked
  BY <1>2 DEF MarkedIsBatched, WritesMarked, Marked, Claimed
<1> QED
  BY <1>1, <1>3, <1>4 DEF MarkInv, MarkCore

--------------------------------------------------------------------------------
(* A settled batch leaves no order without an outcome.                        *)

\* While a handler waits for its updates, each order of its batch has an outcome
\* or an update under way; after that, an outcome.
RecordedOrUnderWay ==
    \A p \in Handlers : pc[p] = "record" =>
      \A o \in Elems(bOrders[bat[p]]) :
        HasOutcome(o) \/ \E w \in writes : w.by = p /\ w.batch = bat[p] /\ w.order = o
ClosingHasOutcomes ==
    \A p \in Handlers : pc[p] \in {"receipt", "close"} =>
      \A o \in Elems(bOrders[bat[p]]) : HasOutcome(o)

OutcomeInv == MarkInv /\ RecordedOrUnderWay /\ ClosingHasOutcomes /\ SettledBatchHasOutcomes

\* The orders of a claimed batch, and the outcomes among them, stay.
LEMMA OutcomesStay ==
    ASSUME LoopCreates, MarkInv, [Next]_vars, NEW b \in BatchIds, Claimed(b)
    PROVE  /\ bOrders'[b] = bOrders[b]
           /\ \A o \in Elems(bOrders[b]) : HasOutcome(o) => HasOutcome(o)'
<1>0. ClaimInv /\ BatchesTyped /\ MarkedIsBatched
  BY DEF MarkInv, MarkCore, OrderInv, ClaimInv, TypeOK
<1>1. bOrders'[b] = bOrders[b]
  BY <1>0, RowsStay DEF Claimed
<1>2. ASSUME NEW o \in Elems(bOrders[b]), HasOutcome(o) PROVE HasOutcome(o)'
  <2>1. o \in Orders /\ OfBatch(o, b)
    BY <1>0, ElemsAreOrders DEF MarkedIsBatched, Marked, BatchesTyped
  <2> QED
    BY <1>2, <2>1, MarkStays
<1> QED
  BY <1>1, <1>2

\* A handler comes to its last statements, with its batch, as follows.
LEMMA ClosingStep ==
    ASSUME ClaimInv, [Next]_vars, NEW q \in Handlers, pc'[q] \in {"record", "receipt", "close"}
    PROVE  /\ Holding(q) /\ bat'[q] = bat[q]
           /\ \/ pc'[q] = pc[q]
              \/ Settle(q) /\ pc'[q] = "record" /\ writes' = writes \cup OrderUpdates(q)
              \/ Recorded(q) /\ pc'[q] = "receipt"
              \/ CreateReceipt(q) /\ pc'[q] = "close"
<1>0. HandlersTyped
  BY DEF ClaimInv, TypeOK
<1> USE DEF Goto, Ended, HandlersTyped
<1>1. ~CreateStep(q) /\ ~DbError(q)
  BY <1>0 DEF CreateStep, DbError, CheckPending, Seal, SealError, InsertBatch, MarkBatched
<1>2. ~(q = Loop /\ LoopTick) /\ ~(q \in Creators /\ CreateRequest(q)) /\ ~(q \in Retriers /\ RetryRequest(q))
  BY <1>0 DEF LoopTick, CreateRequest, RetryRequest
<1>3. CASE SettleStep(q)
  BY <1>0, <1>3 DEF SettleStep, Claim, Decrypt, Settle, SettleRpcError, Recorded, CreateReceipt,
                    Close, Abort, Holding
<1>4. ASSUME NEW w \in writes, OrderUpdateError(w), w.by = q PROVE pc'[q] = pc[q] /\ bat'[q] = bat[q]
  BY <1>0, <1>4 DEF OrderUpdateError
<1> QED
  BY <1>1, <1>2, <1>3, <1>4, HandlerStep DEF Holding

\* Every order of a batch whose updates are awaited has its outcome, or the update
\* is under way.
LEMMA RecordedOrUnderWayStep ==
    ASSUME LoopCreates, OutcomeInv, [Next]_vars
    PROVE  RecordedOrUnderWay'
<1>0. /\ MarkInv /\ ClaimInv /\ HandlersTyped /\ OrdersTyped /\ WritesTyped /\ HeldIsSubmitted
      /\ RecordedOrUnderWay
  BY DEF OutcomeInv, MarkInv, OrderInv, ClaimInv, TypeOK
<1> SUFFICES ASSUME NEW p \in Handlers, pc'[p] = "record", NEW o \in Elems(bOrders'[bat'[p]])
             PROVE  HasOutcome(o)' \/ \E w \in writes' : w.by = p /\ w.batch = bat'[p] /\ w.order = o
  BY DEF RecordedOrUnderWay, Elems, HasOutcome
<1>1. Holding(p) /\ bat'[p] = bat[p] /\ bat[p] \in BatchIds /\ Claimed(bat[p])
  BY <1>0, ClosingStep, HeldHasRow DEF HeldIsSubmitted, Claimed
<1>2. o \in Elems(bOrders[bat[p]]) /\ (HasOutcome(o) => HasOutcome(o)')
  BY <1>0, <1>1, OutcomesStay
<1>3. CASE pc[p] = "record"
  <2>1. CASE HasOutcome(o)
    BY <1>2, <2>1
  <2>2. ASSUME NEW w \in writes, w.by = p, w.batch = bat[p], w.order = o
        PROVE  HasOutcome(o)' \/ w \in writes'
    <3>1. CASE OrderUpdate(w)
      BY <1>0, <2>2, <3>1 DEF OrderUpdate, HasOutcome, WritesTyped, OrdersTyped
    <3>2. ~OrderUpdateError(w)
      BY <1>0, <1>3, <2>2 DEF OrderUpdateError, Goto, HandlersTyped
    <3>3. ~CrashRestart
      BY <1>0 DEF CrashRestart, Ended
    <3> QED
      BY <3>1, <3>2, <3>3
         DEF Next, CreateStep, SettleStep, vars, SubmitFind, SubmitCreate, SubmitDbError, LoopTick,
             CreateRequest, RetryRequest, CheckPending, Seal, SealError, InsertBatch, MarkBatched,
             Claim, Decrypt, Settle, SettleRpcError, Recorded, CreateReceipt, Close, Abort, DbError,
             OrphanLands, OrderUpdate, OrderUpdateError
  <2> QED
    BY <1>0, <1>1, <1>2, <1>3, <2>1, <2>2 DEF RecordedOrUnderWay
<1>4. CASE writes' = writes \cup OrderUpdates(p)
  <2>1. \E w \in OrderUpdates(p) : w.by = p /\ w.batch = bat[p] /\ w.order = o
    <3>1. CASE o \in Elems(dec[p])
      <4>1. PICK i \in DOMAIN dec[p] : dec[p][i] = o
        BY <3>1 DEF Elems
      <4> DEFINE w == [by |-> p, batch |-> bat[p], order |-> dec[p][i], status |-> "settled",
                       out |-> IF EngineConfigured THEN dec[p][i] ELSE NoOrder]
      <4>2. w \in OrderUpdates(p)
        BY DEF OrderUpdates
      <4>3. w.by = p /\ w.batch = bat[p] /\ w.order = o
        BY <4>1
      <4> QED
        BY <4>2, <4>3
    <3>2. CASE o \notin Elems(dec[p])
      <4> DEFINE w == [by |-> p, batch |-> bat[p], order |-> o, status |-> "failed", out |-> NoOrder]
      <4>1. w \in OrderUpdates(p)
        BY <1>2, <3>2 DEF OrderUpdates
      <4>2. w.by = p /\ w.batch = bat[p] /\ w.order = o
        OBVIOUS
      <4> QED
        BY <4>1, <4>2
    <3> QED
      BY <3>1, <3>2
  <2> QED
    BY <1>1, <1>4, <2>1
<1> QED
  BY <1>0, <1>3, <1>4, ClosingStep

\* A handler closes its batch after its updates.
LEMMA ClosingHasOutcomesStep ==
    ASSUME LoopCreates, OutcomeInv, [Next]_vars
    PROVE  ClosingHasOutcomes'
<1>0. /\ MarkInv /\ ClaimInv /\ HeldIsSubmitted /\ RecordedOrUnderWay /\ ClosingHasOutcomes
  BY DEF OutcomeInv, MarkInv, OrderInv, ClaimInv
<1> SUFFICES ASSUME NEW p \in Handlers, pc'[p] \in {"receipt", "close"}, NEW o \in Elems(bOrders'[bat'[p]])
             PROVE  HasOutcome(o)'
  BY DEF ClosingHasOutcomes, Elems, HasOutcome
<1>1. Holding(p) /\ bat'[p] = bat[p] /\ bat[p] \in BatchIds /\ Claimed(bat[p])
  BY <1>0, ClosingStep, HeldHasRow DEF HeldIsSubmitted, Claimed
<1>2. o \in Elems(bOrders[bat[p]]) /\ (HasOutcome(o) => HasOutcome(o)')
  BY <1>0, <1>1, OutcomesStay
<1>3. CASE pc[p] \in {"receipt", "close"}
  BY <1>0, <1>2, <1>3 DEF ClosingHasOutcomes
<1>4. CASE Recorded(p)
  BY <1>0, <1>2, <1>4 DEF Recorded, RecordedOrUnderWay
<1>5. CASE CreateReceipt(p)
  BY <1>3, <1>5 DEF CreateReceipt
<1> QED
  BY <1>0, <1>3, <1>4, <1>5, ClosingStep

\* A batch becomes settled in the last statement of settleBatch.
LEMMA SettledBatchStep ==
    ASSUME LoopCreates, OutcomeInv, [Next]_vars
    PROVE  SettledBatchHasOutcomes'
<1>0. /\ MarkInv /\ ClaimInv /\ ClosingHasOutcomes /\ SettledBatchHasOutcomes
  BY DEF OutcomeInv, MarkInv, OrderInv
<1> SUFFICES ASSUME NEW b \in BatchIds, bStatus'[b] = "settled", NEW o \in Elems(bOrders'[b])
             PROVE  HasOutcome(o)'
  BY DEF SettledBatchHasOutcomes, Elems, HasOutcome
<1>1. CASE bStatus[b] = "settled"
  BY <1>0, <1>1, OutcomesStay DEF Claimed, SettledBatchHasOutcomes, HasOutcome
<1>2. ASSUME NEW p \in Handlers, Close(p), bat[p] = b, bStatus[b] = "submitted" PROVE HasOutcome(o)'
  BY <1>0, <1>2, OutcomesStay DEF Claimed, ClosingHasOutcomes, Close
<1> QED
  BY <1>0, <1>1, <1>2, BatchRowStep

\* When only the loop creates batches and retries follow its claims, a batch is
\* reported as settled only when each of its orders has its outcome: through failed
\* statements, updates that land late, restarts and any number of retries.
THEOREM SettledLeavesNoneOut ==
    ASSUME LoopCreates
    PROVE  Spec => []SettledBatchHasOutcomes
<1>1. Init => OutcomeInv
  BY MarkInvInit
     DEF Init, OutcomeInv, RecordedOrUnderWay, ClosingHasOutcomes, SettledBatchHasOutcomes
<1>2. OutcomeInv /\ [Next]_vars => OutcomeInv'
  BY MarkInvStep, RecordedOrUnderWayStep, ClosingHasOutcomesStep, SettledBatchStep DEF OutcomeInv
<1>3. OutcomeInv => SettledBatchHasOutcomes
  BY DEF OutcomeInv
<1> QED
  BY <1>1, <1>2, <1>3, PTL DEF Spec

--------------------------------------------------------------------------------
(* The refinement of OrderLifecycle.  A catch block entered because a statement   *)
(* failed releases its batch while updates of the same Promise.all are still      *)
(* running, and a retry then writes a second outcome; so here no statement fails. *)
NoDbFaults == FaultBudget["db"] = 0

\* A batch for whose orders nobody has come to write outcomes: it waits to be
\* claimed, or its handler is not yet past the contract call.
Unresolved(b) ==
    \/ bStatus[b] = "failed"
    \/ pc[Loop] = "claim" /\ bat[Loop] = b
    \/ \E p \in Handlers : pc[p] \in {"decrypt", "settle", "abort"} /\ bat[p] = b

UnresolvedIsBatched ==
    \A b \in BatchIds : Unresolved(b) => \A o \in Elems(bOrders[b]) : oStatus[o] = "batched"

\* An update in flight is awaited by its handler, is the only one for its order and
\* gives it its first outcome.
WritesFirst ==
    \A w \in writes : pc[w.by] = "record" /\ bat[w.by] = w.batch /\ oStatus[w.order] = "batched"
OneWrite == \A v, w \in writes : v.order = w.order => v = w

\* Transactions, landed or not, are of claimed batches.
OrphansClaimed == \A t \in orphans : Claimed(t.batch)
ExecutedClaimed == \A b \in BatchIds : executed[b] # <<>> => Claimed(b)

LifeCore ==
    /\ UnresolvedIsBatched
    /\ WritesFirst
    /\ OneWrite
    /\ OrphansClaimed
    /\ ExecutedClaimed

LifeInv == MarkInv /\ ChainInv /\ LifeCore

\* Without failing statements, these actions do not happen.
LEMMA NoFailedStatement ==
    ASSUME NoDbFaults, ClaimInv
    PROVE  /\ \A p \in Handlers : ~DbError(p)
           /\ \A w \in writes : ~OrderUpdateError(w)
<1>1. faults["db"] \in Nat
  BY DEF ClaimInv, TypeOK, FaultKinds
<1>2. ~Fault("db")
  BY <1>1 DEF Fault, NoDbFaults
<1> QED
  BY <1>2 DEF DbError, OrderUpdateError

\* Every marked order is in one marked batch.
LEMMA OneBatch ==
    ASSUME MarkInv, NEW b \in BatchIds, NEW c \in BatchIds, Marked(b), Marked(c),
           NEW o, o \in Elems(bOrders[b]), o \in Elems(bOrders[c])
    PROVE  b = c
  BY DEF MarkInv, MarkCore, MarkedIsBatched, OfBatch

\* A batch that waits for outcomes was marked just now, or waited before.
LEMMA UnresolvedComesFrom ==
    ASSUME LoopCreates, NoDbFaults, MarkInv, [Next]_vars, NEW b \in BatchIds, Unresolved(b)'
    PROVE  Unresolved(b) \/ (MarkBatched(Loop) /\ bat[Loop] = b)
<1>0. /\ ClaimInv /\ HandlersTyped /\ RetriesClaimed /\ OnlyLoopBatches /\ Loop \in Handlers
      /\ Creators = {}
  BY DEF MarkInv, MarkCore, OrderInv, ClaimInv, TypeOK, Handlers, LoopCreates
<1>1. CASE bStatus'[b] = "failed"
  <2>1. CASE bStatus[b] = "failed"
    BY <2>1 DEF Unresolved
  <2>2. CASE \E p \in Handlers : bat[p] = b /\ Abort(p)
    BY <2>2 DEF Unresolved, Abort
  <2> QED
    BY <1>0, <1>1, <2>1, <2>2, BatchRowStep
<1>2. CASE pc'[Loop] = "claim" /\ bat'[Loop] = b
  <2>1. MarkBatched(Loop) => bat'[Loop] = bat[Loop]
    BY DEF MarkBatched
  <2> QED
    BY <1>0, <1>2, <2>1, LoopStep DEF Unresolved
<1>3. ASSUME NEW p \in Handlers, pc'[p] \in {"decrypt", "settle", "abort"}, bat'[p] = b
      PROVE  Unresolved(b)
  <2>1. CASE pc'[p] = pc[p] /\ bat'[p] = bat[p]
    BY <1>3, <2>1 DEF Unresolved
  <2>2. ~CreateStep(p) /\ ~(p = Loop /\ LoopTick) /\ ~(p \in Retriers /\ RetryRequest(p))
    BY <1>0, <1>3
       DEF CreateStep, CheckPending, Seal, SealError, InsertBatch, MarkBatched, LoopTick,
           RetryRequest, Goto, Ended, HandlersTyped
  <2>3. CASE Claim(p)
    <3>1. bat[p] = b /\ pc[p] = "claim" /\ bStatus[b] \in {"created", "failed"}
      BY <1>0, <1>3, <2>3 DEF Claim, Claimable, Goto, Ended, HandlersTyped
    <3>2. p = Loop \/ bStatus[b] = "failed"
      BY <1>0, <3>1 DEF RetriesClaimed, Claimed, Handlers
    <3> QED
      BY <3>1, <3>2 DEF Unresolved
  <2>4. CASE SettleStep(p) /\ ~Claim(p)
    <3>1. pc[p] \in {"decrypt", "settle"} /\ bat[p] = b
      BY <1>0, <1>3, <2>4
         DEF SettleStep, Decrypt, Settle, SettleRpcError, Recorded, CreateReceipt, Close, Abort,
             Goto, Ended, HandlersTyped
    <3> QED
      BY <3>1 DEF Unresolved
  <2> QED
    BY <1>0, <1>3, <2>1, <2>2, <2>3, <2>4, HandlerStep, NoFailedStatement
<1> QED
  BY <1>1, <1>2, <1>3 DEF Unresolved

\* A batch that waits for outcomes has no update in flight.
LEMMA UnresolvedHasNoWrites ==
    ASSUME LifeInv, NEW b \in BatchIds, Unresolved(b), NEW w \in writes
    PROVE  w.batch # b
<1>0. /\ WritesTyped /\ HeldIsSubmitted /\ ClaimExclusive /\ WritesFirst /\ ClaimIsCreated
  BY DEF LifeInv, LifeCore, MarkInv, MarkCore, OrderInv, ClaimInv, TypeOK
<1>1. w.by \in Handlers /\ pc[w.by] = "record" /\ bat[w.by] = w.batch /\ Holding(w.by)
  BY <1>0 DEF WritesTyped, WritesFirst, Holding
<1>2. bStatus[w.batch] = "submitted"
  BY <1>0, <1>1 DEF HeldIsSubmitted
<1>3. \A p \in Handlers : pc[p] \in {"decrypt", "settle", "abort"} => bat[p] # w.batch
  BY <1>0, <1>1 DEF ClaimExclusive, Holding
<1> QED
  BY <1>0, <1>2, <1>3 DEF Unresolved, ClaimIsCreated

\* A batch that waits for outcomes has been marked.
LEMMA UnresolvedIsMarked ==
    ASSUME MarkInv, NEW b \in BatchIds, Unresolved(b)
    PROVE  Marked(b)
<1>1. \A p \in Handlers : Holding(p) => bStatus[bat[p]] = "submitted"
  BY DEF MarkInv, OrderInv, ClaimInv, HeldIsSubmitted
<1> QED
  BY <1>1 DEF Unresolved, Marked, Claimed, Holding

\* Orders of a batch that waits for outcomes have none.
LEMMA UnresolvedIsBatchedStep ==
    ASSUME LoopCreates, NoDbFaults, LifeInv, [Next]_vars
    PROVE  UnresolvedIsBatched'
<1>0. /\ MarkInv /\ ClaimInv /\ BatchesTyped /\ HandlersTyped /\ WritesTyped
      /\ UnresolvedIsBatched /\ MarkIsCreated /\ WritesMarked /\ ClaimIsCreated
  BY DEF LifeInv, LifeCore, MarkInv, MarkCore, OrderInv, ClaimInv, TypeOK
<1> SUFFICES ASSUME NEW b \in BatchIds, Unresolved(b)', NEW o \in Elems(bOrders'[b])
             PROVE  oStatus'[o] = "batched"
  BY DEF UnresolvedIsBatched, Elems
<1>1. CASE Unresolved(b)
  <2>1. Marked(b) /\ bStatus[b] # "none"
    BY <1>0, <1>1, UnresolvedIsMarked DEF Marked, Claimed, ClaimIsCreated
  <2>2. o \in Elems(bOrders[b]) /\ o \in Orders /\ oStatus[o] = "batched"
    BY <1>0, <1>1, <2>1, RowsStay, ElemsAreOrders DEF UnresolvedIsBatched, BatchesTyped
  <2>3. ASSUME NEW w \in writes PROVE w.order # o
    <3>1. w.batch \in BatchIds /\ w.order \in Elems(bOrders[w.batch]) /\ Marked(w.batch)
      BY <1>0 DEF WritesMarked, WritesTyped, Marked
    <3> QED
      BY <1>0, <1>1, <2>1, <2>2, <3>1, OneBatch, UnresolvedHasNoWrites
  <2> QED
    BY <1>0, <2>2, <2>3, OrderRowStep
<1>2. CASE MarkBatched(Loop) /\ bat[Loop] = b
  <2>1. bOrders'[b] = ids[Loop]
    BY <1>0, <1>2 DEF MarkBatched, MarkIsCreated, batchVars
  <2>2. o \in Elems(ids[Loop]) /\ o \in Orders
    BY <1>0, <2>1, ElemsAreOrders DEF HandlersTyped, Handlers
  <2> QED
    BY <1>2, <2>2 DEF MarkBatched
<1> QED
  BY <1>0, <1>1, <1>2, UnresolvedComesFrom

\* The updates of one contract call are about different orders.
LEMMA UpdatesDiffer ==
    ASSUME NEW p \in Handlers, dec[p] \in Lists, NEW v \in OrderUpdates(p), NEW w \in OrderUpdates(p),
           v.order = w.order
    PROVE  v = w
<1>1. \A i, j \in DOMAIN dec[p] : dec[p][i] = dec[p][j] => i = j
  BY DEF Lists
<1>2. \A i \in DOMAIN dec[p] : dec[p][i] \in Elems(dec[p])
  BY DEF Elems
<1> DEFINE Good(i) == [by |-> p, batch |-> bat[p], order |-> dec[p][i], status |-> "settled",
                       out |-> IF EngineConfigured THEN dec[p][i] ELSE NoOrder]
           Lost(o) == [by |-> p, batch |-> bat[p], order |-> o, status |-> "failed", out |-> NoOrder]
<1>3. ASSUME NEW u \in OrderUpdates(p)
      PROVE  \/ \E i \in DOMAIN dec[p] : u = Good(i)
             \/ \E o \in Elems(bOrders[bat[p]]) \ Elems(dec[p]) : u = Lost(o)
  BY <1>3 DEF OrderUpdates
<1>4. (\A i : Good(i).order = dec[p][i]) /\ (\A o : Lost(o).order = o)
  OBVIOUS
<1> HIDE DEF Good, Lost
<1>5. CASE \E i \in DOMAIN dec[p] : v = Good(i)
  BY <1>1, <1>2, <1>3, <1>4, <1>5
<1>6. CASE \E o \in Elems(bOrders[bat[p]]) \ Elems(dec[p]) : v = Lost(o)
  BY <1>2, <1>3, <1>4, <1>6
<1> QED
  BY <1>3, <1>5, <1>6

\* An update in flight that stays in flight keeps its handler waiting and its
\* order without an outcome.
LEMMA WriteStays ==
    ASSUME LoopCreates, NoDbFaults, LifeInv, [Next]_vars, NEW w \in writes, w \in writes'
    PROVE  pc'[w.by] = "record" /\ bat'[w.by] = w.batch /\ oStatus'[w.order] = "batched"
<1>0. MarkInv /\ ClaimInv /\ HandlersTyped /\ WritesTyped /\ WritesFirst /\ OneWrite
  BY DEF LifeInv, LifeCore, MarkInv, OrderInv, ClaimInv, TypeOK
<1>1. /\ w.by \in Handlers /\ w.order \in Orders
      /\ pc[w.by] = "record" /\ bat[w.by] = w.batch /\ oStatus[w.order] = "batched"
  BY <1>0 DEF WritesTyped, WritesFirst
<1>2. pc'[w.by] = "record" /\ bat'[w.by] = w.batch
  <2>1. ~CreateStep(w.by)
    BY <1>1 DEF CreateStep, CheckPending, Seal, SealError, InsertBatch, MarkBatched
  <2>2. ~SettleStep(w.by)
    BY <1>1 DEF SettleStep, Claim, Decrypt, Settle, SettleRpcError, Recorded, CreateReceipt, Close, Abort
  <2>3. ~LoopTick \/ w.by # Loop
    BY <1>1 DEF LoopTick
  <2>4. ~CreateRequest(w.by) /\ ~RetryRequest(w.by)
    BY <1>1 DEF CreateRequest, RetryRequest
  <2>5. ~(pc'[w.by] \in {"idle", "done"})
    <3>1. ~CrashRestart
      BY DEF CrashRestart
    <3>2. CASE UNCHANGED pc
      BY <1>1, <3>2
    <3>3. ASSUME NEW q \in Handlers, q # w.by,
                 CreateRequest(q) \/ RetryRequest(q) \/ CreateStep(q) \/ SettleStep(q)
          PROVE  pc'[w.by] = "record"
      BY <1>0, <1>1, <3>3
         DEF CreateRequest, RetryRequest, CreateStep, SettleStep, CheckPending, Seal, SealError,
             InsertBatch, MarkBatched, Claim, Decrypt, Settle, SettleRpcError, Recorded,
             CreateReceipt, Close, Abort, Goto, HandlersTyped
    <3>4. CASE LoopTick /\ w.by # Loop
      BY <1>0, <1>1, <3>4 DEF LoopTick, Goto, HandlersTyped
    <3>5. Creators \subseteq Handlers /\ Retriers \subseteq Handlers
      BY DEF Handlers
    <3> QED
      BY <1>0, <1>1, <2>1, <2>2, <2>3, <2>4, <3>1, <3>2, <3>3, <3>4, <3>5, NoFailedStatement
         DEF Next, vars, handlerVars, SubmitFind, SubmitCreate, SubmitDbError, OrphanLands, OrderUpdate
  <2> QED
    BY <1>0, <1>1, <2>1, <2>2, <2>3, <2>4, <2>5, HandlerStep, NoFailedStatement
<1>3. ASSUME NEW v \in writes, OrderUpdate(v) PROVE v.order # w.order
  BY <1>0, <1>3 DEF OrderUpdate, OneWrite
<1>4. oStatus'[w.order] = "batched"
  BY <1>0, <1>1, <1>3, OrderRowStep
<1> QED
  BY <1>2, <1>4

\* Every step keeps updates in flight awaited, single and first.
LEMMA WritesFirstStep ==
    ASSUME LoopCreates, NoDbFaults, LifeInv, [Next]_vars
    PROVE  WritesFirst' /\ OneWrite'
<1>0. /\ MarkInv /\ OrderInv /\ ClaimInv /\ HandlersTyped /\ WritesTyped /\ BatchesTyped /\ ClaimExclusive
      /\ UnresolvedIsBatched /\ WritesFirst /\ OneWrite /\ WritesMarked
  BY DEF LifeInv, LifeCore, MarkInv, MarkCore, OrderInv, ClaimInv, TypeOK
<1>1. ASSUME NEW w \in writes', w \notin writes
      PROVE  \E p \in Handlers :
               /\ pc[p] = "settle" /\ bat[p] \in BatchIds /\ dec[p] \in Lists
               /\ pc'[p] = "record" /\ bat'[p] = bat[p] /\ UNCHANGED oStatus
               /\ w \in OrderUpdates(p) /\ w.by = p /\ w.batch = bat[p] /\ w.order \in Elems(bOrders[bat[p]])
               /\ writes' = writes \cup OrderUpdates(p)
  <2>1. PICK p \in Handlers : /\ Settle(p) /\ pc'[p] = "record" /\ w \in OrderUpdates(p)
                              /\ w.by = p /\ w.batch = bat[p] /\ w.order \in Elems(bOrders[bat[p]])
                              /\ writes' = writes \cup OrderUpdates(p)
    BY <1>0, <1>1, WritesOfBatch
  <2>2. pc[p] = "settle" /\ bat' = bat /\ UNCHANGED oStatus /\ Holding(p)
    BY <2>1 DEF Settle, rowVars, Holding
  <2>3. bat[p] \in BatchIds /\ dec[p] \in Lists
    BY <1>0, <2>2, HeldHasRow DEF HandlersTyped
  <2> QED
    BY <2>1, <2>2, <2>3
<1>2. ASSUME NEW w \in writes'
      PROVE  pc'[w.by] = "record" /\ bat'[w.by] = w.batch /\ oStatus'[w.order] = "batched"
  <2>1. CASE w \in writes
    BY <2>1, WriteStays
  <2>2. CASE w \notin writes
    <3>1. PICK p \in Handlers : /\ pc[p] = "settle" /\ bat[p] \in BatchIds
                                /\ pc'[p] = "record" /\ bat'[p] = bat[p] /\ UNCHANGED oStatus
                                /\ w.by = p /\ w.batch = bat[p] /\ w.order \in Elems(bOrders[bat[p]])
      BY <1>1, <2>2
    <3>2. oStatus[w.order] = "batched"
      BY <1>0, <3>1 DEF UnresolvedIsBatched, Unresolved
    <3> QED
      BY <3>1, <3>2
  <2> QED
    BY <2>1, <2>2
<1>3. ASSUME NEW v \in writes, NEW w \in writes', w \notin writes PROVE v.order # w.order
  <2>1. PICK p \in Handlers : /\ pc[p] = "settle" /\ bat[p] \in BatchIds
                              /\ w.batch = bat[p] /\ w.order \in Elems(bOrders[bat[p]])
    BY <1>1, <1>3
  <2>2. v.batch \in BatchIds /\ v.order \in Elems(bOrders[v.batch]) /\ Marked(v.batch)
    BY <1>0 DEF WritesTyped, WritesMarked, Marked
  <2>3. Unresolved(bat[p])
    BY <2>1 DEF Unresolved
  <2>4. Marked(bat[p]) /\ v.batch # bat[p]
    BY <1>0, <2>1, <2>3, UnresolvedIsMarked, UnresolvedHasNoWrites
  <2> QED
    BY <1>0, <2>1, <2>2, <2>4, OneBatch
<1>4. ASSUME NEW v \in writes', NEW w \in writes', v.order = w.order PROVE v = w
  <2>1. CASE v \in writes /\ w \in writes
    BY <1>0, <1>4, <2>1 DEF OneWrite
  <2>2. CASE (v \in writes /\ w \notin writes) \/ (w \in writes /\ v \notin writes)
    BY <1>3, <1>4, <2>2
  <2>3. CASE v \notin writes /\ w \notin writes
    <3>1. PICK p \in Handlers : dec[p] \in Lists /\ writes' = writes \cup OrderUpdates(p)
      BY <1>1, <2>3
    <3>2. v \in OrderUpdates(p) /\ w \in OrderUpdates(p)
      BY <2>3, <3>1
    <3> QED
      BY <1>4, <3>1, <3>2, UpdatesDiffer
  <2> QED
    BY <2>1, <2>2, <2>3
<1> QED
  BY <1>2, <1>4 DEF WritesFirst, OneWrite

\* Transactions are of claimed batches.
LEMMA ChainClaimedStep ==
    ASSUME LifeInv, [Next]_vars
    PROVE  OrphansClaimed' /\ ExecutedClaimed'
<1>0. ClaimInv /\ ChainTyped /\ HeldIsSubmitted /\ OrphansClaimed /\ ExecutedClaimed
  BY DEF LifeInv, LifeCore, MarkInv, OrderInv, ClaimInv, TypeOK
<1>1. ASSUME NEW p \in Handlers, pc[p] = "settle" PROVE bat[p] \in BatchIds /\ Claimed(bat[p])
  BY <1>0, <1>1, HeldHasRow DEF HeldIsSubmitted, Holding, Claimed
<1>2. ASSUME NEW b \in BatchIds, Claimed(b) PROVE Claimed(b)'
  BY <1>0, <1>2, ClaimedStays
<1>3. ASSUME NEW t \in orphans' PROVE t.batch \in BatchIds /\ Claimed(t.batch)
  <2>1. CASE t \in orphans
    BY <1>0, <2>1 DEF OrphansClaimed, ChainTyped
  <2>2. ASSUME NEW p \in Handlers, SettleRpcError(p), t \notin orphans
        PROVE  t.batch \in BatchIds /\ Claimed(t.batch)
    <3>1. t.batch = bat[p] /\ pc[p] = "settle"
      BY <1>3, <2>2 DEF SettleRpcError
    <3> QED
      BY <1>1, <3>1
  <2>3. CASE CrashRestart /\ t \notin orphans
    <3>1. \E p \in Handlers : t.batch = bat[p] /\ pc[p] = "settle"
      BY <1>3, <2>3 DEF CrashRestart
    <3> QED
      BY <1>1, <3>1
  <2>4. CASE orphans' \subseteq orphans
    BY <1>3, <2>1, <2>4
  <2> QED
    BY <2>1, <2>2, <2>3, <2>4
       DEF Next, CreateStep, SettleStep, vars, chainVars, SubmitFind, SubmitCreate, SubmitDbError,
           LoopTick, CreateRequest, RetryRequest, CheckPending, Seal, SealError, InsertBatch,
           MarkBatched, Claim, Decrypt, Settle, Recorded, CreateReceipt, Close, Abort, DbError,
           OrphanLands, OrderUpdate, OrderUpdateError
<1>4. ASSUME NEW b \in BatchIds, executed'[b] # <<>> PROVE Claimed(b)
  <2>1. CASE executed[b] # <<>>
    BY <1>0, <2>1 DEF ExecutedClaimed
  <2>2. ASSUME NEW p \in Handlers, Settle(p), executed[b] = <<>> PROVE Claimed(b)
    <3>1. bat[p] = b /\ pc[p] = "settle"
      BY <1>0, <1>4, <2>2 DEF Settle, ChainTyped
    <3> QED
      BY <1>1, <3>1
  <2>3. ASSUME NEW t \in orphans, OrphanLands(t), executed[b] = <<>> PROVE Claimed(b)
    <3>1. t.batch = b
      BY <1>0, <1>4, <2>3 DEF OrphanLands, ChainTyped
    <3> QED
      BY <1>0, <3>1 DEF OrphansClaimed
  <2>4. CASE UNCHANGED executed
    BY <1>4, <2>1, <2>4
  <2> QED
    BY <2>1, <2>2, <2>3, <2>4
       DEF Next, CreateStep, SettleStep, vars, chainVars, SubmitFind, SubmitCreate, SubmitDbError,
           LoopTick, CreateRequest, RetryRequest, CheckPending, Seal, SealError, InsertBatch,
           MarkBatched, Claim, Decrypt, SettleRpcError, Recorded, CreateReceipt, Close, Abort,
           DbError, OrderUpdate, OrderUpdateError, CrashRestart
<1> QED
  BY <1>2, <1>3, <1>4 DEF OrphansClaimed, ExecutedClaimed, Claimed

\* Every step keeps the invariant behind the refinement.
LEMMA LifeInvStep ==
    ASSUME LoopCreates, NoDbFaults, LifeInv, [Next]_vars
    PROVE  LifeInv'
<1>1. MarkInv' /\ ChainInv'
  BY MarkInvStep, ChainInvStep DEF LifeInv
<1>2. LifeCore'
  BY UnresolvedIsBatchedStep, WritesFirstStep, ChainClaimedStep DEF LifeCore
<1> QED
  BY <1>1, <1>2 DEF LifeInv

\* The initial states satisfy it.
LEMMA LifeInvInit == Init => LifeInv
<1> SUFFICES ASSUME Init PROVE LifeInv
  OBVIOUS
<1>1. MarkInv
  BY MarkInvInit
<1>2. ChainInv
  BY ChainInvInit
<1>3. Loop \in Handlers
  BY DEF Handlers
<1>4. UnresolvedIsBatched
  BY <1>3 DEF Init, UnresolvedIsBatched, Unresolved
<1>5. WritesFirst /\ OneWrite /\ OrphansClaimed /\ ExecutedClaimed
  BY DEF Init, WritesFirst, OneWrite, OrphansClaimed, ExecutedClaimed
<1> QED
  BY <1>1, <1>2, <1>4, <1>5 DEF LifeInv, LifeCore

\* settle_batch, whenever its transaction lands, moves the tokens of orders that
\* were batched and whose tokens have not moved.
LEMMA ExecuteStep ==
    ASSUME LifeInv, NEW b \in BatchIds, NEW d \in Lists, Claimed(b), executed[b] = <<>>,
           Elems(d) \subseteq Elems(bOrders[b]),
           executed' = [executed EXCEPT ![b] = d], UNCHANGED oStatus
    PROVE  Lifecycle!Next
<1>0. /\ MarkInv /\ ChainTyped /\ BatchesTyped /\ MarkedIsBatched /\ ExecutedClaimed /\ ExecutedInOrder
  BY DEF LifeInv, LifeCore, MarkInv, MarkCore, OrderInv, OrderCore, ClaimInv, TypeOK
<1>1. Elems(d) \in SUBSET Orders
  BY ElemsAreOrders
<1>2. ASSUME NEW o \in Elems(d) PROVE oStatus[o] \notin {"none", "pending"} /\ Moves[o] = {}
  <2>1. o \in Orders /\ o \in Elems(bOrders[b]) /\ OfBatch(o, b)
    BY <1>0, <1>1 DEF MarkedIsBatched, Marked
  <2>2. ASSUME NEW c \in BatchIds, o \in Elems(executed[c]) PROVE FALSE
    <3>1. executed[c] # <<>> /\ o \in Elems(bOrders[c]) /\ Claimed(c)
      BY <1>0, <2>2, EmptyList DEF ExecutedClaimed, ExecutedInOrder, SubList
    <3>2. c = b
      BY <1>0, <2>1, <3>1, OneBatch DEF Marked
    <3> QED
      BY <3>1, <3>2
  <2>3. Moves[o] = {}
    BY <2>1, <2>2 DEF Moves
  <2> QED
    BY <2>1, <2>3 DEF OfBatch
<1>3. Moves' = [o \in Orders |-> IF o \in Elems(d) THEN {b} ELSE Moves[o]]
  <2>1. executed'[b] = d /\ \A c \in BatchIds : c # b => executed'[c] = executed[c]
    BY <1>0 DEF ChainTyped
  <2>2. ASSUME NEW o \in Orders
        PROVE  {c \in BatchIds : o \in Elems(executed'[c])} = IF o \in Elems(d) THEN {b} ELSE Moves[o]
    <3>0. Moves[o] = {c \in BatchIds : o \in Elems(executed[c])}
      BY DEF Moves
    <3>1. CASE o \in Elems(d)
      <4>1. \A c \in BatchIds : o \notin Elems(executed[c])
        BY <1>2, <3>0, <3>1
      <4> QED
        BY <2>1, <3>1, <4>1
    <3>2. CASE o \notin Elems(d)
      <4>1. o \notin Elems(executed[b])
        BY EmptyList
      <4>2. \A c \in BatchIds : o \in Elems(executed'[c]) <=> o \in Elems(executed[c])
        BY <2>1, <3>2, <4>1
      <4> QED
        BY <3>0, <3>2, <4>2
    <3> QED
      BY <3>1, <3>2
  <2>3. Moves' = [o \in Orders |-> {c \in BatchIds : o \in Elems(executed'[c])}]
    BY DEF Moves, Elems
  <2> QED
    BY <2>2, <2>3
<1>4. Lifecycle!Execute(Elems(d), b)
  BY <1>2, <1>3 DEF Lifecycle!Execute
<1> QED
  BY <1>1, <1>4 DEF Lifecycle!Next

\* Every step of the pipeline is a step in the life of its orders, or none.
LEMMA LifecycleStep ==
    ASSUME LoopCreates, NoDbFaults, LifeInv, [Next]_vars
    PROVE  [Lifecycle!Next]_<<oStatus, Moves>>
<1>0. /\ MarkInv /\ OrdersTyped /\ HandlersTyped /\ WritesTyped /\ ChainTyped /\ NewHasNoRow /\ OnlyLoopBatches
      /\ ToMarkIsPending /\ WritesFirst /\ WritesExecuted /\ DecryptedInOrder /\ OrphansInOrder /\ OrphansClaimed
      /\ ClaimInv /\ HeldIsSubmitted
  BY DEF LifeInv, LifeCore, MarkInv, MarkCore, OrderInv, OrderCore, ChainInv, ChainCore, ClaimInv, TypeOK
<1>1. ASSUME UNCHANGED executed PROVE UNCHANGED Moves
  BY <1>1 DEF Moves, Elems
<1>2. CASE UNCHANGED <<oStatus, executed>>
  BY <1>1, <1>2
<1>3. ASSUME NEW o \in Orders, SubmitCreate(o) PROVE Lifecycle!Next
  <2>1. UNCHANGED Moves
    BY <1>1, <1>3 DEF SubmitCreate, chainVars
  <2>2. Lifecycle!Accept(o)
    BY <1>0, <1>3, <2>1 DEF SubmitCreate, NewHasNoRow, Lifecycle!Accept
  <2> QED
    BY <2>2 DEF Lifecycle!Next
<1>4. ASSUME NEW p \in Handlers, MarkBatched(p) PROVE Lifecycle!Next
  <2>1. UNCHANGED Moves
    BY <1>1, <1>4 DEF MarkBatched, chainVars
  <2>2. p = Loop /\ pc[Loop] = "mark"
    BY <1>0, <1>4 DEF MarkBatched, OnlyLoopBatches
  <2>3. Elems(ids[p]) \in SUBSET Orders
    BY <1>0, ElemsAreOrders DEF HandlersTyped
  <2>4. Lifecycle!Batch(Elems(ids[p]))
    BY <1>0, <1>4, <2>1, <2>2 DEF MarkBatched, ToMarkIsPending, Lifecycle!Batch
  <2> QED
    BY <2>3, <2>4 DEF Lifecycle!Next
<1>5. ASSUME NEW w \in writes, OrderUpdate(w) PROVE Lifecycle!Next
  <2>1. UNCHANGED Moves
    BY <1>1, <1>5 DEF OrderUpdate, chainVars
  <2>2. /\ w.order \in Orders /\ w.status \in {"settled", "failed"} /\ w.batch \in BatchIds
        /\ oStatus[w.order] = "batched"
    BY <1>0 DEF WritesTyped, WritesFirst
  <2>3. EngineConfigured /\ w.status = "settled" => Moves[w.order] # {}
    BY <1>0, <2>2 DEF WritesExecuted, Moves
  <2>4. Lifecycle!Resolve(w.order, w.status)
    BY <1>5, <2>1, <2>2, <2>3 DEF OrderUpdate, Lifecycle!Resolve
  <2> QED
    BY <2>2, <2>4 DEF Lifecycle!Next
<1>6. ASSUME NEW p \in Handlers, Settle(p) PROVE Lifecycle!Next \/ UNCHANGED <<oStatus, executed>>
  <2>1. /\ bat[p] \in BatchIds /\ dec[p] \in Lists /\ Claimed(bat[p])
        /\ Elems(dec[p]) \subseteq Elems(bOrders[bat[p]]) /\ UNCHANGED oStatus
    BY <1>0, <1>6, HeldHasRow
       DEF Settle, Holding, HeldIsSubmitted, Claimed, HandlersTyped, DecryptedInOrder, SubList, rowVars
  <2>2. CASE Accepted(bat[p], dec[p]) /\ executed' = [executed EXCEPT ![bat[p]] = dec[p]]
    BY <2>1, <2>2, ExecuteStep DEF Accepted
  <2>3. CASE UNCHANGED executed
    BY <2>1, <2>3
  <2> QED
    BY <1>6, <2>2, <2>3 DEF Settle
<1>7. ASSUME NEW t \in orphans, OrphanLands(t) PROVE Lifecycle!Next \/ UNCHANGED <<oStatus, executed>>
  <2>1. /\ t.batch \in BatchIds /\ t.orders \in Lists /\ Claimed(t.batch)
        /\ Elems(t.orders) \subseteq Elems(bOrders[t.batch]) /\ UNCHANGED oStatus
    BY <1>0, <1>7 DEF OrphanLands, ChainTyped, OrphansClaimed, OrphansInOrder, SubList, rowVars
  <2>2. CASE Accepted(t.batch, t.orders)
    <3>1. executed' = [executed EXCEPT ![t.batch] = t.orders] /\ executed[t.batch] = <<>>
      BY <1>7, <2>2 DEF OrphanLands, Accepted
    <3> QED
      BY <2>1, <3>1, ExecuteStep
  <2>3. CASE ~Accepted(t.batch, t.orders)
    BY <1>7, <2>1, <2>3 DEF OrphanLands
  <2> QED
    BY <2>2, <2>3
<1> QED
  BY <1>2, <1>3, <1>4, <1>5, <1>6, <1>7
     DEF Next, CreateStep, SettleStep, vars, rowVars, chainVars, SubmitFind, SubmitDbError, LoopTick,
         CreateRequest, RetryRequest, CheckPending, Seal, SealError, InsertBatch, Claim, Decrypt,
         SettleRpcError, Recorded, CreateReceipt, Close, Abort, DbError, OrderUpdateError, CrashRestart

\* When only the loop creates batches, retries follow its claims and no statement
\* fails, the pipeline keeps the promise of OrderLifecycle: through RPC errors,
\* transactions that land late, outages, retries and restarts, every order moves
\* forward only, its tokens move in at most one settlement, after it was batched,
\* and before it is reported as settled.
THEOREM LifecycleKept ==
    ASSUME LoopCreates, NoDbFaults
    PROVE  Spec => ImplementsLifecycle
<1>1. Init => Lifecycle!Init
  <2> SUFFICES ASSUME Init PROVE Lifecycle!Init
    OBVIOUS
  <2>1. Moves = [o \in Orders |-> {}]
    BY EmptyList DEF Init, Moves
  <2> QED
    BY <2>1 DEF Init, Lifecycle!Init
<1>2. LifeInv /\ [Next]_vars => [Lifecycle!Next]_<<oStatus, Moves>>
  BY LifecycleStep
<1>3. LifeInv /\ [Next]_vars => LifeInv'
  BY LifeInvStep
<1> QED
  BY <1>1, <1>2, <1>3, LifeInvInit, PTL DEF Spec, ImplementsLifecycle, Lifecycle!Spec
=============================================================================
