---------------------------- MODULE OrderLifecycle ----------------------------
(***************************************************************************)
(* What the pipeline promises about one order, without batches, handlers   *)
(* or failures: its status moves forward only, its tokens move in at most  *)
(* one settlement and not before it is batched, and with a settlement      *)
(* engine it is reported as settled only after they have moved.            *)
(***************************************************************************)
CONSTANTS Orders, Settlements, EngineConfigured

VARIABLES
    status,     \* [Orders -> "none", "pending", "batched", "settled", "failed"]
    moves       \* [Orders -> SUBSET Settlements] that moved the order's tokens

Init ==
    /\ status = [o \in Orders |-> "none"]
    /\ moves = [o \in Orders |-> {}]

Accept(o) ==
    /\ status[o] = "none"
    /\ status' = [status EXCEPT ![o] = "pending"]
    /\ UNCHANGED moves

Batch(S) ==
    /\ \A o \in S : status[o] = "pending"
    /\ status' = [o \in Orders |-> IF o \in S THEN "batched" ELSE status[o]]
    /\ UNCHANGED moves

Execute(S, c) ==
    /\ \A o \in S : status[o] \notin {"none", "pending"} /\ moves[o] = {}
    /\ moves' = [o \in Orders |-> IF o \in S THEN {c} ELSE moves[o]]
    /\ UNCHANGED status

Resolve(o, outcome) ==
    /\ status[o] = "batched"
    /\ EngineConfigured /\ outcome = "settled" => moves[o] # {}
    /\ status' = [status EXCEPT ![o] = outcome]
    /\ UNCHANGED moves

Next ==
    \/ \E o \in Orders : Accept(o) \/ \E outcome \in {"settled", "failed"} : Resolve(o, outcome)
    \/ \E S \in SUBSET Orders : Batch(S) \/ \E c \in Settlements : Execute(S, c)

Spec == Init /\ [][Next]_<<status, moves>>
=============================================================================
