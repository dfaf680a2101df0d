--------------------------- MODULE MCBatchPipeline ---------------------------
(***************************************************************************)
(* Instances of BatchPipeline for TLC.                                     *)
(***************************************************************************)
EXTENDS BatchPipeline, TLC

CONSTANTS o1, o2, o3

\* Submissions with different nonces; submissions that share one.
DistinctKeys == [o \in Orders |-> o]
SharedKey    == [o \in Orders |-> 1]
FirstTwoShare == [o \in Orders |-> IF o = o3 THEN 2 ELSE 1]

\* Orders are interchangeable when none is bad and no two share a nonce.
OrderSymmetry == Permutations(Orders)

NoFaults     == [k \in FaultKinds |-> 0]
EachOnce     == [k \in FaultKinds |-> 1]
OutageOnce   == ("outage" :> 1) @@ NoFaults
RpcAndOutage == ("rpc" :> 1) @@ OutageOnce
AllButDb     == ("db" :> 0) @@ EachOnce
RpcTwice     == ("rpc" :> 2) @@ AllButDb
=============================================================================
