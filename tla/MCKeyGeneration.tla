---------------------------- MODULE MCKeyGeneration ----------------------------
(***************************************************************************)
(* Instances of KeyGeneration: how the dealers behave.                     *)
(***************************************************************************)
EXTENDS KeyGeneration, TLC

CONSTANTS v1, v2, v3

Nobody == [v \in Validator |-> {}]
Honest == [corruptSharesTo |-> Nobody, withholds |-> Nobody, lieOnReveal |-> {}]

\* v1 sends v2 a wrong share and corrects it when accused, v3 sends v1 a wrong
\* share and lies; or v1 leaves a share out.
MCConducts ==
    {[Honest EXCEPT !.corruptSharesTo = [Nobody EXCEPT ![v1] = {v2}, ![v3] = {v1}], !.lieOnReveal = {v3}],
     [Honest EXCEPT !.withholds = [Nobody EXCEPT ![v1] = {v2}]]}

TwoFaults == [k \in FaultKinds \cup {"all"} |-> IF k = "all" THEN 2 ELSE 1]
=============================================================================
