------------------------- MODULE MCSettlementEngine -------------------------
(***************************************************************************)
(* Instances of SettlementEngine for TLC.  The fee is scaled up so that    *)
(* small amounts pay one: the contract's 30/10000 rounds to 0 below 334.   *)
(***************************************************************************)
EXTENDS SettlementEngine

CONSTANTS u1, u2

OnePool == {<<1, 2>>, <<2, 1>>}
TwoPools == OnePool \cup {<<2, 3>>, <<3, 2>>}

\* u1 can provide liquidity to both pools, which share token 2; u2 trades token 1.
ProviderAndTrader ==
    [u \in Users |-> [t \in Tokens |->
       IF u = u1 THEN (IF t = 3 THEN 1 ELSE 3) ELSE IF t = 1 THEN 3 ELSE 0]]
=============================================================================
