---------------------------- MODULE SettlementEngine ----------------------------
(***************************************************************************)
(* The settlement-engine contract: x*y=k pools with LP shares, batches of  *)
(* swaps settled atomically, and protocol fees swept by the admin.         *)
(*                                                                         *)
(* A contract call is one transaction and calls are serial, so a call that *)
(* succeeds is one action; a call that panics or returns an error changes  *)
(* nothing and is no step at all.  settle_batch is the exception: its loop *)
(* runs on the transaction's buffered state (tx) one order at a time, and  *)
(* the last step commits it, or an error discards it.                      *)
(*                                                                         *)
(* Token contracts are external: balances per holder, and transfers that   *)
(* panic on a negative amount or an insufficient balance.  Users approve   *)
(* the contract before they submit an order.  i128 is far from overflowing *)
(* and is modelled by Int.                                                 *)
(***************************************************************************)
EXTENDS EngineMath, Sequences, FiniteSetsExt

CONSTANTS
    Users,              \* accounts that provide liquidity and trade
    Tokens,             \* token addresses, as numbers: addresses are ordered
    Pairs,              \* pairs of tokens that calls name, in either order
    Funds,              \* [Users -> [Tokens -> Nat]] initial token balances
    Batches,            \* batch ids
    None,               \* a storage key that is absent; no transaction
    MaxOrders,          \* bound: orders of one batch
    OrderAmounts        \* bound: amounts of an order

\* What settle_batch records of an order.
ResultSet ==
    [user : Users, token_in : Tokens, token_out : Tokens, amount_in : Nat, amount_out : Nat, fee : Nat]

ASSUME EngineAssumption ==
    /\ IsFiniteSet(Users) /\ IsFiniteSet(Batches) /\ IsFiniteSet(Pairs)
    /\ Tokens \subseteq Nat
    /\ Pairs \subseteq Tokens \X Tokens
    /\ \A pair \in Pairs : pair[1] # pair[2] /\ <<pair[2], pair[1]>> \in Pairs
    /\ Funds \in [Users -> [Tokens -> Nat]]
    /\ MaxOrders \in Nat
    /\ OrderAmounts \subseteq Nat
    /\ None \notin Seq(ResultSet)

\* One storage slot per pair, whichever way round the tokens are given.
pool_key(a, b) == IF a < b THEN <<a, b>> ELSE <<b, a>>
Pools == { pool_key(pair[1], pair[2]) : pair \in Pairs }

\* The pair's reserves in the order the tokens are given, read and written.
get_reserves_ordered(r, a, b) ==
    LET k == pool_key(a, b) IN IF a = k[1] THEN r[k] ELSE <<r[k][2], r[k][1]>>

\* Mutant: written in the order the tokens are given.
set_reserves_unordered(r, a, b, ra, rb) == [r EXCEPT ![pool_key(a, b)] = <<ra, rb>>]

set_reserves_ordered(r, a, b, ra, rb) ==
    LET k == pool_key(a, b) IN [r EXCEPT ![k] = IF a = k[1] THEN <<ra, rb>> ELSE <<rb, ra>>]

VARIABLES
    initialized,    \* ADMIN is set
    reserves,       \* POOL: [Pools -> <<reserve of k[1], reserve of k[2]>>]
    supply,         \* SUPPLY: [Pools -> Int] LP shares issued
    lpBal,          \* LP_BAL: [Users -> [Pools -> Int]]
    fees,           \* FEES: [Tokens -> Int] fees not yet collected
    results,        \* RESULTS: [Batches -> sequences of results, or None]
    balance,        \* external: the contract's balance of each token
    wallet,         \* external: the users' balances of each token
    collected,      \* history: fees paid out to receivers, per token
    tx              \* None, or the buffered state of a running settle_batch

storage == <<reserves, supply, lpBal, fees, results, balance, wallet, collected>>
vars == <<initialized, storage, tx>>

\* Token transfers between a user and the contract: what the balances become.
Deposit(w, u, t, n) == [w EXCEPT ![u][t] = @ - n]
Withdraw(w, u, t, n) == [w EXCEPT ![u][t] = @ + n]
Credit(f, t, n) == [f EXCEPT ![t] = @ + n]

\* What a token lets a user transfer: not a negative amount, nor more than held.
Amounts(u, t) == 0 .. wallet[u][t]

--------------------------------------------------------------------------------
Init ==
    /\ initialized = FALSE
    /\ reserves = [k \in Pools |-> <<0, 0>>]
    /\ supply = [k \in Pools |-> 0]
    /\ lpBal = [u \in Users |-> [k \in Pools |-> 0]]
    /\ fees = [t \in Tokens |-> 0]
    /\ results = [b \in Batches |-> None]
    /\ balance = [t \in Tokens |-> 0]
    /\ wallet = Funds
    /\ collected = [t \in Tokens |-> 0]
    /\ tx = None

initialize ==
    /\ tx = None
    /\ ~initialized
    /\ initialized' = TRUE
    /\ UNCHANGED <<storage, tx>>

\* Mutant: the larger proportion.
LpMintedLarger(k, x, y, ra, rb) ==
    IF supply[k] = 0 THEN isqrt(x * y)
    ELSE Max({(x * supply[k]) \div ra, (y * supply[k]) \div rb})

\* The geometric mean for the first deposit, else the smaller proportion.
LpMinted(k, x, y, ra, rb) ==
    IF supply[k] = 0 THEN isqrt(x * y)
    ELSE Smaller((x * supply[k]) \div ra, (y * supply[k]) \div rb)

\* Mutant: the shares the user already has are overwritten.
OverwriteLp(u, k, lp) == [lpBal EXCEPT ![u][k] = lp]

CreditLp(u, k, lp) == [lpBal EXCEPT ![u][k] = @ + lp]

add_liquidity(u, a, b, x, y) ==
    LET k  == pool_key(a, b)
        r  == get_reserves_ordered(reserves, a, b)
        lp == LpMinted(k, x, y, r[1], r[2])
    IN  /\ tx = None
        /\ x \in Amounts(u, a) /\ y \in Amounts(u, b)
        /\ wallet' = Deposit(Deposit(wallet, u, a, x), u, b, y)
        /\ balance' = [balance EXCEPT ![a] = @ + x, ![b] = @ + y]
        /\ reserves' = set_reserves_ordered(reserves, a, b, r[1] + x, r[2] + y)
        /\ supply' = [supply EXCEPT ![k] = @ + lp]
        /\ lpBal' = CreditLp(u, k, lp)
        /\ UNCHANGED <<initialized, fees, results, collected, tx>>

\* Mutant: the caller's shares are not looked at.
MayBurnAny(u, k, lp_tokens) == supply[k] # 0

\* InsufficientLiquidity and EmptyPool.
MayBurn(u, k, lp_tokens) == lp_tokens <= lpBal[u][k] /\ supply[k] # 0

\* lp_tokens is any integer: only the upper bound is checked by the contract,
\* a negative payout by the token.
remove_liquidity(u, a, b, lp_tokens) ==
    LET k == pool_key(a, b)
        r == get_reserves_ordered(reserves, a, b)
        amount_a == Quot(lp_tokens * r[1], supply[k])
        amount_b == Quot(lp_tokens * r[2], supply[k])
    IN  /\ tx = None
        /\ MayBurn(u, k, lp_tokens)
        /\ amount_a \in 0 .. balance[a]
        /\ amount_b \in 0 .. balance[b]
        /\ reserves' = set_reserves_ordered(reserves, a, b, r[1] - amount_a, r[2] - amount_b)
        /\ supply' = [supply EXCEPT ![k] = @ - lp_tokens]
        /\ lpBal' = [lpBal EXCEPT ![u][k] = @ - lp_tokens]
        /\ wallet' = Withdraw(Withdraw(wallet, u, a, amount_a), u, b, amount_b)
        /\ balance' = [balance EXCEPT ![a] = @ - amount_a, ![b] = @ - amount_b]
        /\ UNCHANGED <<initialized, fees, results, collected, tx>>

--------------------------------------------------------------------------------
(* settle_batch                                                               *)

\* The guards of quote_swap.
quote_swap(r, order) ==
    /\ r[1] # 0 /\ r[2] # 0
    /\ AmountOut(order.amount_in, r) >= order.min_amount_out

\* settle_batch(batch_id, decrypted_orders) is called by anybody.
settle_batch(id, orders) ==
    /\ tx = None
    /\ results[id] = None
    /\ tx' = [id |-> id, orders |-> orders, results |-> <<>>, reserves |-> reserves,
              fees |-> fees, balance |-> balance, wallet |-> wallet]
    /\ UNCHANGED <<initialized, storage>>

NextOrder == tx.orders[Len(tx.results) + 1]
NextReserves == get_reserves_ordered(tx.reserves, NextOrder.token_in, NextOrder.token_out)

\* The quote is good and both transfers succeed.
Executable ==
    LET o == NextOrder
        out == AmountOut(o.amount_in, NextReserves)
    IN  /\ quote_swap(NextReserves, o)
        /\ o.amount_in <= tx.wallet[o.user][o.token_in]
        /\ out <= tx.balance[o.token_out]

\* One iteration of the loop: the whole amount_in, fee included, goes to the
\* reserves, and the fee is also booked in FEES.
SettleOrder ==
    /\ tx # None
    /\ Len(tx.results) < Len(tx.orders)
    /\ Executable
    /\ LET o == NextOrder
           r == NextReserves
           out == AmountOut(o.amount_in, r)
       IN  tx' = [tx EXCEPT
             !.reserves = set_reserves_ordered(@, o.token_in, o.token_out, r[1] + o.amount_in, r[2] - out),
             !.wallet = Withdraw(Deposit(@, o.user, o.token_in, o.amount_in), o.user, o.token_out, out),
             !.balance = Credit(Credit(@, o.token_in, o.amount_in), o.token_out, -out),
             !.fees = Credit(@, o.token_in, Fee(o.amount_in)),
             !.results = Append(@, [user |-> o.user, token_in |-> o.token_in, token_out |-> o.token_out,
                                     amount_in |-> o.amount_in, amount_out |-> out, fee |-> Fee(o.amount_in)])]
    /\ UNCHANGED <<initialized, storage>>

\* EmptyPool, InsufficientOutput or a failed transfer: everything is undone.
SettleRevert ==
    /\ tx # None
    /\ Len(tx.results) < Len(tx.orders)
    /\ ~Executable
    /\ tx' = None
    /\ UNCHANGED <<initialized, storage>>

SettleCommit ==
    /\ tx # None
    /\ Len(tx.results) = Len(tx.orders)
    /\ reserves' = tx.reserves
    /\ wallet' = tx.wallet
    /\ balance' = tx.balance
    /\ fees' = tx.fees
    /\ results' = [results EXCEPT ![tx.id] = tx.results]
    /\ tx' = None
    /\ UNCHANGED <<initialized, supply, lpBal, collected>>

--------------------------------------------------------------------------------
\* Mutant: the fees stay booked after they are paid out.
collect_fees_again(t) ==
    /\ tx = None
    /\ initialized
    /\ fees[t] > 0
    /\ fees[t] <= balance[t]
    /\ balance' = [balance EXCEPT ![t] = @ - fees[t]]
    /\ collected' = [collected EXCEPT ![t] = @ + fees[t]]
    /\ UNCHANGED <<initialized, reserves, supply, lpBal, fees, results, wallet, tx>>

\* Admin only: pay out the fees booked for a token.
collect_fees(t) ==
    /\ tx = None
    /\ initialized
    /\ fees[t] > 0
    /\ fees[t] <= balance[t]
    /\ balance' = [balance EXCEPT ![t] = @ - fees[t]]
    /\ collected' = [collected EXCEPT ![t] = @ + fees[t]]
    /\ fees' = [fees EXCEPT ![t] = 0]
    /\ UNCHANGED <<initialized, reserves, supply, lpBal, results, wallet, tx>>

--------------------------------------------------------------------------------
\* Bounds: the calls that are tried.  Burns of up to all shares or minus all
\* shares, and batches of up to MaxOrders orders with a minimum output of 0 or 1.
Burns(u, k) == -supply[k] .. supply[k]
OrderSet ==
    [user : Users, token_in : Tokens, token_out : Tokens, amount_in : OrderAmounts, min_amount_out : {0, 1}]
OrderLists ==
    { s \in UNION { [1 .. n -> OrderSet] : n \in 0 .. MaxOrders } :
        \A i \in DOMAIN s : <<s[i].token_in, s[i].token_out>> \in Pairs }

Next ==
    \/ initialize
    \/ \E u \in Users, pair \in Pairs :
         \/ \E x \in Amounts(u, pair[1]), y \in Amounts(u, pair[2]) :
              add_liquidity(u, pair[1], pair[2], x, y)
         \/ \E lp \in Burns(u, pool_key(pair[1], pair[2])) :
              remove_liquidity(u, pair[1], pair[2], lp)
    \/ \E id \in Batches, orders \in OrderLists : settle_batch(id, orders)
    \/ SettleOrder
    \/ SettleRevert
    \/ SettleCommit
    \/ \E t \in Tokens : collect_fees(t)

Spec == Init /\ [][Next]_vars

--------------------------------------------------------------------------------
(* Properties.                                                                *)

\* Type invariant: reserves, shares, fees and balances are never negative.
TypeOK ==
    /\ initialized \in BOOLEAN
    /\ reserves \in [Pools -> Nat \X Nat]
    /\ supply \in [Pools -> Nat]
    /\ lpBal \in [Users -> [Pools -> Nat]]
    /\ fees \in [Tokens -> Nat]
    /\ results \in [Batches -> Seq(ResultSet) \cup {None}]
    /\ balance \in [Tokens -> Nat]
    /\ wallet \in [Users -> [Tokens -> Nat]]
    /\ collected \in [Tokens -> Nat]

Product(r) == r[1] * r[2]

\* The pool holds at least one unit of each kind per share, in geometric mean.
\* add_liquidity divides by the reserves of a pool that has shares, and a burn
\* of a negative number of shares is refused only because its payout cannot
\* round to zero: both rest on this.
SharesAreBacked == \A k \in Pools : supply[k] * supply[k] <= Product(reserves[k])

\* No call makes a share worth less: the reserve product per squared share
\* never decreases, whatever is rounded.
ShareValueNeverDrops ==
    [][\A k \in Pools : supply[k] > 0 /\ supply'[k] > 0 =>
         Product(reserves'[k]) * supply[k] * supply[k] >= Product(reserves[k]) * supply'[k] * supply'[k]]_vars

\* Shares are not free: a user's shares grow only in a call that takes both
\* tokens of the pool from that user.
SharesArePaidFor ==
    [][\A u \in Users, k \in Pools : lpBal'[u][k] > lpBal[u][k] =>
         wallet'[u][k[1]] < wallet[u][k[1]] /\ wallet'[u][k[2]] < wallet[u][k[2]]]_vars

\* The shares of all users add up to the supply.
SupplyIsHeld ==
    \A k \in Pools : supply[k] = SumFunction([u \in Users |-> lpBal[u][k]])

ReserveOf(r, t, k) == IF t = k[1] THEN r[k][1] ELSE IF t = k[2] THEN r[k][2] ELSE 0
TotalReserve(r, t) == SumFunction([k \in Pools |-> ReserveOf(r, t, k)])

\* The tokens the contract holds, with the fees it paid out, are the reserves:
\* swaps, deposits and withdrawals move what they book.
BooksBalance == \A t \in Tokens : balance[t] + collected[t] = TotalReserve(reserves, t)

FeesIn(s, t) == SumFunction([i \in DOMAIN s |-> IF s[i].token_in = t THEN s[i].fee ELSE 0])

\* Fees booked or paid out are the fees of the settled batches' results: a
\* batch that reverts half-way leaves none behind, and none is paid twice.
FeesAreAccounted ==
    \A t \in Tokens :
      fees[t] + collected[t] = SumFunction([b \in Batches |-> IF results[b] = None THEN 0 ELSE FeesIn(results[b], t)])

\* "Burn lp_tokens and withdraw the caller's proportional share of both
\* reserves": the contract holds the reserves it would have to pay out.
ReservesAreHeld == \A t \in Tokens : TotalReserve(reserves, t) <= balance[t]
=============================================================================
