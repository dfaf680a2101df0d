------------------------ MODULE SettlementEngineProofs ------------------------
(***************************************************************************)
(* Proofs about SettlementEngine: any tokens, pairs, users, funds and      *)
(* batches, any fee rate.                                                  *)
(***************************************************************************)
EXTENDS SettlementEngine, EngineMathProofs

Books == [Pools -> Nat \X Nat]
Transactions ==
    [id : Batches, orders : OrderLists, results : Seq(ResultSet), reserves : Books,
     fees : [Tokens -> Nat], balance : [Tokens -> Nat], wallet : [Users -> [Tokens -> Nat]]]

\* A running settle_batch has the books of a contract of its own, whose pools have
\* lost nothing and whose fees are those of the results so far.
TxTyped == tx # None => tx \in Transactions /\ Len(tx.results) <= Len(tx.orders) /\ results[tx.id] = None
TxValue == tx # None => \A k \in Pools : Product(tx.reserves[k]) >= Product(reserves[k])
TxBooks == tx # None => \A t \in Tokens : tx.balance[t] + collected[t] = TotalReserve(tx.reserves, t)
TxFees == tx # None => \A t \in Tokens : tx.fees[t] = fees[t] + FeesIn(tx.results, t)

ValueInv == TypeOK /\ TxTyped /\ SharesAreBacked /\ TxValue

--------------------------------------------------------------------------------
(* Arithmetic.                                                                *)

\* Products of natural numbers grow with their factors.
LEMMA MulMono ==
  ASSUME NEW a \in Nat, NEW b \in Nat, NEW c \in Nat, NEW d \in Nat, a <= b, c <= d PROVE a * c <= b * d
  <1>1. a * c <= b * c
    OBVIOUS
  <1>2. b * c <= b * d
    OBVIOUS
  <1> QED BY <1>1, <1>2

\* Each reserve per share has not dropped, so their product has not.
LEMMA ValueKept ==
  ASSUME NEW p \in Nat, NEW q \in Nat, NEW x \in Nat, NEW y \in Nat, NEW S \in Nat, NEW W \in Nat,
         p * S >= x * W, q * S >= y * W
  PROVE  (p * q) * S * S >= (x * y) * W * W
  <1>1. (x * W) * (y * W) <= (p * S) * (q * S)
    BY MulMono
  <1>2. (x * W) * (y * W) = (x * y) * W * W
    OBVIOUS
  <1>3. (p * S) * (q * S) = (p * q) * S * S
    OBVIOUS
  <1> QED BY <1>1, <1>2, <1>3

\* A pool that was backed and kept its value is backed.
LEMMA BackedKept ==
  ASSUME NEW P \in Nat, NEW Q \in Nat, NEW S \in Nat \ {0}, NEW W \in Nat,
         P * S * S >= Q * W * W, Q >= S * S
  PROVE  W * W <= P
  <1>1. S * S \in Nat \ {0} /\ W * W \in Nat
    OBVIOUS
  <1>2. (S * S) * (W * W) <= Q * (W * W)
    BY <1>1
  <1>3. Q * (W * W) = Q * W * W /\ P * (S * S) = P * S * S
    OBVIOUS
  <1>4. PICK s, w : s = S * S /\ w = W * W /\ s \in Nat \ {0} /\ w \in Nat
    BY <1>1
  <1>5. s * w <= P * s
    BY <1>2, <1>3, <1>4
  <1>6. w <= P
    <2> SUFFICES ASSUME w >= P + 1 PROVE FALSE
      BY <1>4
    <2>1. s * w >= s * (P + 1)
      BY <1>4
    <2>2. s * (P + 1) = P * s + s /\ P * s \in Nat /\ s * w \in Nat
      BY <1>4
    <2> QED BY <2>1, <2>2, <1>4, <1>5
  <1> QED BY <1>4, <1>6

\* Minting the smaller proportion: each reserve grows at least as the shares do.
Minted(x, y, S, p, q, lp) ==
    /\ lp \in Nat /\ (p + x) * S >= p * (S + lp) /\ (q + y) * S >= q * (S + lp)
    /\ lp > 0 => x > 0 /\ y > 0

\* The shares minted for a deposit are at most its part of both reserves.
LEMMA MintFacts ==
  ASSUME NEW x \in Nat, NEW y \in Nat, NEW S \in Nat, NEW p \in Nat \ {0}, NEW q \in Nat \ {0},
         NEW lp, lp = Smaller((x * S) \div p, (y * S) \div q)
  PROVE  Minted(x, y, S, p, q, lp)
  <1>1. PICK c : c = (x * S) \div p /\ c \in Nat /\ p * c <= x * S
    BY DivFacts
  <1>2. PICK d : d = (y * S) \div q /\ d \in Nat /\ q * d <= y * S
    BY DivFacts
  <1>3. lp \in Nat /\ lp <= c /\ lp <= d
    BY <1>1, <1>2 DEF Smaller
  <1>4. p * lp <= x * S
    <2>1. p * lp <= p * c
      BY <1>1, <1>3, MulMono
    <2> QED BY <2>1, <1>1, <1>3
  <1>5. q * lp <= y * S
    <2>1. q * lp <= q * d
      BY <1>2, <1>3, MulMono
    <2> QED BY <2>1, <1>2, <1>3
  <1>6. (p + x) * S >= p * (S + lp)
    <2>1. (p + x) * S = p * S + x * S /\ p * (S + lp) = p * S + p * lp
      BY <1>3
    <2>2. p * S \in Nat /\ x * S \in Nat /\ p * lp \in Nat
      BY <1>3
    <2> QED BY <2>1, <2>2, <1>4
  <1>7. (q + y) * S >= q * (S + lp)
    <2>1. (q + y) * S = q * S + y * S /\ q * (S + lp) = q * S + q * lp
      BY <1>3
    <2>2. q * S \in Nat /\ y * S \in Nat /\ q * lp \in Nat
      BY <1>3
    <2> QED BY <2>1, <2>2, <1>5
  <1>8. lp > 0 => x > 0 /\ y > 0
    <2>1. x = 0 => p * c <= 0
      BY <1>1
    <2>2. y = 0 => q * d <= 0
      BY <1>2
    <2>3. c > 0 => p * c > 0
      BY <1>1
    <2>4. d > 0 => q * d > 0
      BY <1>2
    <2> QED BY <1>1, <1>2, <1>3, <2>1, <2>2, <2>3, <2>4
  <1> QED BY <1>3, <1>6, <1>7, <1>8 DEF Minted

\* Burning pays at most the proportion, and never more than the reserve.
LEMMA BurnFacts ==
  ASSUME NEW p \in Nat, NEW S \in Nat \ {0}, NEW lp \in 0 .. S
  PROVE  /\ Quot(lp * p, S) \in Nat /\ Quot(lp * p, S) <= p
         /\ (p - Quot(lp * p, S)) * S >= p * (S - lp)
  <1>1. lp \in Nat /\ lp * p \in Nat
    OBVIOUS
  <1>2. PICK c : c = Quot(lp * p, S) /\ c \in Nat /\ S * c <= lp * p
    BY <1>1, DivFacts DEF Quot
  <1>3. lp * p <= S * p
    BY MulMono
  <1>4. c <= p
    <2> SUFFICES ASSUME c >= p + 1 PROVE FALSE
      BY <1>2
    <2>1. S * (p + 1) <= S * c
      BY <1>2, MulMono
    <2>2. S * (p + 1) = S * p + S /\ S * p \in Nat /\ S * c \in Nat
      BY <1>2
    <2> QED BY <2>1, <2>2, <1>1, <1>2, <1>3
  <1>5. (p - c) * S = p * S - S * c /\ p * (S - lp) = p * S - lp * p /\ p * S \in Nat /\ S * c \in Nat
    BY <1>1, <1>2
  <1> QED BY <1>1, <1>2, <1>4, <1>5

\* A negative burn would pay a negative amount of one token at least, if the pool
\* is backed.
LEMMA NoNegativeBurn ==
  ASSUME NEW p \in Nat, NEW q \in Nat, NEW S \in Nat \ {0}, S * S <= p * q, NEW lp \in Int,
         Quot(lp * p, S) >= 0, Quot(lp * q, S) >= 0
  PROVE  lp >= 0
  <1> SUFFICES ASSUME lp < 0 PROVE FALSE
    OBVIOUS
  <1>1. PICK m : m = -lp /\ m \in Nat \ {0} /\ lp * p = -(m * p) /\ lp * q = -(m * q)
    OBVIOUS
  <1>2. ASSUME NEW z \in Nat, Quot(-(m * z), S) >= 0 PROVE m * z < S
    <2>1. m * z \in Nat
      BY <1>1
    <2>2. CASE m * z = 0
      BY <2>2
    <2>3. CASE m * z # 0
      <3>1. Quot(-(m * z), S) = -((m * z) \div S)
        BY <2>1, <2>3 DEF Quot
      <3>2. PICK c : c = (m * z) \div S /\ c \in Nat /\ m * z < S * c + S
        BY <2>1, DivFacts
      <3>3. c = 0
        BY <1>2, <3>1, <3>2
      <3> QED BY <3>2, <3>3
    <2> QED BY <2>2, <2>3
  <1>3. p < S /\ q < S
    <2>1. m * p < S /\ m * q < S
      BY <1>1, <1>2
    <2>2. p <= m * p /\ q <= m * q
      BY <1>1
    <2> QED BY <2>1, <2>2, <1>1
  <1>4. p * q <= (S - 1) * (S - 1)
    BY <1>3, MulMono
  <1> QED BY <1>4

--------------------------------------------------------------------------------
(* The books of the pools.                                                    *)

\* There are finitely many pools, each of two different tokens.
LEMMA PoolFacts ==
  /\ IsFiniteSet(Pools)
  /\ \A k \in Pools : k \in Pairs /\ k = <<k[1], k[2]>> /\ k[1] # k[2] /\ k[1] \in Tokens /\ k[2] \in Tokens
  <1>1. ASSUME NEW pair \in Pairs
        PROVE  LET k == pool_key(pair[1], pair[2])
               IN  k \in Pairs /\ k = <<k[1], k[2]>> /\ k[1] # k[2] /\ k[1] \in Tokens /\ k[2] \in Tokens
    BY EngineAssumption DEF pool_key
  <1>2. Pools \subseteq Pairs
    BY <1>1 DEF Pools
  <1> QED BY <1>1, <1>2, EngineAssumption, FS_Subset DEF Pools

\* pool_key puts two tokens in order.
LEMMA KeyFacts ==
  ASSUME NEW a, NEW b, <<a, b>> \in Pairs
  PROVE  /\ a \in Tokens /\ b \in Tokens /\ a # b /\ pool_key(a, b) \in Pools
         /\ pool_key(a, b) = <<a, b>> \/ pool_key(a, b) = <<b, a>>
  <1>1. a \in Tokens /\ b \in Tokens /\ a # b
    BY EngineAssumption
  <1>2. pool_key(a, b) \in Pools
    BY DEF Pools
  <1> QED BY <1>1, <1>2 DEF pool_key

\* Pool k = pool_key(a, b) had reserves r and has <<p, q>>, in the order of a and b.
Rewritten(a, b, res, p, q, r, out, k) ==
    /\ r \in Nat \X Nat /\ r = <<r[1], r[2]>> /\ out \in Books /\ \A j \in Pools \ {k} : out[j] = res[j]
    /\ \/ k = <<a, b>> /\ res[k] = r /\ out[k] = <<p, q>>
       \/ k = <<b, a>> /\ res[k] = <<r[2], r[1]>> /\ out[k] = <<q, p>>
    /\ Product(res[k]) = r[1] * r[2] /\ Product(out[k]) = p * q

\* What set_reserves_ordered writes is read back by get_reserves_ordered, and no
\* other pool is touched.
LEMMA SetFacts ==
  ASSUME NEW a, NEW b, <<a, b>> \in Pairs, NEW res \in Books, NEW p \in Nat, NEW q \in Nat,
         NEW r, r = get_reserves_ordered(res, a, b),
         NEW out, out = set_reserves_ordered(res, a, b, p, q),
         NEW k, k = pool_key(a, b)
  PROVE  Rewritten(a, b, res, p, q, r, out, k)
  <1> USE DEF Rewritten
  <1>1. a \in Tokens /\ b \in Tokens /\ a # b /\ k \in Pools /\ (k = <<a, b>> \/ k = <<b, a>>)
    BY KeyFacts
  <1>2. res[k] \in Nat \X Nat /\ res[k] = <<res[k][1], res[k][2]>>
    BY <1>1 DEF Books
  <1>3. r = IF a = k[1] THEN res[k] ELSE <<res[k][2], res[k][1]>>
    BY DEF get_reserves_ordered
  <1>4. r \in Nat \X Nat /\ r = <<r[1], r[2]>>
    BY <1>2, <1>3
  <1>5. out = [res EXCEPT ![k] = IF a = k[1] THEN <<p, q>> ELSE <<q, p>>]
    BY DEF set_reserves_ordered
  <1>6. out \in Books
    <2>1. (IF a = k[1] THEN <<p, q>> ELSE <<q, p>>) \in Nat \X Nat
      OBVIOUS
    <2> QED BY <1>1, <1>5, <2>1 DEF Books
  <1>7. \A j \in Pools \ {k} : out[j] = res[j]
    BY <1>5 DEF Books
  <1>8. out[k] = IF a = k[1] THEN <<p, q>> ELSE <<q, p>>
    BY <1>1, <1>5 DEF Books
  <1>9. CASE k = <<a, b>>
    <2>1. a = k[1]
      BY <1>9
    <2>2. res[k] = r /\ out[k] = <<p, q>>
      BY <1>3, <1>8, <2>1
    <2>3. Product(res[k]) = r[1] * r[2] /\ Product(out[k]) = p * q
      BY <2>2 DEF Product
    <2> QED BY <1>4, <1>6, <1>7, <1>9, <2>2, <2>3
  <1>10. CASE k = <<b, a>>
    <2>1. a # k[1]
      BY <1>1, <1>10
    <2>2. out[k] = <<q, p>>
      BY <1>8, <2>1
    <2>3. r = <<res[k][2], res[k][1]>>
      BY <1>3, <2>1
    <2>4. res[k] = <<r[2], r[1]>>
      BY <1>2, <2>3
    <2>5. Product(res[k]) = r[1] * r[2] /\ Product(out[k]) = p * q
      BY <2>2, <2>4, <1>4 DEF Product
    <2> QED BY <1>4, <1>6, <1>7, <1>10, <2>2, <2>4, <2>5
  <1> QED BY <1>1, <1>9, <1>10

\* The total of a token's reserves follows what is written.
LEMMA TotalFacts ==
  ASSUME NEW a, NEW b, <<a, b>> \in Pairs, NEW res \in Books, NEW p \in Nat, NEW q \in Nat,
         NEW r, r = get_reserves_ordered(res, a, b),
         NEW out, out = set_reserves_ordered(res, a, b, p, q), NEW t \in Tokens
  PROVE  /\ TotalReserve(res, t) \in Int
         /\ TotalReserve(out, t) =
              TotalReserve(res, t) + (IF t = a THEN p - r[1] ELSE IF t = b THEN q - r[2] ELSE 0)
  <1>0. PICK k : k = pool_key(a, b)
    OBVIOUS
  <1>1. k \in Pools /\ a # b
    BY <1>0, KeyFacts
  <1>2. /\ r \in Nat \X Nat /\ out \in Books /\ \A j \in Pools \ {k} : out[j] = res[j]
        /\ \/ k = <<a, b>> /\ res[k] = r /\ out[k] = <<p, q>>
           \/ k = <<b, a>> /\ res[k] = <<r[2], r[1]>> /\ out[k] = <<q, p>>
    <2>1. Rewritten(a, b, res, p, q, r, out, k)
      BY <1>0, SetFacts
    <2> QED BY <2>1 DEF Rewritten
  <1> DEFINE g == [j \in Pools |-> ReserveOf(res, t, j)]
             h == [j \in Pools |-> ReserveOf(out, t, j)]
  <1>3. \A j \in Pools : res[j][1] \in Int /\ res[j][2] \in Int /\ out[j][1] \in Int /\ out[j][2] \in Int
    BY <1>2 DEF Books
  <1>4. \A j \in Pools : g[j] \in Int /\ h[j] \in Int
    BY <1>3 DEF ReserveOf
  <1>5. \A j \in Pools \ {k} : h[j] = g[j]
    BY <1>2 DEF ReserveOf
  <1>6. g[k] = (IF t = a THEN r[1] ELSE IF t = b THEN r[2] ELSE 0) /\ h[k] = (IF t = a THEN p ELSE IF t = b THEN q ELSE 0)
    <2>1. g[k] = ReserveOf(res, t, k) /\ h[k] = ReserveOf(out, t, k)
      BY <1>1
    <2>2. CASE k = <<a, b>> /\ res[k] = r /\ out[k] = <<p, q>>
      <3>1. k[1] = a /\ k[2] = b /\ out[k][1] = p /\ out[k][2] = q
        BY <2>2
      <3> QED BY <2>1, <2>2, <3>1 DEF ReserveOf
    <2>3. CASE k = <<b, a>> /\ res[k] = <<r[2], r[1]>> /\ out[k] = <<q, p>>
      <3>1. k[1] = b /\ k[2] = a /\ out[k][1] = q /\ out[k][2] = p /\ res[k][1] = r[2] /\ res[k][2] = r[1]
        BY <2>3
      <3> QED BY <1>1, <2>1, <3>1 DEF ReserveOf
    <2> QED BY <1>2, <2>2, <2>3
  <1>7. TotalReserve(res, t) = SumFunctionOnSet(g, Pools) /\ TotalReserve(out, t) = SumFunctionOnSet(h, Pools)
    BY DEF TotalReserve, SumFunction, SumFunctionOnSet, FoldFunction
  <1> HIDE DEF g, h
  <1>8. SumFunctionOnSet(g, Pools) \in Int
    BY <1>4, PoolFacts, SumTake
  <1>9. SumFunctionOnSet(h, Pools) = SumFunctionOnSet(g, Pools) - g[k] + h[k]
    BY <1>1, <1>4, <1>5, PoolFacts, SumUpdate
  <1>10. r[1] \in Int /\ r[2] \in Int
    BY <1>2
  <1> QED BY <1>6, <1>7, <1>8, <1>9, <1>10

--------------------------------------------------------------------------------
(* Balances.                                                                  *)

Wallets == [Users -> [Tokens -> Nat]]

\* A transfer to the contract takes from one balance of one user.
LEMMA DepositFacts ==
  ASSUME NEW w \in Wallets, NEW u \in Users, NEW t \in Tokens, NEW m \in 0 .. w[u][t], NEW v, v = Deposit(w, u, t, m)
  PROVE  v \in Wallets /\ v[u][t] = w[u][t] - m /\ \A s \in Tokens \ {t} : v[u][s] = w[u][s]
  <1>1. w[u][t] - m \in Nat
    BY DEF Wallets
  <1> QED BY <1>1 DEF Deposit, Wallets

\* A transfer from the contract keeps wallets typed.
LEMMA WithdrawFacts ==
  ASSUME NEW w \in Wallets, NEW u \in Users, NEW t \in Tokens, NEW m \in Nat, NEW v, v = Withdraw(w, u, t, m)
  PROVE  v \in Wallets
  <1>1. w[u][t] + m \in Nat
    BY DEF Wallets
  <1> QED BY <1>1 DEF Withdraw, Wallets

\* Updating two tokens of a book leaves the others alone.
LEMMA TwoBalances ==
  ASSUME NEW f \in [Tokens -> Nat], NEW a \in Tokens, NEW b \in Tokens, a # b, NEW p \in Nat, NEW q \in Nat,
         NEW g, g = [f EXCEPT ![a] = p, ![b] = q]
  PROVE  g \in [Tokens -> Nat] /\ g[a] = p /\ g[b] = q /\ \A s \in Tokens \ {a, b} : g[s] = f[s]
  OBVIOUS

--------------------------------------------------------------------------------
(* One order of a batch.                                                      *)

\* The orders of a batch are over existing pools.
LEMMA OrderFacts ==
  ASSUME NEW s \in OrderLists
  PROVE  /\ s \in Seq(OrderSet) /\ Len(s) \in Nat
         /\ \A i \in 1 .. Len(s) : s[i] \in OrderSet /\ <<s[i].token_in, s[i].token_out>> \in Pairs
  <1>1. PICK m \in 0 .. MaxOrders : s \in [1 .. m -> OrderSet]
    BY DEF OrderLists
  <1>2. \A i \in DOMAIN s : <<s[i].token_in, s[i].token_out>> \in Pairs
    BY DEF OrderLists
  <1>3. m \in Nat /\ s \in Seq(OrderSet) /\ Len(s) = m
    BY <1>1, EngineAssumption
  <1> QED BY <1>1, <1>2, <1>3

\* The result that is recorded for order o when it is paid out.
ResultOf(o, out) ==
    [user |-> o.user, token_in |-> o.token_in, token_out |-> o.token_out,
     amount_in |-> o.amount_in, amount_out |-> out, fee |-> Fee(o.amount_in)]

\* What one order does to the buffered books: out is paid from reserves r.
Swapped(o, r, out) ==
    /\ o \in OrderSet /\ <<o.token_in, o.token_out>> \in Pairs
    /\ r = get_reserves_ordered(tx.reserves, o.token_in, o.token_out)
    /\ r \in Nat \X Nat /\ out \in 0 .. r[2]
    /\ (r[1] + o.amount_in) * (r[2] - out) >= r[1] * r[2]
    /\ o.amount_in <= tx.wallet[o.user][o.token_in] /\ out <= tx.balance[o.token_out]
    /\ ResultOf(o, out) \in ResultSet
    /\ tx'.id = tx.id
    /\ tx'.orders = tx.orders
    /\ tx'.results = Append(tx.results, ResultOf(o, out))
    /\ tx'.reserves = set_reserves_ordered(tx.reserves, o.token_in, o.token_out, r[1] + o.amount_in, r[2] - out)
    /\ tx'.balance = Credit(Credit(tx.balance, o.token_in, o.amount_in), o.token_out, -out)
    /\ tx'.fees = Credit(tx.fees, o.token_in, Fee(o.amount_in))
    /\ tx'.wallet = Withdraw(Deposit(tx.wallet, o.user, o.token_in, o.amount_in), o.user, o.token_out, out)
    /\ tx' = [id |-> tx'.id, orders |-> tx'.orders, results |-> tx'.results, reserves |-> tx'.reserves,
              fees |-> tx'.fees, balance |-> tx'.balance, wallet |-> tx'.wallet]

\* An order that is executed is a swap: what it takes in, pays out and books as a fee.
LEMMA SwapFacts ==
  ASSUME TxTyped, SettleOrder
  PROVE  \E o, r, out : Swapped(o, r, out)
  <1>1. /\ tx # None /\ tx \in Transactions /\ Len(tx.results) < Len(tx.orders) /\ Executable
        /\ tx.orders \in OrderLists /\ tx.reserves \in Books /\ tx.results \in Seq(ResultSet)
    BY DEF TxTyped, SettleOrder, Transactions
  <1>2. PICK o : o = NextOrder
    OBVIOUS
  <1>3. o \in OrderSet /\ <<o.token_in, o.token_out>> \in Pairs
    <2>1. Len(tx.results) + 1 \in 1 .. Len(tx.orders)
      <3>1. Len(tx.results) \in Nat /\ Len(tx.orders) \in Nat
        BY <1>1, OrderFacts
      <3> QED BY <1>1, <3>1
    <2> QED BY <1>1, <1>2, <2>1, OrderFacts DEF NextOrder
  <1>4. PICK r : r = NextReserves /\ r = get_reserves_ordered(tx.reserves, o.token_in, o.token_out)
    BY <1>2 DEF NextReserves
  <1>5. r \in Nat \X Nat /\ r = <<r[1], r[2]>>
    <2>1. PICK out, k : /\ out = set_reserves_ordered(tx.reserves, o.token_in, o.token_out, 0, 0)
                        /\ k = pool_key(o.token_in, o.token_out)
      OBVIOUS
    <2>2. Rewritten(o.token_in, o.token_out, tx.reserves, 0, 0, r, out, k)
      BY <1>1, <1>3, <1>4, <2>1, SetFacts
    <2> QED BY <2>2 DEF Rewritten
  <1>6. PICK out : out = AmountOut(o.amount_in, r)
    OBVIOUS
  <1>7. /\ r[1] # 0 /\ r[2] # 0
        /\ o.amount_in <= tx.wallet[o.user][o.token_in] /\ out <= tx.balance[o.token_out]
    BY <1>1, <1>2, <1>4, <1>6 DEF Executable, quote_swap
  <1>8. o.amount_in \in Nat
    BY <1>3, EngineAssumption DEF OrderSet
  <1>9. Fee(o.amount_in) \in Nat /\ Fee(o.amount_in) <= o.amount_in
    BY <1>8, FeeFacts
  <1>10. out \in 0 .. r[2] /\ (r[1] + (o.amount_in - Fee(o.amount_in))) * (r[2] - out) >= r[1] * r[2]
    <2>1. PICK r1 \in Nat \ {0}, r2 \in Nat \ {0} : r1 = r[1] /\ r2 = r[2] /\ r = <<r1, r2>>
      BY <1>5, <1>7
    <2>2. out = AmountOut(o.amount_in, <<r1, r2>>)
      BY <1>6, <2>1
    <2>3. out \in 0 .. r2 - 1
      BY <1>8, <2>2, AmountOutFacts
    <2>4. out \in 0 .. r2 /\ out <= out
      BY <2>3
    <2>5. (r1 + (o.amount_in - Fee(o.amount_in))) * (r2 - out) >= r1 * r2
      BY <1>8, <2>2, <2>4, AmountOutFacts
    <2> QED BY <2>1, <2>4, <2>5
  <1>11. (r[1] + o.amount_in) * (r[2] - out) >= r[1] * r[2]
    <2>1. PICK c, d, e : c = r[1] + (o.amount_in - Fee(o.amount_in)) /\ d = r[2] - out /\ e = r[1] + o.amount_in
      OBVIOUS
    <2>2. c \in Nat /\ d \in Nat /\ e \in Nat /\ c <= e
      BY <1>5, <1>8, <1>9, <1>10, <2>1
    <2>3. c * d <= e * d
      BY <2>2, MulMono
    <2>4. c * d \in Nat /\ e * d \in Nat /\ r[1] * r[2] \in Nat
      BY <2>2, <1>5
    <2>5. c * d >= r[1] * r[2]
      BY <1>10, <2>1
    <2>6. e * d >= r[1] * r[2]
      BY <2>3, <2>4, <2>5
    <2> QED BY <2>1, <2>6
  <1>12. ResultOf(o, out) \in ResultSet
    BY <1>3, <1>5, <1>8, <1>9, <1>10 DEF ResultOf, ResultSet, OrderSet
  <1>13. tx' = [tx EXCEPT
             !.reserves = set_reserves_ordered(@, o.token_in, o.token_out, r[1] + o.amount_in, r[2] - out),
             !.wallet = Withdraw(Deposit(@, o.user, o.token_in, o.amount_in), o.user, o.token_out, out),
             !.balance = Credit(Credit(@, o.token_in, o.amount_in), o.token_out, -out),
             !.fees = Credit(@, o.token_in, Fee(o.amount_in)),
             !.results = Append(@, ResultOf(o, out))]
    BY <1>2, <1>4, <1>6 DEF SettleOrder, ResultOf
  <1>14. PICK R, W, B, F, L :
           /\ R = set_reserves_ordered(tx.reserves, o.token_in, o.token_out, r[1] + o.amount_in, r[2] - out)
           /\ W = Withdraw(Deposit(tx.wallet, o.user, o.token_in, o.amount_in), o.user, o.token_out, out)
           /\ B = Credit(Credit(tx.balance, o.token_in, o.amount_in), o.token_out, -out)
           /\ F = Credit(tx.fees, o.token_in, Fee(o.amount_in))
           /\ L = Append(tx.results, ResultOf(o, out))
    OBVIOUS
  <1>15. DOMAIN tx' = DOMAIN tx /\ DOMAIN tx = {"id", "orders", "results", "reserves", "fees", "balance", "wallet"}
    BY <1>1, <1>13 DEF Transactions
  <1>16. tx'.id = tx.id /\ tx'.orders = tx.orders
    BY <1>1, <1>13 DEF Transactions
  <1>17. tx'.reserves = R
    BY <1>1, <1>13, <1>14 DEF Transactions
  <1>18. tx'.wallet = W
    BY <1>1, <1>13, <1>14 DEF Transactions
  <1>19. tx'.balance = B
    BY <1>1, <1>13, <1>14 DEF Transactions
  <1>20. tx'.fees = F
    BY <1>1, <1>13, <1>14 DEF Transactions
  <1>21. tx'.results = L
    BY <1>1, <1>13, <1>14 DEF Transactions
  <1>22. tx' = [id |-> tx'.id, orders |-> tx'.orders, results |-> tx'.results, reserves |-> tx'.reserves,
                fees |-> tx'.fees, balance |-> tx'.balance, wallet |-> tx'.wallet]
    BY <1>1, <1>13, <1>15 DEF Transactions
  <1> QED BY <1>3, <1>4, <1>5, <1>7, <1>10, <1>11, <1>12, <1>14, <1>16, <1>17, <1>18, <1>19, <1>20, <1>21, <1>22 DEF Swapped

--------------------------------------------------------------------------------
(* Every call keeps the shares backed, their value, and their price.          *)

ValueStep ==
    \A k \in Pools : supply[k] > 0 /\ supply'[k] > 0 =>
      Product(reserves'[k]) * supply[k] * supply[k] >= Product(reserves[k]) * supply'[k] * supply'[k]
PaidStep ==
    \A u \in Users, k \in Pools : lpBal'[u][k] > lpBal[u][k] =>
      wallet'[u][k[1]] < wallet[u][k[1]] /\ wallet'[u][k[2]] < wallet[u][k[2]]

\* What add_liquidity and remove_liquidity do to the shares and to the books.
ShareMove(u, k, d) ==
    /\ supply'[k] = supply[k] + d /\ \A j \in Pools \ {k} : supply'[j] = supply[j]
    /\ lpBal'[u][k] = lpBal[u][k] + d
    /\ \A v \in Users, j \in Pools : v # u \/ j # k => lpBal'[v][j] = lpBal[v][j]
BookMove == \A t \in Tokens : TotalReserve(reserves', t) = TotalReserve(reserves, t) + (balance'[t] - balance[t])

\* Reserve products are natural numbers.
LEMMA ProductType == ASSUME NEW res \in Books PROVE \A k \in Pools : Product(res[k]) \in Nat
  <1> SUFFICES ASSUME NEW k \in Pools PROVE Product(res[k]) \in Nat
    OBVIOUS
  <1>1. res[k][1] \in Nat /\ res[k][2] \in Nat
    BY DEF Books
  <1> QED BY <1>1 DEF Product

\* A call that touches one pool.
LEMMA OnePoolStep ==
  ASSUME TypeOK, TypeOK', SharesAreBacked, NEW k \in Pools,
         \A j \in Pools \ {k} : reserves'[j] = reserves[j] /\ supply'[j] = supply[j],
         supply'[k] * supply'[k] <= Product(reserves'[k]),
         supply[k] > 0 =>
           Product(reserves'[k]) * supply[k] * supply[k] >= Product(reserves[k]) * supply'[k] * supply'[k]
  PROVE  SharesAreBacked' /\ ValueStep
  <1>1. SharesAreBacked'
    BY DEF SharesAreBacked
  <1>2. ASSUME NEW j \in Pools, supply[j] > 0
        PROVE  Product(reserves'[j]) * supply[j] * supply[j] >= Product(reserves[j]) * supply'[j] * supply'[j]
    <2>1. CASE j = k
      BY <1>2, <2>1
    <2>2. CASE j # k
      <3>1. reserves'[j] = reserves[j] /\ supply'[j] = supply[j]
        BY <2>2
      <3>2. Product(reserves[j]) \in Nat /\ supply[j] \in Nat
        BY ProductType DEF TypeOK, Books
      <3> QED BY <3>1, <3>2
    <2> QED BY <2>1, <2>2
  <1> QED BY <1>1, <1>2 DEF ValueStep

\* A call that moves no shares and takes nothing from a pool's product.
LEMMA NoShareStep ==
  ASSUME TypeOK, SharesAreBacked, reserves' \in Books, UNCHANGED <<supply, lpBal>>,
         \A k \in Pools : Product(reserves'[k]) >= Product(reserves[k])
  PROVE  SharesAreBacked' /\ ValueStep /\ PaidStep
  <1>1. \A k \in Pools : Product(reserves[k]) \in Nat /\ Product(reserves'[k]) \in Nat /\ supply[k] \in Nat
    BY ProductType DEF TypeOK, Books
  <1>2. SharesAreBacked'
    <2> SUFFICES ASSUME NEW k \in Pools PROVE supply[k] * supply[k] <= Product(reserves'[k])
      BY DEF SharesAreBacked
    <2>1. supply[k] * supply[k] <= Product(reserves[k]) /\ supply[k] * supply[k] \in Nat
      BY <1>1 DEF SharesAreBacked
    <2> QED BY <1>1, <2>1
  <1>3. ValueStep
    <2> SUFFICES ASSUME NEW k \in Pools
                 PROVE  Product(reserves'[k]) * supply[k] * supply[k] >= Product(reserves[k]) * supply[k] * supply[k]
      BY DEF ValueStep
    <2>1. PICK P \in Nat, Q \in Nat, S \in Nat : P = Product(reserves'[k]) /\ Q = Product(reserves[k]) /\ S = supply[k]
      BY <1>1
    <2>2. P >= Q
      BY <2>1
    <2>3. Q * S <= P * S
      BY <2>2, MulMono
    <2>4. (Q * S) * S <= (P * S) * S
      BY <2>3, MulMono
    <2> QED BY <2>1, <2>4
  <1>4. PaidStep
    <2>1. \A u \in Users, k \in Pools : ~(lpBal[u][k] > lpBal[u][k])
      BY DEF TypeOK
    <2> QED BY <2>1 DEF PaidStep
  <1> QED BY <1>2, <1>3, <1>4

\* add_liquidity keeps the value of a share and takes both tokens for what it mints.
LEMMA AddStep ==
  ASSUME ValueInv, NEW u \in Users, NEW a, NEW b, <<a, b>> \in Pairs,
         NEW x \in Amounts(u, a), NEW y \in Amounts(u, b), add_liquidity(u, a, b, x, y)
  PROVE  ValueInv' /\ ValueStep /\ PaidStep /\ BookMove /\ \E d \in Int : ShareMove(u, pool_key(a, b), d)
  <1>1. PICK k, r : k = pool_key(a, b) /\ r = get_reserves_ordered(reserves, a, b)
    OBVIOUS
  <1>2. PICK lp : lp = LpMinted(k, x, y, r[1], r[2])
    OBVIOUS
  <1>3. /\ tx = None /\ tx' = tx
        /\ wallet' = Deposit(Deposit(wallet, u, a, x), u, b, y)
        /\ balance' = [balance EXCEPT ![a] = @ + x, ![b] = @ + y]
        /\ reserves' = set_reserves_ordered(reserves, a, b, r[1] + x, r[2] + y)
        /\ supply' = [supply EXCEPT ![k] = @ + lp]
        /\ lpBal' = [lpBal EXCEPT ![u][k] = @ + lp]
        /\ UNCHANGED <<initialized, fees, results, collected>>
    BY <1>1, <1>2 DEF add_liquidity, CreditLp
  <1>4. TypeOK /\ SharesAreBacked /\ reserves \in Books /\ wallet \in Wallets
    BY DEF ValueInv, TypeOK, Books, Wallets
  <1>5. a \in Tokens /\ b \in Tokens /\ a # b /\ k \in Pools
    BY <1>1, KeyFacts
  <1>6. x \in 0 .. wallet[u][a] /\ y \in 0 .. wallet[u][b] /\ x \in Nat /\ y \in Nat
    BY DEF Amounts
  <1>7. wallet' \in Wallets /\ wallet'[u][a] = wallet[u][a] - x /\ wallet'[u][b] = wallet[u][b] - y
    <2>1. PICK v : v = Deposit(wallet, u, a, x)
      OBVIOUS
    <2>2. v \in Wallets /\ v[u][a] = wallet[u][a] - x /\ v[u][b] = wallet[u][b]
      BY <1>4, <1>5, <1>6, <2>1, DepositFacts
    <2>3. wallet' = Deposit(v, u, b, y) /\ y \in 0 .. v[u][b]
      BY <1>3, <1>6, <2>1, <2>2
    <2>4. wallet' \in Wallets /\ wallet'[u][b] = v[u][b] - y /\ wallet'[u][a] = v[u][a]
      BY <1>5, <2>2, <2>3, DepositFacts
    <2> QED BY <2>2, <2>4
  <1>8. balance' \in [Tokens -> Nat] /\ balance' = [balance EXCEPT ![a] = balance[a] + x, ![b] = balance[b] + y]
    <2>1. balance \in [Tokens -> Nat] /\ balance[a] + x \in Nat /\ balance[b] + y \in Nat
      BY <1>4, <1>5, <1>6 DEF TypeOK
    <2>2. balance' = [balance EXCEPT ![a] = balance[a] + x, ![b] = balance[b] + y]
      BY <1>3, <1>5, <2>1
    <2> QED BY <1>5, <2>1, <2>2, TwoBalances
  <1>9. r \in Nat \X Nat
    <2>1. Rewritten(a, b, reserves, 0, 0, r, set_reserves_ordered(reserves, a, b, 0, 0), k)
      BY <1>1, <1>4, SetFacts
    <2> QED BY <2>1 DEF Rewritten
  <1>10. PICK p \in Nat, q \in Nat : p = r[1] /\ q = r[2]
    BY <1>9
  <1>11. Rewritten(a, b, reserves, p + x, q + y, r, reserves', k)
    <2>1. p + x \in Nat /\ q + y \in Nat
      BY <1>6, <1>10
    <2> QED BY <1>1, <1>3, <1>4, <1>10, <2>1, SetFacts
  <1>12. /\ reserves' \in Books /\ \A j \in Pools \ {k} : reserves'[j] = reserves[j]
         /\ Product(reserves[k]) = p * q /\ Product(reserves'[k]) = (p + x) * (q + y)
         /\ k = <<a, b>> \/ k = <<b, a>>
    BY <1>10, <1>11 DEF Rewritten
  <1>13. PICK S \in Nat : S = supply[k]
    BY <1>4, <1>5 DEF TypeOK
  <1>14. S * S <= p * q
    BY <1>4, <1>5, <1>12, <1>13 DEF SharesAreBacked
  <1>15. /\ lp \in Nat /\ (S + lp) * (S + lp) <= (p + x) * (q + y) /\ (lp > 0 => x > 0 /\ y > 0)
         /\ S > 0 => ((p + x) * (q + y)) * S * S >= (p * q) * (S + lp) * (S + lp)
    <2>1. CASE S = 0
      <3>1. x * y \in Nat /\ lp = isqrt(x * y)
        BY <1>2, <1>6, <1>10, <1>13, <2>1 DEF LpMinted
      <3>2. lp \in Nat /\ lp * lp <= x * y
        BY <3>1, IsqrtFacts
      <3>3. x * y <= (p + x) * (q + y)
        BY <1>6, <1>10, MulMono
      <3>4. lp > 0 => x > 0 /\ y > 0
        <4>1. lp > 0 => lp * lp > 0
          BY <3>2
        <4>2. (x = 0 => x * y = 0) /\ (y = 0 => x * y = 0)
          BY <1>6
        <4> QED BY <1>6, <3>1, <3>2, <4>1, <4>2
      <3>5. S + lp = lp
        BY <2>1, <3>2
      <3>6. lp * lp \in Nat /\ (p + x) * (q + y) \in Nat
        BY <1>6, <1>10, <3>2
      <3>7. lp * lp <= (p + x) * (q + y)
        BY <3>1, <3>2, <3>3, <3>6
      <3> QED BY <2>1, <3>2, <3>4, <3>5, <3>7
    <2>2. CASE S # 0
      <3>1. p \in Nat \ {0} /\ q \in Nat \ {0}
        <4>1. S * S > 0
          BY <2>2
        <4>2. (p = 0 => p * q = 0) /\ (q = 0 => p * q = 0)
          OBVIOUS
        <4> QED BY <1>14, <4>1, <4>2
      <3>2. lp = Smaller((x * S) \div p, (y * S) \div q)
        BY <1>2, <1>10, <1>13, <2>2 DEF LpMinted
      <3>3. /\ lp \in Nat /\ (p + x) * S >= p * (S + lp) /\ (q + y) * S >= q * (S + lp)
            /\ lp > 0 => x > 0 /\ y > 0
        <4>1. Minted(x, y, S, p, q, lp)
          BY <1>6, <3>1, <3>2, MintFacts
        <4> QED BY <4>1 DEF Minted
      <3>4. PICK W \in Nat, c \in Nat, d \in Nat : W = S + lp /\ c = p + x /\ d = q + y
        BY <1>6, <3>3
      <3>5. (c * d) * S * S >= (p * q) * W * W
        BY <3>3, <3>4, ValueKept
      <3>6. PICK P \in Nat, Q \in Nat : P = c * d /\ Q = p * q
        OBVIOUS
      <3>7. W * W <= P
        BY <1>14, <2>2, <3>5, <3>6, BackedKept
      <3> QED BY <3>3, <3>4, <3>5, <3>6, <3>7
    <2> QED BY <2>1, <2>2
  <1>16. /\ supply' \in [Pools -> Nat] /\ supply'[k] = S + lp /\ \A j \in Pools \ {k} : supply'[j] = supply[j]
         /\ lpBal' \in [Users -> [Pools -> Nat]]
         /\ \A v \in Users, j \in Pools : v # u \/ j # k => lpBal'[v][j] = lpBal[v][j]
         /\ lpBal'[u][k] = lpBal[u][k] + lp
    <2>1. supply[k] + lp \in Nat /\ lpBal[u][k] + lp \in Nat
      BY <1>4, <1>5, <1>15 DEF TypeOK
    <2> QED BY <1>3, <1>4, <1>5, <1>13, <2>1 DEF TypeOK
  <1>17. TypeOK'
    BY <1>3, <1>4, <1>7, <1>8, <1>12, <1>16 DEF TypeOK, Books, Wallets
  <1>18. SharesAreBacked' /\ ValueStep
    <2>1. supply'[k] * supply'[k] <= Product(reserves'[k])
      BY <1>12, <1>15, <1>16
    <2>2. supply[k] > 0 =>
           Product(reserves'[k]) * supply[k] * supply[k] >= Product(reserves[k]) * supply'[k] * supply'[k]
      BY <1>12, <1>13, <1>15, <1>16
    <2> QED BY <1>4, <1>5, <1>12, <1>16, <1>17, <2>1, <2>2, OnePoolStep
  <1>19. PaidStep
    <2> SUFFICES ASSUME NEW v \in Users, NEW j \in Pools, lpBal'[v][j] > lpBal[v][j]
                 PROVE  wallet'[v][j[1]] < wallet[v][j[1]] /\ wallet'[v][j[2]] < wallet[v][j[2]]
      BY DEF PaidStep
    <2>1. lpBal[v][j] \in Nat /\ lpBal[u][k] \in Nat
      BY <1>4, <1>5 DEF TypeOK
    <2>2. v = u /\ j = k
      BY <1>16, <2>1
    <2>3. lp > 0
      BY <1>15, <1>16, <2>1, <2>2
    <2>4. x > 0 /\ y > 0 /\ wallet[u][a] \in Nat /\ wallet[u][b] \in Nat
      BY <1>4, <1>5, <1>15, <2>3 DEF Wallets
    <2>5. wallet'[u][a] < wallet[u][a] /\ wallet'[u][b] < wallet[u][b]
      BY <1>6, <1>7, <2>4
    <2>6. (j[1] = a /\ j[2] = b) \/ (j[1] = b /\ j[2] = a)
      BY <1>12, <2>2
    <2> QED BY <2>2, <2>5, <2>6
  <1>20. TxTyped' /\ TxValue'
    BY <1>3 DEF TxTyped, TxValue
  <1>21. BookMove
    <2> SUFFICES ASSUME NEW t \in Tokens
                 PROVE  TotalReserve(reserves', t) = TotalReserve(reserves, t) + (balance'[t] - balance[t])
      BY DEF BookMove
    <2>1. /\ balance'[a] = balance[a] + x /\ balance'[b] = balance[b] + y
          /\ t # a /\ t # b => balance'[t] = balance[t]
      BY <1>4, <1>5, <1>8 DEF TypeOK
    <2>2. TotalReserve(reserves', t) =
            TotalReserve(reserves, t) + (IF t = a THEN (p + x) - r[1] ELSE IF t = b THEN (q + y) - r[2] ELSE 0)
      <3>1. <<a, b>> \in Pairs
        OBVIOUS
      <3>2. p + x \in Nat /\ q + y \in Nat /\ reserves' = set_reserves_ordered(reserves, a, b, p + x, q + y)
        BY <1>3, <1>6, <1>10
      <3> QED BY <1>1, <1>4, <3>1, <3>2, TotalFacts
    <2>3. balance[a] \in Nat /\ balance[b] \in Nat /\ balance[t] \in Nat
      BY <1>4, <1>5 DEF TypeOK
    <2> QED BY <1>6, <1>10, <2>1, <2>2, <2>3
  <1>22. ShareMove(u, k, lp) /\ lp \in Int
    BY <1>13, <1>15, <1>16 DEF ShareMove
  <1> QED BY <1>1, <1>17, <1>18, <1>19, <1>20, <1>21, <1>22 DEF ValueInv

\* remove_liquidity pays out no more than the shares' part of the reserves.
LEMMA RemoveStep ==
  ASSUME ValueInv, NEW u \in Users, NEW a, NEW b, <<a, b>> \in Pairs,
         NEW lp \in Burns(u, pool_key(a, b)), remove_liquidity(u, a, b, lp)
  PROVE  ValueInv' /\ ValueStep /\ PaidStep /\ BookMove /\ \E d \in Int : ShareMove(u, pool_key(a, b), d)
  <1>1. PICK k, r : k = pool_key(a, b) /\ r = get_reserves_ordered(reserves, a, b)
    OBVIOUS
  <1>2. PICK x, y : x = Quot(lp * r[1], supply[k]) /\ y = Quot(lp * r[2], supply[k])
    OBVIOUS
  <1>3. /\ tx = None /\ tx' = tx
        /\ lp <= lpBal[u][k] /\ supply[k] # 0
        /\ x \in 0 .. balance[a] /\ y \in 0 .. balance[b]
        /\ wallet' = Withdraw(Withdraw(wallet, u, a, x), u, b, y)
        /\ balance' = [balance EXCEPT ![a] = @ - x, ![b] = @ - y]
        /\ reserves' = set_reserves_ordered(reserves, a, b, r[1] - x, r[2] - y)
        /\ supply' = [supply EXCEPT ![k] = @ - lp]
        /\ lpBal' = [lpBal EXCEPT ![u][k] = @ - lp]
        /\ UNCHANGED <<initialized, fees, results, collected>>
    BY <1>1, <1>2 DEF remove_liquidity, MayBurn
  <1>4. TypeOK /\ SharesAreBacked /\ reserves \in Books /\ wallet \in Wallets
    BY DEF ValueInv, TypeOK, Books, Wallets
  <1>5. a \in Tokens /\ b \in Tokens /\ a # b /\ k \in Pools
    BY <1>1, KeyFacts
  <1>6. x \in Nat /\ y \in Nat
    BY <1>3
  <1>7. wallet' \in Wallets
    <2>1. PICK v : v = Withdraw(wallet, u, a, x)
      OBVIOUS
    <2>2. v \in Wallets
      BY <1>4, <1>5, <1>6, <2>1, WithdrawFacts
    <2>3. wallet' = Withdraw(v, u, b, y)
      BY <1>3, <2>1
    <2> QED BY <1>5, <1>6, <2>2, <2>3, WithdrawFacts
  <1>8. balance' \in [Tokens -> Nat] /\ balance' = [balance EXCEPT ![a] = balance[a] - x, ![b] = balance[b] - y]
    <2>1. balance \in [Tokens -> Nat] /\ balance[a] - x \in Nat /\ balance[b] - y \in Nat
      BY <1>3, <1>4, <1>5, <1>6 DEF TypeOK
    <2>2. balance' = [balance EXCEPT ![a] = balance[a] - x, ![b] = balance[b] - y]
      BY <1>3, <1>5, <2>1
    <2> QED BY <1>5, <2>1, <2>2, TwoBalances
  <1>9. r \in Nat \X Nat /\ Product(reserves[k]) = r[1] * r[2]
    <2>1. Rewritten(a, b, reserves, 0, 0, r, set_reserves_ordered(reserves, a, b, 0, 0), k)
      BY <1>1, <1>4, SetFacts
    <2> QED BY <2>1 DEF Rewritten
  <1>10. PICK p \in Nat, q \in Nat : p = r[1] /\ q = r[2]
    BY <1>9
  <1>11. PICK S \in Nat \ {0} : S = supply[k]
    BY <1>3, <1>4, <1>5 DEF TypeOK
  <1>12. S * S <= p * q
    BY <1>4, <1>5, <1>9, <1>10, <1>11 DEF SharesAreBacked
  <1>13. lp \in Int /\ lp <= S
    BY <1>1, <1>11 DEF Burns
  <1>14. lp >= 0
    <2>1. Quot(lp * p, S) >= 0 /\ Quot(lp * q, S) >= 0
      BY <1>2, <1>6, <1>10, <1>11
    <2> QED BY <1>12, <1>13, <2>1, NoNegativeBurn
  <1>15. lp \in 0 .. S /\ lp \in Nat
    BY <1>13, <1>14
  <1>16. x <= p /\ (p - x) * S >= p * (S - lp)
    BY <1>2, <1>10, <1>11, <1>15, BurnFacts
  <1>17. y <= q /\ (q - y) * S >= q * (S - lp)
    BY <1>2, <1>10, <1>11, <1>15, BurnFacts
  <1>18. PICK c \in Nat, d \in Nat, W \in Nat : c = p - x /\ d = q - y /\ W = S - lp
    BY <1>6, <1>15, <1>16, <1>17
  <1>19. Rewritten(a, b, reserves, c, d, r, reserves', k)
    BY <1>1, <1>3, <1>4, <1>10, <1>18, SetFacts
  <1>20. /\ reserves' \in Books /\ \A j \in Pools \ {k} : reserves'[j] = reserves[j]
         /\ Product(reserves[k]) = p * q /\ Product(reserves'[k]) = c * d
    BY <1>10, <1>19 DEF Rewritten
  <1>21. (c * d) * S * S >= (p * q) * W * W
    BY <1>16, <1>17, <1>18, ValueKept
  <1>22. W * W <= c * d
    <2>1. PICK P \in Nat, Q \in Nat : P = c * d /\ Q = p * q
      OBVIOUS
    <2> QED BY <1>12, <1>21, <2>1, BackedKept
  <1>23. /\ supply' \in [Pools -> Nat] /\ supply'[k] = W /\ \A j \in Pools \ {k} : supply'[j] = supply[j]
         /\ lpBal' \in [Users -> [Pools -> Nat]]
         /\ \A v \in Users, j \in Pools : v # u \/ j # k => lpBal'[v][j] = lpBal[v][j]
         /\ lpBal'[u][k] = lpBal[u][k] - lp
    <2>0. lpBal[u][k] \in Nat
      BY <1>4, <1>5 DEF TypeOK
    <2>1. supply[k] - lp \in Nat /\ lpBal[u][k] - lp \in Nat /\ supply[k] - lp = W
      BY <1>3, <1>11, <1>15, <1>18, <2>0
    <2> QED BY <1>3, <1>4, <1>5, <2>1 DEF TypeOK
  <1>24. TypeOK'
    BY <1>3, <1>4, <1>7, <1>8, <1>20, <1>23 DEF TypeOK, Books, Wallets
  <1>25. SharesAreBacked' /\ ValueStep
    <2>1. supply'[k] * supply'[k] <= Product(reserves'[k])
      BY <1>20, <1>22, <1>23
    <2>2. supply[k] > 0 =>
           Product(reserves'[k]) * supply[k] * supply[k] >= Product(reserves[k]) * supply'[k] * supply'[k]
      BY <1>11, <1>20, <1>21, <1>23
    <2> QED BY <1>4, <1>5, <1>20, <1>23, <1>24, <2>1, <2>2, OnePoolStep
  <1>26. PaidStep
    <2> SUFFICES ASSUME NEW v \in Users, NEW j \in Pools PROVE ~(lpBal'[v][j] > lpBal[v][j])
      BY DEF PaidStep
    <2>1. lpBal[v][j] \in Nat /\ lpBal[u][k] \in Nat
      BY <1>4, <1>5 DEF TypeOK
    <2> QED BY <1>15, <1>23, <2>1
  <1>27. TxTyped' /\ TxValue'
    BY <1>3 DEF TxTyped, TxValue
  <1>28. BookMove
    <2> SUFFICES ASSUME NEW t \in Tokens
                 PROVE  TotalReserve(reserves', t) = TotalReserve(reserves, t) + (balance'[t] - balance[t])
      BY DEF BookMove
    <2>1. /\ balance'[a] = balance[a] - x /\ balance'[b] = balance[b] - y
          /\ t # a /\ t # b => balance'[t] = balance[t]
      BY <1>4, <1>5, <1>8 DEF TypeOK
    <2>2. TotalReserve(reserves', t) =
            TotalReserve(reserves, t) + (IF t = a THEN c - r[1] ELSE IF t = b THEN d - r[2] ELSE 0)
      <3>1. <<a, b>> \in Pairs
        OBVIOUS
      <3>2. c \in Nat /\ d \in Nat /\ reserves' = set_reserves_ordered(reserves, a, b, c, d)
        BY <1>3, <1>10, <1>18
      <3> QED BY <1>1, <1>4, <3>1, <3>2, TotalFacts
    <2>3. balance[a] \in Nat /\ balance[b] \in Nat /\ balance[t] \in Nat
      BY <1>4, <1>5 DEF TypeOK
    <2> QED BY <1>6, <1>10, <1>18, <2>1, <2>2, <2>3
  <1>29. ShareMove(u, k, -lp) /\ -lp \in Int
    <2>1. lpBal[u][k] \in Nat /\ W = supply[k] + (-lp) /\ lpBal[u][k] - lp = lpBal[u][k] + (-lp)
      BY <1>4, <1>5, <1>11, <1>15, <1>18 DEF TypeOK
    <2> QED BY <1>15, <1>23, <2>1 DEF ShareMove
  <1> QED BY <1>1, <1>24, <1>25, <1>26, <1>27, <1>28, <1>29 DEF ValueInv

\* settle_batch starts from the contract's storage.
LEMMA StartStep ==
  ASSUME ValueInv, NEW id \in Batches, NEW orders \in OrderLists, settle_batch(id, orders)
  PROVE  ValueInv' /\ UNCHANGED <<initialized, storage>> /\ tx'.results = <<>> /\ tx'.reserves = reserves
         /\ tx'.fees = fees /\ tx'.balance = balance
  <1>1. /\ results[id] = None /\ UNCHANGED <<initialized, storage>>
        /\ tx' = [id |-> id, orders |-> orders, results |-> <<>>, reserves |-> reserves,
                  fees |-> fees, balance |-> balance, wallet |-> wallet]
    BY DEF settle_batch
  <1>2. TypeOK /\ SharesAreBacked
    BY DEF ValueInv
  <1>3. TypeOK' /\ SharesAreBacked'
    BY <1>1, <1>2 DEF TypeOK, SharesAreBacked, storage
  <1>4. /\ tx'.id = id /\ tx'.orders = orders /\ tx'.results = <<>> /\ tx'.reserves = reserves
        /\ tx'.fees = fees /\ tx'.balance = balance
    BY <1>1
  <1>5. TxTyped'
    <2>1. tx' \in Transactions
      BY <1>1, <1>2 DEF TypeOK, Transactions, Books
    <2>2. Len(tx'.results) <= Len(tx'.orders)
      <3>1. Len(orders) \in Nat
        BY OrderFacts
      <3>2. Len(tx'.results) = 0
        BY <1>4
      <3> QED BY <1>4, <3>1, <3>2
    <2>3. results'[tx'.id] = None
      BY <1>1, <1>4 DEF storage
    <2> QED BY <2>1, <2>2, <2>3 DEF TxTyped
  <1>6. TxValue'
    <2>0. \A k \in Pools : Product(reserves[k]) \in Nat
      BY <1>2, ProductType DEF TypeOK, Books
    <2>1. \A k \in Pools : Product(reserves[k]) >= Product(reserves[k])
      BY <2>0
    <2>2. reserves' = reserves
      BY <1>1 DEF storage
    <2> QED BY <1>4, <2>1, <2>2 DEF TxValue
  <1> QED BY <1>1, <1>3, <1>4, <1>5, <1>6 DEF ValueInv

\* An order of a batch changes nothing but the transaction.
LEMMA OrderStep ==
  ASSUME ValueInv, SettleOrder
  PROVE  ValueInv' /\ UNCHANGED <<initialized, storage>>
  <1>1. UNCHANGED <<initialized, storage>>
    BY DEF SettleOrder
  <1>2. /\ TypeOK /\ SharesAreBacked /\ tx # None /\ tx \in Transactions
        /\ Len(tx.results) < Len(tx.orders) /\ results[tx.id] = None
        /\ \A k \in Pools : Product(tx.reserves[k]) >= Product(reserves[k])
    BY DEF ValueInv, TxTyped, TxValue, SettleOrder
  <1>3. TypeOK' /\ SharesAreBacked'
    BY <1>1, <1>2 DEF TypeOK, SharesAreBacked, storage
  <1>4. PICK o, r, out : Swapped(o, r, out)
    BY SwapFacts DEF ValueInv
  <1>5. PICK a, b, k : a = o.token_in /\ b = o.token_out /\ k = pool_key(a, b)
    OBVIOUS
  <1>6. /\ <<a, b>> \in Pairs /\ r \in Nat \X Nat /\ out \in 0 .. r[2] /\ o.amount_in \in Nat /\ o.user \in Users
        /\ r = get_reserves_ordered(tx.reserves, a, b)
        /\ (r[1] + o.amount_in) * (r[2] - out) >= r[1] * r[2]
        /\ tx'.reserves = set_reserves_ordered(tx.reserves, a, b, r[1] + o.amount_in, r[2] - out)
    BY <1>4, <1>5, EngineAssumption DEF Swapped, OrderSet
  <1>7. PICK n \in Nat : n = o.amount_in
    BY <1>6
  <1>8. PICK p \in Nat, q \in Nat : p = r[1] + n /\ q = r[2] - out
    BY <1>6, <1>7
  <1>9. tx.reserves \in Books /\ tx.wallet \in Wallets /\ tx.balance \in [Tokens -> Nat] /\ tx.fees \in [Tokens -> Nat]
    BY <1>2 DEF Transactions, Wallets
  <1>10. Rewritten(a, b, tx.reserves, p, q, r, tx'.reserves, k)
    BY <1>5, <1>6, <1>7, <1>8, <1>9, SetFacts
  <1>11. /\ tx'.reserves \in Books /\ \A j \in Pools \ {k} : tx'.reserves[j] = tx.reserves[j]
         /\ Product(tx.reserves[k]) = r[1] * r[2] /\ Product(tx'.reserves[k]) = p * q
    BY <1>10 DEF Rewritten
  <1>12. a \in Tokens /\ b \in Tokens /\ a # b /\ k \in Pools
    BY <1>5, <1>6, KeyFacts
  <1>13. TxValue'
    <2> SUFFICES ASSUME NEW j \in Pools PROVE Product(tx'.reserves[j]) >= Product(reserves[j])
      BY <1>1 DEF TxValue, storage
    <2>1. CASE j # k
      BY <1>2, <1>11, <2>1
    <2>2. CASE j = k
      <3>1. p * q >= r[1] * r[2] /\ r[1] * r[2] \in Nat /\ p * q \in Nat
        BY <1>6, <1>7, <1>8
      <3>2. Product(reserves[k]) \in Nat
        BY <1>2, <1>12, ProductType DEF TypeOK, Books
      <3>3. r[1] * r[2] >= Product(reserves[k])
        BY <1>2, <1>11, <1>12
      <3> QED BY <1>11, <2>2, <3>1, <3>2, <3>3
    <2> QED BY <2>1, <2>2
  <1>14. TxTyped'
    <2>1. tx'.wallet \in Wallets
      <3>1. PICK v : v = Deposit(tx.wallet, o.user, a, n)
        OBVIOUS
      <3>2. n <= tx.wallet[o.user][a] /\ tx'.wallet = Withdraw(v, o.user, b, out)
        BY <1>4, <1>5, <1>7, <3>1 DEF Swapped
      <3>3. n \in 0 .. tx.wallet[o.user][a]
        BY <1>6, <1>9, <1>12, <3>2 DEF Wallets
      <3>4. v \in Wallets
        BY <1>6, <1>9, <1>12, <3>1, <3>3, DepositFacts
      <3>5. out \in Nat
        BY <1>6
      <3> QED BY <1>6, <1>12, <3>2, <3>4, <3>5, WithdrawFacts
    <2>2. tx'.balance \in [Tokens -> Nat]
      <3>1. PICK f : f = Credit(tx.balance, a, n)
        OBVIOUS
      <3>2. out <= tx.balance[b] /\ tx'.balance = Credit(f, b, -out) /\ out \in Nat
        BY <1>4, <1>5, <1>6, <1>7, <3>1 DEF Swapped
      <3>3. f \in [Tokens -> Nat] /\ f[b] = tx.balance[b]
        BY <1>9, <1>12, <3>1 DEF Credit
      <3>4. f[b] + (-out) \in Nat
        BY <1>9, <1>12, <3>2, <3>3
      <3> QED BY <3>2, <3>3, <3>4 DEF Credit
    <2>3. tx'.fees \in [Tokens -> Nat]
      <3>1. tx'.fees = Credit(tx.fees, a, Fee(n)) /\ Fee(n) \in Nat
        BY <1>4, <1>5, <1>7, FeeFacts DEF Swapped
      <3>2. tx.fees[a] + Fee(n) \in Nat
        BY <1>9, <1>12, <3>1
      <3> QED BY <1>9, <3>1, <3>2 DEF Credit
    <2>4. tx'.results \in Seq(ResultSet) /\ Len(tx'.results) = Len(tx.results) + 1
      <3>1. tx.results \in Seq(ResultSet) /\ ResultOf(o, out) \in ResultSet
            /\ tx'.results = Append(tx.results, ResultOf(o, out))
        BY <1>2, <1>4 DEF Swapped, Transactions
      <3> QED BY <3>1
    <2>5. tx'.id \in Batches /\ tx'.orders \in OrderLists /\ tx'.orders = tx.orders /\ tx'.id = tx.id
      BY <1>2, <1>4 DEF Swapped, Transactions
    <2>6. tx' = [id |-> tx'.id, orders |-> tx'.orders, results |-> tx'.results, reserves |-> tx'.reserves,
                 fees |-> tx'.fees, balance |-> tx'.balance, wallet |-> tx'.wallet]
      BY <1>4 DEF Swapped
    <2>7. tx' \in Transactions
      BY <1>11, <2>1, <2>2, <2>3, <2>4, <2>5, <2>6 DEF Transactions, Wallets
    <2>8. Len(tx'.results) <= Len(tx'.orders)
      <3>1. Len(tx.results) \in Nat /\ Len(tx.orders) \in Nat
        BY <1>2, OrderFacts DEF Transactions
      <3> QED BY <1>2, <2>4, <2>5, <3>1
    <2>9. results'[tx'.id] = None
      BY <1>1, <1>2, <2>5 DEF storage
    <2> QED BY <2>7, <2>8, <2>9 DEF TxTyped
  <1> QED BY <1>1, <1>3, <1>13, <1>14 DEF ValueInv

\* A batch that ends well puts the transaction's state in storage.
LEMMA CommitStep ==
  ASSUME ValueInv, SettleCommit
  PROVE  ValueInv' /\ ValueStep /\ PaidStep
  <1>1. /\ TypeOK /\ SharesAreBacked /\ tx # None /\ tx \in Transactions
        /\ \A k \in Pools : Product(tx.reserves[k]) >= Product(reserves[k])
    BY DEF ValueInv, TxTyped, TxValue, SettleCommit
  <1>2. /\ reserves' = tx.reserves /\ wallet' = tx.wallet /\ balance' = tx.balance /\ fees' = tx.fees
        /\ results' = [results EXCEPT ![tx.id] = tx.results] /\ tx' = None
        /\ UNCHANGED <<initialized, supply, lpBal, collected>>
    BY DEF SettleCommit
  <1>3. reserves' \in Books
    BY <1>1, <1>2 DEF Transactions
  <1>4. results' \in [Batches -> Seq(ResultSet) \cup {None}]
    <2>1. tx.id \in Batches /\ tx.results \in Seq(ResultSet)
      BY <1>1 DEF Transactions
    <2> QED BY <1>1, <1>2, <2>1 DEF TypeOK
  <1>5. TypeOK'
    BY <1>1, <1>2, <1>3, <1>4 DEF TypeOK, Transactions, Books
  <1>6. SharesAreBacked' /\ ValueStep /\ PaidStep
    BY <1>1, <1>2, <1>3, NoShareStep
  <1>7. TxTyped' /\ TxValue'
    BY <1>2 DEF TxTyped, TxValue
  <1> QED BY <1>5, <1>6, <1>7 DEF ValueInv

\* Calls that leave pools and shares alone, and those that do nothing.
LEMMA QuietStep ==
  ASSUME ValueInv, UNCHANGED <<reserves, supply, lpBal>>
  PROVE  ValueStep /\ PaidStep
  <1>1. TypeOK /\ SharesAreBacked
    BY DEF ValueInv
  <1>2. reserves \in Books
    BY <1>1 DEF TypeOK, Books
  <1>3. \A k \in Pools : Product(reserves[k]) \in Nat
    BY <1>2, ProductType
  <1>4. \A k \in Pools : Product(reserves'[k]) >= Product(reserves[k])
    BY <1>3
  <1> QED BY <1>1, <1>2, <1>4, NoShareStep

\* collect_fees touches no pool.
LEMMA CollectStep ==
  ASSUME ValueInv, NEW t \in Tokens, collect_fees(t)
  PROVE  ValueInv' /\ UNCHANGED <<reserves, supply, lpBal>>
  <1>1. /\ tx = None /\ tx' = tx /\ fees[t] <= balance[t]
        /\ balance' = [balance EXCEPT ![t] = @ - fees[t]]
        /\ collected' = [collected EXCEPT ![t] = @ + fees[t]]
        /\ fees' = [fees EXCEPT ![t] = 0]
        /\ UNCHANGED <<initialized, reserves, supply, lpBal, results, wallet>>
    BY DEF collect_fees
  <1>2. TypeOK /\ SharesAreBacked
    BY DEF ValueInv
  <1>3. balance[t] - fees[t] \in Nat /\ collected[t] + fees[t] \in Nat
    BY <1>1, <1>2 DEF TypeOK
  <1>4. TypeOK'
    BY <1>1, <1>2, <1>3 DEF TypeOK
  <1>5. SharesAreBacked' /\ TxTyped' /\ TxValue'
    BY <1>1, <1>2 DEF SharesAreBacked, TxTyped, TxValue
  <1> QED BY <1>1, <1>4, <1>5 DEF ValueInv

\* Every step, with what it does to the shares.
LEMMA ValueNext ==
  ASSUME ValueInv, [Next]_vars
  PROVE  /\ ValueInv' /\ ValueStep /\ PaidStep
         /\ UNCHANGED <<supply, lpBal>> \/ \E u \in Users, k \in Pools, d \in Int : ShareMove(u, k, d)
  <1>1. CASE UNCHANGED vars
    <2>1. UNCHANGED <<initialized, reserves, supply, lpBal, fees, results, balance, wallet, collected, tx>>
      BY <1>1 DEF vars, storage
    <2>2. ValueInv'
      BY <2>1 DEF ValueInv, TypeOK, TxTyped, SharesAreBacked, TxValue
    <2> QED BY <2>1, <2>2, QuietStep
  <1>2. CASE initialize
    <2>1. initialized' = TRUE /\ UNCHANGED <<reserves, supply, lpBal, fees, results, balance, wallet, collected, tx>>
      BY <1>2 DEF initialize, storage
    <2>2. ValueInv'
      BY <2>1 DEF ValueInv, TypeOK, TxTyped, SharesAreBacked, TxValue
    <2> QED BY <2>1, <2>2, QuietStep
  <1>3. ASSUME NEW u \in Users, NEW pair \in Pairs,
               \/ \E x \in Amounts(u, pair[1]), y \in Amounts(u, pair[2]) : add_liquidity(u, pair[1], pair[2], x, y)
               \/ \E lp \in Burns(u, pool_key(pair[1], pair[2])) : remove_liquidity(u, pair[1], pair[2], lp)
        PROVE  ValueInv' /\ ValueStep /\ PaidStep /\ \E k \in Pools, d \in Int : ShareMove(u, k, d)
    <2>1. <<pair[1], pair[2]>> \in Pairs
      BY EngineAssumption
    <2>2. pool_key(pair[1], pair[2]) \in Pools
      BY <2>1, KeyFacts
    <2> QED BY <1>3, <2>1, <2>2, AddStep, RemoveStep
  <1>4. ASSUME NEW id \in Batches, NEW orders \in OrderLists, settle_batch(id, orders)
        PROVE  ValueInv' /\ ValueStep /\ PaidStep /\ UNCHANGED <<supply, lpBal>>
    <2>1. ValueInv' /\ UNCHANGED <<reserves, supply, lpBal>>
      BY <1>4, StartStep DEF storage
    <2> QED BY <2>1, QuietStep
  <1>5. CASE SettleOrder
    <2>1. ValueInv' /\ UNCHANGED <<reserves, supply, lpBal>>
      BY <1>5, OrderStep DEF storage
    <2> QED BY <2>1, QuietStep
  <1>6. CASE SettleRevert
    <2>1. tx' = None /\ UNCHANGED <<initialized, reserves, supply, lpBal, fees, results, balance, wallet, collected>>
      BY <1>6 DEF SettleRevert, storage
    <2>2. ValueInv'
      BY <2>1 DEF ValueInv, TypeOK, TxTyped, SharesAreBacked, TxValue
    <2> QED BY <2>1, <2>2, QuietStep
  <1>7. CASE SettleCommit
    BY <1>7, CommitStep DEF SettleCommit
  <1>8. ASSUME NEW t \in Tokens, collect_fees(t)
        PROVE  ValueInv' /\ ValueStep /\ PaidStep /\ UNCHANGED <<supply, lpBal>>
    BY <1>8, CollectStep, QuietStep
  <1> QED BY <1>1, <1>2, <1>3, <1>4, <1>5, <1>6, <1>7, <1>8 DEF Next

\* In the beginning there are no reserves and no shares.
LEMMA ValueInit == Init => ValueInv
  <1> SUFFICES ASSUME Init PROVE ValueInv
    OBVIOUS
  <1>1. TypeOK
    <2>1. <<0, 0>> \in Nat \X Nat
      OBVIOUS
    <2> QED BY <2>1, EngineAssumption DEF Init, TypeOK
  <1>2. SharesAreBacked
    <2>1. \A k \in Pools : supply[k] = 0 /\ reserves[k] = <<0, 0>>
      BY DEF Init
    <2> QED BY <2>1 DEF SharesAreBacked, Product
  <1> QED BY <1>1, <1>2 DEF ValueInv, Init, TxTyped, TxValue

\* Shares stay backed, in storage and in a transaction under way.
LEMMA AlwaysValue == Spec => []ValueInv
  <1>1. ValueInv /\ [Next]_vars => ValueInv'
    BY ValueNext
  <1> QED BY ValueInit, <1>1, PTL DEF Spec

\* Reserves, shares, fees and balances are never negative: the subtractions of
\* remove_liquidity, settle_batch and collect_fees never take more than there is.
THEOREM TypeCorrect == Spec => []TypeOK
  <1>1. ValueInv => TypeOK
    BY DEF ValueInv
  <1> QED BY AlwaysValue, <1>1, PTL

\* A pool's product is at least the square of its shares, after any calls at any
\* fee rate: no division by a zero reserve in add_liquidity, and no negative burn.
THEOREM SharesStayBacked == Spec => []SharesAreBacked
  <1>1. ValueInv => SharesAreBacked
    BY DEF ValueInv
  <1> QED BY AlwaysValue, <1>1, PTL

\* No call lowers the reserve product per squared share: minting, burning and
\* swapping all round in favour of the pool.
THEOREM ShareValueIsKept == Spec => ShareValueNeverDrops
  <1>1. ValueInv /\ [Next]_vars =>
          [\A k \in Pools : supply[k] > 0 /\ supply'[k] > 0 =>
             Product(reserves'[k]) * supply[k] * supply[k] >= Product(reserves[k]) * supply'[k] * supply'[k]]_vars
    BY ValueNext DEF ValueStep
  <1> QED BY AlwaysValue, <1>1, PTL DEF Spec, ShareValueNeverDrops

\* A user gets shares only in a call that takes both tokens from that user's wallet;
\* in particular remove_liquidity with a negative number of shares is refused.
THEOREM SharesAreNotFree == Spec => SharesArePaidFor
  <1>1. ValueInv /\ [Next]_vars =>
          [\A u \in Users, k \in Pools : lpBal'[u][k] > lpBal[u][k] =>
             wallet'[u][k[1]] < wallet[u][k[1]] /\ wallet'[u][k[2]] < wallet[u][k[2]]]_vars
    BY ValueNext DEF PaidStep
  <1> QED BY AlwaysValue, <1>1, PTL DEF Spec, SharesArePaidFor

--------------------------------------------------------------------------------
(* Sums: the supply, the books and the fees.                                  *)

\* Every step moves a user's shares and the supply by the same amount.
LEMMA SupplyNext ==
  ASSUME ValueInv, SupplyIsHeld, [Next]_vars
  PROVE  SupplyIsHeld'
  <1>1. CASE UNCHANGED <<supply, lpBal>>
    BY <1>1 DEF SupplyIsHeld
  <1>2. ASSUME NEW u \in Users, NEW k \in Pools, NEW d \in Int, ShareMove(u, k, d)
        PROVE  SupplyIsHeld'
    <2> SUFFICES ASSUME NEW j \in Pools
                 PROVE  supply'[j] = SumFunction([v \in Users |-> lpBal'[v][j]])
      BY DEF SupplyIsHeld
    <2> DEFINE g == [v \in Users |-> lpBal[v][j]]
               h == [v \in Users |-> lpBal'[v][j]]
    <2>1. SumFunction(g) = SumFunctionOnSet(g, Users) /\ SumFunction(h) = SumFunctionOnSet(h, Users)
      BY DEF SumFunction, SumFunctionOnSet, FoldFunction
    <2>2. supply[j] = SumFunctionOnSet(g, Users)
      BY <2>1 DEF SupplyIsHeld
    <2>3. \A v \in Users : g[v] \in Int
      BY DEF ValueInv, TypeOK
    <2>4. \A v \in Users \ {u} : h[v] = g[v]
      BY <1>2 DEF ShareMove
    <2>5. h[u] = IF j = k THEN g[u] + d ELSE g[u]
      BY <1>2 DEF ShareMove
    <2>6. supply'[j] = IF j = k THEN supply[j] + d ELSE supply[j]
      BY <1>2 DEF ShareMove
    <2>7. supply[j] \in Int /\ IsFiniteSet(Users)
      BY EngineAssumption DEF ValueInv, TypeOK
    <2>8. SumFunction(h) = SumFunctionOnSet(h, Users)
      BY <2>1
    <2> SUFFICES supply'[j] = SumFunctionOnSet(h, Users)
      BY <2>8
    <2> HIDE DEF g, h
    <2>9. SumFunctionOnSet(h, Users) = SumFunctionOnSet(g, Users) - g[u] + h[u]
      BY <2>3, <2>4, <2>5, <2>7, SumUpdate
    <2> QED BY <2>2, <2>3, <2>5, <2>6, <2>7, <2>9
  <1> QED BY <1>1, <1>2, ValueNext

\* The shares of all users add up to the supply: add_liquidity credits and
\* remove_liquidity debits both by the same number.
THEOREM SupplyStaysHeld == Spec => []SupplyIsHeld
  <1>1. Init => SupplyIsHeld
    <2> SUFFICES ASSUME Init, NEW k \in Pools PROVE supply[k] = SumFunction([u \in Users |-> lpBal[u][k]])
      BY DEF SupplyIsHeld
    <2> DEFINE g == [u \in Users |-> lpBal[u][k]]
    <2>1. supply[k] = 0 /\ \A u \in Users : g[u] = 0
      BY DEF Init
    <2>2. SumFunction(g) = SumFunctionOnSet(g, Users)
      BY DEF SumFunction, SumFunctionOnSet, FoldFunction
    <2> SUFFICES SumFunctionOnSet(g, Users) = 0
      BY <2>1, <2>2
    <2> HIDE DEF g
    <2> QED BY <2>1, EngineAssumption, SumZero
  <1>2. ValueInv /\ SupplyIsHeld /\ [Next]_vars => SupplyIsHeld'
    BY SupplyNext
  <1> QED BY AlwaysValue, <1>1, <1>2, PTL DEF Spec

BooksInv == BooksBalance /\ TxBooks

\* Every step moves reserves and balances by the same amounts.
LEMMA BooksNext ==
  ASSUME ValueInv, BooksInv, [Next]_vars
  PROVE  BooksInv'
  <1> USE DEF BooksInv
  <1>0. /\ balance \in [Tokens -> Nat] /\ collected \in [Tokens -> Nat] /\ fees \in [Tokens -> Nat] /\ reserves \in Books
        /\ \A t \in Tokens : TotalReserve(reserves, t) \in Int
    <2>1. balance \in [Tokens -> Nat] /\ collected \in [Tokens -> Nat] /\ fees \in [Tokens -> Nat] /\ reserves \in Books
      BY DEF ValueInv, TypeOK, Books
    <2>2. \A t \in Tokens : balance[t] + collected[t] \in Int
      BY <2>1
    <2> QED BY <2>1, <2>2 DEF BooksBalance
  <1>1. CASE UNCHANGED <<reserves, balance, collected>> /\ (tx' = None \/ tx' = tx)
    BY <1>1 DEF BooksBalance, TxBooks
  <1>2. CASE BookMove /\ collected' = collected /\ tx' = None /\ balance' \in [Tokens -> Nat]
    <2>1. ASSUME NEW t \in Tokens PROVE balance'[t] + collected'[t] = TotalReserve(reserves', t)
      <3>1. TotalReserve(reserves', t) = TotalReserve(reserves, t) + (balance'[t] - balance[t])
        BY <1>2 DEF BookMove
      <3>2. balance[t] + collected[t] = TotalReserve(reserves, t)
        BY DEF BooksBalance
      <3>3. balance[t] \in Nat /\ collected[t] \in Nat /\ balance'[t] \in Nat /\ collected'[t] = collected[t]
        BY <1>0, <1>2
      <3> QED BY <1>0, <3>1, <3>2, <3>3
    <2> QED BY <1>2, <2>1 DEF BooksBalance, TxBooks
  <1>3. CASE UNCHANGED <<reserves, balance, collected>> /\ tx'.reserves = reserves /\ tx'.balance = balance
    BY <1>3 DEF BooksBalance, TxBooks
  <1>4. CASE SettleOrder
    <2>1. UNCHANGED <<reserves, balance, collected>> /\ tx # None
      BY <1>4 DEF SettleOrder, storage
    <2>2. PICK o, r, out : Swapped(o, r, out)
      BY <1>4, SwapFacts DEF ValueInv
    <2>3. PICK a, b, n : a = o.token_in /\ b = o.token_out /\ n = o.amount_in
      OBVIOUS
    <2>4. /\ <<a, b>> \in Pairs /\ n \in Nat /\ r \in Nat \X Nat /\ out \in 0 .. r[2]
          /\ r = get_reserves_ordered(tx.reserves, a, b)
          /\ tx'.reserves = set_reserves_ordered(tx.reserves, a, b, r[1] + n, r[2] - out)
          /\ tx'.balance = Credit(Credit(tx.balance, a, n), b, -out)
      BY <2>2, <2>3, EngineAssumption DEF Swapped, OrderSet
    <2>5. tx.reserves \in Books /\ tx.balance \in [Tokens -> Nat]
      BY <2>1 DEF ValueInv, TxTyped, Transactions
    <2>6. a \in Tokens /\ b \in Tokens /\ a # b
      BY <2>4, KeyFacts
    <2>7. PICK p \in Nat, q \in Nat : p = r[1] + n /\ q = r[2] - out
      BY <2>4
    <2>8. ASSUME NEW t \in Tokens PROVE tx'.balance[t] + collected[t] = TotalReserve(tx'.reserves, t)
      <3>1. /\ TotalReserve(tx.reserves, t) \in Int
            /\ TotalReserve(tx'.reserves, t) =
                 TotalReserve(tx.reserves, t) + (IF t = a THEN p - r[1] ELSE IF t = b THEN q - r[2] ELSE 0)
        <4>1. tx'.reserves = set_reserves_ordered(tx.reserves, a, b, p, q)
          BY <2>4, <2>7
        <4> QED BY <2>4, <2>5, <4>1, TotalFacts
      <3>2. tx.balance[t] + collected[t] = TotalReserve(tx.reserves, t)
        BY <2>1 DEF TxBooks
      <3>3. tx'.balance[t] = tx.balance[t] + (IF t = a THEN n ELSE IF t = b THEN -out ELSE 0)
        <4>1. PICK f : f = Credit(tx.balance, a, n)
          OBVIOUS
        <4>2. f \in [Tokens -> Nat] /\ f[a] = tx.balance[a] + n /\ \A s \in Tokens \ {a} : f[s] = tx.balance[s]
          BY <2>4, <2>5, <2>6, <4>1 DEF Credit
        <4>3. tx'.balance = Credit(f, b, -out) /\ out \in Nat
          BY <2>4, <4>1
        <4>4. tx'.balance[b] = f[b] + (-out) /\ \A s \in Tokens \ {b} : tx'.balance[s] = f[s]
          BY <2>6, <4>2, <4>3 DEF Credit
        <4>5. tx.balance[t] \in Nat
          BY <2>5
        <4> QED BY <2>4, <2>6, <4>2, <4>4, <4>5
      <3>4. tx.balance[t] \in Nat /\ collected[t] \in Nat /\ r[1] \in Nat /\ r[2] \in Nat /\ out \in Nat
        BY <1>0, <2>4, <2>5
      <3> QED BY <2>4, <2>7, <3>1, <3>2, <3>3, <3>4
    <2> QED BY <2>1, <2>8 DEF BooksBalance, TxBooks
  <1>5. CASE SettleCommit
    BY <1>5 DEF SettleCommit, BooksBalance, TxBooks
  <1>6. ASSUME NEW t \in Tokens, collect_fees(t) PROVE BooksInv'
    <2>1. /\ tx' = None /\ reserves' = reserves
          /\ balance' = [balance EXCEPT ![t] = @ - fees[t]] /\ collected' = [collected EXCEPT ![t] = @ + fees[t]]
      BY <1>6 DEF collect_fees
    <2>2. ASSUME NEW s \in Tokens PROVE balance'[s] + collected'[s] = balance[s] + collected[s]
      <3>1. balance[s] \in Nat /\ collected[s] \in Nat /\ fees[s] \in Nat
        BY <1>0
      <3>2. CASE s = t
        BY <1>0, <2>1, <3>1, <3>2
      <3>3. CASE s # t
        BY <1>0, <2>1, <3>3
      <3> QED BY <3>2, <3>3
    <2> QED BY <2>1, <2>2 DEF BooksBalance, TxBooks
  <1>7. CASE UNCHANGED vars
    BY <1>1, <1>7 DEF vars, storage
  <1>8. CASE initialize
    BY <1>1, <1>8 DEF initialize, storage
  <1>9. ASSUME NEW u \in Users, NEW pair \in Pairs,
               \/ \E x \in Amounts(u, pair[1]), y \in Amounts(u, pair[2]) : add_liquidity(u, pair[1], pair[2], x, y)
               \/ \E lp \in Burns(u, pool_key(pair[1], pair[2])) : remove_liquidity(u, pair[1], pair[2], lp)
        PROVE  BooksInv'
    <2>1. <<pair[1], pair[2]>> \in Pairs
      BY EngineAssumption
    <2>2. BookMove /\ ValueInv'
      BY <1>9, <2>1, AddStep, RemoveStep
    <2>3. collected' = collected /\ tx' = None
      BY <1>9 DEF add_liquidity, remove_liquidity
    <2>4. balance' \in [Tokens -> Nat]
      BY <2>2 DEF ValueInv, TypeOK
    <2> QED BY <1>2, <2>2, <2>3, <2>4
  <1>10. ASSUME NEW id \in Batches, NEW orders \in OrderLists, settle_batch(id, orders) PROVE BooksInv'
    <2>1. UNCHANGED <<reserves, balance, collected>> /\ tx'.reserves = reserves /\ tx'.balance = balance
      BY <1>10, StartStep DEF storage
    <2> QED BY <1>3, <2>1
  <1>11. CASE SettleRevert
    BY <1>1, <1>11 DEF SettleRevert, storage
  <1> QED BY <1>4, <1>5, <1>6, <1>7, <1>8, <1>9, <1>10, <1>11 DEF Next

\* The contract's token balances with the fees paid out are exactly the reserves of
\* its pools, for any pools that share tokens: every call books what it moves, and
\* a fee stays in the reserves after it is paid out.
THEOREM BooksStayBalanced == Spec => []BooksBalance
  <1>1. Init => BooksInv
    <2> SUFFICES ASSUME Init, NEW t \in Tokens PROVE balance[t] + collected[t] = TotalReserve(reserves, t)
      BY DEF BooksInv, BooksBalance, TxBooks, Init
    <2> DEFINE g == [k \in Pools |-> ReserveOf(reserves, t, k)]
    <2>1. \A k \in Pools : reserves[k] = <<0, 0>>
      BY DEF Init
    <2>2. \A k \in Pools : g[k] = 0
      BY <2>1 DEF ReserveOf
    <2>3. TotalReserve(reserves, t) = SumFunctionOnSet(g, Pools)
      BY DEF TotalReserve, SumFunction, SumFunctionOnSet, FoldFunction
    <2> HIDE DEF g
    <2>4. SumFunctionOnSet(g, Pools) = 0
      BY <2>2, PoolFacts, SumZero
    <2> QED BY <2>3, <2>4 DEF Init
  <1>2. ValueInv /\ BooksInv /\ [Next]_vars => BooksInv'
    BY BooksNext
  <1>3. BooksInv => BooksBalance
    BY DEF BooksInv
  <1> QED BY AlwaysValue, <1>1, <1>2, <1>3, PTL DEF Spec

\* The fees of a list of results grow with each result.
LEMMA FeesInFacts ==
  ASSUME NEW s \in Seq(ResultSet), NEW t
  PROVE  /\ FeesIn(s, t) \in Int /\ FeesIn(<<>>, t) = 0
         /\ \A e \in ResultSet : FeesIn(Append(s, e), t) = FeesIn(s, t) + (IF e.token_in = t THEN e.fee ELSE 0)
  <1> DEFINE f(q) == [i \in DOMAIN q |-> IF q[i].token_in = t THEN q[i].fee ELSE 0]
  <1>1. \A q : FeesIn(q, t) = SumFunctionOnSet(f(q), DOMAIN q)
    BY DEF FeesIn, SumFunction, SumFunctionOnSet, FoldFunction
  <1>2. \A q \in Seq(ResultSet) : \A i \in DOMAIN q : f(q)[i] \in Int
    <2> SUFFICES ASSUME NEW q \in Seq(ResultSet), NEW i \in DOMAIN q PROVE f(q)[i] \in Int
      OBVIOUS
    <2>1. q[i] \in ResultSet
      OBVIOUS
    <2>2. q[i].fee \in Int
      BY <2>1 DEF ResultSet
    <2> QED BY <2>2
  <1>3. \A q \in Seq(ResultSet) : IsFiniteSet(DOMAIN q) /\ DOMAIN q = 1 .. Len(q) /\ Len(q) \in Nat
    BY FS_Interval
  <1>4. FeesIn(<<>>, t) = 0
    <2>1. DOMAIN <<>> = {} /\ IsFiniteSet({})
      BY FS_EmptySet
    <2>2. SumFunctionOnSet(f(<<>>), {}) = 0
      BY SumEmpty
    <2> QED BY <1>1, <2>1, <2>2
  <1>5. FeesIn(s, t) \in Int
    <2>1. PICK g : g = f(s)
      OBVIOUS
    <2>2. SumFunctionOnSet(g, DOMAIN s) \in Int
      <3>1. \A i \in DOMAIN s : g[i] \in Int
        BY <1>2, <2>1
      <3> QED BY <1>3, <3>1, SumTake
    <2> QED BY <1>1, <2>1, <2>2
  <1>6. ASSUME NEW e \in ResultSet
        PROVE  FeesIn(Append(s, e), t) = FeesIn(s, t) + (IF e.token_in = t THEN e.fee ELSE 0)
    <2>1. PICK q, g, h, n : q = Append(s, e) /\ g = f(s) /\ h = f(q) /\ n = Len(s) + 1
      OBVIOUS
    <2>2. q \in Seq(ResultSet) /\ Len(q) = n /\ q[n] = e /\ \A i \in DOMAIN s : q[i] = s[i]
      BY <2>1
    <2>3. n \in DOMAIN q /\ DOMAIN q \ {n} = DOMAIN s
      <3>1. Len(s) \in Nat /\ DOMAIN s = 1 .. Len(s) /\ DOMAIN q = 1 .. n /\ n = Len(s) + 1
        BY <1>3, <2>1, <2>2
      <3> QED BY <3>1
    <2>4. \A i \in DOMAIN q : h[i] \in Int
      BY <1>2, <2>1, <2>2
    <2>5. h[n] = IF e.token_in = t THEN e.fee ELSE 0
      BY <2>1, <2>2, <2>3
    <2>6. \A i \in DOMAIN s : h[i] = g[i]
      BY <2>1, <2>2, <2>3
    <2>7. FeesIn(q, t) = SumFunctionOnSet(h, DOMAIN q) /\ FeesIn(s, t) = SumFunctionOnSet(g, DOMAIN s)
      BY <1>1, <2>1
    <2> HIDE DEF f
    <2>8. IsFiniteSet(DOMAIN q) /\ IsFiniteSet(DOMAIN s)
      BY <1>3, <2>2
    <2>9. SumFunctionOnSet(h, DOMAIN q) = h[n] + SumFunctionOnSet(h, DOMAIN q \ {n})
      BY <2>3, <2>4, <2>8, SumTake
    <2>10. SumFunctionOnSet(h, DOMAIN s) = SumFunctionOnSet(g, DOMAIN s)
      <3>1. \A i \in DOMAIN s : g[i] \in Int
        BY <2>3, <2>4, <2>6
      <3> QED BY <2>6, <2>8, <3>1, SumSame
    <2>11. FeesIn(q, t) = h[n] + FeesIn(s, t)
      BY <2>3, <2>7, <2>9, <2>10
    <2>12. h[n] \in Int
      BY <2>3, <2>4
    <2>13. FeesIn(q, t) = FeesIn(s, t) + h[n]
      BY <1>5, <2>11, <2>12
    <2> QED BY <2>1, <2>5, <2>13
  <1> QED BY <1>4, <1>5, <1>6

FeesInv == FeesAreAccounted /\ TxFees

\* Every step books a fee where a result records it.
LEMMA FeesNext ==
  ASSUME ValueInv, FeesInv, [Next]_vars
  PROVE  FeesInv'
  <1> USE DEF FeesInv
  <1>0. collected \in [Tokens -> Nat] /\ fees \in [Tokens -> Nat] /\ results \in [Batches -> Seq(ResultSet) \cup {None}]
    BY DEF ValueInv, TypeOK
  <1>1. CASE UNCHANGED <<fees, collected, results>> /\ (tx' = None \/ tx' = tx)
    BY <1>1 DEF FeesAreAccounted, TxFees
  <1>2. ASSUME NEW id \in Batches, NEW orders \in OrderLists, settle_batch(id, orders) PROVE FeesInv'
    <2>1. UNCHANGED <<fees, collected, results>> /\ tx'.fees = fees /\ tx'.results = <<>>
      BY <1>2, StartStep DEF storage
    <2>2. \A t \in Tokens : FeesIn(<<>>, t) = 0 /\ fees[t] \in Nat
      <3>1. <<>> \in Seq(ResultSet)
        OBVIOUS
      <3> QED BY <1>0, <3>1, FeesInFacts
    <2>3. \A t \in Tokens : fees[t] = fees[t] + FeesIn(<<>>, t)
      BY <2>2
    <2> QED BY <2>1, <2>3 DEF FeesAreAccounted, TxFees
  <1>3. CASE SettleOrder
    <2>1. UNCHANGED <<fees, collected, results>> /\ tx # None
      BY <1>3 DEF SettleOrder, storage
    <2>2. PICK o, r, out : Swapped(o, r, out)
      BY <1>3, SwapFacts DEF ValueInv
    <2>3. PICK e : e = ResultOf(o, out)
      OBVIOUS
    <2>4. /\ e \in ResultSet /\ tx'.results = Append(tx.results, e) /\ tx'.fees = Credit(tx.fees, o.token_in, Fee(o.amount_in))
          /\ o.token_in \in Tokens /\ o.amount_in \in Nat
      BY <2>2, <2>3, EngineAssumption DEF Swapped, OrderSet
    <2>5. e.token_in = o.token_in /\ e.fee = Fee(o.amount_in)
      BY <2>3 DEF ResultOf
    <2>6. Fee(o.amount_in) \in Nat
      BY <2>4, FeeFacts
    <2>7. tx.results \in Seq(ResultSet) /\ tx.fees \in [Tokens -> Nat]
      BY <2>1 DEF ValueInv, TxTyped, Transactions
    <2>8. ASSUME NEW t \in Tokens PROVE tx'.fees[t] = fees[t] + FeesIn(tx'.results, t)
      <3>1. FeesIn(tx.results, t) \in Int
        BY <2>7, FeesInFacts
      <3>2. FeesIn(tx'.results, t) = FeesIn(tx.results, t) + (IF e.token_in = t THEN e.fee ELSE 0)
        BY <2>4, <2>7, FeesInFacts
      <3>3. tx.fees[t] = fees[t] + FeesIn(tx.results, t) /\ fees[t] \in Nat /\ tx.fees[t] \in Nat
        BY <1>0, <2>1, <2>7 DEF TxFees
      <3>4. tx'.fees[t] = tx.fees[t] + (IF o.token_in = t THEN Fee(o.amount_in) ELSE 0)
        BY <2>4, <2>6, <2>7, <3>3 DEF Credit
      <3> QED BY <2>5, <2>6, <3>1, <3>2, <3>3, <3>4
    <2> QED BY <2>1, <2>8 DEF FeesAreAccounted, TxFees
  <1>4. CASE SettleCommit
    <2>1. /\ tx # None /\ tx' = None /\ collected' = collected /\ fees' = tx.fees
          /\ results' = [results EXCEPT ![tx.id] = tx.results]
      BY <1>4 DEF SettleCommit
    <2>2. tx.id \in Batches /\ tx.results \in Seq(ResultSet) /\ results[tx.id] = None
      BY <2>1 DEF ValueInv, TxTyped, Transactions
    <2>3. tx.results # None
      BY <2>2, EngineAssumption
    <2>4. ASSUME NEW t \in Tokens
          PROVE  fees'[t] + collected'[t] =
                   SumFunction([b \in Batches |-> IF results'[b] = None THEN 0 ELSE FeesIn(results'[b], t)])
      <3> DEFINE g == [b \in Batches |-> IF results[b] = None THEN 0 ELSE FeesIn(results[b], t)]
                 h == [b \in Batches |-> IF results'[b] = None THEN 0 ELSE FeesIn(results'[b], t)]
      <3>1. SumFunction(g) = SumFunctionOnSet(g, Batches) /\ SumFunction(h) = SumFunctionOnSet(h, Batches)
        BY DEF SumFunction, SumFunctionOnSet, FoldFunction
      <3>2. fees[t] + collected[t] = SumFunctionOnSet(g, Batches)
        BY <3>1 DEF FeesAreAccounted
      <3>3. \A b \in Batches : g[b] \in Int
        <4> SUFFICES ASSUME NEW b \in Batches, results[b] # None PROVE FeesIn(results[b], t) \in Int
          OBVIOUS
        <4>1. results[b] \in Seq(ResultSet)
          BY <1>0
        <4> QED BY <4>1, FeesInFacts
      <3>4. \A b \in Batches \ {tx.id} : h[b] = g[b]
        BY <1>0, <2>1
      <3>5. g[tx.id] = 0 /\ h[tx.id] = FeesIn(tx.results, t)
        <4>1. results'[tx.id] = tx.results
          BY <1>0, <2>1, <2>2
        <4> QED BY <2>2, <2>3, <4>1
      <3> SUFFICES fees'[t] + collected'[t] = SumFunctionOnSet(h, Batches)
        BY <3>1
      <3> HIDE DEF g, h
      <3>6. FeesIn(tx.results, t) \in Int
        BY <2>2, FeesInFacts
      <3>7. SumFunctionOnSet(h, Batches) = SumFunctionOnSet(g, Batches) - g[tx.id] + h[tx.id]
        <4>1. h[tx.id] \in Int
          BY <3>5, <3>6
        <4>2. IsFiniteSet(Batches)
          BY EngineAssumption
        <4> QED BY <2>2, <3>3, <3>4, <4>1, <4>2, SumUpdate
      <3>8. tx.fees[t] = fees[t] + FeesIn(tx.results, t) /\ fees[t] \in Nat /\ collected[t] \in Nat
        BY <1>0, <2>1 DEF TxFees
      <3> QED BY <2>1, <3>2, <3>5, <3>6, <3>7, <3>8
    <2> QED BY <2>1, <2>4 DEF FeesAreAccounted, TxFees
  <1>5. ASSUME NEW t \in Tokens, collect_fees(t) PROVE FeesInv'
    <2>1. /\ tx' = None /\ results' = results
          /\ fees' = [fees EXCEPT ![t] = 0] /\ collected' = [collected EXCEPT ![t] = @ + fees[t]]
      BY <1>5 DEF collect_fees
    <2>2. ASSUME NEW s \in Tokens PROVE fees'[s] + collected'[s] = fees[s] + collected[s]
      <3>1. collected[s] \in Nat /\ fees[s] \in Nat
        BY <1>0
      <3>2. CASE s = t
        BY <1>0, <2>1, <3>1, <3>2
      <3>3. CASE s # t
        BY <1>0, <2>1, <3>3
      <3> QED BY <3>2, <3>3
    <2> QED BY <2>1, <2>2 DEF FeesAreAccounted, TxFees
  <1>6. CASE UNCHANGED vars
    BY <1>1, <1>6 DEF vars, storage
  <1>7. CASE initialize
    BY <1>1, <1>7 DEF initialize, storage
  <1>8. ASSUME NEW u \in Users, NEW pair \in Pairs,
               \/ \E x \in Amounts(u, pair[1]), y \in Amounts(u, pair[2]) : add_liquidity(u, pair[1], pair[2], x, y)
               \/ \E lp \in Burns(u, pool_key(pair[1], pair[2])) : remove_liquidity(u, pair[1], pair[2], lp)
        PROVE  FeesInv'
    <2>1. UNCHANGED <<fees, collected, results>> /\ tx' = tx
      BY <1>8 DEF add_liquidity, remove_liquidity
    <2> QED BY <1>1, <2>1
  <1>9. CASE SettleRevert
    BY <1>1, <1>9 DEF SettleRevert, storage
  <1> QED BY <1>2, <1>3, <1>4, <1>5, <1>6, <1>7, <1>8, <1>9 DEF Next

\* Fees booked or paid out are the fees in the recorded results: a settle_batch that
\* reverts leaves none behind, one that commits books each order's fee once, and
\* collect_fees pays none twice.
THEOREM FeesStayAccounted == Spec => []FeesAreAccounted
  <1>1. Init => FeesInv
    <2> SUFFICES ASSUME Init, NEW t \in Tokens
                 PROVE  fees[t] + collected[t] =
                          SumFunction([b \in Batches |-> IF results[b] = None THEN 0 ELSE FeesIn(results[b], t)])
      BY DEF FeesInv, FeesAreAccounted, TxFees, Init
    <2> DEFINE g == [b \in Batches |-> IF results[b] = None THEN 0 ELSE FeesIn(results[b], t)]
    <2>1. \A b \in Batches : g[b] = 0
      BY DEF Init
    <2>2. SumFunction(g) = SumFunctionOnSet(g, Batches)
      BY DEF SumFunction, SumFunctionOnSet, FoldFunction
    <2>3. fees[t] + collected[t] = 0
      BY DEF Init
    <2> SUFFICES SumFunctionOnSet(g, Batches) = 0
      BY <2>2, <2>3
    <2> HIDE DEF g
    <2> QED BY <2>1, EngineAssumption, SumZero
  <1>2. ValueInv /\ FeesInv /\ [Next]_vars => FeesInv'
    BY FeesNext
  <1>3. FeesInv => FeesAreAccounted
    BY DEF FeesInv
  <1> QED BY AlwaysValue, <1>1, <1>2, <1>3, PTL DEF Spec
=============================================================================
