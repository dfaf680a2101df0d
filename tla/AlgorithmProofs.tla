---------------------------- MODULE AlgorithmProofs ----------------------------
(***************************************************************************)
(* Proofs of the algorithms against the reference definitions of           *)
(* MCAlgorithms, for all inputs: the contract's arithmetic, the arithmetic *)
(* of key generation and threshold decryption for every prime order, every *)
(* set of participants and every threshold, and the form's conversions.    *)
(***************************************************************************)
EXTENDS MCAlgorithms, EngineMathProofs, TLAPS

--------------------------------------------------------------------------------
(* Arithmetic mod L.  Terms are compared by Cong, and taken mod L at the end.   *)

Cong(a, b) == \E q \in Int : a = b + q * L

\* The group has at least two elements.
LEMMA GroupOrder == L \in Int /\ L > 1 /\ L > 0
  BY PrimeOrder

\* Division with remainder.
LEMMA DivMod ==
  ASSUME NEW a \in Int, NEW M \in Int, M > 0
  PROVE  a = M * (a \div M) + (a % M) /\ a \div M \in Int /\ a % M \in 0 .. M - 1
  OBVIOUS

\* A remainder differs from the number by a multiple.
LEMMA Remainder ==
  ASSUME NEW a \in Int, NEW M \in Int, M > 0
  PROVE  a % M \in 0 .. M - 1 /\ a % M \in Int /\ \E q \in Int : a % M = a + q * M
  <1>1. a % M = a + (-(a \div M)) * M /\ -(a \div M) \in Int
    BY DivMod
  <1> QED BY <1>1, DivMod

\* mod keeps a number up to congruence.
LEMMA ModFacts == ASSUME NEW a \in Int PROVE mod(a) \in 0 .. L - 1 /\ mod(a) \in Int /\ Cong(mod(a), a)
  BY GroupOrder, Remainder, Zenon DEF mod, Cong

\* Congruent numbers below L are equal.
LEMMA CongEqual == ASSUME NEW a \in 0 .. L - 1, NEW b \in 0 .. L - 1, Cong(a, b) PROVE a = b
  <1>1. PICK q \in Int : a = b + q * L
    BY DEF Cong
  <1>2. L \in Nat /\ a \in Int /\ b \in Int /\ a < L /\ b < L /\ a >= 0 /\ b >= 0
    BY GroupOrder
  <1>3. ~(q >= 1)
    <2> SUFFICES ASSUME q >= 1 PROVE FALSE
      OBVIOUS
    <2>1. q * L >= L
      BY <1>2
    <2> QED BY <2>1, <1>1, <1>2
  <1>4. ~(q <= -1)
    <2> SUFFICES ASSUME q <= -1 PROVE FALSE
      OBVIOUS
    <2>1. q * L <= -L
      BY <1>2
    <2> QED BY <2>1, <1>1, <1>2
  <1>5. q = 0
    BY <1>3, <1>4
  <1> QED BY <1>5, <1>1, <1>2

\* Congruence is reflexive.
LEMMA CongRefl == ASSUME NEW a \in Int PROVE Cong(a, a)
  <1>1. a = a + 0 * L
    BY GroupOrder
  <1> QED BY <1>1 DEF Cong

\* Congruence is symmetric.
LEMMA CongSym == ASSUME NEW a \in Int, NEW b \in Int, Cong(a, b) PROVE Cong(b, a)
  <1>1. PICK q \in Int : a = b + q * L
    BY DEF Cong
  <1>2. b = a + (-q) * L /\ -q \in Int
    BY <1>1, GroupOrder
  <1> QED BY <1>2 DEF Cong

\* Congruence is transitive.
LEMMA CongTrans == ASSUME NEW a \in Int, NEW b \in Int, NEW c \in Int, Cong(a, b), Cong(b, c) PROVE Cong(a, c)
  <1>1. PICK p \in Int : a = b + p * L
    BY DEF Cong
  <1>2. PICK q \in Int : b = c + q * L
    BY DEF Cong
  <1>3. a = c + (p + q) * L /\ p + q \in Int
    BY <1>1, <1>2, GroupOrder
  <1> QED BY <1>3 DEF Cong

\* Sums, differences and products of congruent numbers are congruent.
LEMMA CongOps ==
  ASSUME NEW a \in Int, NEW b \in Int, NEW c \in Int, NEW d \in Int, Cong(a, b), Cong(c, d)
  PROVE  Cong(a + c, b + d) /\ Cong(a - c, b - d) /\ Cong(a * c, b * d)
  <1>1. PICK p \in Int : a = b + p * L
    BY DEF Cong
  <1>2. PICK q \in Int : c = d + q * L
    BY DEF Cong
  <1>3. a + c = b + d + (p + q) * L /\ p + q \in Int
    BY <1>1, <1>2, GroupOrder
  <1>4. a - c = b - d + (p - q) * L /\ p - q \in Int
    BY <1>1, <1>2, GroupOrder
  <1>5. a * c = b * d + (b * q + p * d + p * q * L) * L /\ b * q + p * d + p * q * L \in Int
    BY <1>1, <1>2, GroupOrder
  <1> QED BY <1>3, <1>4, <1>5 DEF Cong

\* Numbers are congruent just when they are the same mod L.
LEMMA ModSame == ASSUME NEW a \in Int, NEW b \in Int PROVE Cong(a, b) <=> mod(a) = mod(b)
  <1>1. Cong(mod(a), a) /\ Cong(mod(b), b) /\ mod(a) \in Int /\ mod(b) \in Int
    BY ModFacts
  <1>2. Cong(a, mod(a)) /\ Cong(b, mod(b))
    BY <1>1, CongSym
  <1>3. ASSUME Cong(a, b) PROVE mod(a) = mod(b)
    <2>1. Cong(mod(a), mod(b))
      BY <1>1, <1>2, <1>3, CongTrans
    <2> QED BY <2>1, ModFacts, CongEqual
  <1>4. ASSUME mod(a) = mod(b) PROVE Cong(a, b)
    BY <1>1, <1>2, <1>4, CongTrans
  <1> QED BY <1>3, <1>4

\* A number below L is its own remainder.
LEMMA ModSmall == ASSUME NEW a \in 0 .. L - 1 PROVE mod(a) = a
  <1>1. a \in Int /\ mod(a) \in 0 .. L - 1 /\ Cong(mod(a), a)
    BY ModFacts, GroupOrder
  <1> QED BY <1>1, CongEqual

\* A product of two numbers that are not zero mod L is not zero mod L: the least
\* number that has a product of zero with b would leave a remainder that is less
\* and has one too.
LEMMA NoZeroProduct ==
  ASSUME NEW a \in Scalar, NEW b \in Scalar
  PROVE  ~Cong(a * b, 0)
  <1> DEFINE T == {k \in Scalar : Cong(k * b, 0)}
  <1> SUFFICES ASSUME T # {} PROVE FALSE
    OBVIOUS
  <1>0. T \subseteq Nat /\ b \in Int /\ L \in Nat
    BY GroupOrder DEF Scalar
  <1>1. PICK k \in T : \A y \in T : k <= y
    <2> HIDE DEF T
    <2> QED BY <1>0, LeastNat
  <1>2. k \in Int /\ k > 0 /\ k < L
    BY GroupOrder DEF Scalar
  <1>3. k # 1
    <2> SUFFICES ASSUME k = 1 PROVE FALSE
      OBVIOUS
    <2>1. Cong(b, 0)
      <3>1. 1 * b = b
        BY <1>0
      <3> QED BY <3>1, <1>1
    <2>2. b \in 0 .. L - 1 /\ 0 \in 0 .. L - 1
      BY GroupOrder DEF Scalar
    <2>3. b = 0
      BY <2>1, <2>2, CongEqual
    <2> QED BY <2>3 DEF Scalar
  <1>4. PICK q, s : q \in Int /\ s \in 0 .. k - 1 /\ s = L % k /\ L = k * q + s
    <2>1. L \in Int /\ k \in Int /\ k > 0
      BY <1>2, GroupOrder
    <2>2. L = k * (L \div k) + (L % k) /\ L \div k \in Int /\ L % k \in 0 .. k - 1
      BY <2>1, DivMod, Zenon
    <2> QED BY <2>2, Zenon
  <1>5. s # 0
    BY <1>2, <1>3, <1>4, PrimeOrder
  <1>6. Cong(s * b, 0)
    <2>1. PICK p \in Int : k * b = 0 + p * L
      BY <1>1 DEF Cong
    <2>2. s = L - k * q /\ s \in Int
      BY <1>0, <1>2, <1>4
    <2>3. s * b = L * b - q * (k * b)
      BY <1>0, <1>2, <1>4, <2>2
    <2>4. s * b = L * b - q * (p * L)
      BY <2>1, <2>3, <1>0, <1>4
    <2>5. s * b = 0 + (b - q * p) * L /\ b - q * p \in Int
      BY <2>4, <1>0, <1>4
    <2> QED BY <2>5 DEF Cong
  <1>7. s \in T /\ s < k
    BY <1>2, <1>4, <1>5, <1>6, GroupOrder DEF Scalar
  <1> QED BY <1>1, <1>2, <1>4, <1>7

\* What is not zero mod L can be cancelled.
LEMMA Cancel ==
  ASSUME NEW a \in Int, ~Cong(a, 0), NEW b \in Int, NEW c \in Int, Cong(a * b, a * c)
  PROVE  Cong(b, c)
  <1> DEFINE u == mod(a)
             w == mod(b - c)
  <1>0. b - c \in Int
    OBVIOUS
  <1>1. u \in 0 .. L - 1 /\ u \in Int /\ Cong(u, a) /\ w \in 0 .. L - 1 /\ w \in Int /\ Cong(w, b - c)
    BY <1>0, ModFacts
  <1>2. u # 0
    BY <1>1, CongSym
  <1>3. SUFFICES w = 0
    <2>1. Cong(b - c, 0)
      BY <1>0, <1>1, CongSym
    <2>2. Cong((b - c) + c, 0 + c)
      BY <1>0, <2>1, CongRefl, CongOps
    <2>3. (b - c) + c = b /\ 0 + c = c
      OBVIOUS
    <2> QED BY <2>2, <2>3
  <1>4. Cong(a * (b - c), 0)
    <2>1. a * b \in Int /\ a * c \in Int
      OBVIOUS
    <2>2. Cong(a * b - a * c, a * c - a * c)
      BY <2>1, CongRefl, CongOps
    <2>3. a * b - a * c = a * (b - c) /\ a * c - a * c = 0
      OBVIOUS
    <2> QED BY <2>2, <2>3
  <1>5. Cong(u * w, 0)
    <2>1. Cong(u * w, a * (b - c))
      BY <1>0, <1>1, CongOps
    <2>2. u * w \in Int /\ a * (b - c) \in Int
      BY <1>0, <1>1
    <2> QED BY <1>4, <2>1, <2>2, CongTrans
  <1> HIDE DEF u, w
  <1> QED BY <1>1, <1>2, <1>5, NoZeroProduct, GroupOrder DEF Scalar

--------------------------------------------------------------------------------
(* Sums and products mod L, as threshold.ts and dkg.ts compute them.           *)

Residue == 0 .. L - 1
Pluses(g) == [x \in DOMAIN g |-> [v \in Residue |-> mod(v + g[x])]]
Timeses(g) == [x \in DOMAIN g |-> [v \in Residue |-> mod(v * g[x])]]
Part(g, S) == [x \in S |-> g[x]]

\* Adding and multiplying mod L commute.
LEMMA ModCommutes ==
  ASSUME NEW v \in Int, NEW a \in Int, NEW b \in Int
  PROVE  mod(mod(v + a) + b) = mod(mod(v + b) + a) /\ mod(mod(v * a) * b) = mod(mod(v * b) * a)
  <1>1. v + a \in Int /\ v + b \in Int /\ v * a \in Int /\ v * b \in Int
    OBVIOUS
  <1>2. /\ Cong(mod(v + a) + b, (v + a) + b) /\ Cong(mod(v + b) + a, (v + b) + a)
        /\ Cong(mod(v * a) * b, (v * a) * b) /\ Cong(mod(v * b) * a, (v * b) * a)
    BY <1>1, ModFacts, CongRefl, CongOps
  <1>3. (v + a) + b = (v + b) + a /\ (v * a) * b = (v * b) * a
    OBVIOUS
  <1>4. /\ mod(v + a) + b \in Int /\ (v + a) + b \in Int /\ mod(v + b) + a \in Int
        /\ mod(v * a) * b \in Int /\ (v * a) * b \in Int /\ mod(v * b) * a \in Int
    BY <1>1, ModFacts
  <1>5. mod(mod(v + a) + b) = mod((v + a) + b) /\ mod(mod(v + b) + a) = mod((v + a) + b)
    BY <1>2, <1>3, <1>4, ModSame
  <1>6. mod(mod(v * a) * b) = mod((v * a) * b) /\ mod(mod(v * b) * a) = mod((v * a) * b)
    BY <1>2, <1>3, <1>4, ModSame
  <1> QED BY <1>5, <1>6

\* What the steps of the sum and of the product do.
LEMMA StepFacts ==
  ASSUME NEW g, \A x \in DOMAIN g : g[x] \in Int
  PROVE  /\ \A x \in DOMAIN g, v \in Residue : Pluses(g)[x][v] = mod(v + g[x]) /\ Timeses(g)[x][v] = mod(v * g[x])
         /\ Closed(Pluses(g), Residue, DOMAIN g) /\ Commuting(Pluses(g), Residue, DOMAIN g)
         /\ Closed(Timeses(g), Residue, DOMAIN g) /\ Commuting(Timeses(g), Residue, DOMAIN g)
  <1>1. \A x \in DOMAIN g, v \in Residue : Pluses(g)[x][v] = mod(v + g[x]) /\ Timeses(g)[x][v] = mod(v * g[x])
    BY DEF Pluses, Timeses
  <1>2. \A v \in Residue : v \in Int
    BY GroupOrder DEF Residue
  <1>3. \A x \in DOMAIN g, v \in Residue : mod(v + g[x]) \in Residue /\ mod(v * g[x]) \in Residue
    <2> SUFFICES ASSUME NEW x \in DOMAIN g, NEW v \in Residue PROVE mod(v + g[x]) \in Residue /\ mod(v * g[x]) \in Residue
      OBVIOUS
    <2>1. v + g[x] \in Int /\ v * g[x] \in Int
      BY <1>2
    <2> QED BY <2>1, ModFacts DEF Residue
  <1>4. \A x, y \in DOMAIN g, v \in Residue :
          mod(mod(v + g[y]) + g[x]) = mod(mod(v + g[x]) + g[y]) /\ mod(mod(v * g[y]) * g[x]) = mod(mod(v * g[x]) * g[y])
    BY <1>2, ModCommutes
  <1> HIDE DEF Residue
  <1>5. Closed(Pluses(g), Residue, DOMAIN g) /\ Closed(Timeses(g), Residue, DOMAIN g)
    BY <1>1, <1>3 DEF Closed
  <1>6. Commuting(Pluses(g), Residue, DOMAIN g)
    BY <1>1, <1>3, <1>4 DEF Commuting
  <1>7. Commuting(Timeses(g), Residue, DOMAIN g)
    BY <1>1, <1>3, <1>4 DEF Commuting
  <1> QED BY <1>1, <1>5, <1>6, <1>7

\* SumOver is a fold.
LEMMA SumOverIsFold ==
  ASSUME NEW g, IsFiniteSet(DOMAIN g), \A x \in DOMAIN g : g[x] \in Int
  PROVE  SumOver(g) = FoldOf(Pluses(g), 0, DOMAIN g)
  <1> DEFINE S == DOMAIN g
             h == Pluses(g)
             Body(it) == [s \in SUBSET S |-> IF s = {} THEN 0 ELSE mod(it[s \ {Pick(s)}] + g[Pick(s)])]
             iter == CHOOSE iter : iter = Body(iter)
  <1>0. 0 \in Residue /\ Closed(h, Residue, S)
    BY GroupOrder, StepFacts DEF Residue
  <1>1. \A x \in S, v \in Residue : h[x][v] = mod(v + g[x])
    BY StepFacts
  <1>2. SumOver(g) = iter[S]
    BY DEF SumOver, FoldFunction, FoldFunctionOnSet, MapThenFoldSet, Pick
  <1> HIDE DEF h
  <1>3. PICK it : Solves(it, h, 0, S) /\ \A s \in SUBSET S : it[s] \in Residue
    BY <1>0, WalkTyped
  <1>4. it = Body(it)
    <2>1. \A s \in SUBSET S : s # {} => h[Pick(s)][it[s \ {Pick(s)}]] = mod(it[s \ {Pick(s)}] + g[Pick(s)])
      BY <1>1, <1>3, PickIn
    <2>2. Walk(it, h, 0, SUBSET S) = Body(it)
      BY <2>1 DEF Walk
    <2> QED BY <1>3, <2>2 DEF Solves
  <1>5. iter = Body(iter)
    <2> HIDE DEF Body
    <2> QED BY <1>4
  <1>6. \A s \in SUBSET S : iter[s] = IF s = {} THEN 0 ELSE mod(iter[s \ {Pick(s)}] + g[Pick(s)])
    <2> HIDE DEF iter
    <2> QED BY <1>5
  <1> HIDE DEF iter
  <1>7. iter[{}] = 0 /\ \A s \in SUBSET S : s # {} /\ iter[s \ {Pick(s)}] \in Residue => iter[s] = h[Pick(s)][iter[s \ {Pick(s)}]]
    BY <1>1, <1>6, PickIn
  <1>8. iter[S] = FoldOf(h, 0, S)
    BY <1>0, <1>7, FoldIs
  <1> QED BY <1>2, <1>8 DEF h

\* ProductOver is a fold.
LEMMA ProductOverIsFold ==
  ASSUME NEW g, IsFiniteSet(DOMAIN g), \A x \in DOMAIN g : g[x] \in Int
  PROVE  ProductOver(g) = FoldOf(Timeses(g), 1, DOMAIN g)
  <1> DEFINE S == DOMAIN g
             h == Timeses(g)
             Body(it) == [s \in SUBSET S |-> IF s = {} THEN 1 ELSE mod(it[s \ {Pick(s)}] * g[Pick(s)])]
             iter == CHOOSE iter : iter = Body(iter)
  <1>0. 1 \in Residue /\ Closed(h, Residue, S)
    BY GroupOrder, StepFacts DEF Residue
  <1>1. \A x \in S, v \in Residue : h[x][v] = mod(v * g[x])
    BY StepFacts
  <1>2. ProductOver(g) = iter[S]
    BY DEF ProductOver, FoldFunction, FoldFunctionOnSet, MapThenFoldSet, Pick
  <1> HIDE DEF h
  <1>3. PICK it : Solves(it, h, 1, S) /\ \A s \in SUBSET S : it[s] \in Residue
    BY <1>0, WalkTyped
  <1>4. it = Body(it)
    <2>1. \A s \in SUBSET S : s # {} => h[Pick(s)][it[s \ {Pick(s)}]] = mod(it[s \ {Pick(s)}] * g[Pick(s)])
      BY <1>1, <1>3, PickIn
    <2>2. Walk(it, h, 1, SUBSET S) = Body(it)
      BY <2>1 DEF Walk
    <2> QED BY <1>3, <2>2 DEF Solves
  <1>5. iter = Body(iter)
    <2> HIDE DEF Body
    <2> QED BY <1>4
  <1>6. \A s \in SUBSET S : iter[s] = IF s = {} THEN 1 ELSE mod(iter[s \ {Pick(s)}] * g[Pick(s)])
    <2> HIDE DEF iter
    <2> QED BY <1>5
  <1> HIDE DEF iter
  <1>7. iter[{}] = 1 /\ \A s \in SUBSET S : s # {} /\ iter[s \ {Pick(s)}] \in Residue => iter[s] = h[Pick(s)][iter[s \ {Pick(s)}]]
    BY <1>1, <1>6, PickIn
  <1>8. iter[S] = FoldOf(h, 1, S)
    BY <1>0, <1>7, FoldIs
  <1> QED BY <1>2, <1>8 DEF h

\* The sum is a residue and any term may be added last.
LEMMA SumOverTake ==
  ASSUME NEW g, IsFiniteSet(DOMAIN g), \A x \in DOMAIN g : g[x] \in Int
  PROVE  /\ SumOver(g) \in Residue /\ SumOver(g) \in Int
         /\ DOMAIN g = {} => SumOver(g) = 0
         /\ \A a \in DOMAIN g : SumOver(g) = mod(SumOver(Part(g, DOMAIN g \ {a})) + g[a])
  <1> DEFINE S == DOMAIN g
             h == Pluses(g)
  <1>0. /\ 0 \in Residue /\ Closed(h, Residue, S) /\ Commuting(h, Residue, S)
        /\ \A x \in S, v \in Residue : h[x][v] = mod(v + g[x])
    BY GroupOrder, StepFacts DEF Residue
  <1>1. SumOver(g) = FoldOf(h, 0, S)
    BY SumOverIsFold
  <1>2. SumOver(g) \in Residue
    <2> HIDE DEF h
    <2> QED BY <1>0, <1>1, FoldType
  <1>3. ASSUME NEW a \in S PROVE SumOver(g) = mod(SumOver(Part(g, S \ {a})) + g[a])
    <2>1. PICK k : k = Part(g, S \ {a})
      OBVIOUS
    <2>2. DOMAIN k = S \ {a} /\ IsFiniteSet(S \ {a}) /\ \A x \in S \ {a} : k[x] = g[x] /\ k[x] \in Int
      BY <2>1, FS_Subset DEF Part
    <2>3. SumOver(k) = FoldOf(Pluses(k), 0, S \ {a})
      BY <2>2, SumOverIsFold
    <2>4. \A x \in S \ {a} : Pluses(k)[x] = h[x]
      BY <2>2 DEF Pluses
    <2> HIDE DEF h
    <2>5. FoldOf(Pluses(k), 0, S \ {a}) = FoldOf(h, 0, S \ {a})
      BY <2>2, <2>4, FoldSame
    <2>6. FoldOf(h, 0, S \ {a}) \in Residue
      <3>1. Closed(h, Residue, S \ {a})
        BY <1>0 DEF Closed
      <3> QED BY <1>0, <2>2, <3>1, FoldType
    <2>7. FoldOf(h, 0, S) = h[a][FoldOf(h, 0, S \ {a})]
      BY <1>0, FoldTake
    <2> QED BY <1>0, <1>1, <2>1, <2>3, <2>5, <2>6, <2>7
  <1> HIDE DEF h
  <1> QED BY <1>1, <1>2, <1>3, FoldEmpty, GroupOrder DEF Residue

\* The product is a residue and any factor may be multiplied last.
LEMMA ProductOverTake ==
  ASSUME NEW g, IsFiniteSet(DOMAIN g), \A x \in DOMAIN g : g[x] \in Int
  PROVE  /\ ProductOver(g) \in Residue /\ ProductOver(g) \in Int
         /\ DOMAIN g = {} => ProductOver(g) = 1
         /\ \A a \in DOMAIN g : ProductOver(g) = mod(ProductOver(Part(g, DOMAIN g \ {a})) * g[a])
  <1> DEFINE S == DOMAIN g
             h == Timeses(g)
  <1>0. /\ 1 \in Residue /\ Closed(h, Residue, S) /\ Commuting(h, Residue, S)
        /\ \A x \in S, v \in Residue : h[x][v] = mod(v * g[x])
    BY GroupOrder, StepFacts DEF Residue
  <1>1. ProductOver(g) = FoldOf(h, 1, S)
    BY ProductOverIsFold
  <1>2. ProductOver(g) \in Residue
    <2> HIDE DEF h
    <2> QED BY <1>0, <1>1, FoldType
  <1>3. ASSUME NEW a \in S PROVE ProductOver(g) = mod(ProductOver(Part(g, S \ {a})) * g[a])
    <2>1. PICK k : k = Part(g, S \ {a})
      OBVIOUS
    <2>2. DOMAIN k = S \ {a} /\ IsFiniteSet(S \ {a}) /\ \A x \in S \ {a} : k[x] = g[x] /\ k[x] \in Int
      BY <2>1, FS_Subset DEF Part
    <2>3. ProductOver(k) = FoldOf(Timeses(k), 1, S \ {a})
      BY <2>2, ProductOverIsFold
    <2>4. \A x \in S \ {a} : Timeses(k)[x] = h[x]
      BY <2>2 DEF Timeses
    <2> HIDE DEF h
    <2>5. FoldOf(Timeses(k), 1, S \ {a}) = FoldOf(h, 1, S \ {a})
      BY <2>2, <2>4, FoldSame
    <2>6. FoldOf(h, 1, S \ {a}) \in Residue
      <3>1. Closed(h, Residue, S \ {a})
        BY <1>0 DEF Closed
      <3> QED BY <1>0, <2>2, <3>1, FoldType
    <2>7. FoldOf(h, 1, S) = h[a][FoldOf(h, 1, S \ {a})]
      BY <1>0, FoldTake
    <2> QED BY <1>0, <1>1, <2>1, <2>3, <2>5, <2>6, <2>7
  <1> HIDE DEF h
  <1> QED BY <1>1, <1>2, <1>3, FoldEmpty, GroupOrder DEF Residue

\* The sum over a set, by its subset with one element less.
LEMMA SumPart ==
  ASSUME NEW g, NEW S, IsFiniteSet(S), \A x \in S : g[x] \in Int
  PROVE  /\ SumOver(Part(g, S)) \in Residue /\ SumOver(Part(g, S)) \in Int
         /\ S = {} => SumOver(Part(g, S)) = 0
         /\ \A a \in S : SumOver(Part(g, S)) = mod(SumOver(Part(g, S \ {a})) + g[a])
  <1>0. PICK k : k = Part(g, S)
    OBVIOUS
  <1>1. DOMAIN k = S /\ \A x \in S : k[x] = g[x] /\ k[x] \in Int
    BY <1>0 DEF Part
  <1>2. /\ SumOver(k) \in Residue /\ SumOver(k) \in Int
        /\ S = {} => SumOver(k) = 0
        /\ \A a \in S : SumOver(k) = mod(SumOver(Part(k, S \ {a})) + k[a])
    BY <1>1, SumOverTake
  <1>3. \A a \in S : Part(k, S \ {a}) = Part(g, S \ {a})
    BY <1>0 DEF Part
  <1> QED BY <1>0, <1>1, <1>2, <1>3

\* The product over a set, by its subset with one element less.
LEMMA ProductPart ==
  ASSUME NEW g, NEW S, IsFiniteSet(S), \A x \in S : g[x] \in Int
  PROVE  /\ ProductOver(Part(g, S)) \in Residue /\ ProductOver(Part(g, S)) \in Int
         /\ S = {} => ProductOver(Part(g, S)) = 1
         /\ \A a \in S : ProductOver(Part(g, S)) = mod(ProductOver(Part(g, S \ {a})) * g[a])
  <1>0. PICK k : k = Part(g, S)
    OBVIOUS
  <1>1. DOMAIN k = S /\ \A x \in S : k[x] = g[x] /\ k[x] \in Int
    BY <1>0 DEF Part
  <1>2. /\ ProductOver(k) \in Residue /\ ProductOver(k) \in Int
        /\ S = {} => ProductOver(k) = 1
        /\ \A a \in S : ProductOver(k) = mod(ProductOver(Part(k, S \ {a})) * k[a])
    BY <1>1, ProductOverTake
  <1>3. \A a \in S : Part(k, S \ {a}) = Part(g, S \ {a})
    BY <1>0 DEF Part
  <1> QED BY <1>0, <1>1, <1>2, <1>3

\* A term more on both sides of a linear relation.
LEMMA LinearStep ==
  ASSUME NEW u \in Int, NEW w \in Int, NEW s \in Int, NEW p \in Int, NEW q \in Int,
         NEW x \in Int, NEW y \in Int, NEW z \in Int,
         Cong(s, u * p + w * q), Cong(x, u * y + w * z)
  PROVE  Cong(mod(s + x), u * mod(p + y) + w * mod(q + z))
  <1>1. /\ s + x \in Int /\ p + y \in Int /\ q + z \in Int /\ u * p + w * q \in Int /\ u * y + w * z \in Int
        /\ u * (p + y) \in Int /\ w * (q + z) \in Int
    OBVIOUS
  <1>2. /\ mod(s + x) \in Int /\ mod(p + y) \in Int /\ mod(q + z) \in Int
        /\ Cong(mod(s + x), s + x) /\ Cong(mod(p + y), p + y) /\ Cong(mod(q + z), q + z)
    BY <1>1, ModFacts
  <1>3. u * mod(p + y) \in Int /\ w * mod(q + z) \in Int
    BY <1>2
  <1>4. Cong(u * mod(p + y), u * (p + y)) /\ Cong(w * mod(q + z), w * (q + z))
    BY <1>1, <1>2, CongRefl, CongOps
  <1>5. Cong(u * mod(p + y) + w * mod(q + z), u * (p + y) + w * (q + z))
    BY <1>1, <1>3, <1>4, CongOps
  <1>6. Cong(s + x, (u * p + w * q) + (u * y + w * z))
    BY <1>1, CongOps
  <1>7. (u * p + w * q) + (u * y + w * z) = u * (p + y) + w * (q + z)
    OBVIOUS
  <1>8. Cong(mod(s + x), u * (p + y) + w * (q + z))
    BY <1>1, <1>2, <1>6, <1>7, CongTrans
  <1>9. u * mod(p + y) + w * mod(q + z) \in Int /\ u * (p + y) + w * (q + z) \in Int
    BY <1>1, <1>3
  <1>10. Cong(u * (p + y) + w * (q + z), u * mod(p + y) + w * mod(q + z))
    BY <1>5, <1>9, CongSym
  <1> QED BY <1>2, <1>8, <1>9, <1>10, CongTrans

\* Sums mod L are linear.
LEMMA SumLinear ==
  ASSUME NEW S, IsFiniteSet(S), NEW u \in Int, NEW w \in Int, NEW g, NEW a, NEW b,
         \A x \in S : g[x] \in Int /\ a[x] \in Int /\ b[x] \in Int /\ Cong(g[x], u * a[x] + w * b[x])
  PROVE  Cong(SumOver(Part(g, S)), u * SumOver(Part(a, S)) + w * SumOver(Part(b, S)))
  <1> DEFINE Good(s) == Cong(SumOver(Part(g, s)), u * SumOver(Part(a, s)) + w * SumOver(Part(b, s)))
             B == {s \in SUBSET S : ~Good(s)}
  <1>0. \A s \in SUBSET S : /\ IsFiniteSet(s) /\ \A x \in s : g[x] \in Int /\ a[x] \in Int /\ b[x] \in Int
    BY FS_Subset
  <1>1. Good({})
    <2>1. IsFiniteSet({})
      BY FS_EmptySet
    <2>2. SumOver(Part(g, {})) = 0 /\ SumOver(Part(a, {})) = 0 /\ SumOver(Part(b, {})) = 0
      BY <2>1, SumPart
    <2>3. u * 0 + w * 0 = 0
      OBVIOUS
    <2> QED BY <2>2, <2>3, CongRefl
  <1>2. ASSUME NEW s \in SUBSET S, NEW x \in s, Good(s \ {x}) PROVE Good(s)
    <2>1. /\ SumOver(Part(g, s)) = mod(SumOver(Part(g, s \ {x})) + g[x])
          /\ SumOver(Part(a, s)) = mod(SumOver(Part(a, s \ {x})) + a[x])
          /\ SumOver(Part(b, s)) = mod(SumOver(Part(b, s \ {x})) + b[x])
      BY <1>0, SumPart
    <2>2. IsFiniteSet(s \ {x}) /\ \A y \in s \ {x} : g[y] \in Int /\ a[y] \in Int /\ b[y] \in Int
      BY <1>0
    <2>3. PICK i, j, k \in Int :
            i = SumOver(Part(g, s \ {x})) /\ j = SumOver(Part(a, s \ {x})) /\ k = SumOver(Part(b, s \ {x}))
      BY <2>2, SumPart
    <2>4. g[x] \in Int /\ a[x] \in Int /\ b[x] \in Int /\ Cong(g[x], u * a[x] + w * b[x])
      OBVIOUS
    <2>5. Cong(mod(i + g[x]), u * mod(j + a[x]) + w * mod(k + b[x]))
      BY <1>2, <2>3, <2>4, LinearStep
    <2> QED BY <2>1, <2>3, <2>5
  <1> HIDE DEF Good
  <1>3. ASSUME NEW s \in B PROVE s # {} /\ \E x \in s : s \ {x} \in B
    BY <1>1, <1>2
  <1>4. B = {}
    BY <1>3, NoSmallest
  <1> QED BY <1>4 DEF Good

\* Congruent terms have the same sum.
LEMMA SumCong ==
  ASSUME NEW S, IsFiniteSet(S), NEW g, NEW a, \A x \in S : g[x] \in Int /\ a[x] \in Int /\ Cong(g[x], a[x])
  PROVE  SumOver(Part(g, S)) = SumOver(Part(a, S))
  <1>1. \A x \in S : 1 * a[x] + 0 * a[x] = a[x]
    OBVIOUS
  <1>2. SumOver(Part(g, S)) \in Residue /\ SumOver(Part(a, S)) \in Residue /\ SumOver(Part(a, S)) \in Int
    BY SumPart
  <1>3. Cong(SumOver(Part(g, S)), 1 * SumOver(Part(a, S)) + 0 * SumOver(Part(a, S)))
    BY <1>1, SumLinear
  <1>4. 1 * SumOver(Part(a, S)) + 0 * SumOver(Part(a, S)) = SumOver(Part(a, S))
    BY <1>2
  <1> QED BY <1>2, <1>3, <1>4, CongEqual DEF Residue

\* A product of factors that are not zero is not zero.
LEMMA ProductNotZero ==
  ASSUME NEW S, IsFiniteSet(S), NEW g, \A x \in S : g[x] \in Int /\ ~Cong(g[x], 0)
  PROVE  ~Cong(ProductOver(Part(g, S)), 0)
  <1> DEFINE Bad(s) == Cong(ProductOver(Part(g, s)), 0)
             B == {s \in SUBSET S : Bad(s)}
  <1>1. ~Bad({})
    <2>1. ProductOver(Part(g, {})) = 1
      BY FS_EmptySet, ProductPart
    <2>2. 1 \in 0 .. L - 1 /\ 0 \in 0 .. L - 1
      BY GroupOrder
    <2> QED BY <2>1, <2>2, CongEqual
  <1>2. ASSUME NEW s \in SUBSET S, NEW x \in s, Bad(s) PROVE Bad(s \ {x})
    <2>1. IsFiniteSet(s) /\ IsFiniteSet(s \ {x})
      BY FS_Subset
    <2>2. PICK p \in Int : p = ProductOver(Part(g, s \ {x})) /\ ProductOver(Part(g, s)) = mod(p * g[x])
      BY <2>1, ProductPart
    <2>3. g[x] \in Int /\ p * g[x] \in Int /\ g[x] * p \in Int /\ g[x] * p = p * g[x] /\ g[x] * 0 = 0
      OBVIOUS
    <2>4. Cong(mod(p * g[x]), p * g[x]) /\ mod(p * g[x]) \in Int
      BY <2>3, ModFacts
    <2>5. Cong(g[x] * p, g[x] * 0)
      <3>1. Cong(p * g[x], mod(p * g[x]))
        BY <2>3, <2>4, CongSym
      <3>2. Cong(p * g[x], 0)
        BY <1>2, <2>2, <2>3, <2>4, <3>1, CongTrans
      <3> QED BY <2>3, <3>2
    <2>6. Cong(p, 0)
      BY <2>3, <2>5, Cancel
    <2> QED BY <2>2, <2>6
  <1> HIDE DEF Bad
  <1>3. ASSUME NEW s \in B PROVE s # {} /\ \E x \in s : s \ {x} \in B
    BY <1>1, <1>2
  <1>4. B = {}
    BY <1>3, NoSmallest
  <1> QED BY <1>4 DEF Bad

--------------------------------------------------------------------------------
(* modInverse: Fermat's theorem, and powers by repeated squaring.              *)

Power(b, e) == ProductOver([x \in 1 .. e |-> b])

\* What holds of a natural number when it holds of its predecessor holds of all.
LEMMA NoLeast == ASSUME NEW T, T \subseteq Nat, \A k \in T : k # 0 /\ k - 1 \in T PROVE T = {}
  <1> SUFFICES ASSUME T # {} PROVE FALSE
    OBVIOUS
  <1>1. PICK k \in T : \A y \in T : k <= y
    BY LeastNat
  <1>2. k - 1 \in T /\ k \in Nat
    OBVIOUS
  <1> QED BY <1>1, <1>2

\* Powers, one factor at a time.
LEMMA PowerFacts ==
  ASSUME NEW b \in Int, NEW e \in Nat
  PROVE  Power(b, 0) = 1 /\ Power(b, e) \in Residue /\ Power(b, e) \in Int /\ Power(b, e + 1) = mod(Power(b, e) * b)
  <1> DEFINE g(k) == [x \in 1 .. k |-> b]
  <1>1. \A k \in Nat : DOMAIN g(k) = 1 .. k /\ IsFiniteSet(1 .. k) /\ \A x \in 1 .. k : g(k)[x] = b
    BY FS_Interval
  <1>2. Power(b, 0) = 1
    <2>1. DOMAIN g(0) = {} /\ IsFiniteSet({})
      BY FS_EmptySet
    <2> HIDE DEF g
    <2>2. ProductOver(g(0)) = 1
      BY <2>1, ProductOverTake
    <2> QED BY <2>2 DEF Power, g
  <1>3. Power(b, e) \in Residue /\ Power(b, e) \in Int
    <2>1. ProductOver(g(e)) \in Residue /\ ProductOver(g(e)) \in Int
      <3> HIDE DEF g
      <3> QED BY <1>1, ProductOverTake
    <2> QED BY <2>1 DEF Power
  <1>4. Power(b, e + 1) = mod(Power(b, e) * b)
    <2>1. e + 1 \in Nat /\ e + 1 \in 1 .. e + 1 /\ (1 .. e + 1) \ {e + 1} = 1 .. e
      OBVIOUS
    <2>2. Part(g(e + 1), 1 .. e) = g(e)
      BY <2>1 DEF Part
    <2>3. ProductOver(g(e + 1)) = mod(ProductOver(Part(g(e + 1), (1 .. e + 1) \ {e + 1})) * g(e + 1)[e + 1])
      <3>1. DOMAIN g(e + 1) = 1 .. e + 1 /\ IsFiniteSet(1 .. e + 1) /\ \A x \in 1 .. e + 1 : g(e + 1)[x] \in Int
        BY <1>1, <2>1
      <3> HIDE DEF g
      <3> QED BY <2>1, <3>1, ProductOverTake
    <2>4. ProductOver(g(e + 1)) = mod(ProductOver(g(e)) * b)
      BY <1>1, <2>1, <2>2, <2>3
    <2> QED BY <2>4 DEF Power
  <1> QED BY <1>2, <1>3, <1>4

\* Two factors more.
LEMMA TwoFactors ==
  ASSUME NEW p \in Int, NEW b \in Int
  PROVE  mod(mod(p * b) * b) = mod(p * mod(b * b))
  <1>1. p * b \in Int /\ b * b \in Int
    OBVIOUS
  <1>2. mod(p * b) \in Int /\ mod(b * b) \in Int /\ Cong(mod(p * b), p * b) /\ Cong(mod(b * b), b * b)
    BY <1>1, ModFacts
  <1>3. Cong(mod(p * b) * b, (p * b) * b) /\ Cong(p * mod(b * b), p * (b * b))
    BY <1>1, <1>2, CongRefl, CongOps
  <1>4. (p * b) * b = p * (b * b) /\ mod(p * b) * b \in Int /\ p * mod(b * b) \in Int /\ p * (b * b) \in Int
    BY <1>1, <1>2
  <1>5. mod(mod(p * b) * b) = mod(p * (b * b)) /\ mod(p * mod(b * b)) = mod(p * (b * b))
    BY <1>3, <1>4, ModSame
  <1> QED BY <1>5

\* Squaring the base halves the exponent.
LEMMA PowerSquare ==
  ASSUME NEW b \in Int, NEW m \in Nat
  PROVE  Power(mod(b * b), m) = Power(b, 2 * m)
  <1> DEFINE Good(k) == Power(mod(b * b), k) = Power(b, 2 * k)
             T == {k \in Nat : ~Good(k)}
  <1>0. mod(b * b) \in Int
    <2>1. b * b \in Int
      OBVIOUS
    <2> QED BY <2>1, ModFacts
  <1>1. Good(0)
    <2>1. 2 * 0 = 0
      OBVIOUS
    <2> QED BY <1>0, <2>1, PowerFacts
  <1>2. ASSUME NEW k \in Nat, Good(k) PROVE Good(k + 1)
    <2>1. 2 * k \in Nat /\ 2 * k + 1 \in Nat /\ 2 * (k + 1) = (2 * k + 1) + 1
      OBVIOUS
    <2>2. PICK p \in Int : p = Power(b, 2 * k)
      BY <2>1, PowerFacts
    <2>3. Power(b, (2 * k + 1) + 1) = mod(mod(p * b) * b)
      BY <2>1, <2>2, PowerFacts
    <2>4. Power(mod(b * b), k + 1) = mod(p * mod(b * b))
      BY <1>0, <1>2, <2>2, PowerFacts
    <2> QED BY <2>1, <2>3, <2>4, TwoFactors
  <1> HIDE DEF Good
  <1>3. ASSUME NEW k \in T PROVE k # 0 /\ k - 1 \in T
    <2>1. k # 0 /\ k - 1 \in Nat /\ (k - 1) + 1 = k
      BY <1>1
    <2>2. ~Good(k - 1)
      BY <1>2, <2>1
    <2> QED BY <2>1, <2>2
  <1>4. T = {}
    BY <1>3, NoLeast
  <1> QED BY <1>4 DEF Good

\* A step of the loop of modInverse.
LEMMA PowerStep ==
  ASSUME NEW b \in Residue, NEW e \in Nat \ {0}
  PROVE  Power(b, e) = mod(Power(mod(b * b), e \div 2) * (IF e % 2 = 1 THEN b ELSE 1))
  <1>0. b \in Int /\ e \div 2 \in Nat
    BY GroupOrder DEF Residue
  <1>1. Power(mod(b * b), e \div 2) = Power(b, 2 * (e \div 2))
    BY <1>0, PowerSquare
  <1>2. CASE e % 2 = 1
    <2>1. 2 * (e \div 2) \in Nat /\ 2 * (e \div 2) + 1 = e
      BY <1>2
    <2> QED BY <1>0, <1>1, <1>2, <2>1, PowerFacts
  <1>3. CASE e % 2 # 1
    <2>1. 2 * (e \div 2) = e
      BY <1>3
    <2>2. PICK p \in Int : p = Power(b, e) /\ p \in 0 .. L - 1
      BY <1>0, PowerFacts DEF Residue
    <2>3. p * 1 = p
      OBVIOUS
    <2> QED BY <1>1, <1>3, <2>1, <2>2, <2>3, ModSmall
  <1> QED BY <1>2, <1>3

\* modInverse raises to the power of L - 2.
LEMMA InverseIsPower == ASSUME NEW a \in Int PROVE modInverse(a) = Power(mod(a), L - 2)
  <1> DEFINE D == 0 .. L - 2
             Row(p, e) == [b \in Residue |-> IF e = 0 THEN 1 ELSE mod(p[e \div 2][mod(b * b)] * (IF e % 2 = 1 THEN b ELSE 1))]
             Body(p) == [e \in D |-> Row(p, e)]
             W == [e \in D |-> [b \in Residue |-> Power(b, e)]]
             pow == CHOOSE pow : pow = Body(pow)
  <1>0. L - 2 \in D /\ L - 2 \in Nat /\ \A e \in D : e \in Nat /\ e \div 2 \in D /\ (e # 0 => e \div 2 < e)
    BY GroupOrder
  <1>1. \A b \in Residue : b \in Int /\ mod(b * b) \in Residue
    <2> SUFFICES ASSUME NEW b \in Residue PROVE b \in Int /\ mod(b * b) \in Residue
      OBVIOUS
    <2>1. b \in Int /\ b * b \in Int
      BY GroupOrder DEF Residue
    <2> QED BY <2>1, ModFacts DEF Residue
  <1>2. modInverse(a) = pow[L - 2][mod(a)]
    BY DEF modInverse, Residue
  <1> HIDE DEF D
  <1>3. \A e \in D, b \in Residue : W[e][b] = Power(b, e)
    OBVIOUS
  <1>4. W = Body(W)
    <2> SUFFICES ASSUME NEW e \in D PROVE [b \in Residue |-> Power(b, e)] = Row(W, e)
      OBVIOUS
    <2> SUFFICES ASSUME NEW b \in Residue
                 PROVE  Power(b, e) = IF e = 0 THEN 1 ELSE mod(W[e \div 2][mod(b * b)] * (IF e % 2 = 1 THEN b ELSE 1))
      BY Zenon
    <2>1. CASE e = 0
      BY <1>1, <2>1, PowerFacts
    <2>2. CASE e # 0
      <3>1. W[e \div 2][mod(b * b)] = Power(mod(b * b), e \div 2)
        BY <1>0, <1>1, <1>3
      <3> QED BY <1>0, <2>2, <3>1, PowerStep
    <2> QED BY <2>1, <2>2
  <1>5. pow = Body(pow)
    <2> HIDE DEF Body, W
    <2> QED BY <1>4
  <1>6. \A e \in D, b \in Residue :
          pow[e][b] = IF e = 0 THEN 1 ELSE mod(pow[e \div 2][mod(b * b)] * (IF e % 2 = 1 THEN b ELSE 1))
    <2> HIDE DEF pow
    <2> SUFFICES ASSUME NEW e \in D, NEW b \in Residue
                 PROVE  pow[e][b] = IF e = 0 THEN 1 ELSE mod(pow[e \div 2][mod(b * b)] * (IF e % 2 = 1 THEN b ELSE 1))
      OBVIOUS
    <2>1. pow[e] = Row(pow, e)
      <3> HIDE DEF Row
      <3> QED BY <1>5
    <2> QED BY <2>1
  <1> HIDE DEF pow, W
  <1>7. \A e \in D : \A b \in Residue : pow[e][b] = Power(b, e)
    <2> DEFINE T == {e \in D : \E b \in Residue : pow[e][b] # Power(b, e)}
    <2> SUFFICES ASSUME T # {} PROVE FALSE
      OBVIOUS
    <2>1. PICK e \in T : \A y \in T : e <= y
      <3>1. T \subseteq Nat
        BY <1>0
      <3> HIDE DEF T
      <3> QED BY <3>1, LeastNat
    <2>2. PICK b \in Residue : pow[e][b] # Power(b, e)
      OBVIOUS
    <2>3. e # 0
      BY <1>1, <1>6, <2>2, PowerFacts
    <2>4. e \div 2 \in D /\ e \in Nat /\ e \div 2 < e
      BY <1>0, <2>3
    <2>5. e \div 2 \notin T
      BY <1>0, <2>1, <2>4
    <2>6. pow[e \div 2][mod(b * b)] = Power(mod(b * b), e \div 2)
      BY <1>1, <2>4, <2>5
    <2>7. Power(b, e) = mod(Power(mod(b * b), e \div 2) * (IF e % 2 = 1 THEN b ELSE 1))
      BY <2>3, <2>4, PowerStep
    <2>8. pow[e][b] = mod(pow[e \div 2][mod(b * b)] * (IF e % 2 = 1 THEN b ELSE 1))
      BY <1>6, <2>3
    <2> QED BY <2>2, <2>6, <2>7, <2>8
  <1>8. mod(a) \in Residue
    BY ModFacts DEF Residue
  <1> QED BY <1>0, <1>2, <1>7, <1>8

Each == [x \in Scalar |-> x]
Multiples(a, k) == {mod(a * x) : x \in 1 .. k}

\* A multiple that was not among the first ones.
LEMMA NewMultiple ==
  ASSUME NEW a \in Scalar, NEW k \in Nat, k + 1 \in Scalar
  PROVE  /\ mod(a * (k + 1)) \in Scalar \ Multiples(a, k)
         /\ Multiples(a, k + 1) = Multiples(a, k) \cup {mod(a * (k + 1))}
  <1>0. a \in Int /\ k + 1 \in Int /\ a * (k + 1) \in Int /\ a \in 0 .. L - 1 /\ a # 0 /\ k + 1 \in 0 .. L - 1
    BY GroupOrder DEF Scalar
  <1>1. mod(a * (k + 1)) \in Scalar
    <2>1. mod(a * (k + 1)) \in 0 .. L - 1 /\ mod(a * (k + 1)) \in Int /\ Cong(mod(a * (k + 1)), a * (k + 1))
      BY <1>0, ModFacts
    <2>2. ~Cong(a * (k + 1), 0)
      BY NoZeroProduct
    <2>3. mod(a * (k + 1)) # 0
      BY <1>0, <2>1, <2>2, CongSym
    <2> QED BY <2>1, <2>3, GroupOrder DEF Scalar
  <1>2. ASSUME NEW x \in 1 .. k, mod(a * x) = mod(a * (k + 1)) PROVE FALSE
    <2>1. x \in Int /\ a * x \in Int /\ x \in 0 .. L - 1 /\ x # k + 1
      BY <1>0, GroupOrder
    <2>2. Cong(a * x, a * (k + 1))
      BY <1>0, <1>2, <2>1, ModSame
    <2>3. ~Cong(a, 0)
      BY <1>0, CongEqual, GroupOrder
    <2>4. Cong(x, k + 1)
      BY <1>0, <2>1, <2>2, <2>3, Cancel
    <2> QED BY <1>0, <2>1, <2>4, CongEqual
  <1>3. 1 .. k + 1 = (1 .. k) \cup {k + 1}
    OBVIOUS
  <1> QED BY <1>1, <1>2, <1>3 DEF Multiples

\* The same factors in both products, and one more of each.
LEMMA FactorStep ==
  ASSUME NEW i \in Int, NEW p \in Int, NEW q \in Int, NEW a \in Int, NEW m \in Int, Cong(i, p * q)
  PROVE  Cong(mod(i * mod(a * m)), mod(p * a) * mod(q * m))
  <1>1. a * m \in Int /\ p * q \in Int /\ p * a \in Int /\ q * m \in Int
    OBVIOUS
  <1>2. /\ mod(a * m) \in Int /\ mod(p * a) \in Int /\ mod(q * m) \in Int
        /\ Cong(mod(a * m), a * m) /\ Cong(mod(p * a), p * a) /\ Cong(mod(q * m), q * m)
    BY <1>1, ModFacts
  <1>3. /\ i * mod(a * m) \in Int /\ mod(p * a) * mod(q * m) \in Int
        /\ (p * q) * (a * m) \in Int /\ (p * q) * (a * m) = (p * a) * (q * m)
    BY <1>1, <1>2
  <1>4. Cong(i * mod(a * m), (p * q) * (a * m))
    BY <1>1, <1>2, CongOps
  <1>5. Cong(mod(p * a) * mod(q * m), (p * a) * (q * m))
    BY <1>1, <1>2, CongOps
  <1>6. mod(i * mod(a * m)) \in Int /\ Cong(mod(i * mod(a * m)), i * mod(a * m))
    BY <1>3, ModFacts
  <1>7. Cong(mod(i * mod(a * m)), (p * q) * (a * m))
    BY <1>3, <1>4, <1>6, CongTrans
  <1>8. Cong((p * q) * (a * m), mod(p * a) * mod(q * m))
    BY <1>3, <1>5, CongSym
  <1> QED BY <1>3, <1>6, <1>7, <1>8, CongTrans

\* The product of the first k multiples of a has k factors a.
LEMMA MultiplesProduct ==
  ASSUME NEW a \in Scalar, NEW k \in 0 .. L - 1
  PROVE  /\ Multiples(a, k) \subseteq Scalar /\ IsFiniteSet(Multiples(a, k)) /\ Cardinality(Multiples(a, k)) = k
         /\ Cong(ProductOver(Part(Each, Multiples(a, k))), Power(a, k) * ProductOver(Part(Each, 1 .. k)))
  <1> DEFINE M(i) == Multiples(a, i)
             Good(i) == /\ M(i) \subseteq Scalar /\ IsFiniteSet(M(i)) /\ Cardinality(M(i)) = i
                        /\ Cong(ProductOver(Part(Each, M(i))), Power(a, i) * ProductOver(Part(Each, 1 .. i)))
             T == {i \in Nat : i <= L - 1 /\ ~Good(i)}
  <1>0. a \in Int /\ \A x \in Scalar : x \in Int /\ Each[x] = x
    BY GroupOrder DEF Scalar, Each
  <1>1. Good(0)
    <2>1. M(0) = {} /\ 1 .. 0 = {}
      BY DEF Multiples
    <2>2. ProductOver(Part(Each, {})) = 1
      BY FS_EmptySet, ProductPart
    <2>3. Power(a, 0) = 1
      BY <1>0, PowerFacts
    <2>4. Cong(1, 1 * 1)
      BY CongRefl
    <2> QED BY <2>1, <2>2, <2>3, <2>4, FS_EmptySet
  <1>2. ASSUME NEW i \in Nat, i + 1 <= L - 1, Good(i) PROVE Good(i + 1)
    <2>0. i + 1 \in Scalar /\ i + 1 \in Int
      BY <1>2, GroupOrder DEF Scalar
    <2>1. PICK y : y = mod(a * (i + 1)) /\ y \in Scalar /\ y \notin M(i) /\ M(i + 1) = M(i) \cup {y}
      BY <2>0, NewMultiple
    <2> HIDE DEF M
    <2>2. M(i + 1) \subseteq Scalar /\ IsFiniteSet(M(i + 1)) /\ Cardinality(M(i + 1)) = i + 1
      <3>1. M(i) \subseteq Scalar /\ IsFiniteSet(M(i)) /\ Cardinality(M(i)) = i
        BY <1>2
      <3>2. IsFiniteSet(M(i) \cup {y}) /\ Cardinality(M(i) \cup {y}) = i + 1
        BY <2>1, <3>1, FS_AddElement
      <3> QED BY <2>1, <3>1, <3>2
    <2>3. M(i + 1) \ {y} = M(i) /\ y \in M(i + 1) /\ \A x \in M(i + 1) : Each[x] \in Int
      BY <1>0, <2>1, <2>2
    <2>4. ProductOver(Part(Each, M(i + 1))) = mod(ProductOver(Part(Each, M(i))) * y)
      <3>1. \A x \in M(i + 1) : ProductOver(Part(Each, M(i + 1))) = mod(ProductOver(Part(Each, M(i + 1) \ {x})) * Each[x])
        BY <2>2, <2>3, ProductPart
      <3> QED BY <1>0, <2>1, <2>3, <3>1
    <2>5. ProductOver(Part(Each, M(i))) \in Int
      BY <1>0, <1>2, ProductPart
    <2>6. /\ (1 .. i + 1) \ {i + 1} = 1 .. i /\ i + 1 \in 1 .. i + 1
          /\ IsFiniteSet(1 .. i + 1) /\ IsFiniteSet(1 .. i) /\ 1 .. i + 1 \subseteq Scalar
      BY <1>2, FS_Interval, GroupOrder DEF Scalar
    <2>7. ProductOver(Part(Each, 1 .. i + 1)) = mod(ProductOver(Part(Each, 1 .. i)) * (i + 1))
      <3>1. \A x \in 1 .. i + 1 : ProductOver(Part(Each, 1 .. i + 1)) = mod(ProductOver(Part(Each, (1 .. i + 1) \ {x})) * Each[x])
        BY <1>0, <2>6, ProductPart
      <3> QED BY <1>0, <2>0, <2>6, <3>1
    <2>8. ProductOver(Part(Each, 1 .. i)) \in Int
      BY <1>0, <2>6, ProductPart
    <2>9. Power(a, i + 1) = mod(Power(a, i) * a) /\ Power(a, i) \in Int
      BY <1>0, PowerFacts
    <2>10. Cong(mod(ProductOver(Part(Each, M(i))) * mod(a * (i + 1))),
                mod(Power(a, i) * a) * mod(ProductOver(Part(Each, 1 .. i)) * (i + 1)))
      BY <1>0, <1>2, <2>0, <2>5, <2>8, <2>9, FactorStep
    <2> QED BY <2>1, <2>2, <2>4, <2>7, <2>9, <2>10
  <1> HIDE DEF Good
  <1>3. ASSUME NEW i \in T PROVE i # 0 /\ i - 1 \in T
    <2>1. i # 0 /\ i - 1 \in Nat /\ (i - 1) + 1 = i /\ i - 1 <= L - 1
      BY <1>1, GroupOrder
    <2>2. ~Good(i - 1)
      BY <1>2, <2>1
    <2> QED BY <2>1, <2>2
  <1>4. T = {}
    <2>1. T \subseteq Nat
      OBVIOUS
    <2> HIDE DEF T
    <2> QED BY <1>3, <2>1, NoLeast
  <1>5. Good(k)
    BY <1>4, GroupOrder
  <1> QED BY <1>5 DEF Good

\* Fermat: the multiples of a are all scalars, in another order.
LEMMA Fermat == ASSUME NEW a \in Scalar PROVE Power(a, L - 1) = 1
  <1>0. L - 1 \in 0 .. L - 1 /\ L - 1 \in Nat /\ Scalar = 1 .. L - 1 /\ a \in Int
    BY GroupOrder DEF Scalar
  <1>1. /\ Multiples(a, L - 1) \subseteq Scalar /\ Cardinality(Multiples(a, L - 1)) = L - 1
        /\ Cong(ProductOver(Part(Each, Multiples(a, L - 1))), Power(a, L - 1) * ProductOver(Part(Each, Scalar)))
    BY <1>0, MultiplesProduct
  <1>2. IsFiniteSet(Scalar) /\ Cardinality(Scalar) = L - 1
    BY <1>0, FS_Interval
  <1>3. Multiples(a, L - 1) = Scalar
    BY <1>1, <1>2, FS_Subset
  <1>4. \A x \in Scalar : x \in 0 .. L - 1 /\ x # 0 /\ Each[x] = x /\ Each[x] \in Int
    BY GroupOrder DEF Scalar, Each
  <1>5. \A x \in Scalar : ~Cong(Each[x], 0)
    BY <1>4, CongEqual, GroupOrder
  <1>6. PICK p \in Int : p = ProductOver(Part(Each, Scalar)) /\ ~Cong(p, 0)
    BY <1>2, <1>4, <1>5, ProductPart, ProductNotZero
  <1>7. PICK w \in Int : w = Power(a, L - 1) /\ w \in 0 .. L - 1
    BY <1>0, PowerFacts DEF Residue
  <1>8. Cong(p * 1, p * w)
    <2>1. Cong(p, w * p)
      BY <1>1, <1>3, <1>6, <1>7
    <2>2. p * 1 = p /\ w * p = p * w
      OBVIOUS
    <2> QED BY <2>1, <2>2
  <1>9. Cong(1, w)
    BY <1>6, <1>8, Cancel
  <1> QED BY <1>7, <1>9, CongEqual, GroupOrder

\* modInverse inverts everything that is not zero mod L.
LEMMA InverseFacts ==
  ASSUME NEW a \in Int, ~Cong(a, 0)
  PROVE  modInverse(a) \in Int /\ Cong(a * modInverse(a), 1)
  <1>1. mod(a) \in 0 .. L - 1 /\ mod(a) \in Int /\ Cong(mod(a), a)
    BY ModFacts
  <1>2. mod(a) # 0
    BY <1>1, CongSym
  <1>3. mod(a) \in Scalar
    BY <1>1, <1>2, GroupOrder DEF Scalar
  <1>4. L - 2 \in Nat /\ (L - 2) + 1 = L - 1
    BY GroupOrder
  <1>5. PICK w \in Int : w = modInverse(a) /\ 1 = mod(w * mod(a))
    BY <1>1, <1>3, <1>4, InverseIsPower, PowerFacts, Fermat
  <1>6. w * mod(a) \in Int /\ a * w \in Int /\ w * a = a * w /\ w * a \in Int
    BY <1>1
  <1>7. Cong(1, w * mod(a))
    BY <1>5, <1>6, ModFacts
  <1>8. Cong(w * mod(a), w * a)
    BY <1>1, CongRefl, CongOps
  <1>9. Cong(1, a * w)
    BY <1>6, <1>7, <1>8, CongTrans
  <1> QED BY <1>5, <1>6, <1>9, CongSym

--------------------------------------------------------------------------------
(* Lagrange coefficients.  lagrangeAtZero(i, I) changes by a factor when a      *)
(* point a is left out: times i - a it is -a times the coefficient without a.   *)
(* All about interpolation follows from this.                                   *)

Num(i, I) == ProductOver([j \in I \ {i} |-> j])
Den(i, I) == ProductOver([j \in I \ {i} |-> j - i])
Points(I) == I \subseteq Scalar /\ IsFiniteSet(I)
Interpolated(I, p) == SumOver([i \in I |-> lagrangeAtZero(i, I) * p[i]])

\* Share indices are different mod L.
LEMMA ScalarFacts ==
  /\ \A i \in Scalar : i \in Int /\ i \in 0 .. L - 1 /\ i # 0 /\ ~Cong(i, 0)
  /\ \A i, j \in Scalar : i # j => ~Cong(j - i, 0)
  <1>1. \A i \in Scalar : i \in Int /\ i \in 0 .. L - 1 /\ i # 0
    BY GroupOrder DEF Scalar
  <1>2. \A i \in Scalar : ~Cong(i, 0)
    BY <1>1, CongEqual, GroupOrder
  <1>3. ASSUME NEW i \in Scalar, NEW j \in Scalar, Cong(j - i, 0) PROVE i = j
    <2>1. i \in Int /\ j \in Int /\ j - i \in Int /\ (j - i) + i = j /\ 0 + i = i
      BY <1>1
    <2>2. Cong((j - i) + i, 0 + i)
      BY <1>3, <2>1, CongRefl, CongOps
    <2> QED BY <1>1, <2>1, <2>2, CongEqual
  <1> QED BY <1>1, <1>2, <1>3

\* Numerator and denominator, with one point less.
LEMMA NumDenFacts ==
  ASSUME NEW I, Points(I), NEW i \in I
  PROVE  /\ Num(i, I) \in Int /\ Den(i, I) \in Int /\ ~Cong(Den(i, I), 0)
         /\ I = {i} => Num(i, I) = 1 /\ Den(i, I) = 1
         /\ \A a \in I \ {i} : /\ Num(i, I) = mod(Num(i, I \ {a}) * a)
                               /\ Den(i, I) = mod(Den(i, I \ {a}) * (a - i))
  <1> DEFINE S == I \ {i}
             g == [j \in S |-> j]
             h == [j \in S |-> j - i]
  <1>1. IsFiniteSet(S) /\ S \subseteq Scalar /\ i \in Scalar
    BY FS_Subset DEF Points
  <1>2. \A j \in S : g[j] = j /\ g[j] \in Int /\ h[j] = j - i /\ h[j] \in Int /\ ~Cong(h[j], 0)
    BY <1>1, ScalarFacts
  <1>3. Part(g, S) = g /\ Part(h, S) = h
    BY DEF Part
  <1>4. \A a \in S : /\ Part(g, S \ {a}) = [j \in (I \ {a}) \ {i} |-> j]
                     /\ Part(h, S \ {a}) = [j \in (I \ {a}) \ {i} |-> j - i]
    <2> SUFFICES ASSUME NEW a \in S
                 PROVE  /\ Part(g, S \ {a}) = [j \in (I \ {a}) \ {i} |-> j]
                        /\ Part(h, S \ {a}) = [j \in (I \ {a}) \ {i} |-> j - i]
      OBVIOUS
    <2>1. S \ {a} = (I \ {a}) \ {i} /\ \A j \in S \ {a} : j \in S
      OBVIOUS
    <2> QED BY <1>2, <2>1 DEF Part
  <1>5. Num(i, I) = ProductOver(g) /\ Den(i, I) = ProductOver(h)
    BY DEF Num, Den
  <1> HIDE DEF g, h, S
  <1>6. /\ ProductOver(g) \in Int /\ (S = {} => ProductOver(g) = 1)
        /\ \A a \in S : ProductOver(g) = mod(ProductOver(Part(g, S \ {a})) * g[a])
    BY <1>1, <1>2, <1>3, ProductPart
  <1>7. /\ ProductOver(h) \in Int /\ (S = {} => ProductOver(h) = 1)
        /\ \A a \in S : ProductOver(h) = mod(ProductOver(Part(h, S \ {a})) * h[a])
    BY <1>1, <1>2, <1>3, ProductPart
  <1>8. ~Cong(ProductOver(h), 0)
    BY <1>1, <1>2, <1>3, ProductNotZero
  <1> QED BY <1>2, <1>4, <1>5, <1>6, <1>7, <1>8 DEF Num, Den, S

\* The algebra of leaving out a point: x, d without a and N, D with it, and the
\* inverses e of d and E of D.
LEMMA LeaveOut ==
  ASSUME NEW x \in Int, NEW N \in Int, NEW d \in Int, NEW D \in Int, NEW e \in Int, NEW E \in Int,
         NEW a \in Int, NEW i \in Int, ~Cong(d, 0),
         Cong(N, x * a), Cong(D, d * (a - i)), Cong(d * e, 1), Cong(D * E, 1)
  PROVE  Cong((N * E) * (i - a), (0 - a) * (x * e))
  <1>1. /\ a - i \in Int /\ i - a \in Int /\ 0 - a \in Int /\ d * (a - i) \in Int /\ x * a \in Int
        /\ E * (a - i) \in Int /\ d * e \in Int /\ D * E \in Int /\ N * E \in Int
    OBVIOUS
  <1>2. Cong(E * (a - i), e)
    <2>1. Cong((d * (a - i)) * E, D * E)
      <3>1. Cong(D * E, (d * (a - i)) * E)
        BY <1>1, CongRefl, CongOps
      <3>2. (d * (a - i)) * E \in Int
        BY <1>1
      <3> QED BY <1>1, <3>1, <3>2, CongSym
    <2>2. (d * (a - i)) * E = d * (E * (a - i)) /\ d * (E * (a - i)) \in Int
      BY <1>1
    <2>3. Cong(d * (E * (a - i)), 1)
      BY <1>1, <2>1, <2>2, CongTrans
    <2>4. Cong(1, d * e)
      BY <1>1, CongSym
    <2>5. Cong(d * (E * (a - i)), d * e)
      BY <1>1, <2>2, <2>3, <2>4, CongTrans
    <2> QED BY <1>1, <2>5, Cancel
  <1>3. PICK u \in Int : u = E * (a - i) /\ Cong(u, e)
    BY <1>1, <1>2
  <1>4. (N * E) * (i - a) = (0 - N) * u
    BY <1>3
  <1>5. Cong((0 - N) * u, (0 - x * a) * e)
    <2>1. Cong(0 - N, 0 - x * a)
      BY <1>1, CongRefl, CongOps
    <2>2. 0 - N \in Int /\ 0 - x * a \in Int
      BY <1>1
    <2> QED BY <1>3, <2>1, <2>2, CongOps
  <1>6. (0 - x * a) * e = (0 - a) * (x * e)
    OBVIOUS
  <1> QED BY <1>4, <1>5, <1>6

\* A coefficient, with one point less.
LEMMA LagrangeStep ==
  ASSUME NEW I, Points(I), NEW i \in I
  PROVE  /\ lagrangeAtZero(i, I) \in Int
         /\ I = {i} => Cong(lagrangeAtZero(i, I), 1)
         /\ \A a \in I \ {i} : Cong(lagrangeAtZero(i, I) * (i - a), (0 - a) * lagrangeAtZero(i, I \ {a}))
  <1>1. PICK N, D : N = Num(i, I) /\ D = Den(i, I) /\ N \in Int /\ D \in Int /\ ~Cong(D, 0)
    BY NumDenFacts
  <1>2. PICK E \in Int : E = modInverse(D) /\ Cong(D * E, 1)
    BY <1>1, InverseFacts
  <1>3. lagrangeAtZero(i, I) = mod(N * E)
    BY <1>1, <1>2 DEF lagrangeAtZero, Num, Den
  <1>4. N * E \in Int /\ mod(N * E) \in Int /\ Cong(mod(N * E), N * E)
    <2>1. N * E \in Int
      BY <1>1, <1>2
    <2> QED BY <2>1, ModFacts
  <1>5. ASSUME I = {i} PROVE Cong(lagrangeAtZero(i, I), 1)
    <2>1. N = 1 /\ D = 1
      BY <1>1, <1>5, NumDenFacts
    <2>2. Cong(N * E, 1)
      BY <1>2, <2>1
    <2> QED BY <1>3, <1>4, <2>2, CongTrans
  <1>6. ASSUME NEW a \in I \ {i}
        PROVE  Cong(lagrangeAtZero(i, I) * (i - a), (0 - a) * lagrangeAtZero(i, I \ {a}))
    <2>0. Points(I \ {a}) /\ i \in I \ {a} /\ a \in Int /\ i \in Int
      BY FS_Subset, ScalarFacts DEF Points
    <2>1. PICK x, d : x = Num(i, I \ {a}) /\ d = Den(i, I \ {a}) /\ x \in Int /\ d \in Int /\ ~Cong(d, 0)
      BY <2>0, NumDenFacts
    <2>2. N = mod(x * a) /\ D = mod(d * (a - i))
      BY <1>1, <2>1, NumDenFacts
    <2>3. x * a \in Int /\ d * (a - i) \in Int /\ i - a \in Int /\ 0 - a \in Int
      BY <2>0, <2>1
    <2>4. Cong(N, x * a) /\ Cong(D, d * (a - i))
      BY <2>2, <2>3, ModFacts
    <2>5. PICK e \in Int : e = modInverse(d) /\ Cong(d * e, 1)
      BY <2>1, InverseFacts
    <2>6. lagrangeAtZero(i, I \ {a}) = mod(x * e)
      BY <2>1, <2>5 DEF lagrangeAtZero, Num, Den
    <2>7. x * e \in Int /\ mod(x * e) \in Int /\ Cong(mod(x * e), x * e)
      <3>1. x * e \in Int
        BY <2>1, <2>5
      <3> QED BY <3>1, ModFacts
    <2>8. Cong((N * E) * (i - a), (0 - a) * (x * e))
      BY <1>1, <1>2, <2>0, <2>1, <2>4, <2>5, LeaveOut
    <2>9. Cong(mod(N * E) * (i - a), (N * E) * (i - a))
      BY <1>4, <2>3, CongRefl, CongOps
    <2>10. Cong((0 - a) * (x * e), (0 - a) * mod(x * e))
      BY <2>3, <2>7, CongRefl, CongSym, CongOps
    <2>11. /\ mod(N * E) * (i - a) \in Int /\ (N * E) * (i - a) \in Int
           /\ (0 - a) * (x * e) \in Int /\ (0 - a) * mod(x * e) \in Int
      BY <1>4, <2>3, <2>7
    <2>12. Cong(mod(N * E) * (i - a), (0 - a) * (x * e))
      BY <2>8, <2>9, <2>11, CongTrans
    <2>13. Cong(mod(N * E) * (i - a), (0 - a) * mod(x * e))
      BY <2>10, <2>11, <2>12, CongTrans
    <2> QED BY <1>3, <2>6, <2>13
  <1> QED BY <1>3, <1>4, <1>5, <1>6

Ones == [i \in Scalar |-> 1]

\* Interpolation is linear.
LEMMA InterpolatedLinear ==
  ASSUME NEW I, Points(I), NEW u \in Int, NEW w \in Int, NEW g, NEW a, NEW b,
         \A x \in I : g[x] \in Int /\ a[x] \in Int /\ b[x] \in Int /\ Cong(g[x], u * a[x] + w * b[x])
  PROVE  /\ Interpolated(I, g) \in Int /\ Interpolated(I, a) \in Int /\ Interpolated(I, b) \in Int
         /\ Cong(Interpolated(I, g), u * Interpolated(I, a) + w * Interpolated(I, b))
  <1> DEFINE t(p) == [i \in I |-> lagrangeAtZero(i, I) * p[i]]
  <1>1. IsFiniteSet(I) /\ \A x \in I : lagrangeAtZero(x, I) \in Int
    BY LagrangeStep DEF Points
  <1>2. /\ Interpolated(I, g) = SumOver(Part(t(g), I)) /\ Interpolated(I, a) = SumOver(Part(t(a), I))
        /\ Interpolated(I, b) = SumOver(Part(t(b), I))
    BY DEF Interpolated, Part
  <1>3. ASSUME NEW x \in I
        PROVE  t(g)[x] \in Int /\ t(a)[x] \in Int /\ t(b)[x] \in Int /\ Cong(t(g)[x], u * t(a)[x] + w * t(b)[x])
    <2>1. PICK lx, gx, ax, bx \in Int : lx = lagrangeAtZero(x, I) /\ gx = g[x] /\ ax = a[x] /\ bx = b[x]
      BY <1>1
    <2>2. t(g)[x] = lx * gx /\ t(a)[x] = lx * ax /\ t(b)[x] = lx * bx
      BY <2>1
    <2>3. Cong(gx, u * ax + w * bx) /\ u * ax + w * bx \in Int
      BY <2>1
    <2>4. Cong(lx * gx, lx * (u * ax + w * bx))
      BY <2>3, CongRefl, CongOps
    <2>5. lx * (u * ax + w * bx) = u * (lx * ax) + w * (lx * bx)
      OBVIOUS
    <2> QED BY <2>2, <2>4, <2>5
  <1> HIDE DEF t
  <1>4. /\ SumOver(Part(t(g), I)) \in Int /\ SumOver(Part(t(a), I)) \in Int /\ SumOver(Part(t(b), I)) \in Int
    BY <1>1, <1>3, SumPart
  <1>5. Cong(SumOver(Part(t(g), I)), u * SumOver(Part(t(a), I)) + w * SumOver(Part(t(b), I)))
    BY <1>1, <1>3, SumLinear
  <1> QED BY <1>2, <1>4, <1>5

\* Values that are zero at a are interpolated without a.
LEMMA InterpolatedShift ==
  ASSUME NEW I, Points(I), NEW a \in I, NEW p, \A x \in I : p[x] \in Int
  PROVE  Cong(Interpolated(I, [i \in Scalar |-> (i - a) * p[i]]), (0 - a) * Interpolated(I \ {a}, p))
  <1> DEFINE t == [i \in I |-> lagrangeAtZero(i, I) * ((i - a) * p[i])]
             s == [i \in I \ {a} |-> lagrangeAtZero(i, I \ {a}) * p[i]]
  <1>1. /\ I \subseteq Scalar /\ IsFiniteSet(I) /\ IsFiniteSet(I \ {a}) /\ Points(I \ {a})
        /\ \A x \in I : x \in Int
    BY FS_Subset, ScalarFacts DEF Points
  <1>2. /\ \A x \in I : lagrangeAtZero(x, I) \in Int
        /\ \A x \in I \ {a} : lagrangeAtZero(x, I \ {a}) \in Int
    BY <1>1, LagrangeStep
  <1>3. Interpolated(I, [i \in Scalar |-> (i - a) * p[i]]) = SumOver(Part(t, I)) /\ Interpolated(I \ {a}, p) = SumOver(Part(s, I \ {a}))
    BY <1>1 DEF Interpolated, Part
  <1>4. ASSUME NEW x \in I
        PROVE  t[x] \in Int /\ (x = a => t[x] = 0) /\ (x # a => s[x] \in Int /\ Cong(t[x], (0 - a) * s[x] + 0 * s[x]))
    <2>1. PICK lx, ax, px, xx \in Int : lx = lagrangeAtZero(x, I) /\ ax = a /\ px = p[x] /\ xx = x
      BY <1>1, <1>2
    <2>2. t[x] = lx * ((xx - ax) * px)
      BY <2>1
    <2>3. ASSUME x # a PROVE s[x] \in Int /\ Cong(t[x], (0 - a) * s[x] + 0 * s[x])
      <3>1. PICK kx \in Int : kx = lagrangeAtZero(x, I \ {a})
        BY <1>2, <2>3
      <3>2. s[x] = kx * px
        BY <2>1, <2>3, <3>1
      <3>3. Cong(lx * (xx - ax), (0 - ax) * kx)
        BY <2>1, <2>3, <3>1, LagrangeStep
      <3>4. lx * (xx - ax) \in Int /\ (0 - ax) * kx \in Int
        OBVIOUS
      <3>5. Cong((lx * (xx - ax)) * px, ((0 - ax) * kx) * px)
        BY <3>3, <3>4, CongRefl, CongOps
      <3>6. (lx * (xx - ax)) * px = lx * ((xx - ax) * px) /\ ((0 - ax) * kx) * px = (0 - ax) * (kx * px) + 0 * (kx * px)
        OBVIOUS
      <3> QED BY <2>1, <2>2, <3>2, <3>5, <3>6
    <2> QED BY <2>1, <2>2, <2>3
  <1> HIDE DEF t, s
  <1>5. PICK T, U, V \in Int : T = SumOver(Part(t, I)) /\ U = SumOver(Part(t, I \ {a})) /\ V = SumOver(Part(s, I \ {a}))
    BY <1>1, <1>4, SumPart
  <1>6. T = mod(U + t[a])
    BY <1>1, <1>4, <1>5, SumPart
  <1>7. T = mod(U) /\ Cong(T, U)
    BY <1>4, <1>5, <1>6, ModFacts
  <1>8. Cong(U, (0 - a) * V + 0 * V)
    <2>1. 0 - a \in Int
      BY <1>1
    <2> QED BY <1>1, <1>4, <1>5, <2>1, SumLinear
  <1>9. (0 - a) * V + 0 * V = (0 - a) * V /\ (0 - a) * V \in Int
    BY <1>1
  <1> QED BY <1>3, <1>5, <1>7, <1>8, <1>9, CongTrans

\* The coefficients add up to 1.
LEMMA InterpolatedOnes ==
  ASSUME NEW I, Points(I), I # {}
  PROVE  Cong(Interpolated(I, Ones), 1)
  <1> DEFINE Good(s) == Cong(Interpolated(s, Ones), 1)
             B == {s \in SUBSET I : s # {} /\ ~Good(s)}
  <1>1. IsFiniteSet(I) /\ \A s \in SUBSET I : Points(s)
    BY FS_Subset DEF Points
  <1>2. ASSUME NEW a \in I PROVE Good({a})
    <2>1. Points({a}) /\ a \in {a} /\ a \in Scalar
      BY <1>1 DEF Points
    <2>2. PICK la \in Int : la = lagrangeAtZero(a, {a}) /\ Cong(la, 1)
      BY <2>1, LagrangeStep
    <2> DEFINE t == [i \in {a} |-> lagrangeAtZero(i, {a}) * Ones[i]]
    <2>3. t[a] = la /\ Interpolated({a}, Ones) = SumOver(t) /\ DOMAIN t = {a} /\ IsFiniteSet({a})
      <3>1. Ones[a] = 1 /\ la * 1 = la
        BY <2>1 DEF Ones
      <3>2. t[a] = la
        BY <2>2, <3>1
      <3>3. IsFiniteSet({a})
        BY FS_Singleton
      <3> QED BY <3>2, <3>3 DEF Interpolated
    <2> HIDE DEF t
    <2>4. SumOver(t) = mod(SumOver(Part(t, {a} \ {a})) + la)
      BY <2>2, <2>3, SumOverTake
    <2>5. SumOver(Part(t, {})) = 0 /\ {a} \ {a} = {}
      BY FS_EmptySet, SumPart
    <2>6. SumOver(t) = mod(la) /\ mod(la) \in Int /\ Cong(mod(la), la)
      BY <2>2, <2>4, <2>5, ModFacts
    <2>7. Cong(mod(la), 1)
      BY <2>2, <2>6, CongTrans
    <2> QED BY <2>3, <2>6, <2>7
  <1>3. ASSUME NEW s \in SUBSET I, NEW a \in s, NEW b \in s, a # b, Good(s \ {a}), Good(s \ {b})
        PROVE  Good(s)
    <2> DEFINE q(x) == [i \in Scalar |-> (i - x) * Ones[i]]
    <2>1. Points(s) /\ a \in Scalar /\ b \in Scalar /\ a \in Int /\ b \in Int /\ ~Cong(b - a, 0)
      BY <1>1, <1>3, ScalarFacts DEF Points
    <2>2. \A x \in s : Ones[x] = 1 /\ Ones[x] \in Int
      BY <2>1 DEF Ones, Points
    <2>3. \A x \in s : q(a)[x] \in Int /\ q(b)[x] \in Int /\ Cong(q(a)[x], 1 * q(b)[x] + (b - a) * Ones[x])
      <3> SUFFICES ASSUME NEW x \in s PROVE q(a)[x] \in Int /\ q(b)[x] \in Int /\ Cong(q(a)[x], 1 * q(b)[x] + (b - a) * Ones[x])
        OBVIOUS
      <3>1. x \in Scalar /\ x \in Int
        BY <2>1, ScalarFacts DEF Points
      <3>2. q(a)[x] = x - a /\ q(b)[x] = x - b
        BY <2>1, <2>2, <3>1
      <3>3. x - a = 1 * (x - b) + (b - a) * 1 /\ x - a \in Int /\ x - b \in Int
        BY <2>1, <3>1
      <3> QED BY <2>2, <3>2, <3>3, CongRefl
    <2>4. Cong(Interpolated(s, q(a)), (0 - a) * Interpolated(s \ {a}, Ones)) /\ Cong(Interpolated(s, q(b)), (0 - b) * Interpolated(s \ {b}, Ones))
      BY <2>1, <2>2, InterpolatedShift
    <2> HIDE DEF q
    <2>5. b - a \in Int /\ 1 \in Int
      BY <2>1
    <2>6. PICK X, Y, Z \in Int : /\ X = Interpolated(s, q(a)) /\ Y = Interpolated(s, q(b)) /\ Z = Interpolated(s, Ones)
                                 /\ Cong(X, 1 * Y + (b - a) * Z)
      <3>1. /\ Interpolated(s, q(a)) \in Int /\ Interpolated(s, q(b)) \in Int /\ Interpolated(s, Ones) \in Int
            /\ Cong(Interpolated(s, q(a)), 1 * Interpolated(s, q(b)) + (b - a) * Interpolated(s, Ones))
        BY <2>1, <2>2, <2>3, <2>5, InterpolatedLinear, Zenon
      <3> QED BY <3>1
    <2>7. PICK A, D \in Int : /\ A = Interpolated(s \ {a}, Ones) /\ D = Interpolated(s \ {b}, Ones) /\ Cong(A, 1) /\ Cong(D, 1)
      <3>1. s \ {a} \in SUBSET I /\ s \ {b} \in SUBSET I
        OBVIOUS
      <3>2. Points(s \ {a}) /\ Points(s \ {b})
        BY <1>1, <3>1
      <3>3. \A x \in s : Ones[x] \in Int /\ Cong(Ones[x], 1 * Ones[x] + 0 * Ones[x])
        BY <2>2, CongRefl
      <3>4. Interpolated(s \ {a}, Ones) \in Int /\ Interpolated(s \ {b}, Ones) \in Int
        BY <3>2, <3>3, InterpolatedLinear
      <3> QED BY <1>3, <3>4
    <2>8. Cong(X, 0 - a) /\ Cong(Y, 0 - b)
      <3>1. 0 - a \in Int /\ 0 - b \in Int /\ (0 - a) * A \in Int /\ (0 - b) * D \in Int
        BY <2>1, <2>7
      <3>2. Cong((0 - a) * A, (0 - a) * 1) /\ Cong((0 - b) * D, (0 - b) * 1)
        <4>1. Cong(0 - a, 0 - a) /\ Cong(0 - b, 0 - b) /\ 1 \in Int
          BY <3>1, CongRefl
        <4> QED BY <2>7, <3>1, <4>1, CongOps, Zenon
      <3>3. (0 - a) * 1 = 0 - a /\ (0 - b) * 1 = 0 - b
        BY <3>1
      <3>4. Cong(X, (0 - a) * A) /\ Cong(Y, (0 - b) * D)
        BY <2>4, <2>6, <2>7
      <3> QED BY <2>6, <3>1, <3>2, <3>3, <3>4, CongTrans
    <2>9. Cong(X - Y, (b - a) * 1)
      <3>1. Cong(X - Y, (0 - a) - (0 - b)) /\ (0 - a) - (0 - b) = (b - a) * 1
        BY <2>1, <2>6, <2>8, CongOps
      <3> QED BY <3>1
    <2>10. Cong(X - Y, (b - a) * Z)
      <3>1. 1 * Y + (b - a) * Z \in Int /\ (1 * Y + (b - a) * Z) - Y = (b - a) * Z
        BY <2>1
      <3>2. Cong(X - Y, (1 * Y + (b - a) * Z) - Y)
        BY <2>6, <3>1, CongRefl, CongOps
      <3> QED BY <3>1, <3>2
    <2>11. X - Y \in Int /\ (b - a) * Z \in Int /\ (b - a) * 1 \in Int
      BY <2>5
    <2>12. Cong((b - a) * Z, (b - a) * 1)
      BY <2>9, <2>10, <2>11, CongSym, CongTrans
    <2> QED BY <2>1, <2>5, <2>6, <2>12, Cancel
  <1> HIDE DEF Good
  <1>4. ASSUME NEW s \in B PROVE s # {} /\ \E x \in s : s \ {x} \in B
    <2>1. PICK a \in s : TRUE
      OBVIOUS
    <2>2. PICK b \in s : b # a
      BY <1>2, <2>1
    <2>3. s \ {a} # {} /\ s \ {b} # {} /\ s \ {a} \in SUBSET I /\ s \ {b} \in SUBSET I
      BY <2>2
    <2> QED BY <1>3, <2>1, <2>2, <2>3
  <1>5. B \in SUBSET SUBSET I
    OBVIOUS
  <1>6. B = {}
    BY <1>1, <1>4, <1>5, NoSmallest
  <1> QED BY <1>6 DEF Good

\* One step of Horner's rule: g is h times x plus e.  When h has the value v at zero,
\* with and without the point a, then g has the value e.
LEMMA InterpolatedStep ==
  ASSUME NEW I, Points(I), NEW a \in I, NEW e \in Int, NEW v \in Int, NEW g, NEW h,
         \A x \in Scalar : g[x] \in Int /\ h[x] \in Int /\ Cong(g[x], h[x] * x + e),
         Cong(Interpolated(I, h), v), Cong(Interpolated(I \ {a}, h), v)
  PROVE  Cong(Interpolated(I, g), e)
  <1> DEFINE q == [i \in Scalar |-> (i - a) * h[i]]
             s == [i \in Scalar |-> a * h[i] + e * Ones[i]]
  <1>1. I \subseteq Scalar /\ Points(I \ {a}) /\ a \in Int /\ \A x \in I : x \in Int /\ Ones[x] = 1
    BY FS_Subset, ScalarFacts DEF Points, Ones
  <1>2. ASSUME NEW x \in I
        PROVE  /\ q[x] \in Int /\ s[x] \in Int /\ Ones[x] \in Int /\ g[x] \in Int /\ h[x] \in Int
               /\ Cong(g[x], 1 * q[x] + 1 * s[x]) /\ Cong(s[x], a * h[x] + e * Ones[x])
    <2>1. PICK xx, ax, hx \in Int : xx = x /\ ax = a /\ hx = h[x]
      BY <1>1
    <2>2. q[x] = (xx - ax) * hx /\ s[x] = ax * hx + e * 1 /\ Ones[x] = 1
      BY <1>1, <2>1
    <2>3. hx * xx + e = 1 * ((xx - ax) * hx) + 1 * (ax * hx + e * 1)
      OBVIOUS
    <2>4. g[x] \in Int /\ Cong(g[x], hx * xx + e)
      BY <1>1, <2>1
    <2>5. (xx - ax) * hx \in Int /\ ax * hx + e * 1 \in Int
      OBVIOUS
    <2> QED BY <2>1, <2>2, <2>3, <2>4, <2>5, CongRefl
  <1>3. Cong(Interpolated(I, q), (0 - a) * Interpolated(I \ {a}, h))
    BY <1>2, InterpolatedShift
  <1>4. Cong(Interpolated(I, Ones), 1)
    BY InterpolatedOnes
  <1> HIDE DEF q, s
  <1>5. /\ Interpolated(I, g) \in Int /\ Interpolated(I, q) \in Int /\ Interpolated(I, s) \in Int
        /\ Cong(Interpolated(I, g), 1 * Interpolated(I, q) + 1 * Interpolated(I, s))
    <2>1. 1 \in Int
      OBVIOUS
    <2> QED BY <1>2, <2>1, InterpolatedLinear, Zenon
  <1>6. /\ Interpolated(I, h) \in Int /\ Interpolated(I, Ones) \in Int
        /\ Cong(Interpolated(I, s), a * Interpolated(I, h) + e * Interpolated(I, Ones))
    BY <1>1, <1>2, InterpolatedLinear, Zenon
  <1>7. Interpolated(I \ {a}, h) \in Int
    <2>1. \A x \in I \ {a} : h[x] \in Int /\ Cong(h[x], 1 * h[x] + 0 * h[x])
      BY <1>1, CongRefl
    <2>2. 1 \in Int /\ 0 \in Int
      OBVIOUS
    <2> QED BY <1>1, <2>1, <2>2, InterpolatedLinear, Zenon
  <1>8. PICK G, Q, S, H, O, J, k \in Int :
             /\ G = Interpolated(I, g) /\ Q = Interpolated(I, q) /\ S = Interpolated(I, s) /\ H = Interpolated(I, h)
             /\ O = Interpolated(I, Ones) /\ J = Interpolated(I \ {a}, h) /\ k = a
    BY <1>1, <1>5, <1>6, <1>7
  <1>9. /\ Cong(G, 1 * Q + 1 * S) /\ Cong(S, k * H + e * O) /\ Cong(Q, (0 - k) * J)
        /\ Cong(O, 1) /\ Cong(H, v) /\ Cong(J, v)
    BY <1>3, <1>4, <1>5, <1>6, <1>8
  <1>10. Cong(k * H, k * v) /\ Cong(e * O, e * 1) /\ Cong((0 - k) * J, (0 - k) * v)
    <2>1. 0 - k \in Int /\ 1 \in Int
      OBVIOUS
    <2>2. Cong(k, k) /\ Cong(e, e) /\ Cong(0 - k, 0 - k)
      BY <2>1, CongRefl
    <2> QED BY <1>9, <2>1, <2>2, CongOps, Zenon
  <1>11. /\ k * H \in Int /\ k * v \in Int /\ e * O \in Int /\ e * 1 \in Int /\ (0 - k) * J \in Int /\ (0 - k) * v \in Int
         /\ k * H + e * O \in Int /\ k * v + e * 1 \in Int
    OBVIOUS
  <1>12. Cong(S, k * v + e * 1)
    BY <1>9, <1>10, <1>11, CongOps, CongTrans
  <1>13. Cong(Q, (0 - k) * v)
    BY <1>9, <1>10, <1>11, CongTrans
  <1>14. Cong(Q + S, (0 - k) * v + (k * v + e * 1))
    BY <1>11, <1>12, <1>13, CongOps
  <1>15. (0 - k) * v + (k * v + e * 1) = e /\ 1 * Q + 1 * S = Q + S /\ Q + S \in Int
    OBVIOUS
  <1>16. Cong(G, e)
    BY <1>9, <1>14, <1>15, CongTrans
  <1> QED BY <1>8, <1>16

\* Interpolation from N points finds the constant coefficient of a polynomial with N
\* coefficients c; H[k] are its values by Horner's rule from the coefficient k on.
LEMMA InterpolatedPolynomial ==
  ASSUME NEW N \in Nat \ {0}, NEW c, \A k \in 1 .. N : c[k] \in Int, NEW H,
         \A k \in 1 .. N + 1, x \in Scalar : H[k][x] \in Int,
         \A x \in Scalar : H[N + 1][x] = 0,
         \A k \in 1 .. N, x \in Scalar : Cong(H[k][x], H[k + 1][x] * x + c[k]),
         NEW I, Points(I), Cardinality(I) >= N
  PROVE  Cong(Interpolated(I, H[1]), c[1])
  <1> DEFINE v(k) == IF k <= N THEN c[k] ELSE 0
             Good(m) == \A s \in SUBSET I : Cardinality(s) >= m => Cong(Interpolated(s, H[N + 1 - m]), v(N + 1 - m))
             T == {m \in Nat : m <= N /\ ~Good(m)}
  <1>1. IsFiniteSet(I) /\ \A s \in SUBSET I : Points(s) /\ IsFiniteSet(s) /\ s \subseteq Scalar /\ Cardinality(s) \in Nat
    BY FS_Subset, FS_CardinalityType DEF Points
  <1>2. Good(0)
    <2> SUFFICES ASSUME NEW s \in SUBSET I PROVE Cong(Interpolated(s, H[N + 1]), 0)
      OBVIOUS
    <2>1. PICK h : h = H[N + 1]
      OBVIOUS
    <2>2. \A x \in s : h[x] \in Int /\ Cong(h[x], 0 * h[x] + 0 * h[x])
      <3>1. Cong(0, 0 * 0 + 0 * 0) /\ \A x \in s : h[x] = 0
        BY <1>1, <2>1, CongRefl
      <3> QED BY <3>1
    <2>3. 0 \in Int /\ Points(s)
      BY <1>1
    <2>4. /\ Interpolated(s, h) \in Int
          /\ Cong(Interpolated(s, h), 0 * Interpolated(s, h) + 0 * Interpolated(s, h))
      BY <2>2, <2>3, InterpolatedLinear, Zenon
    <2>5. 0 * Interpolated(s, h) + 0 * Interpolated(s, h) = 0
      BY <2>4
    <2> QED BY <2>1, <2>4, <2>5
  <1>3. ASSUME NEW m \in Nat, m # 0, m <= N, Good(m - 1) PROVE Good(m)
    <2> SUFFICES ASSUME NEW s \in SUBSET I, Cardinality(s) >= m PROVE Cong(Interpolated(s, H[N + 1 - m]), v(N + 1 - m))
      OBVIOUS
    <2>1. PICK k \in 1 .. N : k = N + 1 - m /\ k + 1 = N + 1 - (m - 1)
      BY <1>3
    <2>2. PICK a \in s : TRUE
      <3>1. Cardinality({}) = 0
        BY FS_EmptySet
      <3>2. s # {}
        BY <1>3, <3>1
      <3> QED BY <3>2
    <2>3. Cardinality(s) >= m - 1 /\ Cardinality(s \ {a}) >= m - 1 /\ s \ {a} \in SUBSET I
      BY <1>1, <1>3, SmallerSet
    <2>4. Cong(Interpolated(s, H[k + 1]), v(k + 1)) /\ Cong(Interpolated(s \ {a}, H[k + 1]), v(k + 1))
      BY <1>3, <2>1, <2>3
    <2>5. k \in 1 .. N + 1 /\ k + 1 \in 1 .. N + 1 /\ v(k + 1) \in Int /\ v(k) = c[k] /\ c[k] \in Int
      BY <2>1
    <2> HIDE DEF v, Good
    <2>6. \A x \in Scalar : H[k][x] \in Int /\ H[k + 1][x] \in Int /\ Cong(H[k][x], H[k + 1][x] * x + c[k])
      BY <2>5
    <2>7. Cong(Interpolated(s, H[k]), c[k])
      BY <1>1, <2>4, <2>5, <2>6, InterpolatedStep
    <2> QED BY <2>1, <2>5, <2>7
  <1> HIDE DEF Good
  <1>4. \A m \in T : m # 0 /\ m - 1 \in T
    BY <1>2, <1>3
  <1>5. T = {}
    BY <1>4, NoLeast
  <1>6. Good(N)
    BY <1>5
  <1>7. N + 1 - N = 1 /\ v(1) = c[1] /\ I \in SUBSET I
    OBVIOUS
  <1> HIDE DEF v
  <1> QED BY <1>6, <1>7 DEF Good

--------------------------------------------------------------------------------
(* A dealer's polynomial: Horner's rule and the sum of powers agree.           *)

Iteration(it, N, V, b, h) ==
    it \in [0 .. N -> V] /\ it[0] = b /\ \A k \in 1 .. N : it[k] = h[k][it[k - 1]]

\* A recursion over 0 .. N has a solution.
LEMMA IterationExists ==
  ASSUME NEW N \in Nat, NEW V, NEW b \in V, NEW h, \A k \in 1 .. N, v \in V : h[k][v] \in V
  PROVE  \E it : Iteration(it, N, V, b, h)
  <1> DEFINE Good(m) == \E it : Iteration(it, m, V, b, h)
             T == {m \in Nat : m <= N /\ ~Good(m)}
  <1>1. Good(0)
    <2> DEFINE it == [k \in 0 .. 0 |-> b]
    <2>1. it \in [0 .. 0 -> V] /\ it[0] = b /\ 1 .. 0 = {}
      OBVIOUS
    <2> HIDE DEF it
    <2>2. Iteration(it, 0, V, b, h)
      BY <2>1 DEF Iteration
    <2> QED BY <2>2
  <1>2. ASSUME NEW m \in Nat, m # 0, m <= N, Good(m - 1) PROVE Good(m)
    <2>1. PICK it : Iteration(it, m - 1, V, b, h)
      BY <1>2
    <2>2. it \in [0 .. m - 1 -> V] /\ it[0] = b /\ \A k \in 1 .. m - 1 : it[k] = h[k][it[k - 1]]
      BY <2>1 DEF Iteration
    <2> DEFINE iu == [k \in 0 .. m |-> IF k = m THEN h[m][it[m - 1]] ELSE it[k]]
    <2>3. h[m][it[m - 1]] \in V /\ m - 1 \in 0 .. m - 1
      BY <1>2, <2>2
    <2>4. iu \in [0 .. m -> V]
      <3> SUFFICES ASSUME NEW k \in 0 .. m PROVE (IF k = m THEN h[m][it[m - 1]] ELSE it[k]) \in V
        OBVIOUS
      <3>1. k = m \/ k \in 0 .. m - 1
        BY <1>2
      <3> QED BY <2>2, <2>3, <3>1
    <2>5. iu[0] = b /\ iu[m] = h[m][it[m - 1]] /\ \A k \in 0 .. m - 1 : iu[k] = it[k]
      BY <1>2, <2>2
    <2> HIDE DEF iu
    <2>6. \A k \in 1 .. m : iu[k] = h[k][iu[k - 1]]
      <3> SUFFICES ASSUME NEW k \in 1 .. m PROVE iu[k] = h[k][iu[k - 1]]
        OBVIOUS
      <3>1. k - 1 \in 0 .. m - 1 /\ (k = m \/ (k \in 1 .. m - 1 /\ k \in 0 .. m - 1))
        BY <1>2
      <3> QED BY <2>2, <2>5, <3>1
    <2> QED BY <2>4, <2>5, <2>6 DEF Iteration
  <1> HIDE DEF Good
  <1>3. \A m \in T : m # 0 /\ m - 1 \in T
    BY <1>1, <1>2
  <1>4. T = {}
    BY <1>3, NoLeast
  <1>5. Good(N)
    BY <1>4
  <1> QED BY <1>5 DEF Good

HornerStep(c, x, hn) == [k \in 1 .. Len(c) + 1 |-> IF k > Len(c) THEN 0 ELSE mod(hn[k + 1] * x + c[k])]
Horner(c, x) == CHOOSE horner : horner = HornerStep(c, x, horner)

\* The loop of f.
LEMMA HornerFacts ==
  ASSUME NEW c \in Seq(Int), NEW x \in Int
  PROVE  /\ f(c, x) = Horner(c, x)[1]
         /\ \A k \in 1 .. Len(c) + 1 : Horner(c, x)[k] \in Residue /\ Horner(c, x)[k] \in Int
         /\ Horner(c, x)[Len(c) + 1] = 0
         /\ \A k \in 1 .. Len(c) : Horner(c, x)[k] = mod(Horner(c, x)[k + 1] * x + c[k])
  <1> DEFINE N == Len(c)
             h == [m \in 1 .. N |-> [v \in Residue |-> mod(v * x + c[N + 1 - m])]]
  <1>0. N \in Nat /\ \A k \in 1 .. N : c[k] \in Int
    OBVIOUS
  <1>r. 0 \in Residue /\ \A v \in Residue : v \in Int
    BY GroupOrder DEF Residue
  <1>s. \A v \in Residue, k \in 1 .. N : mod(v * x + c[k]) \in Residue
    <2> SUFFICES ASSUME NEW v \in Residue, NEW k \in 1 .. N PROVE mod(v * x + c[k]) \in Residue
      OBVIOUS
    <2>1. v * x + c[k] \in Int
      BY <1>0, <1>r
    <2> QED BY <2>1, ModFacts DEF Residue
  <1>1. \A m \in 1 .. N, v \in Residue : h[m][v] = mod(v * x + c[N + 1 - m]) /\ h[m][v] \in Residue
    <2>1. \A m \in 1 .. N : N + 1 - m \in 1 .. N
      BY <1>0
    <2> QED BY <1>s, <2>1
  <1> HIDE DEF h
  <1>2. PICK it : Iteration(it, N, Residue, 0, h)
    BY <1>0, <1>1, <1>r, IterationExists
  <1>3. it \in [0 .. N -> Residue] /\ it[0] = 0 /\ \A m \in 1 .. N : it[m] = mod(it[m - 1] * x + c[N + 1 - m])
    <2>1. it \in [0 .. N -> Residue] /\ it[0] = 0 /\ \A m \in 1 .. N : it[m] = h[m][it[m - 1]]
      BY <1>2 DEF Iteration
    <2>2. \A m \in 1 .. N : m - 1 \in 0 .. N
      BY <1>0
    <2> QED BY <1>1, <2>1, <2>2
  <1> DEFINE hn == [k \in 1 .. N + 1 |-> it[N + 1 - k]]
  <1>4. hn = HornerStep(c, x, hn)
    <2> SUFFICES ASSUME NEW k \in 1 .. N + 1
                 PROVE  it[N + 1 - k] = IF k > N THEN 0 ELSE mod(hn[k + 1] * x + c[k])
      BY DEF HornerStep
    <2>1. CASE k > N
      <3>1. N + 1 - k = 0
        BY <2>1, <1>0
      <3> QED BY <2>1, <3>1, <1>3
    <2>2. CASE ~(k > N)
      <3>1. N + 1 - k \in 1 .. N /\ k + 1 \in 1 .. N + 1 /\ (N + 1 - k) - 1 = N + 1 - (k + 1) /\ N + 1 - (N + 1 - k) = k
        BY <2>2, <1>0
      <3>2. hn[k + 1] = it[(N + 1 - k) - 1]
        BY <3>1
      <3>3. it[N + 1 - k] = mod(it[(N + 1 - k) - 1] * x + c[N + 1 - (N + 1 - k)])
        BY <1>3, <3>1
      <3>4. it[N + 1 - k] = mod(hn[k + 1] * x + c[k])
        BY <3>1, <3>2, <3>3
      <3> QED BY <2>2, <3>4
    <2> QED BY <2>1, <2>2
  <1>5. Horner(c, x) = HornerStep(c, x, Horner(c, x))
    <2>1. \E g : g = HornerStep(c, x, g)
      <3> HIDE DEF hn
      <3> QED BY <1>4
    <2> QED BY <2>1 DEF Horner
  <1>6. PICK g : g = Horner(c, x)
    OBVIOUS
  <1>7. g[N + 1] = 0 /\ \A k \in 1 .. N : g[k] = mod(g[k + 1] * x + c[k])
    <2>1. \A k \in 1 .. N + 1 : HornerStep(c, x, g)[k] = IF k > N THEN 0 ELSE mod(g[k + 1] * x + c[k])
      BY DEF HornerStep
    <2>2. \A k \in 1 .. N + 1 : g[k] = IF k > N THEN 0 ELSE mod(g[k + 1] * x + c[k])
      BY <1>5, <1>6, <2>1
    <2>3. N + 1 \in 1 .. N + 1 /\ N + 1 > N /\ \A k \in 1 .. N : k \in 1 .. N + 1 /\ ~(k > N)
      BY <1>0
    <2> QED BY <2>2, <2>3
  <1>8. \A k \in 1 .. N + 1 : g[k] \in Residue
    <2> DEFINE T == {m \in Nat : m <= N /\ g[N + 1 - m] \notin Residue}
    <2>1. ASSUME NEW m \in T PROVE m # 0 /\ m - 1 \in T
      <3>1. m # 0
        BY <1>0, <1>7, <1>r
      <3>2. m \in Nat /\ N + 1 - m \in 1 .. N /\ (N + 1 - m) + 1 = N + 1 - (m - 1) /\ m - 1 \in Nat /\ m - 1 <= N
        BY <1>0, <3>1
      <3>3. g[N + 1 - m] = mod(g[N + 1 - (m - 1)] * x + c[N + 1 - m])
        BY <1>7, <3>2
      <3>4. g[N + 1 - (m - 1)] \notin Residue
        BY <1>s, <3>2, <3>3
      <3> QED BY <3>1, <3>2, <3>4
    <2>2. T = {}
      <3>1. T \subseteq Nat
        OBVIOUS
      <3> HIDE DEF T
      <3> QED BY <2>1, <3>1, NoLeast
    <2>3. \A k \in 1 .. N + 1 : N + 1 - k \in Nat /\ N + 1 - k <= N /\ N + 1 - (N + 1 - k) = k
      BY <1>0
    <2> QED BY <2>2, <2>3
  <1>9. f(c, x) = Horner(c, x)[1]
    BY DEF f, Horner, HornerStep
  <1> QED BY <1>6, <1>7, <1>8, <1>9, <1>r

PowersStep(C, j, g) ==
    [k \in 0 .. Len(C) |->
        IF k = 0 THEN [acc |-> Identity, power |-> 1]
        ELSE [acc |-> mod(g[k - 1].acc + C[k] * g[k - 1].power), power |-> mod(g[k - 1].power * j)]]
Powers(C, j) == CHOOSE sum : sum = PowersStep(C, j, sum)

\* The loop of evalCommitments.
LEMMA PowersFacts ==
  ASSUME NEW c \in Seq(Int), NEW x \in Int
  PROVE  /\ evalCommitments(c, x) = Powers(c, x)[Len(c)].acc
         /\ \A k \in 0 .. Len(c) : Powers(c, x)[k].acc \in Residue /\ Powers(c, x)[k].power \in Residue
         /\ Powers(c, x)[0].acc = 0 /\ Powers(c, x)[0].power = 1
         /\ \A k \in 1 .. Len(c) : /\ Powers(c, x)[k].acc = mod(Powers(c, x)[k - 1].acc + c[k] * Powers(c, x)[k - 1].power)
                                   /\ Powers(c, x)[k].power = mod(Powers(c, x)[k - 1].power * x)
  <1> DEFINE N == Len(c)
             V == [acc : Residue, power : Residue]
             h == [k \in 1 .. N |-> [v \in V |-> [acc |-> mod(v.acc + c[k] * v.power), power |-> mod(v.power * x)]]]
             b == [acc |-> Identity, power |-> 1]
  <1>0. N \in Nat /\ \A k \in 1 .. N : c[k] \in Int
    OBVIOUS
  <1>r. b \in V /\ \A v \in Residue : v \in Int
    BY GroupOrder DEF Residue, Identity
  <1>s. \A y \in Residue, z \in Residue, k \in 1 .. N : mod(y + c[k] * z) \in Residue /\ mod(z * x) \in Residue
    <2> SUFFICES ASSUME NEW y \in Residue, NEW z \in Residue, NEW k \in 1 .. N
                 PROVE  mod(y + c[k] * z) \in Residue /\ mod(z * x) \in Residue
      OBVIOUS
    <2>1. y + c[k] * z \in Int /\ z * x \in Int
      BY <1>0, <1>r
    <2> QED BY <2>1, ModFacts DEF Residue
  <1>1. \A k \in 1 .. N, v \in V :
           h[k][v] = [acc |-> mod(v.acc + c[k] * v.power), power |-> mod(v.power * x)] /\ h[k][v] \in V
    BY <1>s
  <1> HIDE DEF h, b
  <1>2. PICK it : Iteration(it, N, V, b, h)
    <2> HIDE DEF V
    <2> QED BY <1>0, <1>1, <1>r, IterationExists
  <1>3. /\ it \in [0 .. N -> V] /\ it[0] = b
        /\ \A k \in 1 .. N : it[k] = [acc |-> mod(it[k - 1].acc + c[k] * it[k - 1].power), power |-> mod(it[k - 1].power * x)]
    <2> HIDE DEF V
    <2>1. it \in [0 .. N -> V] /\ it[0] = b /\ \A k \in 1 .. N : it[k] = h[k][it[k - 1]]
      BY <1>2 DEF Iteration
    <2>2. \A k \in 1 .. N : k - 1 \in 0 .. N
      BY <1>0
    <2> QED BY <1>1, <2>1, <2>2
  <1>4. it = PowersStep(c, x, it)
    <2> SUFFICES ASSUME NEW k \in 0 .. N
                 PROVE  it[k] = IF k = 0 THEN [acc |-> Identity, power |-> 1]
                                ELSE [acc |-> mod(it[k - 1].acc + c[k] * it[k - 1].power), power |-> mod(it[k - 1].power * x)]
      <3> HIDE DEF V
      <3> QED BY <1>3 DEF PowersStep
    <2>1. k = 0 \/ k \in 1 .. N
      BY <1>0
    <2> QED BY <1>3, <2>1 DEF b
  <1>5. Powers(c, x) = PowersStep(c, x, Powers(c, x))
    BY <1>4 DEF Powers
  <1>6. PICK g : g = Powers(c, x)
    OBVIOUS
  <1>7. g[0] = b /\ \A k \in 1 .. N : g[k] = [acc |-> mod(g[k - 1].acc + c[k] * g[k - 1].power), power |-> mod(g[k - 1].power * x)]
    <2>1. \A k \in 0 .. N : PowersStep(c, x, g)[k] =
             IF k = 0 THEN [acc |-> Identity, power |-> 1]
             ELSE [acc |-> mod(g[k - 1].acc + c[k] * g[k - 1].power), power |-> mod(g[k - 1].power * x)]
      BY DEF PowersStep
    <2>2. \A k \in 0 .. N : g[k] = PowersStep(c, x, g)[k]
      BY <1>5, <1>6
    <2>3. 0 \in 0 .. N /\ \A k \in 1 .. N : k \in 0 .. N /\ k # 0
      BY <1>0
    <2> QED BY <2>1, <2>2, <2>3 DEF b
  <1>8. \A k \in 0 .. N : g[k] \in V
    <2> DEFINE T == {k \in Nat : k <= N /\ g[k] \notin V}
    <2>1. ASSUME NEW k \in T PROVE k # 0 /\ k - 1 \in T
      <3>1. k # 0
        BY <1>7, <1>r
      <3>2. k \in 1 .. N /\ k - 1 \in Nat /\ k - 1 <= N
        BY <1>0, <3>1
      <3>3. g[k] = [acc |-> mod(g[k - 1].acc + c[k] * g[k - 1].power), power |-> mod(g[k - 1].power * x)]
        BY <1>7, <3>2
      <3>4. ASSUME g[k - 1] \in V PROVE FALSE
        <4>1. g[k - 1].acc \in Residue /\ g[k - 1].power \in Residue
          BY <3>4
        <4>2. mod(g[k - 1].acc + c[k] * g[k - 1].power) \in Residue /\ mod(g[k - 1].power * x) \in Residue
          BY <1>s, <3>2, <4>1
        <4> QED BY <3>3, <4>2
      <3> QED BY <3>1, <3>2, <3>4
    <2>2. T = {}
      <3>1. T \subseteq Nat
        OBVIOUS
      <3> HIDE DEF T
      <3> QED BY <2>1, <3>1, NoLeast
    <2> QED BY <2>2
  <1>9. evalCommitments(c, x) = Powers(c, x)[N].acc
    BY DEF evalCommitments, Powers, PowersStep
  <1>10. g[0].acc = 0 /\ g[0].power = 1
    BY <1>7 DEF b, Identity
  <1>11. \A k \in 1 .. N : /\ g[k].acc = mod(g[k - 1].acc + c[k] * g[k - 1].power)
                          /\ g[k].power = mod(g[k - 1].power * x)
    <2> SUFFICES ASSUME NEW k \in 1 .. N
                 PROVE  g[k].acc = mod(g[k - 1].acc + c[k] * g[k - 1].power) /\ g[k].power = mod(g[k - 1].power * x)
      OBVIOUS
    <2>1. PICK y, z : y = mod(g[k - 1].acc + c[k] * g[k - 1].power) /\ z = mod(g[k - 1].power * x)
      OBVIOUS
    <2>2. g[k] = [acc |-> y, power |-> z]
      BY <1>7, <2>1
    <2> QED BY <2>1, <2>2
  <1>12. \A k \in 0 .. N : g[k].acc \in Residue /\ g[k].power \in Residue
    BY <1>8
  <1> QED BY <1>6, <1>9, <1>10, <1>11, <1>12

\* What a dealer computes with Horner's rule is what anyone computes from the
\* commitments.
LEMMA SameValue ==
  ASSUME NEW c \in Seq(Int), NEW x \in Int
  PROVE  f(c, x) \in Residue /\ f(c, x) \in Int /\ f(c, x) = evalCommitments(c, x)
  <1> DEFINE N == Len(c)
  <1>0. N \in Nat /\ \A k \in 1 .. N : c[k] \in Int
    OBVIOUS
  <1>r. \A v \in Residue : v \in Int
    BY GroupOrder DEF Residue
  <1>1. PICK H : H = Horner(c, x)
    OBVIOUS
  <1>2. /\ f(c, x) = H[1] /\ H[N + 1] = 0
        /\ \A k \in 1 .. N + 1 : H[k] \in Residue /\ H[k] \in Int
        /\ \A k \in 1 .. N : H[k] = mod(H[k + 1] * x + c[k])
    BY <1>1, HornerFacts
  <1>3. PICK P : P = Powers(c, x)
    OBVIOUS
  <1>4. /\ evalCommitments(c, x) = P[N].acc /\ P[0].acc = 0 /\ P[0].power = 1
        /\ \A k \in 0 .. N : P[k].acc \in Residue /\ P[k].power \in Residue
        /\ \A k \in 1 .. N : P[k].acc = mod(P[k - 1].acc + c[k] * P[k - 1].power) /\ P[k].power = mod(P[k - 1].power * x)
    BY <1>3, PowersFacts
  <1> DEFINE Good(k) == Cong(P[k].acc + P[k].power * H[k + 1], H[1])
             T == {k \in Nat : k <= N /\ ~Good(k)}
  <1>5. Good(0)
    <2>1. 1 \in 1 .. N + 1 /\ 0 + 1 = 1
      BY <1>0
    <2>2. H[1] \in Int /\ 0 + 1 * H[1] = H[1]
      BY <1>2, <2>1
    <2> QED BY <1>4, <2>1, <2>2, CongRefl
  <1>6. ASSUME NEW k \in Nat, k # 0, k <= N, Good(k - 1) PROVE Good(k)
    <2>1. k \in 1 .. N /\ k \in 1 .. N + 1 /\ k + 1 \in 1 .. N + 1 /\ k - 1 \in 0 .. N /\ (k - 1) + 1 = k /\ 1 \in 1 .. N + 1 /\ k \in 0 .. N
      BY <1>0, <1>6
    <2>2. PICK A, W, B, U, h, g, e, h1 \in Int :
             /\ A = P[k].acc /\ W = P[k].power /\ B = P[k - 1].acc /\ U = P[k - 1].power
             /\ g = H[k] /\ h = H[k + 1] /\ e = c[k] /\ h1 = H[1]
      BY <1>0, <1>2, <1>4, <1>r, <2>1
    <2>3. A = mod(B + e * U) /\ W = mod(U * x) /\ g = mod(h * x + e) /\ Cong(B + U * g, h1)
      <3>1. P[k].acc = mod(P[k - 1].acc + c[k] * P[k - 1].power) /\ P[k].power = mod(P[k - 1].power * x)
        BY <1>4, <2>1
      <3>2. H[k] = mod(H[k + 1] * x + c[k])
        BY <1>2, <2>1
      <3>3. Cong(P[k - 1].acc + P[k - 1].power * H[k], H[1])
        BY <1>6, <2>1
      <3> QED BY <2>2, <3>1, <3>2, <3>3
    <2>4. /\ B + e * U \in Int /\ U * x \in Int /\ h * x + e \in Int /\ (U * x) * h \in Int /\ W * h \in Int /\ U * g \in Int
          /\ U * (h * x + e) \in Int /\ A + W * h \in Int /\ B + U * g \in Int /\ (B + e * U) + (U * x) * h \in Int
      OBVIOUS
    <2>5. Cong(A, B + e * U) /\ Cong(W, U * x) /\ Cong(g, h * x + e)
      BY <2>3, <2>4, ModFacts
    <2>6. Cong(W * h, (U * x) * h) /\ Cong(U * g, U * (h * x + e))
      <3>1. Cong(h, h) /\ Cong(U, U)
        BY CongRefl
      <3> QED BY <2>4, <2>5, <3>1, CongOps, Zenon
    <2>7. Cong(A + W * h, (B + e * U) + (U * x) * h)
      BY <2>4, <2>5, <2>6, CongOps
    <2>8. Cong(B + U * g, B + U * (h * x + e))
      <3>1. Cong(B, B)
        BY CongRefl
      <3> QED BY <2>4, <2>6, <3>1, CongOps
    <2>9. B + U * (h * x + e) = (B + e * U) + (U * x) * h
      OBVIOUS
    <2>10. Cong((B + e * U) + (U * x) * h, B + U * g)
      BY <2>4, <2>8, <2>9, CongSym
    <2>11. Cong(A + W * h, B + U * g)
      BY <2>4, <2>7, <2>10, CongTrans
    <2>12. Cong(A + W * h, h1)
      BY <2>3, <2>4, <2>11, CongTrans
    <2> QED BY <2>2, <2>12
  <1> HIDE DEF Good
  <1>7. \A k \in T : k # 0 /\ k - 1 \in T
    BY <1>5, <1>6
  <1>8. T = {}
    BY <1>7, NoLeast
  <1>9. Good(N)
    BY <1>0, <1>8
  <1>10. P[N].acc \in Residue /\ P[N].power \in Int /\ H[1] \in Residue /\ N \in 0 .. N /\ 1 \in 1 .. N + 1
    BY <1>0, <1>2, <1>4, <1>r
  <1>11. P[N].acc + P[N].power * H[N + 1] = P[N].acc
    <2>1. PICK A, W \in Int : A = P[N].acc /\ W = P[N].power
      BY <1>10, <1>r
    <2>2. A + W * 0 = A
      OBVIOUS
    <2> QED BY <1>2, <2>1, <2>2
  <1>12. P[N].acc = H[1]
    BY <1>9, <1>10, <1>11, CongEqual DEF Good, Residue
  <1> QED BY <1>2, <1>4, <1>10, <1>12, <1>r

--------------------------------------------------------------------------------
(* Key shares add up over the dealers, and so does what they interpolate to.   *)

\* The polynomials of a dealing.
LEMMA DealingFacts ==
  ASSUME NEW D \in Dealings
  PROVE  /\ DOMAIN D = Participants /\ IsFiniteSet(Participants) /\ Participants \subseteq Scalar
         /\ Threshold \in Nat \ {0}
         /\ \A d \in Participants : D[d] \in Seq(Int) /\ Len(D[d]) = Threshold /\ D[d][1] \in Int
  <1>1. Participants \subseteq Scalar
    BY IndexRange DEF Scalar
  <1>2. IsFiniteSet(Participants)
    <2>1. IsFiniteSet(1 .. L - 1)
      BY GroupOrder, FS_Interval
    <2> QED BY <1>1, <2>1, FS_Subset DEF Scalar
  <1>3. Threshold \in Nat \ {0}
    <2>1. Cardinality(Participants) \in Nat
      BY <1>2, FS_CardinalityType
    <2> QED BY <2>1, IndexRange
  <1>4. ASSUME NEW d \in Participants PROVE D[d] \in Seq(Int) /\ Len(D[d]) = Threshold /\ D[d][1] \in Int
    <2>1. D[d] \in [1 .. Threshold -> Scalar]
      BY DEF Dealings
    <2>2. D[d] \in [1 .. Threshold -> Int]
      BY <2>1 DEF Scalar
    <2> QED BY <1>3, <2>2
  <1> QED BY <1>1, <1>2, <1>3, <1>4 DEF Dealings

\* What Horner's rule computes interpolates to the first coefficient, the secret.
LEMMA InterpolatedSecret ==
  ASSUME NEW D \in Dealings, NEW d \in Participants, NEW I, Points(I), Cardinality(I) >= Threshold
  PROVE  Cong(Interpolated(I, [x \in Scalar |-> f(D[d], x)]), D[d][1])
  <1>1. PICK c \in Seq(Int) : c = D[d] /\ Len(c) = Threshold
    BY DealingFacts
  <1> DEFINE N == Len(c)
             H == [k \in 1 .. N + 1 |-> [x \in Scalar |-> Horner(c, x)[k]]]
  <1>2. N \in Nat \ {0} /\ \A k \in 1 .. N : c[k] \in Int
    BY <1>1, DealingFacts
  <1>3. \A x \in Scalar : x \in Int
    BY ScalarFacts
  <1>4. \A k \in 1 .. N + 1, x \in Scalar : H[k][x] = Horner(c, x)[k] /\ H[k][x] \in Int
    BY <1>3, HornerFacts
  <1>5. \A x \in Scalar : H[N + 1][x] = 0
    <2>1. N + 1 \in 1 .. N + 1
      BY <1>2
    <2> QED BY <1>3, <1>4, <2>1, HornerFacts
  <1>6. \A k \in 1 .. N, x \in Scalar : Cong(H[k][x], H[k + 1][x] * x + c[k])
    <2> SUFFICES ASSUME NEW k \in 1 .. N, NEW x \in Scalar PROVE Cong(H[k][x], H[k + 1][x] * x + c[k])
      OBVIOUS
    <2>1. k \in 1 .. N + 1 /\ k + 1 \in 1 .. N + 1
      BY <1>2
    <2> HIDE DEF H
    <2>2. PICK g \in Int : g = H[k + 1][x] /\ g = Horner(c, x)[k + 1]
      BY <1>4, <2>1
    <2>3. H[k][x] = mod(g * x + c[k])
      BY <1>3, <1>4, <2>1, <2>2, HornerFacts
    <2>4. g * x + c[k] \in Int
      BY <1>2, <1>3
    <2> QED BY <2>2, <2>3, <2>4, ModFacts
  <1>7. H[1] = [x \in Scalar |-> f(D[d], x)]
    <2>1. \A x \in Scalar : Horner(c, x)[1] = f(D[d], x)
      BY <1>1, <1>3, HornerFacts
    <2> QED BY <1>2, <2>1
  <1> HIDE DEF H
  <1>8. Cardinality(I) >= N
    BY <1>1
  <1>9. Cong(Interpolated(I, H[1]), c[1])
    <2> HIDE DEF N
    <2> QED BY <1>2, <1>4, <1>5, <1>6, <1>8, InterpolatedPolynomial
  <1> QED BY <1>1, <1>7, <1>9

\* The keys, with one dealer less.
LEMMA KeyFacts ==
  ASSUME NEW D \in Dealings, NEW Q, Q \subseteq Participants
  PROVE  /\ GroupKey(D, Q) \in Residue /\ GroupKey(D, Q) \in Int
         /\ Q = {} => GroupKey(D, Q) = 0
         /\ \A d \in Q : GroupKey(D, Q) = mod(GroupKey(D, Q \ {d}) + D[d][1])
         /\ \A x \in Scalar : /\ KeyShare(D, Q, x) \in Residue /\ KeyShare(D, Q, x) \in Int
                              /\ Q = {} => KeyShare(D, Q, x) = 0
                              /\ \A d \in Q : KeyShare(D, Q, x) = mod(KeyShare(D, Q \ {d}, x) + f(D[d], x))
  <1>1. IsFiniteSet(Q) /\ \A d \in Q : D[d] \in Seq(Int) /\ D[d][1] \in Int
    BY DealingFacts, FS_Subset
  <1> DEFINE g == [d \in Q |-> D[d][1]]
  <1>2. /\ \A d \in Q : g[d] = D[d][1] /\ g[d] \in Int
        /\ Part(g, Q) = [d \in Q |-> D[d][1]]
        /\ \A d \in Q : Part(g, Q \ {d}) = [e \in Q \ {d} |-> D[e][1]]
    BY <1>1 DEF Part
  <1>3. /\ GroupKey(D, Q) = SumOver(Part(g, Q))
        /\ \A d \in Q : GroupKey(D, Q \ {d}) = SumOver(Part(g, Q \ {d}))
    BY <1>2 DEF GroupKey
  <1> HIDE DEF g
  <1>4. /\ SumOver(Part(g, Q)) \in Residue /\ SumOver(Part(g, Q)) \in Int
        /\ Q = {} => SumOver(Part(g, Q)) = 0
        /\ \A d \in Q : SumOver(Part(g, Q)) = mod(SumOver(Part(g, Q \ {d})) + g[d])
    BY <1>1, <1>2, SumPart
  <1>5. ASSUME NEW x \in Scalar
        PROVE  /\ KeyShare(D, Q, x) \in Residue /\ KeyShare(D, Q, x) \in Int
               /\ Q = {} => KeyShare(D, Q, x) = 0
               /\ \A d \in Q : KeyShare(D, Q, x) = mod(KeyShare(D, Q \ {d}, x) + f(D[d], x))
    <2> DEFINE h == [d \in Q |-> f(D[d], x)]
    <2>0. x \in Int
      BY ScalarFacts
    <2>1. \A d \in Q : f(D[d], x) \in Int
      BY <1>1, <2>0, SameValue
    <2>2. /\ \A d \in Q : h[d] = f(D[d], x) /\ h[d] \in Int
          /\ Part(h, Q) = [d \in Q |-> f(D[d], x)]
          /\ \A d \in Q : Part(h, Q \ {d}) = [e \in Q \ {d} |-> f(D[e], x)]
      BY <2>1 DEF Part
    <2>3. /\ KeyShare(D, Q, x) = SumOver(Part(h, Q))
          /\ \A d \in Q : KeyShare(D, Q \ {d}, x) = SumOver(Part(h, Q \ {d}))
      BY <2>2 DEF KeyShare
    <2> HIDE DEF h
    <2>4. /\ SumOver(Part(h, Q)) \in Residue /\ SumOver(Part(h, Q)) \in Int
          /\ Q = {} => SumOver(Part(h, Q)) = 0
          /\ \A d \in Q : SumOver(Part(h, Q)) = mod(SumOver(Part(h, Q \ {d})) + h[d])
      BY <1>1, <2>2, SumPart
    <2> QED BY <2>2, <2>3, <2>4
  <1> QED BY <1>2, <1>3, <1>4, <1>5

\* The key shares of enough participants interpolate to the group's secret.
LEMMA InterpolatedKey ==
  ASSUME NEW D \in Dealings, NEW Q, Q \subseteq Participants, NEW I, Points(I), Cardinality(I) >= Threshold
  PROVE  Cong(Interpolated(I, [x \in Scalar |-> KeyShare(D, Q, x)]), GroupKey(D, Q))
  <1> DEFINE Shares(s) == [x \in Scalar |-> KeyShare(D, s, x)]
             Good(s) == Cong(Interpolated(I, Shares(s)), GroupKey(D, s))
             B == {s \in SUBSET Q : ~Good(s)}
  <1>0. IsFiniteSet(Q) /\ I \subseteq Scalar /\ \A s \in SUBSET Q : s \subseteq Participants
    BY DealingFacts, FS_Subset DEF Points
  <1>1. Good({})
    <2>1. \A x \in I : Shares({})[x] = 0
      BY <1>0, KeyFacts
    <2>2. GroupKey(D, {}) = 0
      BY KeyFacts
    <2> HIDE DEF Shares
    <2>3. 0 \in Int /\ Cong(0, 0 * 0 + 0 * 0)
      BY CongRefl
    <2>4. PICK h : h = Shares({})
      OBVIOUS
    <2>5. \A x \in I : h[x] \in Int /\ Cong(h[x], 0 * h[x] + 0 * h[x])
      BY <2>1, <2>3, <2>4
    <2>6. Interpolated(I, h) \in Int /\ Cong(Interpolated(I, h), 0 * Interpolated(I, h) + 0 * Interpolated(I, h))
      BY <2>3, <2>5, InterpolatedLinear, Zenon
    <2>7. 0 * Interpolated(I, h) + 0 * Interpolated(I, h) = 0
      BY <2>6
    <2> QED BY <2>2, <2>4, <2>6, <2>7
  <1>2. ASSUME NEW s \in SUBSET Q, NEW d \in s, Good(s \ {d}) PROVE Good(s)
    <2> DEFINE v == [x \in Scalar |-> f(D[d], x)]
    <2>0. d \in Participants /\ s \subseteq Participants /\ s \ {d} \subseteq Participants
      BY <1>0
    <2>1. Cong(Interpolated(I, v), D[d][1]) /\ D[d][1] \in Int /\ D[d] \in Seq(Int)
      BY <2>0, InterpolatedSecret, DealingFacts
    <2>2. ASSUME NEW x \in I
          PROVE  /\ Shares(s)[x] \in Int /\ Shares(s \ {d})[x] \in Int /\ v[x] \in Int
                 /\ Cong(Shares(s)[x], 1 * Shares(s \ {d})[x] + 1 * v[x])
      <3>1. x \in Scalar /\ x \in Int
        BY <1>0, ScalarFacts
      <3>2. PICK a, b \in Int : a = KeyShare(D, s \ {d}, x) /\ b = f(D[d], x)
        BY <2>0, <2>1, <3>1, KeyFacts, SameValue
      <3>3. KeyShare(D, s, x) = mod(a + b) /\ KeyShare(D, s, x) \in Int
        BY <2>0, <3>1, <3>2, KeyFacts
      <3>4. a + b \in Int /\ 1 * a + 1 * b = a + b
        OBVIOUS
      <3>5. Cong(mod(a + b), 1 * a + 1 * b)
        BY <3>4, ModFacts
      <3> QED BY <3>1, <3>2, <3>3, <3>5
    <2> HIDE DEF Shares, v
    <2>3. /\ Interpolated(I, Shares(s)) \in Int /\ Interpolated(I, Shares(s \ {d})) \in Int /\ Interpolated(I, v) \in Int
          /\ Cong(Interpolated(I, Shares(s)), 1 * Interpolated(I, Shares(s \ {d})) + 1 * Interpolated(I, v))
      <3>1. 1 \in Int
        OBVIOUS
      <3> QED BY <2>2, <3>1, InterpolatedLinear, Zenon
    <2>4. PICK X, Y, Z, G, e \in Int :
             /\ X = Interpolated(I, Shares(s)) /\ Y = Interpolated(I, Shares(s \ {d})) /\ Z = Interpolated(I, v)
             /\ G = GroupKey(D, s \ {d}) /\ e = D[d][1]
      BY <2>0, <2>1, <2>3, KeyFacts
    <2>5. Cong(X, 1 * Y + 1 * Z) /\ Cong(Y, G) /\ Cong(Z, e) /\ GroupKey(D, s) = mod(G + e)
      <3>1. GroupKey(D, s) = mod(GroupKey(D, s \ {d}) + D[d][1])
        BY <2>0, KeyFacts
      <3> QED BY <1>2, <2>1, <2>3, <2>4, <3>1
    <2>6. Cong(Y + Z, G + e) /\ 1 * Y + 1 * Z = Y + Z /\ Y + Z \in Int /\ G + e \in Int
      BY <2>5, CongOps
    <2>7. Cong(G + e, mod(G + e)) /\ mod(G + e) \in Int
      BY <2>6, ModFacts, CongSym
    <2>8. Cong(X, G + e)
      BY <2>5, <2>6, CongTrans
    <2>9. Cong(X, mod(G + e))
      BY <2>6, <2>7, <2>8, CongTrans
    <2> QED BY <2>4, <2>5, <2>9
  <1> HIDE DEF Good
  <1>3. ASSUME NEW s \in B PROVE s # {} /\ \E x \in s : s \ {x} \in B
    BY <1>1, <1>2
  <1>4. B = {}
    BY <1>0, <1>3, NoSmallest
  <1> QED BY <1>4 DEF Good

\* Decryption shares of enough participants combine to the shared point, the group
\* key times the random scalar m.
LEMMA CombinedPoint ==
  ASSUME NEW D \in Dealings, NEW Q, Q \subseteq Participants, NEW I, Points(I), Cardinality(I) >= Threshold,
         NEW m \in Int
  PROVE  SumOver([i \in I |-> mod(KeyShare(D, Q, i) * m) * lagrangeAtZero(i, I)]) = mod(GroupKey(D, Q) * m)
  <1> DEFINE Shares == [x \in Scalar |-> KeyShare(D, Q, x)]
             g == [i \in I |-> mod(KeyShare(D, Q, i) * m) * lagrangeAtZero(i, I)]
             a == [i \in I |-> lagrangeAtZero(i, I) * Shares[i]]
  <1>0. IsFiniteSet(I) /\ I \subseteq Scalar
    BY DEF Points
  <1>1. ASSUME NEW x \in I PROVE g[x] \in Int /\ a[x] \in Int /\ Cong(g[x], m * a[x] + 0 * a[x])
    <2>1. PICK k, lx \in Int : k = KeyShare(D, Q, x) /\ lx = lagrangeAtZero(x, I)
      BY <1>0, KeyFacts, LagrangeStep
    <2>2. g[x] = mod(k * m) * lx /\ a[x] = lx * k
      BY <1>0, <2>1
    <2>3. k * m \in Int /\ mod(k * m) \in Int /\ Cong(mod(k * m), k * m)
      <3>1. k * m \in Int
        OBVIOUS
      <3> QED BY <3>1, ModFacts
    <2>4. Cong(mod(k * m) * lx, (k * m) * lx)
      BY <2>3, CongRefl, CongOps
    <2>5. (k * m) * lx = m * (lx * k) + 0 * (lx * k) /\ mod(k * m) * lx \in Int /\ lx * k \in Int
      BY <2>3
    <2> QED BY <2>2, <2>4, <2>5
  <1>2. SumOver([i \in I |-> mod(KeyShare(D, Q, i) * m) * lagrangeAtZero(i, I)]) = SumOver(Part(g, I)) /\ Interpolated(I, Shares) = SumOver(Part(a, I))
    <2> HIDE DEF Shares
    <2>1. Part(g, I) = g /\ Part(a, I) = a
      BY DEF Part
    <2> QED BY <2>1 DEF Interpolated
  <1>3. Cong(Interpolated(I, Shares), GroupKey(D, Q)) /\ GroupKey(D, Q) \in Int
    BY InterpolatedKey, KeyFacts
  <1> HIDE DEF g, a, Shares
  <1>4. Cong(SumOver(Part(g, I)), m * SumOver(Part(a, I)) + 0 * SumOver(Part(a, I)))
    <2>1. 0 \in Int
      OBVIOUS
    <2> QED BY <1>0, <1>1, <2>1, SumLinear, Zenon
  <1>5. PICK X, Y, G \in Int : X = SumOver(Part(g, I)) /\ Y = SumOver(Part(a, I)) /\ G = GroupKey(D, Q) /\ X \in Residue
    BY <1>0, <1>1, <1>3, SumPart
  <1>6. Cong(X, m * Y + 0 * Y) /\ Cong(Y, G)
    BY <1>2, <1>3, <1>4, <1>5
  <1>7. m * Y + 0 * Y = m * Y /\ m * Y \in Int /\ G * m \in Int /\ m * G = G * m /\ m * G \in Int
    OBVIOUS
  <1>8. Cong(m * Y, m * G)
    BY <1>6, CongRefl, CongOps
  <1>9. Cong(X, G * m)
    BY <1>6, <1>7, <1>8, CongTrans
  <1>10. mod(X) = mod(G * m)
    BY <1>7, <1>9, ModSame
  <1>11. mod(X) = X
    BY <1>5, ModSmall DEF Residue
  <1> QED BY <1>2, <1>5, <1>10, <1>11

--------------------------------------------------------------------------------
(* Key generation and threshold decryption of the dealings of MCAlgorithms.    *)

\* Amounts are natural numbers, reserves positive ones, and the random scalar of
\* a dealing is not zero.
Inputs ==
    /\ n \in Nat /\ (n <= MaxValue \/ n < L)
    /\ r = <<>> \/ r \in (Nat \ {0}) \X (Nat \ {0})
    /\ dealing = <<>> \/ (dealing \in Dealings /\ n \in Scalar /\ r = <<>>)

\* Inputs is an invariant.
LEMMA InputsTyped == Spec => []Inputs
  <1>1. Init => Inputs
    <2>1. 1 \in Scalar /\ 0 < L /\ 1 < L
      BY GroupOrder DEF Scalar
    <2>2. (1 .. MaxReserve) \X (1 .. MaxReserve) \subseteq (Nat \ {0}) \X (Nat \ {0})
      BY BoundsAssumption
    <2>3. Init => (n = 0 \/ n = 1)
      BY DEF Init
    <2> QED BY <2>1, <2>2, <2>3 DEF Init, Inputs
  <1>2. Inputs /\ [Next]_<<n, r, dealing, limitVars>> => Inputs'
    <2> SUFFICES ASSUME Inputs, [Next]_<<n, r, dealing, limitVars>> PROVE Inputs'
      OBVIOUS
    <2>1. CASE UNCHANGED <<n, r, dealing>>
      BY <2>1 DEF Inputs
    <2>2. CASE n < Last /\ n' = n + 1 /\ UNCHANGED <<r, dealing>>
      <3>1. n' \in Nat /\ (n' <= MaxValue \/ n' < L)
        <4>1. Last = MaxValue \/ Last = L - 1 \/ Last = 0
          BY DEF Last
        <4>2. n \in Nat /\ MaxValue \in Nat /\ L \in Int
          BY BoundsAssumption, GroupOrder DEF Inputs
        <4> QED BY <2>2, <4>1, <4>2
      <3>2. ASSUME dealing # <<>> PROVE n' \in Scalar
        <4>1. Last = L - 1 /\ n \in Scalar
          BY <3>2 DEF Last, Inputs
        <4> QED BY <2>2, <4>1, GroupOrder DEF Scalar
      <3> QED BY <2>2, <3>1, <3>2 DEF Inputs
    <2> QED BY <2>1, <2>2 DEF Next
  <1> QED BY <1>1, <1>2, PTL DEF Spec

\* Who qualifies, and that secret shares and public verification keys agree.
LEMMA QualifiedFacts ==
  ASSUME NEW D \in Dealings
  PROVE  /\ Qualified(D) \subseteq Participants
         /\ Qualified(D) = {d \in DOMAIN D : \A j \in Participants : f(D[d], j) # 0}
         /\ \A j \in Participants : KeyShare(D, Qualified(D), j) = VerificationKey(D, Qualified(D), j)
  <1>1. DOMAIN D = Participants /\ Participants \subseteq Scalar /\ \A d \in Participants : D[d] \in Seq(Int)
    BY DealingFacts
  <1>2. \A d, j \in Participants : f(D[d], j) \in Residue /\ f(D[d], j) = evalCommitments(D[d], j)
    BY <1>1, ScalarFacts, SameValue
  <1>3. \A d, j \in Participants : shareMatches(f(D[d], j), D[d], j) <=> f(D[d], j) # 0
    <2>1. \A v \in Residue : v \in Scalar <=> v # 0
      BY GroupOrder DEF Residue, Scalar
    <2> QED BY <1>2, <2>1 DEF shareMatches
  <1>4. Qualified(D) \subseteq Participants
    BY <1>1 DEF Qualified
  <1>5. Qualified(D) = {d \in DOMAIN D : \A j \in Participants : f(D[d], j) # 0}
    BY <1>1, <1>3 DEF Qualified
  <1>6. ASSUME NEW j \in Participants PROVE KeyShare(D, Qualified(D), j) = VerificationKey(D, Qualified(D), j)
    <2>1. [d \in Qualified(D) |-> f(D[d], j)] = [d \in Qualified(D) |-> evalCommitments(D[d], j)]
      BY <1>2, <1>4
    <2> QED BY <2>1 DEF KeyShare, VerificationKey
  <1> QED BY <1>4, <1>5, <1>6

\* For every dealing: an honest dealer is disqualified by a zero share only, and
\* finalize's check of the secret share against the verification key never throws.
THEOREM KeysAreRight == Spec => []KeysMatchCommitments
  <1>1. Inputs => KeysMatchCommitments
    BY QualifiedFacts DEF Inputs, KeysMatchCommitments, Qual, Key
  <1> QED BY <1>1, InputsTyped, PTL

\* What a proof of equality of logarithms says: v is the share y times m, z the response.
LEMMA ResponseFacts ==
  ASSUME NEW y \in Scalar, NEW m \in Scalar, NEW k \in Scalar, NEW c \in Residue
  PROVE  /\ mod(y * m) # 0
         /\ mod(k + c * y) \in Residue
         /\ mod(mod(k + c * y) - c * y) = k
         /\ mod(mod(k + c * y) * m - c * mod(y * m)) = mod(k * m)
  <1>1. y \in Int /\ m \in Int /\ k \in Int /\ c \in Int /\ k \in 0 .. L - 1
    BY ScalarFacts, GroupOrder DEF Residue
  <1>2. PICK p, q \in Int : p = y * m /\ q = k + c * y
    BY <1>1
  <1>3. PICK v, z \in Int : v = mod(p) /\ z = mod(q) /\ Cong(v, p) /\ Cong(z, q) /\ v \in Residue /\ z \in Residue
    BY ModFacts DEF Residue
  <1>4. v # 0
    <2>1. ~Cong(p, 0) /\ Cong(p, v)
      BY <1>2, <1>3, NoZeroProduct, CongSym
    <2> QED BY <2>1
  <1>5. mod(z - c * y) = k
    <2>1. c * y \in Int /\ z - c * y \in Int /\ q - c * y = k
      BY <1>1, <1>2
    <2>2. Cong(z - c * y, k)
      BY <1>1, <1>3, <2>1, CongRefl, CongOps
    <2>3. mod(z - c * y) = mod(k)
      BY <1>1, <2>1, <2>2, ModSame
    <2> QED BY <1>1, <2>3, ModSmall
  <1>6. mod(z * m - c * v) = mod(k * m)
    <2>1. z * m \in Int /\ q * m \in Int /\ c * v \in Int /\ c * p \in Int /\ z * m - c * v \in Int /\ k * m \in Int
      BY <1>1
    <2>2. Cong(m, m) /\ Cong(c, c)
      BY <1>1, CongRefl
    <2>3. Cong(z * m, q * m) /\ Cong(c * v, c * p)
      BY <1>1, <1>3, <2>2, CongOps
    <2>4. Cong(z * m - c * v, q * m - c * p)
      BY <2>1, <2>3, CongOps
    <2>5. q * m - c * p = k * m
      BY <1>1, <1>2
    <2> QED BY <2>1, <2>4, <2>5, ModSame
  <1> QED BY <1>2, <1>3, <1>4, <1>5, <1>6

\* For every key and every random scalar: the verifier of decryption shares accepts
\* an honest proof unless its response is zero, and accepts it for no other point.
THEOREM ProofsAreRight == Spec => []ProofsAreExact
  <1>1. Inputs => ProofsAreExact
    <2> SUFFICES ASSUME Inputs, Keyed, NEW j \in Participants, NEW k \in Scalar, NEW c \in 0 .. L - 1
                 PROVE  LET y == Key(j) Y == VerificationKey(dealing, Qual, j)
                            ds == partialDecrypt(j, y, n, k, c)
                        IN  /\ verifyDecryptionShare(ds, Y, n) <=> mod(k + c * y) # 0
                            /\ \A D \in Scalar : verifyDecryptionShare([ds EXCEPT !.share = D], Y, n) => D = ds.share
      BY DEF ProofsAreExact
    <2>1. dealing \in Dealings /\ n \in Scalar /\ CanFinalize(dealing, Qual)
      BY DEF Inputs, Keyed
    <2>2. PICK y \in Scalar : y = Key(j) /\ y = VerificationKey(dealing, Qual, j)
      <3>1. Key(j) = VerificationKey(dealing, Qual, j) /\ Qual \subseteq Participants
        BY <2>1, QualifiedFacts DEF Qual, Key
      <3>2. Key(j) \in Residue
        BY <2>1, <3>1, KeyFacts, DealingFacts DEF Key
      <3>3. Key(j) # 0
        BY <2>1 DEF CanFinalize, Key
      <3>4. Key(j) \in Scalar
        BY <3>2, <3>3, GroupOrder DEF Residue, Scalar
      <3> QED BY <3>1, <3>4
    <2>3. PICK v, z, w : v = mod(y * n) /\ z = mod(k + c * y) /\ w = mod(k * n)
      OBVIOUS
    <2>4. v # 0 /\ z \in Residue /\ mod(z - c * y) = k /\ mod(z * n - c * v) = w
      BY <2>1, <2>3, ResponseFacts DEF Residue
    <2> DEFINE ds == partialDecrypt(j, y, n, k, c)
    <2>5. ds = [index |-> j, share |-> v, c |-> c, z |-> z, hashed |-> <<1, y, n, v, k, w>>]
      BY <2>3 DEF partialDecrypt
    <2>6. y # 0 /\ n # 0
      BY <2>1, ScalarFacts
    <2> HIDE DEF ds
    <2>7. verifyDecryptionShare(ds, y, n) <=> z # 0
      <3>1. ds.share = v /\ ds.c = c /\ ds.z = z /\ ds.hashed = <<1, y, n, v, k, w>>
        BY <2>5
      <3>2. z \in Scalar <=> z # 0
        BY <2>4, GroupOrder DEF Residue, Scalar
      <3> QED BY <2>4, <2>6, <3>1, <3>2 DEF verifyDecryptionShare, Identity
    <2>8. ASSUME NEW D \in Scalar, verifyDecryptionShare([ds EXCEPT !.share = D], y, n) PROVE D = ds.share
      <3>1. PICK e : e = [ds EXCEPT !.share = D]
        OBVIOUS
      <3>2. e.share = D /\ e.hashed = <<1, y, n, v, k, w>> /\ ds.share = v
        BY <2>5, <3>1
      <3>3. e.hashed = <<1, y, n, e.share, mod(e.z - e.c * y), mod(e.z * n - e.c * e.share)>>
        BY <2>8, <3>1 DEF verifyDecryptionShare
      <3>4. PICK a, b : a = mod(e.z - e.c * y) /\ b = mod(e.z * n - e.c * e.share)
        OBVIOUS
      <3>5. <<1, y, n, v, k, w>> = <<1, y, n, D, a, b>>
        BY <3>2, <3>3, <3>4
      <3>6. v = D
        BY <3>5
      <3> QED BY <3>2, <3>6
    <2> QED BY <2>2, <2>3, <2>7, <2>8 DEF ds
  <1> QED BY <1>1, InputsTyped, PTL

Firsts(s) == {p \in DOMAIN s : \A q \in 1 .. p - 1 : s[q] # s[p]}
Used(s) == {p \in Firsts(s) : Cardinality({q \in Firsts(s) : q < p}) < Threshold}

\* Numbers up to a bound have a largest one.
LEMMA MaxFacts ==
  ASSUME NEW N \in Nat, NEW S, S \subseteq 0 .. N, S # {}
  PROVE  Max(S) \in S /\ \A y \in S : y <= Max(S)
  <1> DEFINE T == {N - p : p \in S}
  <1>1. T \subseteq Nat /\ T # {}
    <2>1. \A p \in S : p \in 0 .. N /\ N - p \in Nat
      OBVIOUS
    <2> QED BY <2>1
  <1>2. PICK t \in T : \A y \in T : t <= y
    BY <1>1, LeastNat
  <1>3. PICK p \in S : t = N - p
    OBVIOUS
  <1>4. \A y \in S : p >= y
    <2> SUFFICES ASSUME NEW y \in S PROVE p >= y
      OBVIOUS
    <2>1. N - y \in T /\ N - p <= N - y
      BY <1>2, <1>3
    <2> QED BY <2>1
  <1>5. Max(S) \in S /\ \A y \in S : Max(S) >= y
    BY <1>4 DEF Max
  <1> QED BY <1>5

\* The positions used by combineShares are Threshold many as soon as there are that many
\* different indices, and no two of them have the same index.
LEMMA UsedFacts ==
  ASSUME NEW N \in Nat, NEW s, DOMAIN s = 1 .. N, Threshold \in Nat
  PROVE  /\ Cardinality(Used(s)) < Threshold <=> Cardinality({s[p] : p \in DOMAIN s}) < Threshold
         /\ Cardinality({s[p] : p \in Used(s)}) >= Cardinality(Used(s))
  <1> DEFINE F == Firsts(s)
             U == Used(s)
             R == {s[p] : p \in DOMAIN s}
             V == {s[p] : p \in U}
  <1>1. IsFiniteSet(1 .. N) /\ F \subseteq 1 .. N /\ U \subseteq F
    BY FS_Interval DEF Firsts, Used
  <1>2. IsFiniteSet(F) /\ IsFiniteSet(U) /\ Cardinality(F) \in Nat /\ Cardinality(U) \in Nat /\ Cardinality(U) <= Cardinality(F)
    BY <1>1, FS_Subset, FS_CardinalityType
  <1>3. \A p, q \in F : s[p] = s[q] => p = q
    <2> SUFFICES ASSUME NEW p \in F, NEW q \in F, p < q, s[p] = s[q] PROVE FALSE
      BY <1>1
    <2>1. p \in 1 .. q - 1
      BY <1>1
    <2> QED BY <2>1 DEF Firsts
  <1>4. \A v \in R : \E p \in F : s[p] = v
    <2> SUFFICES ASSUME NEW v \in R PROVE \E p \in F : s[p] = v
      OBVIOUS
    <2> DEFINE T == {p \in 1 .. N : s[p] = v}
    <2>1. T \subseteq Nat /\ T # {}
      OBVIOUS
    <2>2. PICK p \in T : \A y \in T : p <= y
      BY <2>1, LeastNat
    <2>3. \A q \in 1 .. p - 1 : q \in 1 .. N /\ ~(p <= q)
      OBVIOUS
    <2>4. p \in F
      BY <2>2, <2>3 DEF Firsts
    <2> QED BY <2>4
  <1> HIDE DEF F, U
  <1>5. IsFiniteSet(R) /\ Cardinality(R) \in Nat /\ Cardinality(R) = Cardinality(F)
    <2> DEFINE g == [p \in F |-> s[p]]
    <2>1. g \in Surjection(F, R)
      BY <1>1, <1>4 DEF Surjection
    <2>2. g \in Injection(F, R)
      <3>1. g \in [F -> R] /\ \A p, q \in F : g[p] = g[q] => p = q
        BY <1>1, <1>3
      <3> QED BY <3>1 DEF Injection, IsInjective
    <2> HIDE DEF g, R
    <2>3. IsFiniteSet(R) /\ Cardinality(R) = Cardinality(F)
      BY <1>2, <2>1, <2>2, FS_Surjection
    <2> QED BY <1>2, <2>3
  <1>6. Cardinality(V) >= Cardinality(U)
    <2> DEFINE g == [p \in U |-> s[p]]
    <2>1. g \in Surjection(U, V)
      BY DEF Surjection
    <2>2. g \in Injection(U, V)
      <3>1. g \in [U -> V] /\ \A p, q \in U : g[p] = g[q] => p = q
        BY <1>1, <1>3
      <3> QED BY <3>1 DEF Injection, IsInjective
    <2> HIDE DEF g, V
    <2>3. Cardinality(V) = Cardinality(U)
      BY <1>2, <2>1, <2>2, FS_Surjection
    <2> QED BY <1>2, <2>3
  <1>7. ASSUME Cardinality(F) >= Threshold, Cardinality(U) < Threshold PROVE FALSE
    <2>1. F \ U # {} /\ \A q \in F : q \in Nat
      <3>1. F # U
        BY <1>2, <1>7
      <3>2. F \ U # {}
        BY <1>1, <3>1, Zenon
      <3>3. \A q \in 1 .. N : q \in Nat
        OBVIOUS
      <3> QED BY <1>1, <3>2, <3>3
    <2>2. PICK p \in F \ U : \A y \in F \ U : p <= y
      <3> DEFINE T == F \ U
      <3>1. T # {} /\ T \subseteq Nat
        BY <2>1, Zenon
      <3> HIDE DEF T
      <3>2. \E x \in T : \A y \in T : x <= y
        BY <3>1, LeastNat
      <3> QED BY <3>2 DEF T
    <2>3. {q \in F : q < p} \subseteq U
      <3> SUFFICES ASSUME NEW q \in F, q < p, q \notin U PROVE FALSE
        OBVIOUS
      <3>1. p <= q /\ p \in Nat /\ q \in Nat
        BY <2>1, <2>2
      <3> QED BY <3>1
    <2>4. Cardinality({q \in F : q < p}) <= Cardinality(U) /\ Cardinality({q \in F : q < p}) \in Nat
      BY <1>2, <2>3, FS_Subset, FS_CardinalityType
    <2>5. Cardinality({q \in F : q < p}) < Threshold
      BY <1>2, <1>7, <2>4
    <2> QED BY <2>2, <2>5 DEF F, U, Used
  <1>8. Cardinality(U) < Threshold <=> Cardinality(R) < Threshold
    BY <1>2, <1>5, <1>7
  <1> QED BY <1>6, <1>8 DEF U

\* What combineShares makes of the shares of the participants s[1], s[2], ...
LEMMA CombineFacts ==
  ASSUME NEW D \in Dealings, NEW Q, Q \subseteq Participants, NEW m \in Int, NEW N \in Nat,
         NEW s \in [1 .. N -> Participants], NEW sh, DOMAIN sh = 1 .. N,
         \A p \in 1 .. N : sh[p].index = s[p] /\ sh[p].share = mod(KeyShare(D, Q, s[p]) * m)
  PROVE  combineShares(sh) = IF Cardinality({s[p] : p \in DOMAIN s}) < Threshold THEN <<>>
                             ELSE <<mod(GroupKey(D, Q) * m)>>
  <1> DEFINE U == Used(s)
             I == {s[p] : p \in U}
             At(i) == {p \in DOMAIN sh : sh[p].index = i}
  <1>1. DOMAIN s = 1 .. N /\ Threshold \in Nat /\ Participants \subseteq Scalar /\ IsFiniteSet(Participants)
    BY DealingFacts
  <1>2. {p \in DOMAIN sh : \A q \in 1 .. p - 1 : sh[q].index # sh[p].index} = Firsts(s)
    <2>1. \A p \in 1 .. N : \A q \in 1 .. p - 1 : q \in 1 .. N
      OBVIOUS
    <2> QED BY <1>1, <2>1 DEF Firsts
  <1>3. {p \in Firsts(s) : Cardinality({q \in Firsts(s) : q < p}) < Threshold} = U
    BY DEF Used
  <1>4. U \subseteq 1 .. N
    BY <1>1 DEF Used, Firsts
  <1>5. {sh[p].index : p \in U} = I
    BY <1>4
  <1>6. combineShares(sh) =
           IF Cardinality(U) < Threshold THEN <<>>
           ELSE <<SumOver([i \in I |-> sh[Max(At(i))].share * lagrangeAtZero(i, I)])>>
    <2> HIDE DEF U, I
    <2> QED BY <1>2, <1>3, <1>5 DEF combineShares
  <1>7. \A i \in I : sh[Max(At(i))].share = mod(KeyShare(D, Q, i) * m)
    <2> SUFFICES ASSUME NEW i \in I PROVE sh[Max(At(i))].share = mod(KeyShare(D, Q, i) * m)
      OBVIOUS
    <2>1. At(i) \subseteq 0 .. N /\ At(i) # {}
      BY <1>4
    <2>2. Max(At(i)) \in At(i)
      <3> HIDE DEF At
      <3> QED BY <2>1, MaxFacts
    <2>3. Max(At(i)) \in 1 .. N /\ s[Max(At(i))] = i
      BY <2>2
    <2> QED BY <2>3
  <1>8. Points(I)
    <2>1. I \subseteq Participants
      BY <1>4
    <2> QED BY <1>1, <2>1, FS_Subset DEF Points
  <1>9. Cardinality(I) \in Nat /\ Cardinality(U) \in Nat
    <2>1. IsFiniteSet(U)
      BY <1>4, FS_Interval, FS_Subset
    <2> QED BY <1>8, <2>1, FS_CardinalityType DEF Points
  <1>10. /\ Cardinality(U) < Threshold <=> Cardinality({s[p] : p \in DOMAIN s}) < Threshold
         /\ Cardinality(I) >= Cardinality(U)
    BY <1>1, UsedFacts
  <1>11. ASSUME ~(Cardinality(U) < Threshold)
         PROVE  SumOver([i \in I |-> sh[Max(At(i))].share * lagrangeAtZero(i, I)]) = mod(GroupKey(D, Q) * m)
    <2>1. Cardinality(I) >= Threshold
      BY <1>1, <1>9, <1>10, <1>11
    <2> HIDE DEF I, At, U
    <2>2. [i \in I |-> sh[Max(At(i))].share * lagrangeAtZero(i, I)] = [i \in I |-> mod(KeyShare(D, Q, i) * m) * lagrangeAtZero(i, I)]
      BY <1>7
    <2> QED BY <1>8, <2>1, <2>2, CombinedPoint
  <1> HIDE DEF U, I
  <1> QED BY <1>6, <1>10, <1>11

\* For every dealing and every random scalar: Threshold different shares, in any order
\* and repeated, open an order sealed for the group key; fewer do not combine, and no
\* other point and no other user opens it.
THEOREM ThresholdOpens == Spec => []AnyThresholdOpens
  <1>1. Inputs => AnyThresholdOpens
    <2> DEFINE ct == encryptOrder("order", GroupKey(dealing, Qual), "alice", n)
               shares == [j \in Participants |-> partialDecrypt(j, Key(j), n, 1, 1)]
               sh(s) == [p \in DOMAIN s |-> shares[s[p]]]
    <2> SUFFICES ASSUME Inputs, Keyed, NEW s \in [1 .. Threshold + 1 -> Participants]
                 PROVE  LET K == combineShares(sh(s))
                        IN  IF Cardinality({s[p] : p \in DOMAIN s}) < Threshold THEN K = <<>>
                            ELSE /\ decryptWithSharedPoint(ct, K[1], "alice") = <<"order">>
                                 /\ decryptWithSharedPoint(ct, K[1], "bob") = <<>>
                                 /\ \A X \in Scalar \ {K[1]} : decryptWithSharedPoint(ct, X, "alice") = <<>>
      BY DEF AnyThresholdOpens
    <2>1. dealing \in Dealings /\ n \in Scalar /\ n \in Int /\ n # 0
      BY ScalarFacts DEF Inputs, Keyed
    <2>2. Qual \subseteq Participants /\ Threshold \in Nat /\ Threshold + 1 \in Nat
      BY <2>1, QualifiedFacts, DealingFacts DEF Qual
    <2>3. PICK k : k = mod(GroupKey(dealing, Qual) * n)
      OBVIOUS
    <2>4. ct = [R |-> n, key |-> <<n, k>>, aad |-> <<n, "alice">>, body |-> "order"]
      BY <2>3 DEF encryptOrder, deriveAesKey, aad
    <2>5. DOMAIN sh(s) = 1 .. Threshold + 1
      OBVIOUS
    <2>6. \A p \in 1 .. Threshold + 1 : sh(s)[p].index = s[p] /\ sh(s)[p].share = mod(KeyShare(dealing, Qual, s[p]) * n)
      <3> SUFFICES ASSUME NEW p \in 1 .. Threshold + 1
                   PROVE  sh(s)[p].index = s[p] /\ sh(s)[p].share = mod(KeyShare(dealing, Qual, s[p]) * n)
        OBVIOUS
      <3>1. PICK j \in Participants : j = s[p] /\ sh(s)[p] = partialDecrypt(j, Key(j), n, 1, 1)
        OBVIOUS
      <3>2. partialDecrypt(j, Key(j), n, 1, 1).index = j /\ partialDecrypt(j, Key(j), n, 1, 1).share = mod(Key(j) * n)
        BY DEF partialDecrypt
      <3> QED BY <3>1, <3>2 DEF Key
    <2> HIDE DEF sh, ct
    <2>7. combineShares(sh(s)) = IF Cardinality({s[p] : p \in DOMAIN s}) < Threshold THEN <<>> ELSE <<k>>
      BY <2>1, <2>2, <2>3, <2>5, <2>6, CombineFacts
    <2>8. decryptWithSharedPoint(ct, k, "alice") = <<"order">>
      BY <2>1, <2>4 DEF decryptWithSharedPoint, deriveAesKey, aad, Identity
    <2>9. decryptWithSharedPoint(ct, k, "bob") = <<>>
      BY <2>1, <2>4 DEF decryptWithSharedPoint, deriveAesKey, aad, Identity
    <2>10. \A X \in Scalar \ {k} : decryptWithSharedPoint(ct, X, "alice") = <<>>
      BY <2>1, <2>4 DEF decryptWithSharedPoint, deriveAesKey, aad, Identity
    <2>11. CASE Cardinality({s[p] : p \in DOMAIN s}) < Threshold
      BY <2>7, <2>11
    <2>12. CASE ~(Cardinality({s[p] : p \in DOMAIN s}) < Threshold)
      <3>1. combineShares(sh(s)) = <<k>> /\ combineShares(sh(s))[1] = k
        BY <2>7, <2>12
      <3> QED BY <2>8, <2>9, <2>10, <2>12, <3>1
    <2> QED BY <2>11, <2>12
  <1> QED BY <1>1, InputsTyped, PTL

--------------------------------------------------------------------------------
(* The form's amounts.                                                         *)

FrontStep(u, d, g) == [k \in 0 .. d |-> IF k = 0 THEN u ELSE g[k - 1] \div 10]
Front(u, d) == CHOOSE front : front = FrontStep(u, d, front)
Digit(u, d, k) == Front(u, d)[d - k] % 10

\* The digits of fromBaseUnits, from the last to the first.
LEMMA FrontFacts ==
  ASSUME NEW u \in Nat, NEW d \in Nat
  PROVE  /\ \A k \in 0 .. d : Front(u, d)[k] \in Nat
         /\ Front(u, d)[0] = u
         /\ \A k \in 1 .. d : Front(u, d)[k] = Front(u, d)[k - 1] \div 10
  <1> DEFINE h == [k \in 1 .. d |-> [v \in Nat |-> v \div 10]]
  <1>0. \A v \in Nat : v \div 10 \in Nat
    OBVIOUS
  <1>1. \A k \in 1 .. d, v \in Nat : h[k][v] = v \div 10 /\ h[k][v] \in Nat
    BY <1>0
  <1> HIDE DEF h
  <1>2. PICK it : Iteration(it, d, Nat, u, h)
    BY <1>1, IterationExists
  <1>3. it \in [0 .. d -> Nat] /\ it[0] = u /\ \A k \in 1 .. d : it[k] = it[k - 1] \div 10
    <2>1. it \in [0 .. d -> Nat] /\ it[0] = u /\ \A k \in 1 .. d : it[k] = h[k][it[k - 1]]
      BY <1>2 DEF Iteration
    <2>2. \A k \in 1 .. d : k - 1 \in 0 .. d
      OBVIOUS
    <2> QED BY <1>1, <2>1, <2>2
  <1>4. it = FrontStep(u, d, it)
    <2> SUFFICES ASSUME NEW k \in 0 .. d PROVE it[k] = IF k = 0 THEN u ELSE it[k - 1] \div 10
      BY <1>3 DEF FrontStep
    <2>1. k = 0 \/ k \in 1 .. d
      OBVIOUS
    <2> QED BY <1>3, <2>1
  <1>5. Front(u, d) = FrontStep(u, d, Front(u, d))
    BY <1>4 DEF Front
  <1>6. PICK g : g = Front(u, d)
    OBVIOUS
  <1>7. g[0] = u /\ \A k \in 1 .. d : g[k] = g[k - 1] \div 10
    <2>1. \A k \in 0 .. d : FrontStep(u, d, g)[k] = IF k = 0 THEN u ELSE g[k - 1] \div 10
      BY DEF FrontStep
    <2>2. \A k \in 0 .. d : g[k] = IF k = 0 THEN u ELSE g[k - 1] \div 10
      BY <1>5, <1>6, <2>1
    <2>3. 0 \in 0 .. d /\ \A k \in 1 .. d : k \in 0 .. d /\ k # 0
      OBVIOUS
    <2> QED BY <2>2, <2>3
  <1>8. \A k \in 0 .. d : g[k] \in Nat
    <2> DEFINE T == {k \in Nat : k <= d /\ g[k] \notin Nat}
    <2>1. ASSUME NEW k \in T PROVE k # 0 /\ k - 1 \in T
      <3>1. k # 0
        BY <1>7
      <3>2. k \in 1 .. d /\ k - 1 \in Nat /\ k - 1 <= d
        BY <3>1
      <3> QED BY <1>0, <1>7, <3>1, <3>2
    <2>2. T = {}
      <3>1. T \subseteq Nat
        OBVIOUS
      <3> HIDE DEF T
      <3> QED BY <2>1, <3>1, NoLeast
    <2> QED BY <2>2
  <1> QED BY <1>6, <1>7, <1>8

Padded(a, k) == IF k <= Len(a.frac) THEN a.frac[k] ELSE 0
UnitsStep(a, d, g) == [k \in 0 .. d |-> IF k = 0 THEN a.whole ELSE 10 * g[k - 1] + Padded(a, k)]
Units(a, d) == CHOOSE units : units = UnitsStep(a, d, units)

\* Appending the digits one by one to the whole part gives the fronts of u again,
\* down to u itself.
LEMMA UnitsFacts ==
  ASSUME NEW u \in Nat, NEW d \in Nat, NEW a, a.whole = Front(u, d)[d], \A k \in 1 .. d : Padded(a, k) = Digit(u, d, k)
  PROVE  Units(a, d)[d] = u
  <1>1. PICK fr : fr = Front(u, d)
    OBVIOUS
  <1>2. (\A k \in 0 .. d : fr[k] \in Nat) /\ fr[0] = u /\ \A k \in 1 .. d : fr[k] = fr[k - 1] \div 10
    BY <1>1, FrontFacts
  <1>3. \A k \in 1 .. d : 10 * fr[d - (k - 1)] + Padded(a, k) = fr[d - k]
    <2> SUFFICES ASSUME NEW k \in 1 .. d PROVE 10 * fr[d - (k - 1)] + Padded(a, k) = fr[d - k]
      OBVIOUS
    <2>1. d - (k - 1) \in 1 .. d /\ (d - (k - 1)) - 1 = d - k /\ d - k \in 0 .. d
      OBVIOUS
    <2>2. PICK v \in Nat : v = fr[d - k]
      BY <1>2, <2>1
    <2>3. fr[d - (k - 1)] = v \div 10 /\ Padded(a, k) = v % 10
      BY <1>1, <1>2, <2>1, <2>2 DEF Digit
    <2>4. v = 10 * (v \div 10) + (v % 10)
      <3>1. v \in Int /\ 10 \in Int /\ 10 > 0
        OBVIOUS
      <3> QED BY <3>1, DivMod, Zenon
    <2> QED BY <2>2, <2>3, <2>4, Zenon
  <1> DEFINE W == [k \in 0 .. d |-> fr[d - k]]
  <1>4. W = UnitsStep(a, d, W)
    <2> SUFFICES ASSUME NEW k \in 0 .. d PROVE fr[d - k] = IF k = 0 THEN a.whole ELSE 10 * W[k - 1] + Padded(a, k)
      BY DEF UnitsStep
    <2>1. CASE k = 0
      BY <1>1, <2>1
    <2>2. CASE k # 0
      <3>1. k \in 1 .. d /\ k - 1 \in 0 .. d
        BY <2>2
      <3>2. W[k - 1] = fr[d - (k - 1)]
        BY <3>1
      <3> QED BY <1>3, <2>2, <3>1, <3>2
    <2> QED BY <2>1, <2>2
  <1>5. PICK g : g = Units(a, d) /\ g = UnitsStep(a, d, g)
    <2> HIDE DEF W
    <2> QED BY <1>4 DEF Units
  <1>6. \A k \in 0 .. d : g[k] = IF k = 0 THEN a.whole ELSE 10 * g[k - 1] + Padded(a, k)
    <2>1. \A k \in 0 .. d : UnitsStep(a, d, g)[k] = IF k = 0 THEN a.whole ELSE 10 * g[k - 1] + Padded(a, k)
      BY DEF UnitsStep
    <2> QED BY <1>5, <2>1
  <1>7. g[d] = fr[0]
    <2> DEFINE T == {k \in Nat : k <= d /\ g[k] # fr[d - k]}
    <2>1. ASSUME NEW k \in T PROVE k # 0 /\ k - 1 \in T
      <3>1. k # 0
        <4>1. g[0] = a.whole /\ a.whole = fr[d - 0]
          BY <1>1, <1>6
        <4> QED BY <4>1
      <3>2. k \in 1 .. d /\ k \in 0 .. d /\ k - 1 \in Nat /\ k - 1 <= d
        BY <3>1
      <3>3. g[k] = 10 * g[k - 1] + Padded(a, k) /\ 10 * fr[d - (k - 1)] + Padded(a, k) = fr[d - k]
        BY <1>3, <1>6, <3>1, <3>2
      <3> QED BY <3>1, <3>2, <3>3
    <2>2. T = {}
      <3>1. T \subseteq Nat
        OBVIOUS
      <3> HIDE DEF T
      <3> QED BY <2>1, <3>1, NoLeast
    <2> QED BY <2>2
  <1> QED BY <1>2, <1>5, <1>7

\* fromBaseUnits drops the zeros that toBaseUnits pads again.
LEMMA RoundTrip ==
  ASSUME NEW u \in Nat, NEW d \in Nat
  PROVE  toBaseUnits(fromBaseUnits(u, d), d) = <<u>>
  <1> DEFINE S == {0} \cup {k \in 1 .. d : Digit(u, d, k) # 0}
             m == Max(S)
             frac == [k \in 1 .. m |-> Digit(u, d, k)]
             w == Front(u, d)[d]
             a == [whole |-> w, frac |-> frac]
  <1>1. m \in 0 .. d /\ \A k \in 1 .. d : k > m => Digit(u, d, k) = 0
    <2>1. S \subseteq 0 .. d /\ S # {}
      OBVIOUS
    <2>2. Max(S) \in S /\ \A y \in S : y <= Max(S)
      <3> HIDE DEF S
      <3> QED BY <2>1, MaxFacts
    <2>3. \A k \in 1 .. d : k > m => k \notin S
      BY <2>1, <2>2
    <2> QED BY <2>1, <2>2, <2>3
  <1>2. fromBaseUnits(u, d) = a
    BY DEF fromBaseUnits, Front, FrontStep, Digit
  <1> HIDE DEF m, w
  <1>3. Len(frac) = m /\ Len(frac) <= d /\ \A k \in 1 .. m : frac[k] = Digit(u, d, k)
    BY <1>1
  <1> HIDE DEF frac
  <1>4. a.whole = w /\ a.frac = frac
    OBVIOUS
  <1> HIDE DEF a
  <1>5. \A k \in 1 .. d : Padded(a, k) = Digit(u, d, k)
    BY <1>1, <1>3, <1>4 DEF Padded
  <1>6. Units(a, d)[d] = u
    BY <1>4, <1>5, UnitsFacts DEF w
  <1>7. toBaseUnits(a, d) = IF Len(a.frac) > d THEN <<>> ELSE <<Units(a, d)[d]>>
    BY DEF toBaseUnits, Units, UnitsStep, Padded
  <1> QED BY <1>2, <1>3, <1>4, <1>6, <1>7

--------------------------------------------------------------------------------
(* The minimum of the form, in doubles.                                        *)

\* Products keep an order, and a positive factor may be dropped from it.
LEMMA ProductOrder ==
  ASSUME NEW a \in Nat, NEW b \in Nat, NEW c \in Nat, NEW d \in Nat, a <= b, c <= d
  PROVE  a * c <= b * d
  <1>1. a * c <= b * c
    OBVIOUS
  <1>2. b * c <= b * d
    OBVIOUS
  <1> QED BY <1>1, <1>2

\* See ProductOrder.
LEMMA DropFactor ==
  ASSUME NEW a \in Int, NEW b \in Int, NEW c \in Nat \ {0}, a * c <= b * c
  PROVE  a <= b
  <1> SUFFICES ASSUME a >= b + 1 PROVE FALSE
    OBVIOUS
  <1>1. a * c >= (b + 1) * c /\ (b + 1) * c = b * c + c
    OBVIOUS
  <1> QED BY <1>1

\* RoundEven is off by half at most.
LEMMA RoundEvenFacts ==
  ASSUME NEW a \in Nat, NEW b \in Nat \ {0}
  PROVE  /\ RoundEven(a, b) \in Nat
         /\ 2 * (RoundEven(a, b) * b) <= 2 * a + b /\ 2 * a <= 2 * (RoundEven(a, b) * b) + b
  <1>1. PICK x, y : x = a \div b /\ y = a % b /\ x \in Nat /\ y \in Nat /\ y < b /\ a = b * x + y
    <2>1. a \div b \in Nat /\ a % b \in Nat /\ a % b < b /\ a = b * (a \div b) + (a % b)
      OBVIOUS
    <2> QED BY <2>1
  <1>2. (RoundEven(a, b) = x /\ 2 * y <= b) \/ (RoundEven(a, b) = x + 1 /\ 2 * y >= b)
    <2>1. RoundEven(a, b) = IF 2 * y > b \/ (2 * y = b /\ x % 2 = 1) THEN x + 1 ELSE x
      BY <1>1, Zenon DEF RoundEven
    <2>2. CASE 2 * y > b
      BY <1>1, <2>1, <2>2
    <2>3. CASE 2 * y < b
      BY <1>1, <2>1, <2>3
    <2>4. CASE 2 * y = b
      BY <1>1, <2>1, <2>4
    <2> QED BY <1>1, <2>2, <2>3, <2>4
  <1>3. PICK z \in Nat : z = x * b
    BY <1>1
  <1>4. (x + 1) * b = z + b /\ a = z + y
    BY <1>1, <1>3
  <1> QED BY <1>1, <1>2, <1>3, <1>4

\* x is a / b but for one part in Significands.
Nearest(x, a, b) ==
    /\ x.num \in Nat /\ x.den \in Nat \ {0}
    /\ Significands * (x.num * b) <= (Significands + 1) * (a * x.den)
    /\ (Significands - 1) * (a * x.den) <= Significands * (x.num * b)

\* The first power of two beyond a bound.
LEMMA FirstPower ==
  ASSUME NEW S, S \subseteq PowersOfTwo, S # {}
  PROVE  \E p \in S : p \in Nat \ {0} /\ (p = 1 \/ \E h \in PowersOfTwo : p = 2 * h /\ h \notin S)
  <1>1. S \subseteq Nat /\ \A p \in PowersOfTwo : p \in Nat \ {0}
    BY DoubleAssumption
  <1>2. PICK p \in S : \A y \in S : p <= y
    BY <1>1, LeastNat
  <1>3. ASSUME p # 1 PROVE \E h \in PowersOfTwo : p = 2 * h /\ h \notin S
    <2>1. PICK h \in PowersOfTwo : p = 2 * h
      BY <1>3, DoubleAssumption
    <2>2. ~(p <= h)
      BY <1>1, <2>1
    <2> QED BY <1>2, <2>1, <2>2
  <1> QED BY <1>1, <1>2, <1>3

\* The rounding of a double, when a / b is within its range.
LEMMA DoubleFacts ==
  ASSUME NEW a \in Nat, NEW b \in Nat \ {0},
         \E p \in PowersOfTwo : a < p * b * Significands,
         a = 0 \/ \E p \in PowersOfTwo : 2 * p * a >= b * Significands
  PROVE  /\ Nearest(Double(a, b), a, b)
         /\ a * Double(a, b).den <= a + b * Significands
  <1>0. PICK W \in Nat : W = Significands /\ W >= 16
    BY DoubleAssumption
  <1>1. CASE a = 0
    <2>1. Double(a, b) = [num |-> 0, den |-> 1]
      BY <1>1 DEF Double
    <2>2. PICK x : x = Double(a, b)
      OBVIOUS
    <2>3. x.num = 0 /\ x.den = 1
      BY <2>1, <2>2
    <2>4. Nearest(x, a, b)
      BY <1>0, <1>1, <2>3 DEF Nearest
    <2>5. a * x.den <= a + b * W
      BY <1>0, <1>1, <2>3
    <2> QED BY <1>0, <2>2, <2>4, <2>5
  <1>2. CASE a # 0
    <2>1. PICK u : u = CHOOSE p \in PowersOfTwo : a < p * b * W /\ (p = 1 \/ 2 * a >= p * b * W)
      OBVIOUS
    <2>2. PICK v : v = CHOOSE p \in PowersOfTwo : 2 * p * a >= b * W /\ (p = 1 \/ p * a < b * W)
      OBVIOUS
    <2>3. u \in Nat \ {0} /\ (u = 1 \/ 2 * a >= u * b * W)
      <3> DEFINE S == {p \in PowersOfTwo : a < p * b * W}
      <3>1. PICK p \in S : p \in Nat \ {0} /\ (p = 1 \/ \E h \in PowersOfTwo : p = 2 * h /\ h \notin S)
        <4>1. S \subseteq PowersOfTwo /\ S # {}
          BY <1>0
        <4> HIDE DEF S
        <4> QED BY <4>1, FirstPower
      <3>2. p = 1 \/ 2 * a >= p * b * W
        <4> SUFFICES ASSUME p # 1 PROVE 2 * a >= p * b * W
          OBVIOUS
        <4>1. PICK h \in PowersOfTwo : p = 2 * h /\ ~(a < h * b * W)
          BY <3>1
        <4>2. h \in Nat /\ h * b * W \in Nat
          BY DoubleAssumption
        <4>3. PICK z \in Nat : z = h * b * W
          BY <4>2
        <4>4. p * b * W = 2 * z
          BY <4>1, <4>2, <4>3
        <4> QED BY <4>1, <4>3, <4>4
      <3>3. p \in PowersOfTwo /\ a < p * b * W
        BY <3>1
      <3>4. u \in PowersOfTwo /\ (u = 1 \/ 2 * a >= u * b * W)
        BY <2>1, <3>2, <3>3
      <3> QED BY <3>4, DoubleAssumption
    <2>4. v \in Nat \ {0} /\ 2 * v * a >= b * W /\ (v = 1 \/ v * a < b * W)
      <3> DEFINE S == {p \in PowersOfTwo : 2 * p * a >= b * W}
      <3>1. PICK p \in S : p \in Nat \ {0} /\ (p = 1 \/ \E h \in PowersOfTwo : p = 2 * h /\ h \notin S)
        <4>1. S \subseteq PowersOfTwo /\ S # {}
          BY <1>0, <1>2
        <4> HIDE DEF S
        <4> QED BY <4>1, FirstPower
      <3>2. p = 1 \/ p * a < b * W
        <4> SUFFICES ASSUME p # 1 PROVE p * a < b * W
          OBVIOUS
        <4>1. PICK h \in PowersOfTwo : p = 2 * h /\ ~(2 * h * a >= b * W)
          BY <3>1
        <4>2. h \in Nat
          BY DoubleAssumption
        <4>3. 2 * h * a = p * a /\ p * a \in Int /\ b * W \in Int
          BY <4>1, <4>2
        <4> QED BY <4>1, <4>3
      <3>3. p \in PowersOfTwo /\ 2 * p * a >= b * W
        BY <3>1
      <3>4. v \in PowersOfTwo /\ 2 * v * a >= b * W /\ (v = 1 \/ v * a < b * W)
        BY <2>2, <3>2, <3>3
      <3> QED BY <3>4, DoubleAssumption
    <2>5. PICK s \in Nat : s = v * a
      BY <2>4
    <2>6. PICK q \in Nat \ {0} : q = u * b
      BY <2>3
    <2>7. q * W <= 2 * s
      <3>1. CASE u = 1
        <4>1. q = b /\ 2 * v * a = 2 * s
          BY <2>4, <2>5, <2>6, <3>1
        <4> QED BY <2>4, <4>1
      <3>2. CASE u # 1
        <4>1. u * b * W = q * W
          BY <2>3, <2>6
        <4>2. a <= s
          BY <2>4, <2>5
        <4> QED BY <2>3, <3>2, <4>1, <4>2
      <3> QED BY <3>1, <3>2
    <2>8. PICK m \in Nat : m = RoundEven(s, q) /\ 2 * (m * q) <= 2 * s + q /\ 2 * s <= 2 * (m * q) + q
      BY RoundEvenFacts
    <2>9. PICK e \in Nat : e = m * q
      BY <2>8
    <2>10. W * e <= (W + 1) * s /\ (W - 1) * s <= W * e
      <3>1. W * (2 * e) <= W * (2 * s + q) /\ W * (2 * s) <= W * (2 * e + q)
        <4>1. 2 * e <= 2 * s + q /\ 2 * s <= 2 * e + q
          BY <2>8, <2>9
        <4> QED BY <4>1, ProductOrder
      <3>2. PICK we \in Nat : we = W * e
        OBVIOUS
      <3>3. PICK ws \in Nat : ws = W * s
        OBVIOUS
      <3>4. PICK wq \in Nat : wq = q * W
        OBVIOUS
      <3>5. W * (2 * e) = 2 * we /\ W * (2 * s + q) = 2 * ws + wq /\ W * (2 * s) = 2 * ws /\ W * (2 * e + q) = 2 * we + wq
        BY <3>2, <3>3, <3>4
      <3>6. (W + 1) * s = ws + s /\ (W - 1) * s = ws - s
        BY <3>3
      <3> QED BY <2>7, <3>1, <3>2, <3>4, <3>5, <3>6
    <2>11. PICK x : x = Double(a, b)
      OBVIOUS
    <2>12. x = [num |-> u * m, den |-> v]
      BY <1>0, <1>2, <2>1, <2>2, <2>5, <2>6, <2>8, <2>11 DEF Double
    <2>13. x.num = u * m /\ x.den = v
      BY <2>12
    <2>14. x.num * b = e /\ a * x.den = s /\ x.num \in Nat
      BY <2>3, <2>4, <2>5, <2>6, <2>9, <2>13
    <2>15. Nearest(x, a, b)
      BY <1>0, <2>4, <2>10, <2>13, <2>14 DEF Nearest
    <2>16. a * x.den <= a + b * W
      <3>1. b * W \in Nat
        OBVIOUS
      <3>2. v = 1 => s = a
        BY <2>5
      <3> QED BY <2>4, <2>5, <2>14, <3>1, <3>2
    <2> QED BY <1>0, <2>11, <2>15, <2>16
  <1> QED BY <1>1, <1>2

\* Factors may be reordered.
LEMMA Regroup ==
  ASSUME NEW a \in Int, NEW b \in Int, NEW c \in Int, NEW d \in Int
  PROVE  (a * (b * c)) * d = (a * c) * (b * d) /\ (a * b) * (c * d) = (a * d) * (b * c)
  OBVIOUS

\* The factor 1 - slippage: t is the double of b / M and s the one of 1 - t.
LEMMA FactorFacts ==
  ASSUME NEW M \in Nat \ {0}, NEW b \in Nat, 2 * b <= M, NEW t, Nearest(t, b, M),
         t.den >= t.num, NEW s, Nearest(s, t.den - t.num, t.den)
  PROVE  LET R == (M - b) * Significands
         IN  /\ s.num * (M * Significands) <= (R + M + b) * s.den
             /\ (R - M) * s.den <= s.num * (M * Significands)
  <1>0. PICK W \in Nat : W = Significands /\ W >= 16
    BY DoubleAssumption
  <1>1. PICK tn, td : tn \in Nat /\ td \in Nat \ {0} /\ tn = t.num /\ td = t.den
    BY DEF Nearest
  <1>2. PICK sn, sd : sn \in Nat /\ sd \in Nat \ {0} /\ sn = s.num /\ sd = s.den
    BY DEF Nearest
  <1>3. PICK g \in Nat : g = td - tn
    BY <1>1
  <1>4. W * (tn * M) <= (W + 1) * (b * td) /\ (W - 1) * (b * td) <= W * (tn * M)
    BY <1>0, <1>1 DEF Nearest
  <1>5. W * (sn * td) <= (W + 1) * (g * sd) /\ (W - 1) * (g * sd) <= W * (sn * td)
    BY <1>0, <1>1, <1>2, <1>3 DEF Nearest
  <1>6. PICK R \in Nat : R = (M - b) * W
    OBVIOUS
  <1>7. PICK B \in Nat : B = b * W /\ b <= B
    BY <1>0
  <1>8. PICK K \in Nat : K = M * W /\ K = R + B /\ K >= M
    <2>1. R + B = M * W
      BY <1>6, <1>7
    <2>2. M * W >= M
      BY <1>0
    <2> QED BY <2>1, <2>2
  <1>9. b <= R /\ M <= R
    <2>1. (M - b) * 16 <= (M - b) * W
      BY <1>0
    <2> QED BY <1>6, <2>1
  <1>10. g * K <= td * (R + b) /\ td * (R - b) <= g * K
    <2>1. PICK x \in Nat : x = W * (tn * M)
      BY <1>1
    <2>2. PICK y \in Nat : y = b * td
      BY <1>1
    <2>3. PICK z \in Nat : z = B * td
      BY <1>1
    <2>4. (W + 1) * y = z + y /\ (W - 1) * y = z - y
      <3>1. W * y = z
        BY <1>1, <1>7, <2>2, <2>3
      <3> QED BY <3>1
    <2>5. g * K = td * K - x
      BY <1>1, <1>3, <1>8, <2>1
    <2>6. td * K = td * R + z
      <3>1. td * (R + B) = td * R + z
        BY <1>1, <2>3
      <3> QED BY <1>8, <3>1
    <2>7. td * (R + b) = td * R + y /\ td * (R - b) = td * R - y /\ td * R \in Nat
      BY <1>1, <2>2
    <2> QED BY <1>4, <2>1, <2>2, <2>4, <2>5, <2>6, <2>7
  <1>11. sn * K <= (R + M + b) * sd
    <2>1. (W * (sn * td)) * K <= ((W + 1) * (g * sd)) * K
      <3>1. W * (sn * td) \in Nat /\ (W + 1) * (g * sd) \in Nat
        BY <1>1, <1>2
      <3> QED BY <1>5, <3>1, ProductOrder
    <2>2. ((W + 1) * sd) * (g * K) <= ((W + 1) * sd) * (td * (R + b))
      <3>1. (W + 1) * sd \in Nat /\ g * K \in Nat /\ td * (R + b) \in Nat
        BY <1>1, <1>2
      <3> QED BY <1>10, <3>1, ProductOrder
    <2>3. ((W + 1) * (g * sd)) * K = ((W + 1) * sd) * (g * K)
      BY <1>2, Regroup
    <2>4. (sn * K) * (W * td) = (W * (sn * td)) * K
      BY <1>1, <1>2
    <2>5. ((W + 1) * sd) * (td * (R + b)) = ((W + 1) * (R + b)) * (sd * td)
      <3>1. W + 1 \in Int /\ R + b \in Int /\ sd \in Int /\ td \in Int
        BY <1>1, <1>2
      <3> QED BY <3>1, Regroup
    <2>6. (W + 1) * (R + b) <= (R + M + b) * W
      <3>1. PICK x \in Nat : x = W * R
        OBVIOUS
      <3>2. (W + 1) * (R + b) = x + B + R + b /\ (R + M + b) * W = x + K + B
        BY <1>7, <1>8, <3>1
      <3> QED BY <1>7, <1>8, <3>2
    <2>7. ((W + 1) * (R + b)) * (sd * td) <= ((R + M + b) * W) * (sd * td)
      <3>1. (W + 1) * (R + b) \in Nat /\ (R + M + b) * W \in Nat /\ sd * td \in Nat
        BY <1>1, <1>2
      <3> QED BY <2>6, <3>1, ProductOrder
    <2>8. ((R + M + b) * W) * (sd * td) = ((R + M + b) * sd) * (W * td)
      BY <1>1, <1>2
    <2>9. (sn * K) * (W * td) <= ((R + M + b) * sd) * (W * td)
      <3>1. PICK c1, c2, c3, c4 : /\ c1 = (sn * K) * (W * td) /\ c2 = ((W + 1) * sd) * (g * K)
                                  /\ c3 = ((W + 1) * (R + b)) * (sd * td) /\ c4 = ((R + M + b) * sd) * (W * td)
                                  /\ c1 \in Nat /\ c2 \in Nat /\ c3 \in Nat /\ c4 \in Nat
        BY <1>1, <1>2
      <3>2. c1 <= c2
        BY <2>1, <2>3, <2>4, <3>1
      <3>3. c2 <= c3
        BY <2>2, <2>5, <3>1
      <3>4. c3 <= c4
        BY <2>7, <2>8, <3>1
      <3>5. c1 <= c4
        BY <3>1, <3>2, <3>3, <3>4
      <3> QED BY <3>1, <3>5
    <2>10. W * td \in Nat \ {0} /\ sn * K \in Int /\ (R + M + b) * sd \in Int
      BY <1>0, <1>1, <1>2
    <2> QED BY <2>9, <2>10, DropFactor
  <1>12. (R - M) * sd <= sn * K
    <2>1. ((W - 1) * (g * sd)) * K <= (W * (sn * td)) * K
      <3>1. W * (sn * td) \in Nat /\ (W - 1) * (g * sd) \in Nat
        BY <1>0, <1>1, <1>2
      <3> QED BY <1>5, <3>1, ProductOrder
    <2>2. ((W - 1) * sd) * (td * (R - b)) <= ((W - 1) * sd) * (g * K)
      <3>1. (W - 1) * sd \in Nat /\ g * K \in Nat /\ td * (R - b) \in Nat
        BY <1>0, <1>1, <1>2, <1>9
      <3> QED BY <1>10, <3>1, ProductOrder
    <2>3. ((W - 1) * (g * sd)) * K = ((W - 1) * sd) * (g * K)
      BY <1>2, Regroup
    <2>4. (sn * K) * (W * td) = (W * (sn * td)) * K
      BY <1>1, <1>2
    <2>5. ((W - 1) * sd) * (td * (R - b)) = ((W - 1) * (R - b)) * (sd * td)
      <3>1. W - 1 \in Int /\ R - b \in Int /\ sd \in Int /\ td \in Int
        BY <1>1, <1>2
      <3> QED BY <3>1, Regroup
    <2>6. (R - M) * W <= (W - 1) * (R - b)
      <3>1. PICK x \in Nat : x = W * R
        OBVIOUS
      <3>2. (W - 1) * (R - b) = x - B - R + b /\ (R - M) * W = x - K
        BY <1>7, <1>8, <3>1
      <3> QED BY <1>7, <1>8, <3>2
    <2>7. ((R - M) * W) * (sd * td) <= ((W - 1) * (R - b)) * (sd * td)
      <3>1. (W - 1) * (R - b) \in Nat /\ (R - M) * W \in Nat /\ sd * td \in Nat
        BY <1>0, <1>1, <1>2, <1>9
      <3> QED BY <2>6, <3>1, ProductOrder
    <2>8. ((R - M) * W) * (sd * td) = ((R - M) * sd) * (W * td)
      BY <1>1, <1>2
    <2>9. ((R - M) * sd) * (W * td) <= (sn * K) * (W * td)
      <3>1. PICK c1, c2, c3, c4 : /\ c1 = (sn * K) * (W * td) /\ c2 = ((W - 1) * sd) * (g * K)
                                  /\ c3 = ((W - 1) * (R - b)) * (sd * td) /\ c4 = ((R - M) * sd) * (W * td)
                                  /\ c1 \in Int /\ c2 \in Int /\ c3 \in Int /\ c4 \in Int
        BY <1>1, <1>2
      <3>2. c2 <= c1
        BY <2>1, <2>3, <2>4, <3>1
      <3>3. c3 <= c2
        BY <2>2, <2>5, <3>1
      <3>4. c4 <= c3
        BY <2>7, <2>8, <3>1
      <3>5. c4 <= c1
        BY <3>1, <3>2, <3>3, <3>4
      <3> QED BY <3>1, <3>5
    <2>10. W * td \in Nat \ {0} /\ sn * K \in Int /\ (R - M) * sd \in Int
      BY <1>0, <1>1, <1>2
    <2> QED BY <2>9, <2>10, DropFactor
  <1> QED BY <1>0, <1>2, <1>6, <1>8, <1>11, <1>12

\* The product of the amount's double x and the factor s, rounded to z / (x.den * s.den).
LEMMA ProductFacts ==
  ASSUME NEW M \in Nat \ {0}, NEW b \in Nat, 2 * b <= M, NEW R \in Nat, R = (M - b) * Significands,
         NEW u \in Nat, NEW T \in Nat \ {0}, NEW x, Nearest(x, u, T),
         NEW s, s.num \in Nat, s.den \in Nat \ {0},
         s.num * (M * Significands) <= (R + M + b) * s.den, (R - M) * s.den <= s.num * (M * Significands),
         NEW z, Nearest(z, x.num * s.num, 1)
  PROVE  /\ (z.num * T) * (M * Significands) <= (u * (R + 4 * M)) * (z.den * x.den * s.den)
         /\ (u * (R - 4 * M)) * (z.den * x.den * s.den) <= (z.num * T) * (M * Significands)
  <1>0. PICK W \in Nat : W = Significands /\ W >= 16
    BY DoubleAssumption
  <1>1. PICK xn, xd : xn \in Nat /\ xd \in Nat \ {0} /\ xn = x.num /\ xd = x.den
    BY DEF Nearest
  <1>2. PICK sn, sd : sn \in Nat /\ sd \in Nat \ {0} /\ sn = s.num /\ sd = s.den
    OBVIOUS
  <1>3. PICK zn, zd : zn \in Nat /\ zd \in Nat \ {0} /\ zn = z.num /\ zd = z.den
    BY DEF Nearest
  <1>4. W * (xn * T) <= (W + 1) * (u * xd) /\ (W - 1) * (u * xd) <= W * (xn * T)
    BY <1>0, <1>1 DEF Nearest
  <1>5. PICK y \in Nat : y = xn * sn
    BY <1>1, <1>2
  <1>6. W * zn <= (W + 1) * (y * zd) /\ (W - 1) * (y * zd) <= W * zn
    <2>1. W * (zn * 1) <= (W + 1) * (y * zd) /\ (W - 1) * (y * zd) <= W * (zn * 1)
      BY <1>0, <1>1, <1>2, <1>3, <1>5 DEF Nearest
    <2>2. zn * 1 = zn
      BY <1>3
    <2> QED BY <2>1, <2>2
  <1>7. PICK B \in Nat : B = b * W /\ b <= B
    BY <1>0
  <1>8. PICK K \in Nat : K = M * W
    OBVIOUS
  <1>9. K = R + B
    BY <1>0, <1>7, <1>8
  <1>10. 8 * M <= R
    <2>1. (M - b) * 16 <= (M - b) * W
      BY <1>0
    <2> QED BY <1>0, <2>1
  <1>11. sn * K <= (R + M + b) * sd /\ (R - M) * sd <= sn * K
    BY <1>0, <1>2, <1>8
  <1>12. PICK D \in Nat : D = u * (zd * xd * sd)
    BY <1>1, <1>2, <1>3
  <1>13. PICK w2 \in Nat : w2 = W * W /\ w2 >= 16 * W
    BY <1>0
  <1>14. PICK A \in Nat : A = zn * T
    BY <1>3
  <1>15. PICK E \in Nat : E = (W * (xn * T)) * (sn * K)
    BY <1>1, <1>2
  <1>16. ((W * zn) * (W * T)) * K = (A * K) * w2
    BY <1>3, <1>13, <1>14
  <1>17. A * K <= (R + 4 * M) * D
    <2>1. PICK Q \in Nat : Q = R + M + b
      OBVIOUS
    <2>2. ((W * zn) * (W * T)) * K <= (((W + 1) * (y * zd)) * (W * T)) * K
      <3>1. PICK l1, l2, l3 : /\ l1 = W * zn /\ l2 = (W + 1) * (y * zd) /\ l3 = W * T
                              /\ l1 \in Nat /\ l2 \in Nat /\ l3 \in Nat
        BY <1>3
      <3>2. l1 * l3 <= l2 * l3
        BY <1>6, <3>1, ProductOrder
      <3>3. l1 * l3 \in Nat /\ l2 * l3 \in Nat
        BY <3>1
      <3>4. (l1 * l3) * K <= (l2 * l3) * K
        BY <3>2, <3>3, ProductOrder
      <3> QED BY <3>1, <3>4
    <2>3. (((W + 1) * (y * zd)) * (W * T)) * K = ((W + 1) * zd) * E
      BY <1>1, <1>2, <1>3, <1>5, <1>15
    <2>4. E <= ((W + 1) * (u * xd)) * (Q * sd)
      <3>1. PICK l1, l2, l3, l4 : /\ l1 = W * (xn * T) /\ l2 = (W + 1) * (u * xd) /\ l3 = sn * K /\ l4 = Q * sd
                                  /\ l1 \in Nat /\ l2 \in Nat /\ l3 \in Nat /\ l4 \in Nat
        BY <1>1, <1>2
      <3>2. l1 * l3 <= l2 * l4
        BY <1>4, <1>11, <2>1, <3>1, ProductOrder
      <3> QED BY <1>15, <3>1, <3>2
    <2>5. ((W + 1) * zd) * E <= ((W + 1) * zd) * (((W + 1) * (u * xd)) * (Q * sd))
      <3>1. PICK l1, l2 : l1 = (W + 1) * zd /\ l2 = ((W + 1) * (u * xd)) * (Q * sd) /\ l1 \in Nat /\ l2 \in Nat
        BY <1>1, <1>2, <1>3
      <3>2. l1 * E <= l1 * l2
        BY <2>4, <3>1, ProductOrder
      <3> QED BY <3>1, <3>2
    <2>6. ((W + 1) * zd) * (((W + 1) * (u * xd)) * (Q * sd)) = (((W + 1) * (W + 1)) * Q) * D
      <3>1. PICK P \in Nat : P = W + 1
        OBVIOUS
      <3>2. (P * zd) * ((P * (u * xd)) * (Q * sd)) = ((P * P) * Q) * D
        BY <1>1, <1>2, <1>3, <1>12
      <3> QED BY <3>1, <3>2
    <2>7. ((W + 1) * (W + 1)) * Q <= (R + 4 * M) * w2
      <3>1. Q <= M * (W + 1)
        <4>1. M * (W + 1) = K + M
          BY <1>8
        <4> QED BY <1>7, <1>9, <2>1, <4>1
      <3>2. (2 * W + 1) * Q <= (2 * W + 1) * (M * (W + 1))
        <4>1. 2 * W + 1 \in Nat /\ M * (W + 1) \in Nat
          OBVIOUS
        <4> QED BY <3>1, <4>1, ProductOrder
      <3>3. (2 * W + 1) * (M * (W + 1)) = (2 * w2 + 3 * W + 1) * M
        BY <1>13
      <3>4. (2 * (2 * w2 + 3 * W + 1)) * M <= (5 * w2) * M
        <4>1. 2 * (2 * w2 + 3 * W + 1) <= 5 * w2
          BY <1>0, <1>13
        <4>2. 2 * (2 * w2 + 3 * W + 1) \in Nat /\ 5 * w2 \in Nat
          OBVIOUS
        <4> QED BY <4>1, <4>2, ProductOrder
      <3>5. PICK X \in Nat : X = (2 * W + 1) * Q
        OBVIOUS
      <3>6. PICK Y \in Nat : Y = w2 * M
        OBVIOUS
      <3>7. PICK V \in Nat : V = w2 * b
        OBVIOUS
      <3>8. 2 * X <= 5 * Y
        <4>1. PICK c \in Nat : c = (2 * w2 + 3 * W + 1) * M
          OBVIOUS
        <4>2. (2 * (2 * w2 + 3 * W + 1)) * M = 2 * c /\ (5 * w2) * M = 5 * Y
          BY <4>1, <3>6
        <4> QED BY <3>2, <3>3, <3>4, <3>5, <4>1, <4>2
      <3>9. 2 * V <= Y
        <4>1. w2 * (2 * b) <= w2 * M
          BY ProductOrder
        <4>2. w2 * (2 * b) = 2 * V
          BY <3>7
        <4> QED BY <3>6, <4>1, <4>2
      <3>10. PICK c \in Nat : c = w2 * Q
        OBVIOUS
      <3>11. ((W + 1) * (W + 1)) * Q = c + X
        BY <1>13, <3>5, <3>10
      <3>12. (R + 4 * M) * w2 = c + 3 * Y - V
        BY <2>1, <3>6, <3>7, <3>10
      <3> QED BY <3>8, <3>9, <3>11, <3>12
    <2>8. (((W + 1) * (W + 1)) * Q) * D <= ((R + 4 * M) * w2) * D
      <3>1. PICK l1, l2 : l1 = ((W + 1) * (W + 1)) * Q /\ l2 = (R + 4 * M) * w2 /\ l1 \in Nat /\ l2 \in Nat
        OBVIOUS
      <3>2. l1 <= l2
        BY <2>7, <3>1
      <3>3. l1 \in Nat /\ l2 \in Nat
        BY <3>1
      <3>4. l1 * D <= l2 * D
        BY <3>2, <3>3, ProductOrder
      <3> QED BY <3>1, <3>4
    <2>9. ((R + 4 * M) * w2) * D = ((R + 4 * M) * D) * w2
      OBVIOUS
    <2>10. (A * K) * w2 <= ((R + 4 * M) * D) * w2
      <3>1. PICK c1, c2, c3, c4 : /\ c1 = (A * K) * w2 /\ c2 = ((W + 1) * zd) * E
                                  /\ c3 = (((W + 1) * (W + 1)) * Q) * D /\ c4 = ((R + 4 * M) * D) * w2
                                  /\ c1 \in Nat /\ c2 \in Nat /\ c3 \in Nat /\ c4 \in Nat
        BY <1>3
      <3>2. c1 <= c2
        BY <1>16, <2>2, <2>3, <3>1
      <3>3. c2 <= c3
        BY <2>5, <2>6, <3>1
      <3>4. c3 <= c4
        BY <2>8, <2>9, <3>1
      <3>5. c1 <= c4
        BY <3>1, <3>2, <3>3, <3>4
      <3> QED BY <3>1, <3>5
    <2>11. w2 \in Nat \ {0} /\ A * K \in Int /\ (R + 4 * M) * D \in Int
      BY <1>0, <1>13
    <2> QED BY <2>10, <2>11, DropFactor
  <1>18. (R - 4 * M) * D <= A * K
    <2>1. PICK Q \in Nat : Q = R - M
      BY <1>10
    <2>2. PICK P \in Nat : P = W - 1
      BY <1>0
    <2>3. ((P * (y * zd)) * (W * T)) * K <= ((W * zn) * (W * T)) * K
      <3>1. PICK l1, l2, l3 : /\ l1 = W * zn /\ l2 = P * (y * zd) /\ l3 = W * T
                              /\ l1 \in Nat /\ l2 \in Nat /\ l3 \in Nat
        BY <1>3
      <3>2. l2 * l3 <= l1 * l3
        BY <1>6, <2>2, <3>1, ProductOrder
      <3>3. l1 * l3 \in Nat /\ l2 * l3 \in Nat
        BY <3>1
      <3>4. (l2 * l3) * K <= (l1 * l3) * K
        BY <3>2, <3>3, ProductOrder
      <3> QED BY <3>1, <3>4
    <2>4. ((P * (y * zd)) * (W * T)) * K = (P * zd) * E
      BY <1>1, <1>2, <1>3, <1>5, <1>15
    <2>5. (P * (u * xd)) * (Q * sd) <= E
      <3>1. PICK l1, l2, l3, l4 : /\ l1 = W * (xn * T) /\ l2 = P * (u * xd) /\ l3 = sn * K /\ l4 = Q * sd
                                  /\ l1 \in Nat /\ l2 \in Nat /\ l3 \in Nat /\ l4 \in Nat
        BY <1>1, <1>2
      <3>2. l2 * l4 <= l1 * l3
        BY <1>4, <1>11, <2>1, <2>2, <3>1, ProductOrder
      <3> QED BY <1>15, <3>1, <3>2
    <2>6. (P * zd) * ((P * (u * xd)) * (Q * sd)) <= (P * zd) * E
      <3>1. PICK l1, l2 : l1 = P * zd /\ l2 = (P * (u * xd)) * (Q * sd) /\ l1 \in Nat /\ l2 \in Nat
        BY <1>1, <1>2, <1>3
      <3>2. l1 * l2 <= l1 * E
        BY <2>5, <3>1, ProductOrder
      <3> QED BY <3>1, <3>2
    <2>7. (P * zd) * ((P * (u * xd)) * (Q * sd)) = ((P * P) * Q) * D
      BY <1>1, <1>2, <1>3, <1>12
    <2>8. (R - 4 * M) * w2 <= (P * P) * Q
      <3>1. PICK X \in Nat : X = W * Q
        OBVIOUS
      <3>2. PICK Y \in Nat : Y = w2 * M
        OBVIOUS
      <3>3. PICK c \in Nat : c = w2 * Q
        OBVIOUS
      <3>4. X <= Y
        <4>1. W * Q <= W * K
          BY <1>9, <2>1, ProductOrder
        <4>2. W * K = Y
          BY <1>8, <1>13, <3>2
        <4> QED BY <3>1, <4>1, <4>2
      <3>5. (P * P) * Q = c - 2 * X + Q
        <4>1. P * P = w2 - 2 * W + 1
          BY <1>13, <2>2
        <4>2. (w2 - 2 * W + 1) * Q = c - 2 * X + Q
          BY <3>1, <3>3
        <4> QED BY <4>1, <4>2
      <3>6. (R - 4 * M) * w2 = c - 3 * Y
        BY <2>1, <3>2, <3>3
      <3> QED BY <3>4, <3>5, <3>6
    <2>9. ((R - 4 * M) * w2) * D <= ((P * P) * Q) * D
      <3>1. PICK l1, l2 : l1 = (P * P) * Q /\ l2 = (R - 4 * M) * w2 /\ l1 \in Nat /\ l2 \in Nat
        <4>1. R - 4 * M \in Nat
          BY <1>10
        <4> QED BY <4>1
      <3>2. l2 * D <= l1 * D
        BY <2>8, <3>1, ProductOrder
      <3> QED BY <3>1, <3>2
    <2>10. ((R - 4 * M) * w2) * D = ((R - 4 * M) * D) * w2
      OBVIOUS
    <2>11. ((R - 4 * M) * D) * w2 <= (A * K) * w2
      <3>1. PICK c1, c2, c3, c4 : /\ c1 = (A * K) * w2 /\ c2 = (P * zd) * E
                                  /\ c3 = ((P * P) * Q) * D /\ c4 = ((R - 4 * M) * D) * w2
                                  /\ c1 \in Int /\ c2 \in Int /\ c3 \in Int /\ c4 \in Int
        BY <1>3
      <3>2. c2 <= c1
        BY <1>16, <2>3, <2>4, <3>1
      <3>3. c3 <= c2
        BY <2>6, <2>7, <3>1
      <3>4. c4 <= c3
        BY <2>9, <2>10, <3>1
      <3>5. c4 <= c1
        BY <3>1, <3>2, <3>3, <3>4
      <3> QED BY <3>1, <3>5
    <2>12. w2 \in Nat \ {0} /\ A * K \in Int /\ (R - 4 * M) * D \in Int
      BY <1>0, <1>13
    <2> QED BY <2>11, <2>12, DropFactor
  <1>19. (R + 4 * M) * D = (u * (R + 4 * M)) * (zd * xd * sd) /\ (R - 4 * M) * D = (u * (R - 4 * M)) * (zd * xd * sd)
    <2>1. PICK d \in Nat : d = zd * xd * sd /\ D = u * d
      BY <1>1, <1>2, <1>3, <1>12
    <2>2. (R + 4 * M) * (u * d) = (u * (R + 4 * M)) * d /\ (R - 4 * M) * (u * d) = (u * (R - 4 * M)) * d
      OBVIOUS
    <2> QED BY <2>1, <2>2
  <1> QED BY <1>0, <1>1, <1>2, <1>3, <1>8, <1>14, <1>17, <1>18, <1>19

\* What toFixed makes of the product N / D.
LEMMA FixedFacts ==
  ASSUME NEW M \in Nat \ {0}, NEW b \in Nat, NEW R \in Nat, R = (M - b) * Significands,
         b * Significands >= 4 * M, 2 * (b * Significands + 4 * M) <= M * Significands,
         NEW u \in Nat, NEW T \in Nat \ {0}, NEW x, x.num \in Nat, x.den \in Nat \ {0},
         (x.num * T) * (M * Significands) <= (u * (R + 4 * M)) * x.den,
         (u * (R - 4 * M)) * x.den <= (x.num * T) * (M * Significands)
  PROVE  /\ toFixed(x, T) = <<>> => u >= FixedLimit * T
         /\ toFixed(x, T) # <<>> =>
                /\ toFixed(x, T)[1] \in Nat
                /\ u > 0 => toFixed(x, T)[1] \in 1 .. u
                /\ (2 * M * toFixed(x, T)[1] - 2 * u * (M - b) - M) * Significands <= 8 * M * u
                /\ (-(2 * M * toFixed(x, T)[1] - 2 * u * (M - b)) - M) * Significands <= 8 * M * u
  <1>0. PICK W \in Nat : W = Significands /\ W >= 16
    BY DoubleAssumption
  <1>1. PICK N, D : N \in Nat /\ D \in Nat \ {0} /\ N = x.num /\ D = x.den
    OBVIOUS
  <1>2. PICK B \in Nat : B = b * W
    OBVIOUS
  <1>3. PICK K \in Nat \ {0} : K = M * W
    BY <1>0
  <1>4. K = R + B /\ B >= 4 * M /\ 2 * (B + 4 * M) <= K
    BY <1>0, <1>2, <1>3
  <1>5. PICK A \in Nat : A = N * T
    BY <1>1
  <1>6. A * K <= (u * (R + 4 * M)) * D /\ (u * (R - 4 * M)) * D <= A * K
    BY <1>0, <1>1, <1>3, <1>5
  <1>7. PICK F \in Nat : F = FixedLimit
    BY DoubleAssumption
  <1>8. ASSUME N >= F * D PROVE u >= F * T
    <2>1. u * (R + 4 * M) <= u * K
      <3>1. R + 4 * M <= K /\ R + 4 * M \in Nat
        BY <1>4
      <3> QED BY <3>1, ProductOrder
    <2>2. (u * (R + 4 * M)) * D <= (u * K) * D
      <3>1. u * (R + 4 * M) \in Nat /\ u * K \in Nat /\ D \in Nat
        BY <1>1
      <3> QED BY <2>1, <3>1, ProductOrder
    <2>3. (u * K) * D = (u * D) * K
      BY <1>1
    <2>4. A * K <= (u * D) * K
      <3>1. PICK c1, c2, c3 : /\ c1 = A * K /\ c2 = (u * (R + 4 * M)) * D /\ c3 = (u * D) * K
                              /\ c1 \in Nat /\ c2 \in Nat /\ c3 \in Nat
        BY <1>1
      <3>2. c1 <= c2 /\ c2 <= c3
        BY <1>6, <2>2, <2>3, <3>1
      <3> QED BY <3>1, <3>2
    <2>5. A <= u * D
      <3>1. A \in Int /\ u * D \in Int
        BY <1>1
      <3> QED BY <2>4, <3>1, DropFactor
    <2>6. (F * D) * T <= N * T
      <3>1. F * D \in Nat /\ T \in Nat
        BY <1>1
      <3> QED BY <1>1, <1>8, <3>1, ProductOrder
    <2>7. (F * D) * T = (F * T) * D
      BY <1>1
    <2>8. (F * T) * D <= u * D
      <3>1. PICK c1, c2 : c1 = (F * T) * D /\ c2 = u * D /\ c1 \in Nat /\ c2 \in Nat
        BY <1>1
      <3>2. c1 <= A
        BY <1>5, <2>6, <2>7, <3>1
      <3>3. c1 <= c2
        BY <2>5, <3>1, <3>2
      <3> QED BY <3>1, <3>3
    <2>9. F * T \in Int /\ u \in Int
      OBVIOUS
    <2> QED BY <1>1, <2>8, <2>9, DropFactor
  <1>9. ASSUME NEW m, m = (2 * N * T + D) \div (2 * D)
        PROVE  /\ m \in Nat
               /\ u > 0 => m \in 1 .. u
               /\ (2 * M * m - 2 * u * (M - b) - M) * W <= 8 * M * u
               /\ (-(2 * M * m - 2 * u * (M - b)) - M) * W <= 8 * M * u
    <2>1. m \in Nat /\ (2 * D) * m <= 2 * A + D /\ 2 * A + D < (2 * D) * m + 2 * D
      <3>1. 2 * N * T + D = 2 * A + D /\ 2 * A + D \in Nat /\ 2 * D \in Nat \ {0}
        BY <1>1, <1>5
      <3>2. m = (2 * A + D) \div (2 * D)
        BY <1>9, <3>1
      <3> QED BY <3>1, <3>2, DivFacts
    <2>2. PICK e \in Nat : e = D * m
      BY <1>1, <2>1
    <2>3. 2 * e <= 2 * A + D /\ 2 * A < 2 * e + D
      <3>1. (2 * D) * m = 2 * e
        BY <1>1, <2>1, <2>2
      <3> QED BY <1>1, <2>1, <3>1
    <2>4. PICK Km \in Nat : Km = K * m
      BY <2>1
    <2>5. PICK H \in Nat : H = u * (R + 4 * M)
      OBVIOUS
    <2>6. R - 4 * M \in Nat
      BY <1>4
    <2>7. PICK G \in Nat : G = u * (R - 4 * M)
      BY <2>6
    <2>8. 2 * Km <= 2 * H + K
      <3>1. (2 * e) * K <= (2 * A + D) * K
        BY <1>1, <2>3, ProductOrder
      <3>2. (2 * A + D) * K = 2 * (A * K) + K * D
        BY <1>1
      <3>3. (2 * e) * K = (2 * Km) * D
        BY <1>1, <2>1, <2>2, <2>4
      <3>4. (2 * H + K) * D = 2 * (H * D) + K * D
        <4>1. \A h, k, d \in Int : (2 * h + k) * d = 2 * (h * d) + k * d
          OBVIOUS
        <4> QED BY <1>1, <4>1
      <3>5. PICK c1, c2, c3, c4 : /\ c1 = (2 * Km) * D /\ c2 = A * K /\ c3 = H * D /\ c4 = K * D
                                  /\ c1 \in Nat /\ c2 \in Nat /\ c3 \in Nat /\ c4 \in Nat
        <4>1. (2 * Km) * D \in Nat /\ A * K \in Nat /\ H * D \in Nat /\ K * D \in Nat
          BY <1>1
        <4> QED BY <4>1, Zenon
      <3>6. c1 <= 2 * c2 + c4
        BY <3>1, <3>2, <3>3, <3>5
      <3>7. c2 <= c3
        BY <1>6, <2>5, <3>5
      <3>8. c1 <= 2 * c3 + c4
        BY <3>5, <3>6, <3>7
      <3>9. (2 * Km) * D <= (2 * H + K) * D
        BY <3>4, <3>5, <3>8
      <3>10. 2 * Km \in Int /\ 2 * H + K \in Int
        OBVIOUS
      <3> QED BY <1>1, <3>9, <3>10, DropFactor
    <2>9. 2 * G + 1 <= 2 * Km + K
      <3>1. (2 * A + 1) * K <= (2 * e + D) * K
        BY <1>1, <2>3, ProductOrder
      <3>2. (2 * A + 1) * K = 2 * (A * K) + K
        OBVIOUS
      <3>3. (2 * e + D) * K = (2 * Km + K) * D
        BY <1>1, <2>1, <2>2, <2>4
      <3>4. SUFFICES ASSUME 2 * Km + K <= 2 * G PROVE FALSE
        OBVIOUS
      <3>5. (2 * Km + K) * D <= (2 * G) * D
        <4>1. 2 * Km + K \in Nat /\ 2 * G \in Nat /\ D \in Nat
          BY <1>1
        <4> QED BY <3>4, <4>1, ProductOrder
      <3>6. (2 * G) * D = 2 * (G * D)
        BY <1>1
      <3>7. PICK c1, c2, c3 : /\ c1 = (2 * Km + K) * D /\ c2 = A * K /\ c3 = G * D
                              /\ c1 \in Nat /\ c2 \in Nat /\ c3 \in Nat
        BY <1>1
      <3>8. 2 * c2 + K <= c1
        BY <3>1, <3>2, <3>3, <3>7
      <3>9. c3 <= c2
        BY <1>6, <2>7, <3>7
      <3>10. c1 <= 2 * c3
        BY <3>5, <3>6, <3>7
      <3> QED BY <3>7, <3>8, <3>9, <3>10
    <2>10. PICK uR \in Nat : uR = u * R
      OBVIOUS
    <2>11. PICK uM \in Nat : uM = u * M
      OBVIOUS
    <2>12. H = uR + 4 * uM /\ G = uR - 4 * uM
      BY <2>5, <2>7, <2>10, <2>11
    <2>13. PICK o \in Int : o = 2 * M * m - 2 * u * (M - b)
      <3>1. 2 * M * m \in Int /\ 2 * u * (M - b) \in Int
        BY <2>1
      <3> QED BY <3>1
    <2>14. o * W = 2 * Km - 2 * uR
      <3>1. (2 * M * m) * W = 2 * Km
        BY <1>3, <2>1, <2>4
      <3>2. (2 * u * (M - b)) * W = 2 * uR
        BY <1>0, <2>10
      <3>3. PICK o1, o2 : o1 = 2 * M * m /\ o2 = 2 * u * (M - b) /\ o1 \in Int /\ o2 \in Int /\ o = o1 - o2
        BY <2>1, <2>13
      <3>4. (o1 - o2) * W = o1 * W - o2 * W
        BY <3>3
      <3> QED BY <3>1, <3>2, <3>3, <3>4
    <2>15. (o - M) * W <= 8 * M * u
      <3>1. (o - M) * W = o * W - K /\ 8 * M * u = 8 * uM
        BY <1>3, <2>11
      <3> QED BY <2>8, <2>12, <2>14, <3>1
    <2>16. (-o - M) * W <= 8 * M * u
      <3>1. (-o - M) * W = -(o * W) - K /\ 8 * M * u = 8 * uM
        BY <1>3, <2>11
      <3> QED BY <2>9, <2>12, <2>14, <3>1
    <2>17. PICK uK \in Nat : uK = u * K
      OBVIOUS
    <2>18. ASSUME u > 0 PROVE m >= 1
      <3> SUFFICES ASSUME m = 0 PROVE FALSE
        BY <2>1
      <3>1. Km = 0
        BY <2>4
      <3>2. 1 * (R - 4 * M) <= u * (R - 4 * M)
        BY <2>6, <2>18, ProductOrder
      <3>3. G >= R - 4 * M
        BY <2>6, <2>7, <3>2
      <3> QED BY <1>4, <2>9, <3>1, <3>3
    <2>19. m <= u
      <3>1. u * (R + 4 * M) <= u * K
        BY <1>4, ProductOrder
      <3>2. H <= uK
        BY <2>5, <2>17, <3>1
      <3>3. (2 * m) * K <= (2 * u + 1) * K
        <4>1. (2 * m) * K = 2 * Km /\ (2 * u + 1) * K = 2 * uK + K
          BY <2>1, <2>4, <2>17
        <4> QED BY <2>8, <3>2, <4>1
      <3>4. 2 * m <= 2 * u + 1
        BY <2>1, <3>3, DropFactor
      <3> QED BY <2>1, <3>4
    <2> QED BY <2>1, <2>13, <2>15, <2>16, <2>18, <2>19
  <1>10. toFixed(x, T) = IF N >= F * D THEN <<>> ELSE <<(2 * N * T + D) \div (2 * D)>>
    BY <1>1, <1>7 DEF toFixed
  <1>11. CASE N >= F * D
    BY <1>7, <1>8, <1>10, <1>11
  <1>12. CASE ~(N >= F * D)
    <2>1. PICK m : m = (2 * N * T + D) \div (2 * D)
      OBVIOUS
    <2>2. toFixed(x, T) = <<m>>
      BY <1>10, <1>12, <2>1, Zenon
    <2>3. toFixed(x, T)[1] = m /\ toFixed(x, T) # <<>>
      BY <2>2
    <2> QED BY <1>0, <1>9, <2>1, <2>3
  <1> QED BY <1>11, <1>12

\* The base units of one token.
LEMMA TokenFacts == ASSUME NEW d \in Nat PROVE toBaseUnits([whole |-> 1, frac |-> <<>>], d)[1] \in Nat \ {0}
  <1>1. PICK a : a = [whole |-> 1, frac |-> <<>>]
    OBVIOUS
  <1>2. a.whole = 1 /\ Len(a.frac) = 0
    BY <1>1
  <1>3. \A k \in 1 .. d : Padded(a, k) = 0
    BY <1>2 DEF Padded
  <1> DEFINE V == Nat \ {0}
             h == [k \in 1 .. d |-> [v \in V |-> 10 * v + 0]]
  <1>4. \A k \in 1 .. d, v \in V : h[k][v] = 10 * v + 0 /\ h[k][v] \in V
    OBVIOUS
  <1>5. 1 \in V
    OBVIOUS
  <1> HIDE DEF h, V
  <1>6. PICK it : Iteration(it, d, V, 1, h)
    BY <1>4, <1>5, IterationExists
  <1>7. it \in [0 .. d -> V] /\ it[0] = 1 /\ \A k \in 1 .. d : it[k] = 10 * it[k - 1] + Padded(a, k)
    <2>1. it \in [0 .. d -> V] /\ it[0] = 1 /\ \A k \in 1 .. d : it[k] = h[k][it[k - 1]]
      BY <1>6 DEF Iteration
    <2>2. \A k \in 1 .. d : k - 1 \in 0 .. d
      OBVIOUS
    <2> QED BY <1>3, <1>4, <2>1, <2>2
  <1>8. it = UnitsStep(a, d, it)
    <2> SUFFICES ASSUME NEW k \in 0 .. d PROVE it[k] = IF k = 0 THEN a.whole ELSE 10 * it[k - 1] + Padded(a, k)
      BY <1>7 DEF UnitsStep
    <2>1. k = 0 \/ k \in 1 .. d
      OBVIOUS
    <2> QED BY <1>2, <1>7, <2>1
  <1>9. PICK g : g = Units(a, d) /\ g = UnitsStep(a, d, g)
    BY <1>8 DEF Units
  <1>10. \A k \in 0 .. d : g[k] = IF k = 0 THEN 1 ELSE 10 * g[k - 1] + Padded(a, k)
    <2>1. \A k \in 0 .. d : UnitsStep(a, d, g)[k] = IF k = 0 THEN 1 ELSE 10 * g[k - 1] + Padded(a, k)
      BY <1>2 DEF UnitsStep
    <2> QED BY <1>9, <2>1
  <1>11. g[d] \in V
    <2> DEFINE T == {k \in Nat : k <= d /\ g[k] \notin V}
    <2>1. ASSUME NEW k \in T PROVE k # 0 /\ k - 1 \in T
      <3>1. k # 0
        BY <1>5, <1>10
      <3>2. k \in 1 .. d /\ k - 1 \in Nat /\ k - 1 <= d
        BY <3>1
      <3>3. g[k] = 10 * g[k - 1] + 0
        BY <1>3, <1>10, <3>1, <3>2
      <3>4. \A v \in V : 10 * v + 0 \in V
        BY DEF V
      <3> QED BY <3>1, <3>2, <3>3, <3>4
    <2>2. T = {}
      <3>1. T \subseteq Nat
        OBVIOUS
      <3> HIDE DEF T
      <3> QED BY <2>1, <3>1, NoLeast
    <2> QED BY <2>2
  <1>12. toBaseUnits(a, d) = IF Len(a.frac) > d THEN <<>> ELSE <<Units(a, d)[d]>>
    BY DEF toBaseUnits, Units, UnitsStep, Padded
  <1>13. toBaseUnits(a, d) = <<g[d]>>
    BY <1>2, <1>9, <1>12
  <1>14. toBaseUnits(a, d)[1] \in V
    BY <1>11, <1>13
  <1> QED BY <1>1, <1>14 DEF V

(* M basis points are the whole, 10000 in the form. *)
Minimum(M, u, T, b) == toFixed(Times(Double(u, T), OneMinus(Double(b, M))), T)

\* The error of the form's minimum, when the doubles have the range.
LEMMA MinimumFacts ==
  ASSUME NEW M \in Nat \ {0}, NEW b \in Nat, NEW u \in Nat, NEW T \in Nat \ {0},
         b * Significands >= 4 * M, 2 * (b * Significands + 4 * M) <= M * Significands,
         NEW p \in PowersOfTwo, p > 8 * u, p >= T * Significands, p >= M * Significands, p >= 16 * Significands
  PROVE  LET m == Minimum(M, u, T, b)
         IN  /\ m = <<>> => u >= FixedLimit * T
             /\ m # <<>> =>
                    /\ m[1] \in Nat
                    /\ u > 0 => m[1] \in 1 .. u
                    /\ (2 * M * m[1] - 2 * u * (M - b) - M) * Significands <= 8 * M * u
                    /\ (-(2 * M * m[1] - 2 * u * (M - b)) - M) * Significands <= 8 * M * u
  <1>0. PICK W \in Nat : W = Significands /\ W >= 16
    BY DoubleAssumption
  <1>1. p \in Nat \ {0} /\ 1 \in PowersOfTwo
    BY DoubleAssumption
  <1>2. PICK TW \in Nat : TW = T * W /\ TW <= p /\ TW >= 1
    BY <1>0
  <1>3. PICK MW \in Nat : MW = M * W /\ MW <= p /\ MW >= W
    BY <1>0
  <1>4. W <= p
    BY <1>1, <1>3
  <1>5. PICK bW \in Nat : bW = b * W /\ bW >= 4 * M /\ 2 * (bW + 4 * M) <= MW
    BY <1>0, <1>3
  <1>6. b > 0 /\ 2 * b <= M
    <2>1. b > 0
      BY <1>5
    <2>2. (2 * b) * W <= M * W
      BY <1>3, <1>5
    <2>3. W \in Nat \ {0} /\ 2 * b \in Int
      BY <1>0
    <2> QED BY <2>1, <2>2, <2>3, DropFactor
  <1>7. PICK x : x = Double(u, T)
    OBVIOUS
  <1>8. Nearest(x, u, T) /\ u * x.den <= u + T * W
    <2>1. u < p * T * W
      <3>1. p <= p * TW
        BY <1>1, <1>2
      <3>2. p * T * W = p * TW
        BY <1>1, <1>2
      <3> QED BY <1>1, <3>1, <3>2
    <2>2. u = 0 \/ 2 * p * u >= T * W
      <3>1. u # 0 => p <= p * u
        BY <1>1
      <3>2. 2 * p * u = 2 * (p * u) /\ p * u \in Nat
        BY <1>1
      <3> QED BY <1>1, <1>2, <3>1, <3>2
    <2>3. /\ \E pp \in PowersOfTwo : u < pp * T * Significands
          /\ u = 0 \/ \E pp \in PowersOfTwo : 2 * pp * u >= T * Significands
      BY <1>0, <2>1, <2>2
    <2> QED BY <1>0, <1>7, <2>3, DoubleFacts
  <1>9. PICK t : t = Double(b, M)
    OBVIOUS
  <1>10. Nearest(t, b, M)
    <2>1. b < 1 * M * W
      <3>1. 1 * M * W = MW
        BY <1>3
      <3>2. b <= bW /\ bW < MW
        BY <1>0, <1>5
      <3> QED BY <3>1, <3>2
    <2>2. 2 * p * b >= M * W
      <3>1. p <= p * b
        BY <1>1, <1>6
      <3>2. 2 * p * b = 2 * (p * b) /\ p * b \in Nat
        BY <1>1
      <3> QED BY <1>1, <1>3, <3>1, <3>2
    <2>3. /\ \E pp \in PowersOfTwo : b < pp * M * Significands
          /\ b = 0 \/ \E pp \in PowersOfTwo : 2 * pp * b >= M * Significands
      BY <1>0, <1>1, <2>1, <2>2
    <2> QED BY <1>9, <2>3, DoubleFacts
  <1>11. PICK tn, td : tn \in Nat /\ td \in Nat \ {0} /\ tn = t.num /\ td = t.den
    BY <1>10 DEF Nearest
  <1>12. 4 * tn <= 3 * td
    <2>1. W * (tn * M) <= (W + 1) * (b * td)
      BY <1>0, <1>10, <1>11 DEF Nearest
    <2>2. (4 * tn) * MW = 4 * (W * (tn * M))
      BY <1>3, <1>11
    <2>3. (4 * (W + 1)) * b <= 3 * MW
      <3>1. (4 * (W + 1)) * b = 4 * bW + 4 * b
        BY <1>5
      <3>2. 8 * b <= bW
        BY <1>0, <1>5
      <3> QED BY <1>5, <3>1, <3>2
    <2>4. ((4 * (W + 1)) * b) * td <= (3 * MW) * td
      <3>1. (4 * (W + 1)) * b \in Nat /\ 3 * MW \in Nat /\ td \in Nat
        BY <1>11
      <3> QED BY <2>3, <3>1, ProductOrder
    <2>5. 4 * ((W + 1) * (b * td)) = ((4 * (W + 1)) * b) * td
      BY <1>11
    <2>6. (3 * MW) * td = (3 * td) * MW
      BY <1>11
    <2>7. (4 * tn) * MW <= (3 * td) * MW
      <3>1. PICK c1, c2 : c1 = W * (tn * M) /\ c2 = (W + 1) * (b * td) /\ c1 \in Nat /\ c2 \in Nat
        BY <1>11
      <3>2. 4 * c1 <= 4 * c2
        BY <2>1, <3>1
      <3>3. PICK c3, c4 : c3 = (4 * tn) * MW /\ c4 = (3 * td) * MW /\ c3 \in Nat /\ c4 \in Nat
        BY <1>11
      <3>4. c3 = 4 * c1 /\ 4 * c2 <= c4
        BY <2>2, <2>4, <2>5, <2>6, <3>1, <3>3
      <3>5. c3 <= c4
        BY <3>1, <3>2, <3>3, <3>4
      <3> QED BY <3>3, <3>5
    <2>8. MW \in Nat \ {0} /\ 4 * tn \in Int /\ 3 * td \in Int
      BY <1>0, <1>3, <1>11
    <2> QED BY <2>7, <2>8, DropFactor
  <1>13. PICK g \in Nat : g = td - tn /\ g <= td /\ td <= 4 * g /\ g > 0
    BY <1>11, <1>12
  <1>14. PICK s : s = Double(g, td)
    OBVIOUS
  <1>15. Nearest(s, g, td) /\ g * s.den <= g + td * W
    <2>1. PICK tW \in Nat : tW = td * W /\ tW >= 16 * td
      BY <1>0, <1>11
    <2>2. g < 1 * td * W
      <3>1. 1 * td * W = tW
        BY <1>11, <2>1
      <3> QED BY <1>11, <1>13, <2>1, <3>1
    <2>3. 2 * p * g >= td * W
      <3>1. td * W <= (4 * g) * W
        BY <1>11, <1>13, ProductOrder
      <3>2. (4 * g) * W <= (4 * g) * W
        OBVIOUS
      <3>3. (2 * g) * (2 * W) <= (2 * g) * p
        <4>1. 2 * W <= p
          BY <1>1, <1>3, <1>5
        <4>2. 2 * g \in Nat /\ 2 * W \in Nat /\ p \in Nat
          BY <1>1
        <4> QED BY <4>1, <4>2, ProductOrder
      <3>4. (2 * g) * (2 * W) = (4 * g) * W /\ (2 * g) * p = 2 * p * g
        BY <1>1
      <3>5. PICK c1, c2, c3 : c1 = td * W /\ c2 = (4 * g) * W /\ c3 = 2 * p * g /\ c1 \in Nat /\ c2 \in Nat /\ c3 \in Nat
        BY <1>1, <1>11
      <3>6. c1 <= c2 /\ c2 <= c3
        BY <3>1, <3>3, <3>4, <3>5
      <3>7. c1 <= c3
        BY <3>5, <3>6
      <3> QED BY <3>5, <3>7
    <2>4. /\ \E pp \in PowersOfTwo : g < pp * td * Significands
          /\ g = 0 \/ \E pp \in PowersOfTwo : 2 * pp * g >= td * Significands
      BY <1>0, <1>1, <2>2, <2>3
    <2> QED BY <1>0, <1>11, <1>14, <2>4, DoubleFacts
  <1>16. s = OneMinus(t)
    BY <1>11, <1>13, <1>14 DEF OneMinus
  <1>17. PICK R \in Nat : R = (M - b) * W
    BY <1>6
  <1>18. s.num \in Nat /\ s.den \in Nat \ {0} /\ s.num * (M * W) <= (R + M + b) * s.den /\ (R - M) * s.den <= s.num * (M * W)
    <2>1. t.den >= t.num /\ t.den - t.num = g /\ t.den = td
      BY <1>11, <1>13
    <2>2. Nearest(s, t.den - t.num, t.den)
      BY <1>15, <2>1
    <2>3. s.num \in Nat /\ s.den \in Nat \ {0}
      BY <1>15 DEF Nearest
    <2>4. LET Q == (M - b) * Significands
          IN  /\ s.num * (M * Significands) <= (Q + M + b) * s.den
              /\ (Q - M) * s.den <= s.num * (M * Significands)
      BY <1>6, <1>10, <2>1, <2>2, FactorFacts
    <2> QED BY <1>0, <1>17, <2>3, <2>4
  <1>19. PICK xn, xd : xn \in Nat /\ xd \in Nat \ {0} /\ xn = x.num /\ xd = x.den
    BY <1>8 DEF Nearest
  <1>20. PICK sn, sd : sn \in Nat /\ sd \in Nat \ {0} /\ sn = s.num /\ sd = s.den
    BY <1>18
  <1>21. PICK z : z = Double(xn * sn, 1)
    OBVIOUS
  <1>22. Nearest(z, xn * sn, 1)
    <2>1. xn <= 2 * (u + W)
      <3>1. W * (xn * T) <= (W + 1) * (u * xd)
        BY <1>0, <1>8, <1>19 DEF Nearest
      <3>2. (W + 1) * (u * xd) <= (2 * W) * (u * T + T * W)
        <4>1. u * xd <= u * T + T * W
          <5>1. u <= u * T /\ u * T \in Nat /\ T * W \in Nat /\ u * xd \in Nat
            BY <1>19
          <5> QED BY <1>8, <1>19, <5>1
        <4>2. W + 1 <= 2 * W /\ W + 1 \in Nat /\ 2 * W \in Nat /\ u * xd \in Nat /\ u * T + T * W \in Nat
          BY <1>0, <1>19
        <4> QED BY <4>1, <4>2, ProductOrder
      <3>3. W * (xn * T) = xn * (T * W) /\ (2 * W) * (u * T + T * W) = (2 * (u + W)) * (T * W)
        BY <1>19
      <3>4. xn * (T * W) <= (2 * (u + W)) * (T * W)
        <4>1. PICK c1, c2, c3 : /\ c1 = W * (xn * T) /\ c2 = (W + 1) * (u * xd) /\ c3 = (2 * W) * (u * T + T * W)
                                /\ c1 \in Nat /\ c2 \in Nat /\ c3 \in Nat
          BY <1>19
        <4>2. c1 <= c3
          BY <3>1, <3>2, <4>1
        <4> QED BY <3>3, <4>1, <4>2
      <3>5. T * W \in Nat \ {0} /\ xn \in Int /\ 2 * (u + W) \in Int
        BY <1>0, <1>19
      <3> QED BY <3>4, <3>5, DropFactor
    <2>2. sn <= 2 * W
      <3>1. W * (sn * td) <= (W + 1) * (g * sd)
        BY <1>0, <1>15, <1>20 DEF Nearest
      <3>2. (W + 1) * (g * sd) <= (W + 1) * (td * (W + 1))
        <4>1. g * sd <= td * (W + 1)
          <5>1. td * (W + 1) = td + td * W /\ td * W \in Nat /\ g * sd \in Nat
            BY <1>11, <1>20
          <5> QED BY <1>11, <1>13, <1>15, <1>20, <5>1
        <4>2. W + 1 \in Nat /\ g * sd \in Nat /\ td * (W + 1) \in Nat
          BY <1>11, <1>20
        <4> QED BY <4>1, <4>2, ProductOrder
      <3>3. (W + 1) * (td * (W + 1)) <= ((2 * W) * W) * td
        <4>1. (W + 1) * (W + 1) <= (2 * W) * W
          <5>1. 16 * W <= W * W
            BY <1>0
          <5>2. (W + 1) * (W + 1) = W * W + 2 * W + 1 /\ (2 * W) * W = 2 * (W * W)
            OBVIOUS
          <5> QED BY <1>0, <5>1, <5>2
        <4>2. ((W + 1) * (W + 1)) * td <= ((2 * W) * W) * td
          <5>1. (W + 1) * (W + 1) \in Nat /\ (2 * W) * W \in Nat /\ td \in Nat
            BY <1>11
          <5> QED BY <4>1, <5>1, ProductOrder
        <4>3. (W + 1) * (td * (W + 1)) = ((W + 1) * (W + 1)) * td
          BY <1>11
        <4> QED BY <4>2, <4>3
      <3>4. W * (sn * td) = sn * (W * td) /\ ((2 * W) * W) * td = (2 * W) * (W * td)
        BY <1>11, <1>20
      <3>5. sn * (W * td) <= (2 * W) * (W * td)
        <4>1. PICK c1, c2, c3, c4 : /\ c1 = W * (sn * td) /\ c2 = (W + 1) * (g * sd) /\ c3 = (W + 1) * (td * (W + 1))
                                    /\ c4 = ((2 * W) * W) * td /\ c1 \in Nat /\ c2 \in Nat /\ c3 \in Nat /\ c4 \in Nat
          BY <1>11, <1>20
        <4>2. c1 <= c2 /\ c2 <= c3 /\ c3 <= c4
          BY <3>1, <3>2, <3>3, <4>1
        <4>3. c1 <= c4
          BY <4>1, <4>2
        <4> QED BY <3>4, <4>1, <4>3
      <3>6. W * td \in Nat \ {0} /\ sn \in Int /\ 2 * W \in Int
        BY <1>0, <1>11, <1>20
      <3> QED BY <3>5, <3>6, DropFactor
    <2>3. PICK y \in Nat : y = xn * sn
      BY <1>19, <1>20
    <2>4. y <= (2 * (u + W)) * (2 * W)
      BY <1>19, <1>20, <2>1, <2>2, <2>3, ProductOrder
    <2>5. y < p * W
      <3>1. (2 * (u + W)) * (2 * W) = (4 * (u + W)) * W
        OBVIOUS
      <3>2. 4 * (u + W) + 1 <= p
        BY <1>0, <1>1
      <3>3. (4 * (u + W) + 1) * W <= p * W
        BY <1>1, <3>2, ProductOrder
      <3>4. (4 * (u + W) + 1) * W = (4 * (u + W)) * W + W
        OBVIOUS
      <3>5. PICK c1, c2 : c1 = (4 * (u + W)) * W /\ c2 = p * W /\ c1 \in Nat /\ c2 \in Nat
        BY <1>1
      <3>6. y <= c1 /\ c1 + W <= c2
        BY <2>4, <3>1, <3>3, <3>4, <3>5
      <3>7. y < c2
        BY <1>0, <3>5, <3>6
      <3> QED BY <3>5, <3>7
    <2>6. p * 1 * W = p * W
      BY <1>1
    <2>7. y = 0 \/ 2 * p * y >= 1 * W
      <3>1. y # 0 => p <= p * y
        BY <1>1
      <3>2. 2 * p * y = 2 * (p * y) /\ p * y \in Nat /\ 1 * W = W
        BY <1>1
      <3> QED BY <1>1, <1>4, <3>1, <3>2
    <2>8. /\ \E pp \in PowersOfTwo : y < pp * 1 * Significands
          /\ y = 0 \/ \E pp \in PowersOfTwo : 2 * pp * y >= 1 * Significands
      BY <1>0, <2>5, <2>6, <2>7
    <2> QED BY <1>21, <2>3, <2>8, DoubleFacts
  <1>23. PICK w : w = Times(x, s)
    OBVIOUS
  <1>24. w.num = z.num /\ w.den = z.den * xd * sd
    BY <1>19, <1>20, <1>21, <1>23 DEF Times
  <1>25. z.num \in Nat /\ z.den \in Nat \ {0}
    BY <1>22 DEF Nearest
  <1>26. w.num \in Nat /\ w.den \in Nat \ {0}
    <2>1. PICK zd \in Nat \ {0} : zd = z.den
      BY <1>25
    <2>2. zd * xd \in Nat \ {0}
      BY <1>19
    <2>3. zd * xd * sd \in Nat \ {0}
      BY <1>20, <2>2
    <2> QED BY <1>24, <1>25, <2>1, <2>3
  <1>27. (w.num * T) * (M * W) <= (u * (R + 4 * M)) * w.den /\ (u * (R - 4 * M)) * w.den <= (w.num * T) * (M * W)
    <2>1. Nearest(z, x.num * s.num, 1)
      BY <1>19, <1>20, <1>22
    <2>2. /\ (z.num * T) * (M * Significands) <= (u * (R + 4 * M)) * (z.den * x.den * s.den)
          /\ (u * (R - 4 * M)) * (z.den * x.den * s.den) <= (z.num * T) * (M * Significands)
      BY <1>0, <1>6, <1>8, <1>17, <1>18, <2>1, ProductFacts
    <2> QED BY <1>0, <1>19, <1>20, <1>24, <2>2
  <1>28. Minimum(M, u, T, b) = toFixed(w, T)
    BY <1>7, <1>9, <1>16, <1>23 DEF Minimum
  <1>29. R = (M - b) * Significands /\ (w.num * T) * (M * Significands) <= (u * (R + 4 * M)) * w.den
         /\ (u * (R - 4 * M)) * w.den <= (w.num * T) * (M * Significands)
    BY <1>0, <1>17, <1>27
  <1> QED BY <1>26, <1>28, <1>29, FixedFacts

\* For every amount within the range of the doubles, every number of decimals and
\* every slippage between their error and one half: what the form shows converts back
\* to the same base units, and the minimum that parseFloat, the products in doubles
\* and toFixed derive is positive, at most the amount, and as near to the amount less
\* the slippage as half a unit and four roundings allow, on either side.
THEOREM FormIsExact == Spec => []FormAmountsAreExact
  <1>1. Inputs => FormAmountsAreExact
    <2> SUFFICES ASSUME Inputs PROVE FormAmountsAreExact
      OBVIOUS
    <2>1. n \in Nat /\ Decimals \in Nat /\ SlippageBps \in Nat /\ (n <= MaxValue \/ n < L)
      BY BoundsAssumption DEF Inputs
    <2>2. toBaseUnits(fromBaseUnits(n, Decimals), Decimals) = <<n>>
      BY <2>1, RoundTrip
    <2>3. PICK M \in Nat \ {0} : M = 10000
      OBVIOUS
    <2>4. PICK W \in Nat : W = Significands /\ W >= 16
      BY DoubleAssumption
    <2>5. Token \in Nat \ {0}
      BY <2>1, TokenFacts DEF Token
    <2>6. PICK T \in Nat \ {0} : T = Token
      BY <2>5
    <2>7. PICK p \in PowersOfTwo : p > 8 * (MaxValue + L) /\ p >= T * W /\ p >= 10000 * W
      BY <2>4, <2>6, BoundsAssumption
    <2>8. p \in Nat /\ p > 8 * n /\ p >= T * Significands /\ p >= M * Significands /\ p >= 16 * Significands
      <3>1. p \in Nat /\ MaxValue \in Nat /\ L \in Nat
        BY DoubleAssumption, BoundsAssumption, GroupOrder
      <3> QED BY <2>1, <2>3, <2>4, <2>7, <3>1
    <2>9. PICK y \in Nat : y = SlippageBps * W
      BY <2>1
    <2>10. y >= 4 * M /\ 2 * (y + 4 * M) <= M * W
      <3>1. y >= 40000 /\ y <= 5000 * W - 40000
        BY <2>4, <2>9, BoundsAssumption
      <3> QED BY <2>3, <3>1
    <2>11. SlippageBps * Significands >= 4 * M /\ 2 * (SlippageBps * Significands + 4 * M) <= M * Significands
      BY <2>4, <2>9, <2>10
    <2>12. PICK m : m = Minimum(M, n, T, SlippageBps)
      OBVIOUS
    <2>13. /\ m = <<>> => n >= FixedLimit * T
           /\ m # <<>> =>
                  /\ m[1] \in Nat
                  /\ n > 0 => m[1] \in 1 .. n
                  /\ (2 * M * m[1] - 2 * n * (M - SlippageBps) - M) * Significands <= 8 * M * n
                  /\ (-(2 * M * m[1] - 2 * n * (M - SlippageBps)) - M) * Significands <= 8 * M * n
      BY <2>1, <2>8, <2>11, <2>12, MinimumFacts
    <2>14. m = applySlippage(n, SlippageBps, Decimals)
      BY <2>3, <2>6, <2>12 DEF Minimum, applySlippage, Token
    <2>15. ASSUME m # <<>>
           PROVE  LET off == 20000 * m[1] - 2 * n * (10000 - SlippageBps)
                  IN  \A d \in {off, -off} : (d - 10000) * Significands <= 80000 * n
      <3>1. PICK k \in Nat : k = m[1]
        BY <2>13, <2>15
      <3>2. PICK off \in Int : off = 2 * M * k - 2 * n * (M - SlippageBps)
        <4>1. 2 * M * k \in Int /\ 2 * n * (M - SlippageBps) \in Int
          BY <2>1
        <4> QED BY <4>1
      <3>3. (off - M) * Significands <= 8 * M * n /\ (-off - M) * Significands <= 8 * M * n
        BY <2>13, <2>15, <3>1, <3>2
      <3>4. 8 * M * n = 80000 * n
        BY <2>1, <2>3
      <3>5. off = 20000 * m[1] - 2 * n * (10000 - SlippageBps)
        BY <2>1, <2>3, <3>1, <3>2
      <3>6. \A d \in {off, -off} : (d - 10000) * Significands <= 80000 * n
        BY <2>3, <3>3, <3>4
      <3> QED BY <3>5, <3>6
    <2> QED BY <2>2, <2>6, <2>13, <2>14, <2>15 DEF FormAmountsAreExact
  <1> QED BY <1>1, InputsTyped, PTL

--------------------------------------------------------------------------------
(* The contract's arithmetic: EngineMathProofs.                                *)

\* isqrt, the Newton iteration of settlement-engine, returns the floor of the root
\* of every amount.
THEOREM IsqrtIsRight == Spec => []IsqrtIsFloorRoot
  <1>1. Inputs => IsqrtIsFloorRoot
    BY IsqrtFacts DEF Inputs, IsqrtIsFloorRoot
  <1> QED BY <1>1, InputsTyped, PTL

\* quote_swap pays the largest amount the net input covers, for all reserves,
\* amounts and fee rates.
THEOREM AmountOutIsRight == Spec => []AmountOutIsLargest
  <1>1. Inputs => AmountOutIsLargest
    <2> SUFFICES ASSUME Inputs, r # <<>>
                 PROVE  /\ AmountOut(n, r) \in 0 .. r[2] - 1
                        /\ \A out \in 0 .. r[2] : (r[1] + (n - Fee(n))) * (r[2] - out) >= r[1] * r[2] <=> out <= AmountOut(n, r)
      BY DEF AmountOutIsLargest
    <2>1. PICK a, b : a \in Nat \ {0} /\ b \in Nat \ {0} /\ r = <<a, b>>
      BY DEF Inputs
    <2>2. r[1] = a /\ r[2] = b /\ n \in Nat
      BY <2>1 DEF Inputs
    <2> QED BY <2>1, <2>2, AmountOutFacts
  <1> QED BY <1>1, InputsTyped, PTL
=============================================================================
