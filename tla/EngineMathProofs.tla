--------------------------- MODULE EngineMathProofs ---------------------------
(***************************************************************************)
(* What the contract's arithmetic computes, for all integers, and how sums *)
(* change with their terms.                                                *)
(***************************************************************************)
EXTENDS EngineMath, Functions, FiniteSetTheorems, WellFoundedInduction, TLAPS

\* A set of natural numbers that is not empty has a least element.
LEMMA LeastNat == ASSUME NEW T, T \subseteq Nat, T # {} PROVE \E x \in T : \A y \in T : x <= y
  <1>1. PICK x \in T : \A y \in T : ~(<<y, x>> \in OpToRel(<, Nat))
    BY NatLessThanWellFounded, WFMin
  <1>2. \A y \in T : ~(y < x)
    BY <1>1 DEF OpToRel
  <1> QED BY <1>2

\* What integer division promises.
LEMMA DivFacts ==
  ASSUME NEW a \in Nat, NEW b \in Nat \ {0}
  PROVE  a \div b \in Nat /\ b * (a \div b) <= a /\ a < b * (a \div b) + b
  OBVIOUS

\* The largest s whose square is at most v.
LEMMA RootExists == ASSUME NEW v \in Nat PROVE \E s \in Nat : s * s <= v /\ v < (s + 1) * (s + 1)
  <1> DEFINE T == {k \in Nat : v < k * k}
  <1>1. v + 1 \in T
    OBVIOUS
  <1>2. PICK k \in T : \A y \in T : k <= y
    BY <1>1, LeastNat
  <1>3. k # 0
    OBVIOUS
  <1>4. k - 1 \in Nat /\ k - 1 \notin T
    BY <1>2, <1>3
  <1>5. (k - 1) * (k - 1) <= v
    BY <1>4
  <1>6. v < ((k - 1) + 1) * ((k - 1) + 1)
    OBVIOUS
  <1> QED BY <1>4, <1>5, <1>6

\* One iteration of isqrt's loop.
Step(v, x) == (x + v \div x) \div 2

\* A step of Newton's iteration goes down, but not below the root, from above the root,
\* and does not go down any more once it is there.
LEMMA StepDown ==
  ASSUME NEW v \in Nat \ {0, 1}, NEW s \in Nat, s * s <= v, v < (s + 1) * (s + 1), NEW x \in Nat \ {0}
  PROVE  /\ Step(v, x) \in Nat \ {0}
         /\ x <= s => ~(Step(v, x) < x)
         /\ x > s => Step(v, x) < x /\ Step(v, x) >= s
  <1>1. PICK q : q = v \div x /\ q \in Nat /\ x * q <= v /\ v < x * q + x
    BY DivFacts
  <1>2. Step(v, x) = (x + q) \div 2 /\ Step(v, x) \in Nat
    BY <1>1 DEF Step
  <1>3. 2 * Step(v, x) <= x + q /\ x + q <= 2 * Step(v, x) + 1
    BY <1>1, <1>2
  <1>4. x + q >= 2
    <2>1. CASE x = 1
      BY <2>1, <1>1
    <2>2. CASE x # 1
      BY <2>2, <1>1
    <2> QED BY <2>1, <2>2
  <1>5. ASSUME x <= s PROVE q >= x
    <2>1. x * x <= s * s
      BY <1>5
    <2>2. x * x <= v
      BY <2>1
    <2> SUFFICES ASSUME q <= x - 1 PROVE FALSE
      BY <1>1
    <2>3. x * q + x <= x * (x - 1) + x
      BY <1>1
    <2> QED BY <2>2, <2>3, <1>1
  <1>6. ASSUME x > s PROVE q < x /\ x + q >= 2 * s
    <2>1. (s + 1) * (s + 1) <= x * x
      BY <1>6
    <2>2. q < x
      <3> SUFFICES ASSUME q >= x PROVE FALSE
        BY <1>1
      <3>1. x * x <= x * q
        BY <1>1
      <3> QED BY <3>1, <2>1, <1>1
    <2>3. x + q >= 2 * s
      <3> SUFFICES ASSUME x + q + 1 <= 2 * s PROVE FALSE
        BY <1>1
      <3>1. x * q + x <= x * (2 * s - x)
        <4>1. q + 1 <= 2 * s - x
          BY <1>1
        <4>2. x * (q + 1) <= x * (2 * s - x)
          BY <4>1, <1>1
        <4> QED BY <4>2, <1>1
      <3>2. x * (2 * s - x) <= s * s
        <4>1. (x - s) * (x - s) >= 0
          OBVIOUS
        <4>2. (x - s) * (x - s) = x * x - 2 * (x * s) + s * s
          OBVIOUS
        <4>3. x * (2 * s - x) = 2 * (x * s) - x * x
          OBVIOUS
        <4> QED BY <4>1, <4>2, <4>3
      <3> QED BY <3>1, <3>2, <1>1
    <2> QED BY <2>2, <2>3
  <1> QED BY <1>1, <1>2, <1>3, <1>4, <1>5, <1>6

\* The loop ends at the root s from everywhere above it, so the recursion has a
\* solution, and the least number on which a solution could differ from it does
\* not exist.
LEMMA NewtonIsRoot ==
  ASSUME NEW v \in Nat \ {0, 1}, NEW s \in Nat, s * s <= v, v < (s + 1) * (s + 1)
  PROVE  isqrt(v) = s
  <1> DEFINE P == Nat \ {0}
             Loop(g) == [x \in P |-> IF Step(v, x) < x THEN g[Step(v, x)] ELSE x]
             root == [x \in P |-> IF x <= s THEN x ELSE s]
             newt == CHOOSE newton : newton = Loop(newton)
  <1>1. root = Loop(root)
    <2> SUFFICES ASSUME NEW x \in P PROVE root[x] = IF Step(v, x) < x THEN root[Step(v, x)] ELSE x
      OBVIOUS
    <2>1. CASE x <= s
      BY <2>1, StepDown
    <2>2. CASE x > s
      <3>1. Step(v, x) \in P /\ Step(v, x) < x /\ Step(v, x) >= s
        BY <2>2, StepDown
      <3>2. root[Step(v, x)] = s
        BY <3>1
      <3> QED BY <2>2, <3>1, <3>2
    <2> QED BY <2>1, <2>2
  <1>2. newt = Loop(newt)
    <2> HIDE DEF root, Loop
    <2> QED BY <1>1
  <1>3. \A x \in P : newt[x] = IF Step(v, x) < x THEN newt[Step(v, x)] ELSE x
    <2> HIDE DEF newt
    <2> QED BY <1>2
  <1>4. \A x \in P : newt[x] = root[x]
    <2> HIDE DEF newt
    <2> SUFFICES ASSUME NEW w \in P, newt[w] # root[w] PROVE FALSE
      OBVIOUS
    <2> DEFINE T == {x \in P : newt[x] # root[x]}
    <2>1. PICK x \in T : \A y \in T : x <= y
      BY LeastNat
    <2>2. CASE x <= s
      BY <2>2, <1>3, StepDown
    <2>3. CASE x > s
      <3>1. Step(v, x) \in P /\ Step(v, x) < x /\ Step(v, x) >= s
        BY <2>3, StepDown
      <3>2. newt[Step(v, x)] = root[Step(v, x)]
        BY <3>1, <2>1
      <3> QED BY <3>1, <3>2, <1>3, <2>3
    <2> QED BY <2>2, <2>3
  <1>5. isqrt(v) = newt[v]
    BY DEF isqrt, Step
  <1>6. s <= v
    OBVIOUS
  <1> HIDE DEF newt
  <1> QED BY <1>4, <1>5, <1>6

\* isqrt is the floor of the square root.
LEMMA IsqrtFacts ==
  ASSUME NEW v \in Nat
  PROVE  isqrt(v) \in Nat /\ isqrt(v) * isqrt(v) <= v /\ v < (isqrt(v) + 1) * (isqrt(v) + 1)
  <1>1. CASE v \in {0, 1}
    <2>1. isqrt(v) = v
      BY <1>1 DEF isqrt
    <2> QED BY <1>1, <2>1
  <1>2. CASE v \notin {0, 1}
    <2>1. PICK s \in Nat : s * s <= v /\ v < (s + 1) * (s + 1)
      BY RootExists
    <2>2. isqrt(v) = s
      BY <1>2, <2>1, NewtonIsRoot
    <2> QED BY <2>1, <2>2
  <1> QED BY <1>1, <1>2

\* The fee is a part of the input.
LEMMA FeeFacts == ASSUME NEW m \in Nat PROVE Fee(m) \in Nat /\ Fee(m) <= m
  <1>1. FEE_BPS \in Nat /\ FEE_BPS <= BPS_DENOMINATOR /\ BPS_DENOMINATOR \in Nat \ {0} /\ m * FEE_BPS \in Nat
    BY FeeAssumption
  <1>2. PICK q : q = Fee(m) /\ q \in Nat /\ BPS_DENOMINATOR * q <= m * FEE_BPS
    BY <1>1, DivFacts DEF Fee
  <1>3. m * FEE_BPS <= BPS_DENOMINATOR * m
    BY <1>1
  <1>4. BPS_DENOMINATOR * q <= BPS_DENOMINATOR * m
    BY <1>1, <1>2, <1>3
  <1>5. q <= m
    <2> SUFFICES ASSUME q >= m + 1 PROVE FALSE
      BY <1>2
    <2>1. BPS_DENOMINATOR * q >= BPS_DENOMINATOR * (m + 1)
      BY <1>1, <1>2
    <2>2. BPS_DENOMINATOR * (m + 1) = BPS_DENOMINATOR * m + BPS_DENOMINATOR
      BY <1>1
    <2>3. BPS_DENOMINATOR * m \in Nat /\ BPS_DENOMINATOR * q \in Nat
      BY <1>1, <1>2
    <2> QED BY <2>1, <2>2, <2>3, <1>1, <1>4
  <1> QED BY <1>2, <1>5

\* A swap pays less than the reserve, and out is affordable to the pool exactly if
\* it is at most what the swap pays.
LEMMA AmountOutFacts ==
  ASSUME NEW m \in Nat, NEW r1 \in Nat \ {0}, NEW r2 \in Nat \ {0}
  PROVE  /\ AmountOut(m, <<r1, r2>>) \in 0 .. r2 - 1
         /\ \A out \in 0 .. r2 : (r1 + (m - Fee(m))) * (r2 - out) >= r1 * r2 <=> out <= AmountOut(m, <<r1, r2>>)
  <1>1. PICK net : net = m - Fee(m) /\ net \in Nat
    BY FeeFacts
  <1>2. PICK q : /\ q = AmountOut(m, <<r1, r2>>) /\ q \in Nat
                 /\ (r1 + net) * q <= net * r2 /\ net * r2 < (r1 + net) * q + (r1 + net)
    BY <1>1, DivFacts DEF AmountOut
  <1>3. q < r2
    <2> SUFFICES ASSUME q >= r2 PROVE FALSE
      BY <1>2
    <2>1. (r1 + net) * q >= (r1 + net) * r2
      BY <1>1, <1>2
    <2>2. (r1 + net) * r2 = r1 * r2 + net * r2 /\ r1 * r2 > 0
      BY <1>1
    <2>3. (r1 + net) * q \in Nat /\ net * r2 \in Nat /\ r1 * r2 \in Nat
      BY <1>1, <1>2
    <2> QED BY <2>1, <2>2, <2>3, <1>2
  <1>4. ASSUME NEW out \in 0 .. r2
        PROVE  (r1 + net) * (r2 - out) >= r1 * r2 <=> out <= q
    <2>1. (r1 + net) * (r2 - out) = r1 * r2 + net * r2 - (r1 + net) * out
      BY <1>1
    <2>2. (r1 + net) * out \in Nat /\ net * r2 \in Nat /\ r1 * r2 \in Nat /\ (r1 + net) * q \in Nat
      BY <1>1, <1>2
    <2>3. (r1 + net) * (r2 - out) >= r1 * r2 <=> (r1 + net) * out <= net * r2
      BY <2>1, <2>2
    <2>4. ASSUME out <= q PROVE (r1 + net) * out <= net * r2
      <3>1. (r1 + net) * out <= (r1 + net) * q
        BY <1>1, <1>2, <2>4
      <3> QED BY <3>1, <2>2, <1>2
    <2>5. ASSUME out >= q + 1 PROVE (r1 + net) * out > net * r2
      <3>1. (r1 + net) * out >= (r1 + net) * (q + 1)
        BY <1>1, <1>2, <2>5
      <3>2. (r1 + net) * (q + 1) = (r1 + net) * q + (r1 + net)
        BY <1>1, <1>2
      <3> QED BY <3>1, <3>2, <2>2, <1>1, <1>2
    <2> QED BY <2>2, <2>3, <2>4, <2>5, <1>2
  <1> QED BY <1>1, <1>2, <1>3, <1>4

--------------------------------------------------------------------------------
(* Folds.  The community modules fold a set one element at a time, in an order *)
(* that is fixed by CHOOSE.  Here h[x][v] is what element x makes of the value *)
(* v of the rest; when the elements commute, the order makes no difference.    *)

Pick(s) == CHOOSE x \in s : TRUE
Walk(it, h, b, D) == [s \in D |-> IF s = {} THEN b ELSE h[Pick(s)][it[s \ {Pick(s)}]]]
Solves(it, h, b, S) == it = Walk(it, h, b, SUBSET S)
FoldOf(h, b, S) == (CHOOSE it : Solves(it, h, b, S))[S]

Closed(h, V, S) == \A x \in S, v \in V : h[x][v] \in V
Commuting(h, V, S) == \A x, y \in S, v \in V : h[x][h[y][v]] = h[y][h[x][v]]

\* The element a fold takes next is an element of the set.
LEMMA PickIn == ASSUME NEW s, s # {} PROVE Pick(s) \in s
  BY DEF Pick

\* Taking an element out of a finite set makes it smaller by one.
LEMMA SmallerSet ==
  ASSUME NEW S, IsFiniteSet(S), NEW x \in S
  PROVE  /\ IsFiniteSet(S \ {x}) /\ Cardinality(S) \in Nat /\ Cardinality(S \ {x}) \in Nat
         /\ Cardinality(S \ {x}) = Cardinality(S) - 1
  BY FS_RemoveElement, FS_CardinalityType

\* What holds of a set when it holds of all sets with an element less holds of all
\* finite sets: B is the set of those for which it does not hold.
LEMMA NoSmallest ==
  ASSUME NEW S, IsFiniteSet(S), NEW B \in SUBSET SUBSET S,
         \A s \in B : s # {} /\ \E x \in s : s \ {x} \in B
  PROVE  B = {}
  <1> SUFFICES ASSUME B # {} PROVE FALSE
    OBVIOUS
  <1>1. \A s \in B : IsFiniteSet(s) /\ Cardinality(s) \in Nat
    BY FS_Subset, FS_CardinalityType
  <1> DEFINE T == {Cardinality(s) : s \in B}
  <1>2. PICK k \in T : \A y \in T : k <= y
    <2>1. T \subseteq Nat /\ T # {}
      BY <1>1
    <2> HIDE DEF T
    <2> QED BY <2>1, LeastNat
  <1>3. PICK s \in B : Cardinality(s) = k
    OBVIOUS
  <1>4. PICK x \in s : s \ {x} \in B
    OBVIOUS
  <1>5. Cardinality(s \ {x}) < k /\ Cardinality(s \ {x}) \in Nat /\ k \in Nat
    BY <1>1, <1>3, SmallerSet
  <1>6. k <= Cardinality(s \ {x})
    BY <1>2, <1>4
  <1> QED BY <1>5, <1>6

\* The recursion of the fold has a solution on the subsets of a finite set: it is
\* built up along their sizes.
LEMMA WalkSolved ==
  ASSUME NEW S, IsFiniteSet(S), NEW h, NEW b
  PROVE  \E it : Solves(it, h, b, S)
  <1> DEFINE D(k) == {s \in SUBSET S : Cardinality(s) <= k}
             Solved(k) == \E it : it = Walk(it, h, b, D(k))
             T == {k \in Nat : ~Solved(k)}
  <1>1. \A s \in SUBSET S : IsFiniteSet(s) /\ Cardinality(s) \in Nat /\ Cardinality(s) <= Cardinality(S)
    BY FS_Subset, FS_CardinalityType
  <1>2. Solved(0)
    <2>1. \A s \in D(0) : s = {}
      BY <1>1, FS_EmptySet
    <2>2. [s \in D(0) |-> b] = Walk([s \in D(0) |-> b], h, b, D(0))
      BY <2>1 DEF Walk
    <2> QED BY <2>2
  <1>3. ASSUME NEW k \in Nat, Solved(k) PROVE Solved(k + 1)
    <2>1. PICK it : it = Walk(it, h, b, D(k))
      BY <1>3
    <2>2. PICK up : up = Walk(it, h, b, D(k + 1))
      OBVIOUS
    <2>3. \A s \in D(k) : s \in D(k + 1) /\ up[s] = it[s]
      <3>1. D(k) \subseteq D(k + 1)
        BY <1>1
      <3>2. \A s \in D(k) : it[s] = IF s = {} THEN b ELSE h[Pick(s)][it[s \ {Pick(s)}]]
        <4> HIDE DEF D
        <4> QED BY <2>1 DEF Walk
      <3>3. \A s \in D(k + 1) : up[s] = IF s = {} THEN b ELSE h[Pick(s)][it[s \ {Pick(s)}]]
        <4> HIDE DEF D
        <4> QED BY <2>2 DEF Walk
      <3> HIDE DEF D
      <3> QED BY <3>1, <3>2, <3>3
    <2>4. \A s \in D(k + 1) : s # {} => s \ {Pick(s)} \in D(k)
      <3> SUFFICES ASSUME NEW s \in D(k + 1), s # {} PROVE s \ {Pick(s)} \in D(k)
        OBVIOUS
      <3>1. Pick(s) \in s
        BY PickIn
      <3> QED BY <3>1, <1>1, SmallerSet
    <2>5. up = Walk(up, h, b, D(k + 1))
      <3> HIDE DEF D
      <3>1. \A s \in D(k + 1) : s # {} => up[s \ {Pick(s)}] = it[s \ {Pick(s)}]
        BY <2>3, <2>4
      <3> QED BY <2>2, <3>1 DEF Walk
    <2> QED BY <2>5
  <1>4. T = {}
    <2> SUFFICES ASSUME T # {} PROVE FALSE
      OBVIOUS
    <2> HIDE DEF Solved
    <2>1. PICK k \in T : \A y \in T : k <= y
      BY LeastNat
    <2>2. k # 0
      BY <1>2
    <2>3. k - 1 \in Nat /\ Solved(k - 1)
      BY <2>1, <2>2
    <2>4. Solved((k - 1) + 1)
      BY <2>3, <1>3
    <2> QED BY <2>4
  <1>5. D(Cardinality(S)) = SUBSET S
    BY <1>1
  <1>6. Solved(Cardinality(S))
    <2> HIDE DEF Solved
    <2> QED BY <1>4, FS_CardinalityType
  <1> HIDE DEF D
  <1> QED BY <1>5, <1>6 DEF Solves

\* Two solutions agree on every set they are both about.
LEMMA WalkUnique ==
  ASSUME NEW S, IsFiniteSet(S), NEW R, S \subseteq R, NEW h, NEW k, \A x \in S : k[x] = h[x], NEW b,
         NEW it, Solves(it, h, b, S), NEW jt, Solves(jt, k, b, R)
  PROVE  it[S] = jt[S]
  <1> DEFINE B == {s \in SUBSET S : it[s] # jt[s]}
  <1>1. \A s \in SUBSET S : it[s] = IF s = {} THEN b ELSE h[Pick(s)][it[s \ {Pick(s)}]]
    BY DEF Walk, Solves
  <1>2. \A s \in SUBSET R : jt[s] = IF s = {} THEN b ELSE k[Pick(s)][jt[s \ {Pick(s)}]]
    BY DEF Walk, Solves
  <1>3. ASSUME NEW s \in B PROVE s # {} /\ \E x \in s : s \ {x} \in B
    <2>1. s # {}
      BY <1>1, <1>2
    <2>2. Pick(s) \in s
      BY <2>1, PickIn
    <2>3. it[s] = h[Pick(s)][it[s \ {Pick(s)}]] /\ jt[s] = h[Pick(s)][jt[s \ {Pick(s)}]]
      BY <1>1, <1>2, <2>1, <2>2
    <2>4. s \ {Pick(s)} \in B
      BY <2>3
    <2> QED BY <2>1, <2>2, <2>4
  <1>4. B = {}
    BY <1>3, NoSmallest
  <1> QED BY <1>4

\* The value of a fold is that of a solution.
LEMMA FoldWalk ==
  ASSUME NEW S, IsFiniteSet(S), NEW h, NEW b
  PROVE  \E it : Solves(it, h, b, S) /\ FoldOf(h, b, S) = it[S]
  BY WalkSolved DEF FoldOf

\* A fold depends on what the elements of the set do only.
LEMMA FoldSame ==
  ASSUME NEW S, IsFiniteSet(S), NEW h, NEW k, \A x \in S : k[x] = h[x], NEW b
  PROVE  FoldOf(k, b, S) = FoldOf(h, b, S)
  <1>1. PICK it : Solves(it, h, b, S) /\ FoldOf(h, b, S) = it[S]
    BY FoldWalk
  <1>2. PICK jt : Solves(jt, k, b, S) /\ FoldOf(k, b, S) = jt[S]
    BY FoldWalk
  <1>3. it[S] = jt[S]
    BY <1>1, <1>2, WalkUnique
  <1> QED BY <1>1, <1>2, <1>3

\* A fold takes one element at a time.
LEMMA FoldPick ==
  ASSUME NEW S, IsFiniteSet(S), NEW h, NEW b
  PROVE  FoldOf(h, b, S) = IF S = {} THEN b ELSE h[Pick(S)][FoldOf(h, b, S \ {Pick(S)})]
  <1>1. PICK it : Solves(it, h, b, S) /\ FoldOf(h, b, S) = it[S]
    BY FoldWalk
  <1>2. it[S] = IF S = {} THEN b ELSE h[Pick(S)][it[S \ {Pick(S)}]]
    BY <1>1 DEF Walk, Solves
  <1>3. it[S \ {Pick(S)}] = FoldOf(h, b, S \ {Pick(S)})
    <2>1. IsFiniteSet(S \ {Pick(S)}) /\ S \ {Pick(S)} \subseteq S
      BY FS_Subset
    <2>2. PICK jt : Solves(jt, h, b, S \ {Pick(S)}) /\ FoldOf(h, b, S \ {Pick(S)}) = jt[S \ {Pick(S)}]
      BY <2>1, FoldWalk
    <2>3. jt[S \ {Pick(S)}] = it[S \ {Pick(S)}]
      BY <1>1, <2>1, <2>2, WalkUnique
    <2> QED BY <2>2, <2>3
  <1> QED BY <1>1, <1>2, <1>3

\* A fold over nothing is the value it starts with.
LEMMA FoldEmpty == \A h, b : FoldOf(h, b, {}) = b
  BY FoldPick, FS_EmptySet

\* The value of a fold is of the type its elements keep.
LEMMA FoldType ==
  ASSUME NEW S, IsFiniteSet(S), NEW h, NEW V, NEW b \in V, Closed(h, V, S)
  PROVE  FoldOf(h, b, S) \in V
  <1> DEFINE B == {s \in SUBSET S : FoldOf(h, b, s) \notin V}
  <1>1. ASSUME NEW s \in B PROVE s # {} /\ \E x \in s : s \ {x} \in B
    <2>1. IsFiniteSet(s)
      BY FS_Subset
    <2>2. s # {}
      BY <2>1, FoldPick
    <2>3. Pick(s) \in s /\ FoldOf(h, b, s) = h[Pick(s)][FoldOf(h, b, s \ {Pick(s)})]
      BY <2>1, <2>2, PickIn, FoldPick
    <2>4. s \ {Pick(s)} \in B
      BY <2>3 DEF Closed
    <2> QED BY <2>2, <2>3, <2>4
  <1>2. B = {}
    BY <1>1, NoSmallest
  <1> QED BY <1>2

\* Any element may be taken last.
LEMMA FoldTake ==
  ASSUME NEW S, IsFiniteSet(S), NEW h, NEW V, NEW b \in V, Closed(h, V, S), Commuting(h, V, S)
  PROVE  \A x \in S : FoldOf(h, b, S) = h[x][FoldOf(h, b, S \ {x})]
  <1> DEFINE Good(s) == \A x \in s : FoldOf(h, b, s) = h[x][FoldOf(h, b, s \ {x})]
             B == {s \in SUBSET S : ~Good(s)}
  <1>1. ASSUME NEW s \in B PROVE s # {} /\ \E x \in s : s \ {x} \in B
    <2>1. IsFiniteSet(s) /\ s # {}
      BY FS_Subset
    <2>2. PICK p \in s : FoldOf(h, b, s) = h[p][FoldOf(h, b, s \ {p})]
      BY <2>1, PickIn, FoldPick
    <2>3. PICK x \in s : FoldOf(h, b, s) # h[x][FoldOf(h, b, s \ {x})]
      OBVIOUS
    <2>4. (s \ {p}) \ {x} = (s \ {x}) \ {p} /\ x # p
      BY <2>2, <2>3
    <2>5. PICK v \in V : v = FoldOf(h, b, (s \ {p}) \ {x})
      <3>1. IsFiniteSet((s \ {p}) \ {x}) /\ Closed(h, V, (s \ {p}) \ {x})
        BY FS_Subset DEF Closed
      <3> QED BY <3>1, FoldType
    <2>6. SUFFICES ASSUME Good(s \ {p}), Good(s \ {x}) PROVE FALSE
      BY <2>1, <2>2, <2>3
    <2>7. FoldOf(h, b, s \ {p}) = h[x][v] /\ FoldOf(h, b, s \ {x}) = h[p][v]
      BY <2>4, <2>5, <2>6
    <2>8. h[p][h[x][v]] = h[x][h[p][v]]
      BY DEF Commuting
    <2> QED BY <2>2, <2>3, <2>7, <2>8
  <1>2. B = {}
    <2> HIDE DEF Good
    <2> QED BY <1>1, NoSmallest
  <1> QED BY <1>2

\* What obeys the recursion where its values are of the type is the fold.
LEMMA FoldIs ==
  ASSUME NEW S, IsFiniteSet(S), NEW h, NEW V, NEW b \in V, Closed(h, V, S),
         NEW it, it[{}] = b,
         \A s \in SUBSET S : s # {} /\ it[s \ {Pick(s)}] \in V => it[s] = h[Pick(s)][it[s \ {Pick(s)}]]
  PROVE  it[S] = FoldOf(h, b, S)
  <1> DEFINE B == {s \in SUBSET S : it[s] # FoldOf(h, b, s)}
  <1>1. ASSUME NEW s \in B PROVE s # {} /\ \E x \in s : s \ {x} \in B
    <2>1. IsFiniteSet(s)
      BY FS_Subset
    <2>2. s # {}
      BY FoldEmpty
    <2>3. Pick(s) \in s /\ FoldOf(h, b, s) = h[Pick(s)][FoldOf(h, b, s \ {Pick(s)})]
      BY <2>1, <2>2, PickIn, FoldPick
    <2>4. FoldOf(h, b, s \ {Pick(s)}) \in V
      <3>1. IsFiniteSet(s \ {Pick(s)}) /\ Closed(h, V, s \ {Pick(s)})
        BY FS_Subset DEF Closed
      <3> QED BY <3>1, FoldType
    <2>5. s \ {Pick(s)} \in B
      BY <2>2, <2>3, <2>4
    <2> QED BY <2>2, <2>3, <2>5
  <1>2. B = {}
    BY <1>1, NoSmallest
  <1> QED BY <1>2

\* The recursion of a fold has a solution of the type its elements keep.
LEMMA WalkTyped ==
  ASSUME NEW S, IsFiniteSet(S), NEW h, NEW V, NEW b \in V, Closed(h, V, S)
  PROVE  \E it : Solves(it, h, b, S) /\ \A s \in SUBSET S : it[s] \in V
  <1>1. PICK it : Solves(it, h, b, S)
    BY WalkSolved
  <1>2. ASSUME NEW s \in SUBSET S PROVE it[s] \in V
    <2>1. IsFiniteSet(s) /\ Closed(h, V, s)
      BY FS_Subset DEF Closed
    <2>2. PICK jt : Solves(jt, h, b, s) /\ FoldOf(h, b, s) = jt[s]
      BY <2>1, FoldWalk
    <2>3. jt[s] = it[s]
      BY <1>1, <2>1, <2>2, WalkUnique
    <2> QED BY <2>1, <2>2, <2>3, FoldType
  <1> QED BY <1>1, <1>2

--------------------------------------------------------------------------------
(* Sums.                                                                      *)

Adds(g, S) == [x \in S |-> [v \in Int |-> g[x] + v]]

\* Adding integers commutes.
LEMMA AddsFacts ==
  ASSUME NEW S, NEW g, \A x \in S : g[x] \in Int
  PROVE  Closed(Adds(g, S), Int, S) /\ Commuting(Adds(g, S), Int, S)
  <1>1. \A x \in S, v \in Int : Adds(g, S)[x][v] = g[x] + v /\ g[x] + v \in Int
    BY DEF Adds
  <1> QED BY <1>1 DEF Closed, Commuting

\* SumFunctionOnSet is a fold.
LEMMA SumIsFold ==
  ASSUME NEW S, IsFiniteSet(S), NEW g, \A x \in S : g[x] \in Int
  PROVE  SumFunctionOnSet(g, S) = FoldOf(Adds(g, S), 0, S)
  <1> DEFINE Body(it) == [s \in SUBSET S |-> IF s = {} THEN 0 ELSE g[Pick(s)] + it[s \ {Pick(s)}]]
             iter == CHOOSE iter : iter = Body(iter)
  <1>1. \A x \in S, v \in Int : Adds(g, S)[x][v] = g[x] + v
    BY DEF Adds
  <1>2. PICK it : Solves(it, Adds(g, S), 0, S) /\ \A s \in SUBSET S : it[s] \in Int
    <2>1. Closed(Adds(g, S), Int, S) /\ 0 \in Int
      BY AddsFacts
    <2> QED BY <2>1, WalkTyped
  <1>3. it = Body(it)
    <2>1. \A s \in SUBSET S : s # {} => Pick(s) \in S /\ s \ {Pick(s)} \in SUBSET S
      BY PickIn
    <2>2. \A s \in SUBSET S : s # {} => Adds(g, S)[Pick(s)][it[s \ {Pick(s)}]] = g[Pick(s)] + it[s \ {Pick(s)}]
      BY <1>1, <1>2, <2>1
    <2>3. Walk(it, Adds(g, S), 0, SUBSET S) = Body(it)
      BY <2>2 DEF Walk
    <2> QED BY <1>2, <2>3 DEF Solves
  <1>4. iter = Body(iter)
    <2> HIDE DEF Body
    <2> QED BY <1>3
  <1>5. SumFunctionOnSet(g, S) = iter[S]
    BY DEF SumFunctionOnSet, FoldFunctionOnSet, MapThenFoldSet, Pick
  <1>6. \A s \in SUBSET S : iter[s] = IF s = {} THEN 0 ELSE g[Pick(s)] + iter[s \ {Pick(s)}]
    <2> HIDE DEF iter
    <2> QED BY <1>4
  <1> HIDE DEF iter
  <1>7. \A s \in SUBSET S : s # {} /\ iter[s \ {Pick(s)}] \in Int => iter[s] = Adds(g, S)[Pick(s)][iter[s \ {Pick(s)}]]
    BY <1>1, <1>6, PickIn
  <1>8. iter[{}] = 0
    BY <1>6
  <1>9. iter[S] = FoldOf(Adds(g, S), 0, S)
    <2>1. Closed(Adds(g, S), Int, S) /\ 0 \in Int
      BY AddsFacts
    <2> QED BY <1>7, <1>8, <2>1, FoldIs
  <1> QED BY <1>5, <1>9

\* A sum over nothing is zero.
LEMMA SumEmpty == \A g : SumFunctionOnSet(g, {}) = 0
  <1> SUFFICES ASSUME NEW g PROVE SumFunctionOnSet(g, {}) = 0
    OBVIOUS
  <1>1. SumFunctionOnSet(g, {}) = FoldOf(Adds(g, {}), 0, {})
    BY SumIsFold, FS_EmptySet
  <1> QED BY <1>1, FoldEmpty

\* The sum depends on the values at the elements of the set only.
LEMMA SumSame ==
  ASSUME NEW S, IsFiniteSet(S), NEW g, \A x \in S : g[x] \in Int, NEW h, \A x \in S : h[x] = g[x]
  PROVE  SumFunctionOnSet(h, S) = SumFunctionOnSet(g, S)
  <1>1. \A x \in S : h[x] \in Int /\ Adds(h, S)[x] = Adds(g, S)[x]
    BY DEF Adds
  <1>2. FoldOf(Adds(h, S), 0, S) = FoldOf(Adds(g, S), 0, S)
    BY <1>1, FoldSame
  <1> QED BY <1>1, <1>2, SumIsFold

\* Any element may be added last.
LEMMA SumTake ==
  ASSUME NEW S, IsFiniteSet(S), NEW g, \A x \in S : g[x] \in Int
  PROVE  /\ SumFunctionOnSet(g, S) \in Int
         /\ \A x \in S : SumFunctionOnSet(g, S) = g[x] + SumFunctionOnSet(g, S \ {x})
  <1>0. Closed(Adds(g, S), Int, S) /\ Commuting(Adds(g, S), Int, S) /\ 0 \in Int
    BY AddsFacts
  <1>1. SumFunctionOnSet(g, S) = FoldOf(Adds(g, S), 0, S)
    BY SumIsFold
  <1>2. FoldOf(Adds(g, S), 0, S) \in Int
    BY <1>0, FoldType
  <1>3. ASSUME NEW x \in S PROVE SumFunctionOnSet(g, S) = g[x] + SumFunctionOnSet(g, S \ {x})
    <2>1. IsFiniteSet(S \ {x}) /\ \A y \in S \ {x} : g[y] \in Int /\ Adds(g, S)[y] = Adds(g, S \ {x})[y]
      BY FS_Subset DEF Adds
    <2>2. SumFunctionOnSet(g, S \ {x}) = FoldOf(Adds(g, S \ {x}), 0, S \ {x})
      BY <2>1, SumIsFold
    <2>3. FoldOf(Adds(g, S \ {x}), 0, S \ {x}) = FoldOf(Adds(g, S), 0, S \ {x})
      BY <2>1, FoldSame
    <2>4. FoldOf(Adds(g, S), 0, S \ {x}) \in Int
      <3>1. Closed(Adds(g, S), Int, S \ {x})
        BY <1>0 DEF Closed
      <3> QED BY <2>1, <3>1, FoldType
    <2>5. FoldOf(Adds(g, S), 0, S) = Adds(g, S)[x][FoldOf(Adds(g, S), 0, S \ {x})]
      BY <1>0, FoldTake
    <2>6. Adds(g, S)[x][FoldOf(Adds(g, S), 0, S \ {x})] = g[x] + FoldOf(Adds(g, S), 0, S \ {x})
      BY <2>4 DEF Adds
    <2> QED BY <1>1, <2>2, <2>3, <2>5, <2>6
  <1> QED BY <1>1, <1>2, <1>3

\* One term changes.
LEMMA SumUpdate ==
  ASSUME NEW S, IsFiniteSet(S), NEW g, \A x \in S : g[x] \in Int, NEW a \in S,
         NEW h, \A x \in S \ {a} : h[x] = g[x], h[a] \in Int
  PROVE  SumFunctionOnSet(h, S) = SumFunctionOnSet(g, S) - g[a] + h[a]
  <1>1. IsFiniteSet(S \ {a}) /\ \A x \in S \ {a} : g[x] \in Int
    BY FS_Subset
  <1>2. SumFunctionOnSet(h, S \ {a}) = SumFunctionOnSet(g, S \ {a})
    BY <1>1, SumSame
  <1>3. SumFunctionOnSet(g, S) = g[a] + SumFunctionOnSet(g, S \ {a})
    BY SumTake
  <1>4. SumFunctionOnSet(h, S) = h[a] + SumFunctionOnSet(h, S \ {a})
    <2>1. \A x \in S : h[x] \in Int
      OBVIOUS
    <2> QED BY <2>1, SumTake
  <1>5. SumFunctionOnSet(g, S \ {a}) \in Int
    BY <1>1, SumTake
  <1> QED BY <1>2, <1>3, <1>4, <1>5

\* A sum of zeros is zero.
LEMMA SumZero ==
  ASSUME NEW S, IsFiniteSet(S), NEW g, \A x \in S : g[x] = 0
  PROVE  SumFunctionOnSet(g, S) = 0
  <1> DEFINE B == {s \in SUBSET S : SumFunctionOnSet(g, s) # 0}
  <1>1. ASSUME NEW s \in B PROVE s # {} /\ \E x \in s : s \ {x} \in B
    <2>1. IsFiniteSet(s) /\ \A x \in s : g[x] \in Int
      BY FS_Subset
    <2>2. PICK x \in s : TRUE
      BY SumEmpty
    <2>3. SumFunctionOnSet(g, s) = g[x] + SumFunctionOnSet(g, s \ {x})
      BY <2>1, SumTake
    <2>4. s \ {x} \in B
      BY <2>3
    <2> QED BY <2>2, <2>4
  <1>2. B = {}
    BY <1>1, NoSmallest
  <1> QED BY <1>2
=============================================================================
