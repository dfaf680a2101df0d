---------------------------- MODULE RateLimitProofs ----------------------------
(***************************************************************************)
(* The limiter's bound, for every window, limit and set of keys.           *)
(***************************************************************************)
EXTENDS RateLimit, TLAPS

\* The limit and the window are positive.
LEMMA Max1 == max \in Nat /\ max >= 1 /\ windowMs \in Nat
  BY LimitAssumption

Entries == [count : Nat, resetAt : Nat]

LimitTyped ==
    /\ now \in Nat
    /\ hits \in [Clients -> Entries \cup {NoEntry}]
    /\ admitted \in [Clients -> Seq(Nat)]

\* Requests of k passed in this order, none in the future.
InOrder(k) ==
    \A i, j \in DOMAIN admitted[k] : i <= j => admitted[k][i] <= admitted[k][j] /\ admitted[k][j] <= now

\* st are the requests of k that opened a window: each other one follows its
\* opener by less than max, and openers are a window apart.
Opened(k, st) ==
    /\ st \subseteq DOMAIN admitted[k]
    /\ \A j \in DOMAIN admitted[k] : \E p \in st : p <= j /\ j < p + max
    /\ \A p, q \in st : p < q => admitted[k][p] + windowMs <= admitted[k][q]

\* The entry of k, if it has one, is the last window's and counts its requests;
\* without one, all windows are over.
EntryIsLast(k, st) ==
    /\ hits[k] = NoEntry => \A p \in st : admitted[k][p] + windowMs <= now
    /\ hits[k] # NoEntry =>
         /\ \A p \in st : admitted[k][p] + windowMs <= hits[k].resetAt
         /\ \E p \in st : Len(admitted[k]) < p + hits[k].count

Windows(k) == InOrder(k) /\ \E st : Opened(k, st) /\ EntryIsLast(k, st)

LimitInv == LimitTyped /\ \A k \in Clients : Windows(k)

\* In the beginning no window is open.
LEMMA InvInit == LimitInit => LimitInv
  <1> SUFFICES ASSUME LimitInit PROVE LimitInv
    OBVIOUS
  <1>1. LimitTyped
    BY DEF LimitInit, LimitTyped
  <1>2. ASSUME NEW k \in Clients PROVE Windows(k)
    <2>1. admitted[k] = <<>> /\ hits[k] = NoEntry /\ DOMAIN admitted[k] = {}
      BY DEF LimitInit
    <2>2. InOrder(k) /\ Opened(k, {}) /\ EntryIsLast(k, {})
      BY <2>1 DEF InOrder, Opened, EntryIsLast
    <2> QED BY <2>2 DEF Windows
  <1> QED BY <1>1, <1>2 DEF LimitInv

\* A request that passes now comes after all others.
LEMMA AppendInOrder ==
  ASSUME LimitInv, NEW k \in Clients, NEW n, n = Len(admitted[k]) + 1,
         DOMAIN admitted'[k] = 1 .. n, admitted'[k][n] = now, now' = now,
         \A i \in 1 .. Len(admitted[k]) : admitted'[k][i] = admitted[k][i]
  PROVE  InOrder(k)'
  <1>1. /\ admitted[k] \in Seq(Nat) /\ Len(admitted[k]) \in Nat
        /\ DOMAIN admitted[k] = 1 .. Len(admitted[k]) /\ now \in Nat
        /\ InOrder(k)
    BY DEF LimitInv, LimitTyped, Windows
  <1>2. \A i \in 1 .. Len(admitted[k]) : admitted[k][i] \in Nat /\ admitted[k][i] <= now
    <2> TAKE i \in 1 .. Len(admitted[k])
    <2>1. i <= i /\ i \in DOMAIN admitted[k]
      BY <1>1
    <2> QED BY <2>1, <1>1 DEF InOrder
  <1> SUFFICES ASSUME NEW i \in 1 .. n, NEW j \in 1 .. n, i <= j
               PROVE  admitted'[k][i] <= admitted'[k][j] /\ admitted'[k][j] <= now
    BY DEF InOrder
  <1>3. CASE j = n
    <2>1. i = n \/ i \in 1 .. Len(admitted[k])
      BY <1>1
    <2> QED BY <2>1, <1>1, <1>2, <1>3
  <1>4. CASE j # n
    <2>1. i \in 1 .. Len(admitted[k]) /\ j \in 1 .. Len(admitted[k])
      BY <1>1, <1>4
    <2> QED BY <2>1, <1>1 DEF InOrder
  <1> QED BY <1>3, <1>4

\* A request in a window that is still open.
LEMMA SameWindow ==
  ASSUME LimitInv, NEW k \in Clients, rateLimit(k), ~Over(hits[k])
  PROVE  Windows(k)'
  <1> DEFINE a == admitted[k]
  <1>1. PICK st : Opened(k, st) /\ EntryIsLast(k, st)
    BY DEF LimitInv, Windows
  <1>2. /\ hits[k] # NoEntry /\ hits[k] \in Entries /\ hits[k].count \in Nat
        /\ a \in Seq(Nat) /\ Len(a) \in Nat /\ DOMAIN a = 1 .. Len(a) /\ now' = now /\ now \in Nat
    BY DEF LimitInv, LimitTyped, Over, rateLimit, Entries
  <1>3. /\ hits'[k] \in Entries /\ hits'[k] # NoEntry
        /\ hits'[k].resetAt = hits[k].resetAt
        /\ hits'[k].count \in Nat /\ hits'[k].count >= hits[k].count
        /\ hits[k].count < max => hits'[k].count = hits[k].count + 1
    BY <1>2, LimitAssumption, Max1 DEF rateLimit, Entry, LimitInv, LimitTyped, Entries
  <1>4. PICK p0 \in st : Len(a) < p0 + hits[k].count
    BY <1>1, <1>2 DEF EntryIsLast
  <1>5. st \subseteq 1 .. Len(a)
    BY <1>1, <1>2 DEF Opened
  <1>6. CASE ~Passes(k)
    <2>1. admitted'[k] = a
      BY <1>6 DEF rateLimit
    <2>2. InOrder(k)'
      BY <2>1, <1>2 DEF InOrder, LimitInv, Windows
    <2>3. Opened(k, st)'
      BY <2>1, <1>1 DEF Opened
    <2>4. EntryIsLast(k, st)'
      <3>1. \A p \in st : admitted'[k][p] + windowMs <= hits'[k].resetAt
        BY <2>1, <1>1, <1>2, <1>3 DEF EntryIsLast
      <3>2. p0 \in Nat
        BY <1>5
      <3>3. Len(admitted'[k]) < p0 + hits'[k].count
        BY <3>2, <2>1, <1>2, <1>3, <1>4
      <3> QED BY <3>1, <3>3, <1>3 DEF EntryIsLast
    <2> QED BY <2>2, <2>3, <2>4 DEF Windows
  <1>7. CASE Passes(k)
    <2>1. admitted'[k] = Append(a, now) /\ hits[k].count < max
      BY <1>7 DEF rateLimit, Passes, Entry, LimitInv, LimitTyped
    <2>2. /\ DOMAIN admitted'[k] = 1 .. Len(a) + 1
          /\ Len(admitted'[k]) = Len(a) + 1
          /\ \A i \in 1 .. Len(a) : admitted'[k][i] = a[i]
          /\ admitted'[k][Len(a) + 1] = now
      BY <2>1, <1>2
    <2>3. \A i \in 1 .. Len(a) : a[i] \in Nat
      BY <1>2
    <2>4. InOrder(k)'
      BY <2>2, <1>2, AppendInOrder
    <2>5. Opened(k, st)'
      <3>1. \A j \in DOMAIN a : \E p \in st : p <= j /\ j < p + max
        BY <1>1 DEF Opened
      <3>2. p0 <= Len(a) + 1 /\ Len(a) + 1 < p0 + max
        BY <1>4, <1>5, <2>1, <1>2, Max1
      <3>3. \A j \in 1 .. Len(a) + 1 : \E p \in st : p <= j /\ j < p + max
        <4> TAKE j \in 1 .. Len(a) + 1
        <4>1. CASE j = Len(a) + 1
          BY <4>1, <3>2, <1>4
        <4>2. CASE j \in 1 .. Len(a)
          BY <4>2, <3>1, <1>2
        <4> QED BY <4>1, <4>2, <1>2
      <3>4. \A p, q \in st : p < q => admitted'[k][p] + windowMs <= admitted'[k][q]
        BY <1>1, <1>5, <2>2 DEF Opened
      <3> QED BY <3>3, <3>4, <2>2, <1>5, <1>2 DEF Opened
    <2>6. EntryIsLast(k, st)'
      <3>1. \A p \in st : admitted'[k][p] + windowMs <= hits'[k].resetAt
        BY <1>1, <1>2, <1>3, <1>5, <2>2 DEF EntryIsLast
      <3>2. Len(admitted'[k]) < p0 + hits'[k].count
        <4>1. p0 \in 1 .. Len(a)
          BY <1>5
        <4>2. hits'[k].count = hits[k].count + 1
          BY <1>3, <2>1
        <4> QED BY <1>2, <1>4, <4>1, <4>2, <2>2
      <3> QED BY <3>1, <3>2, <1>3 DEF EntryIsLast
    <2> QED BY <2>4, <2>5, <2>6 DEF Windows
  <1> QED BY <1>6, <1>7

\* A request that opens a window always passes.
LEMMA NewWindow ==
  ASSUME LimitInv, NEW k \in Clients, rateLimit(k), Over(hits[k])
  PROVE  Windows(k)'
  <1> DEFINE a == admitted[k]
  <1>n. PICK n : n = Len(a) + 1
    OBVIOUS
  <1>1. PICK st : Opened(k, st) /\ EntryIsLast(k, st)
    BY DEF LimitInv, Windows
  <1>2. /\ a \in Seq(Nat) /\ Len(a) \in Nat /\ DOMAIN a = 1 .. Len(a) /\ now' = now /\ now \in Nat
        /\ hits[k] # NoEntry => hits[k].resetAt \in Nat /\ hits[k].resetAt <= now
        /\ n \in Nat /\ n = Len(a) + 1
    BY <1>n DEF LimitInv, LimitTyped, Over, rateLimit, Entries
  <1>3. st \subseteq 1 .. Len(a)
    BY <1>1, <1>2 DEF Opened
  <1>4. /\ admitted'[k] = Append(a, now)
        /\ hits'[k] = [count |-> 1, resetAt |-> now + windowMs] /\ hits'[k] # NoEntry
    BY LimitAssumption, Max1, <1>2 DEF rateLimit, Entry, Passes, LimitInv, LimitTyped
  <1>5. /\ DOMAIN admitted'[k] = 1 .. n
        /\ Len(admitted'[k]) = n
        /\ \A i \in 1 .. Len(a) : admitted'[k][i] = a[i] /\ a[i] \in Nat
        /\ admitted'[k][n] = now
    BY <1>4, <1>2
  <1>6. ASSUME NEW p \in st
        PROVE  a[p] + windowMs <= now
    <2>1. a[p] \in Nat
      BY <1>3, <1>5
    <2>2. CASE hits[k] = NoEntry
      BY <1>1, <2>2 DEF EntryIsLast
    <2>3. CASE hits[k] # NoEntry
      <3>1. a[p] + windowMs <= hits[k].resetAt
        BY <1>1, <2>3 DEF EntryIsLast
      <3> QED BY <1>2, <2>1, <2>3, <3>1, Max1
    <2> QED BY <2>2, <2>3
  <1>7. InOrder(k)'
    BY <1>5, <1>2, AppendInOrder
  <1>8. Opened(k, st \cup {n})'
    <2>1. \A j \in 1 .. n : \E p \in st \cup {n} : p <= j /\ j < p + max
      <3>1. \A j \in DOMAIN a : \E p \in st : p <= j /\ j < p + max
        BY <1>1 DEF Opened
      <3>2. n <= n /\ n < n + max
        BY Max1, <1>2
      <3> TAKE j \in 1 .. n
      <3>3. CASE j = n
        BY <3>2, <3>3
      <3>4. CASE j \in 1 .. Len(a)
        BY <3>1, <3>4, <1>2
      <3> QED BY <3>3, <3>4, <1>2
    <2>2. \A p, q \in st \cup {n} : p < q => admitted'[k][p] + windowMs <= admitted'[k][q]
      <3> SUFFICES ASSUME NEW p \in st \cup {n}, NEW q \in st \cup {n}, p < q
                   PROVE  admitted'[k][p] + windowMs <= admitted'[k][q]
        OBVIOUS
      <3>1. p \in st /\ p \in 1 .. Len(a)
        BY <1>2, <1>3
      <3>2. CASE q = n
        BY <3>1, <3>2, <1>5, <1>6
      <3>3. CASE q \in st
        BY <3>1, <3>3, <1>1, <1>3, <1>5 DEF Opened
      <3> QED BY <3>2, <3>3
    <2>3. st \cup {n} \subseteq 1 .. n
      <3>1. \A p \in 1 .. Len(a) : p \in 1 .. n
        BY <1>2
      <3>2. n \in 1 .. n
        BY <1>2
      <3> QED BY <3>1, <3>2, <1>3
    <2> QED BY <2>1, <2>2, <2>3, <1>5 DEF Opened
  <1>9. EntryIsLast(k, st \cup {n})'
    <2>1. \A p \in st \cup {n} : admitted'[k][p] + windowMs <= now + windowMs
      <3> TAKE p \in st \cup {n}
      <3>1. CASE p = n
        BY <3>1, <1>2, <1>5, Max1
      <3>2. CASE p \in st
        <4>1. admitted'[k][p] = a[p] /\ a[p] \in Nat
          BY <3>2, <1>3, <1>5
        <4> QED BY <4>1, <3>2, <1>6, <1>2, Max1
      <3> QED BY <3>1, <3>2
    <2>2. Len(admitted'[k]) < n + 1
      BY <1>2, <1>5
    <2>3. hits'[k].count = 1 /\ hits'[k].resetAt = now + windowMs
      BY <1>4
    <2> QED BY <2>1, <2>2, <2>3, <1>4 DEF EntryIsLast
  <1> QED BY <1>7, <1>8, <1>9 DEF Windows

\* Every step keeps the windows of every key apart.
LEMMA InvNext == LimitInv /\ [LimitNext]_limitVars => LimitInv'
  <1> SUFFICES ASSUME LimitInv, [LimitNext]_limitVars PROVE LimitInv'
    OBVIOUS
  <1> USE DEF LimitInv
  <1>1. ASSUME NEW k \in Clients, rateLimit(k) PROVE LimitInv'
    <2>1. LimitTyped'
      <3>1. Entry(k) \in Entries
        BY Max1 DEF Entry, Over, LimitTyped, Entries
      <3>2. [Entry(k) EXCEPT !.count = IF @ > max THEN @ ELSE @ + 1] \in Entries
        BY <3>1, Max1 DEF Entries
      <3>3. hits' \in [Clients -> Entries \cup {NoEntry}]
        BY <1>1, <3>2 DEF rateLimit, LimitTyped
      <3>4. admitted' \in [Clients -> Seq(Nat)]
        BY <1>1 DEF rateLimit, LimitTyped
      <3> QED BY <1>1, <3>3, <3>4 DEF rateLimit, LimitTyped
    <2>2. Windows(k)'
      BY <1>1, SameWindow, NewWindow
    <2>3. ASSUME NEW q \in Clients, q # k PROVE Windows(q)'
      <3>1. hits'[q] = hits[q] /\ admitted'[q] = admitted[q] /\ now' = now
        BY <1>1, <2>3 DEF rateLimit, LimitTyped
      <3> QED BY <3>1 DEF Windows, InOrder, Opened, EntryIsLast
    <2> QED BY <2>1, <2>2, <2>3
  <1>2. CASE sweep
    <2>1. LimitTyped'
      BY <1>2 DEF sweep, LimitTyped
    <2>2. ASSUME NEW k \in Clients PROVE Windows(k)'
      <3>1. admitted'[k] = admitted[k] /\ now' = now
        BY <1>2 DEF sweep
      <3>2. PICK st : Opened(k, st) /\ EntryIsLast(k, st)
        BY DEF Windows
      <3>3. CASE hits'[k] = hits[k]
        BY <3>1, <3>3 DEF Windows, InOrder, Opened, EntryIsLast
      <3>4. CASE hits'[k] # hits[k]
        <4>1. /\ hits'[k] = NoEntry /\ hits[k] # NoEntry
              /\ hits[k].resetAt \in Nat /\ hits[k].resetAt <= now /\ now \in Nat
          BY <1>2, <3>4 DEF sweep, Over, LimitTyped, Entries
        <4>2. \A p \in st : admitted[k][p] \in Nat
          BY <3>2 DEF Opened, LimitTyped
        <4>3. \A p \in st : admitted[k][p] + windowMs <= now
          BY <4>1, <4>2, <3>2, Max1 DEF EntryIsLast
        <4>4. Opened(k, st)' /\ EntryIsLast(k, st)'
          BY <4>1, <4>3, <3>1, <3>2 DEF Opened, EntryIsLast
        <4> QED BY <4>4, <3>1 DEF Windows, InOrder
      <3> QED BY <3>3, <3>4
    <2> QED BY <2>1, <2>2
  <1>3. CASE Restart
    <2>1. LimitTyped'
      BY <1>3 DEF Restart, LimitTyped
    <2>2. ASSUME NEW k \in Clients PROVE Windows(k)'
      <3>1. admitted'[k] = <<>> /\ hits'[k] = NoEntry /\ DOMAIN admitted'[k] = {}
        BY <1>3 DEF Restart
      <3>2. InOrder(k)' /\ Opened(k, {})' /\ EntryIsLast(k, {})'
        BY <3>1 DEF InOrder, Opened, EntryIsLast
      <3> QED BY <3>2 DEF Windows
    <2> QED BY <2>1, <2>2
  <1>4. CASE Tick
    <2>1. LimitTyped' /\ now' = now + 1 /\ hits' = hits /\ admitted' = admitted /\ now \in Nat
      BY <1>4 DEF Tick, LimitTyped
    <2>2. ASSUME NEW k \in Clients PROVE Windows(k)'
      <3>1. PICK st : Opened(k, st) /\ EntryIsLast(k, st)
        BY DEF Windows
      <3>2. \A i \in DOMAIN admitted[k] : admitted[k][i] \in Nat
        BY DEF LimitTyped
      <3>3. InOrder(k)'
        BY <2>1, <3>2 DEF Windows, InOrder
      <3>4. Opened(k, st)' /\ EntryIsLast(k, st)'
        BY <2>1, <3>1, <3>2, Max1 DEF Opened, EntryIsLast
      <3> QED BY <3>3, <3>4 DEF Windows
    <2> QED BY <2>1, <2>2
  <1>5. CASE UNCHANGED limitVars
    BY <1>5 DEF limitVars, LimitTyped, Windows, InOrder, Opened, EntryIsLast
  <1> QED BY <1>1, <1>2, <1>3, <1>4, <1>5 DEF LimitNext

\* Between the first and the last of 2 * max requests two windows open, the second
\* a whole window after the first.
LEMMA InvBounds == LimitInv => BurstIsBounded
  <1> SUFFICES ASSUME LimitInv, NEW k \in Clients, NEW i \in DOMAIN admitted[k],
                      i + 2 * max - 1 \in DOMAIN admitted[k]
               PROVE  admitted[k][i] + windowMs <= admitted[k][i + 2 * max - 1]
    BY DEF BurstIsBounded
  <1> DEFINE a == admitted[k]
             j == i + 2 * max - 1
  <1>1. a \in Seq(Nat) /\ DOMAIN a = 1 .. Len(a) /\ Len(a) \in Nat
    BY DEF LimitInv, LimitTyped
  <1>2. PICK st : Opened(k, st)
    BY DEF LimitInv, Windows
  <1>3. PICK p \in st : p <= j /\ j < p + max
    BY <1>2 DEF Opened
  <1>4. p \in 1 .. Len(a) /\ p >= i + max /\ p - 1 \in DOMAIN a
    <2>1. p \in 1 .. Len(a) /\ i \in 1 .. Len(a)
      BY <1>1, <1>2 DEF Opened
    <2> QED BY <2>1, <1>1, <1>3, Max1
  <1>5. PICK q \in st : q <= p - 1 /\ p - 1 < q + max
    BY <1>2, <1>4 DEF Opened
  <1>6. q \in 1 .. Len(a) /\ i <= q /\ q < p
    <2>1. q \in 1 .. Len(a) /\ i \in 1 .. Len(a)
      BY <1>1, <1>2 DEF Opened
    <2> QED BY <2>1, <1>1, <1>4, <1>5, Max1
  <1>7. a[q] + windowMs <= a[p]
    BY <1>2, <1>6 DEF Opened
  <1>8. a[i] <= a[q] /\ a[p] <= a[j]
    BY <1>1, <1>3, <1>4, <1>6 DEF LimitInv, Windows, InOrder
  <1>9. a[i] \in Nat /\ a[q] \in Nat /\ a[p] \in Nat /\ a[j] \in Nat
    <2>1. i \in 1 .. Len(a) /\ j \in 1 .. Len(a)
      BY <1>1
    <2>2. \A x \in 1 .. Len(a) : a[x] \in Nat
      BY <1>1
    <2> QED BY <2>1, <2>2, <1>4, <1>6
  <1> QED BY <1>7, <1>8, <1>9, Max1

\* Whatever the window and the limit: of any 2 * max requests of a key that the
\* limiter lets pass, the last comes a whole window after the first
\* (rateLimit.ts).  Two windows that meet are the worst case.
THEOREM BurstsAreBounded == LimitSpec => []BurstIsBounded
  BY InvInit, InvNext, InvBounds, PTL DEF LimitSpec
=============================================================================
