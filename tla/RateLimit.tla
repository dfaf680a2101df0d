------------------------------ MODULE RateLimit ------------------------------
(***************************************************************************)
(* The fixed-window limiter (backend/src/middleware/rateLimit.ts): a count *)
(* per key that starts again once its window is over, in the memory of one *)
(* process.                                                                *)
(***************************************************************************)
EXTENDS Naturals, Sequences

CONSTANTS
    Clients,    \* the keys requests are counted by
    windowMs,   \* length of a window
    max,        \* requests that pass in a window
    NoEntry,    \* no entry in the map
    MaxTime     \* bound: steps of the clock

ASSUME LimitAssumption ==
    /\ windowMs \in Nat \ {0} /\ max \in Nat \ {0}
    /\ NoEntry \notin [count : Nat, resetAt : Nat]

VARIABLES
    now,        \* Date.now()
    hits,       \* the map
    admitted    \* when the requests of each key passed, since the process started
limitVars == <<now, hits, admitted>>

LimitInit ==
    /\ now = 0
    /\ hits = [k \in Clients |-> NoEntry]
    /\ admitted = [k \in Clients |-> <<>>]

\* Mutant: a window is over when its count is used up.
OverEarly(entry) == entry = NoEntry \/ entry.resetAt <= now \/ entry.count >= max

Over(entry) == entry = NoEntry \/ entry.resetAt <= now

Entry(k) == IF Over(hits[k]) THEN [count |-> 0, resetAt |-> now + windowMs] ELSE hits[k]

\* next() is called; otherwise the answer is 429.
Passes(k) == Entry(k).count < max

\* The handler.  Bound: the count stops at max + 1, refusals do not differ.
rateLimit(k) ==
    /\ hits' = [hits EXCEPT ![k] = [Entry(k) EXCEPT !.count = IF @ > max THEN @ ELSE @ + 1]]
    /\ admitted' = IF Passes(k) THEN [admitted EXCEPT ![k] = Append(@, now)] ELSE admitted
    /\ UNCHANGED now

\* The timer.
sweep ==
    /\ hits' = [k \in Clients |-> IF Over(hits[k]) THEN NoEntry ELSE hits[k]]
    /\ UNCHANGED <<now, admitted>>

\* A new process counts from nothing.
Restart ==
    /\ hits' = [k \in Clients |-> NoEntry]
    /\ admitted' = [k \in Clients |-> <<>>]
    /\ UNCHANGED now

Tick == now < MaxTime /\ now' = now + 1 /\ UNCHANGED <<hits, admitted>>

LimitNext == sweep \/ Restart \/ Tick \/ \E k \in Clients : rateLimit(k)
LimitSpec == LimitInit /\ [][LimitNext]_limitVars

------------------------------------------------------------------------------
\* Two windows that meet let a burst through, but one below twice the limit: of
\* any 2 * max requests of a key that pass, the last comes a whole window after
\* the first.
BurstIsBounded ==
    \A k \in Clients : \A i \in DOMAIN admitted[k] :
        i + 2 * max - 1 \in DOMAIN admitted[k] =>
            admitted[k][i] + windowMs <= admitted[k][i + 2 * max - 1]
=============================================================================
