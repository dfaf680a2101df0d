------------------------------- MODULE Session -------------------------------
(***************************************************************************)
(* A browser tab and the gateway of the backend: connecting a wallet,      *)
(* signing in, submitting and listing orders.                              *)
(*   - the tab: WalletContext and walletService (which wallet), authService*)
(*     (the cached session and the login in flight), SwapForm, useSwap,    *)
(*     useEncryption and useUserOrders (the requests);                     *)
(*   - the gateway: authService, validateAuth, validateOrderInput, the     *)
(*     routes of orders (how a row is stored is in BatchPipeline).         *)
(*                                                                         *)
(* Every await is a place where the user may disconnect and connect        *)
(* another wallet, time may pass, the tab may be reloaded and the backend  *)
(* restarted.  MACs and signatures are ideal: a challenge or a token is    *)
(* what it says, with the secret it was made with.  A request that a rate  *)
(* limit (RateLimit) refuses ends like one that is lost.                   *)
(*                                                                         *)
(* The tab and the backend read the same clock.  A time is kept as what is *)
(* left until it, or how long it is past, as far as the code or a property *)
(* tells apart, so time needs no bound.                                    *)
(***************************************************************************)
EXTENDS Integers

CONSTANTS
    Freighter,          \* the account in Freighter
    Demo,               \* the accounts demo wallets get, one for each connect
    Job,                \* requests of the tab that run at the same time
    CHALLENGE_TTL_S, SESSION_TTL_S, EXPIRY_MARGIN_S,
    None,
    MaxRestarts         \* bound: secrets and threshold keys of the backend

Account == Demo \cup {Freighter}

\* What a challenge and a token say, and a login in flight.
Challenges == [address : Account, secret : Nat, age : Nat, left : -1 .. CHALLENGE_TTL_S]
Tokens == [address : Account, secret : Nat, age : Nat, left : -1 .. SESSION_TTL_S]
Logins ==
    [step : {"challenge", "sign", "verify"}, address : Account,
     challenge : Challenges \cup {None}, signer : Account \cup {None}]

ASSUME SessionAssumption ==
    /\ {CHALLENGE_TTL_S, SESSION_TTL_S, EXPIRY_MARGIN_S} \subseteq Nat
    /\ Freighter \notin Demo
    /\ None \notin Account \cup Challenges \cup Tokens \cup Logins /\ None # "demo"

VARIABLES
    kind, demoKeypair,      \* the wallet of the tab, kept in sessionStorage
    address, connecting,    \* React state: the address shown, a connect in progress
    restoring,              \* getAddress, called on load, waits for Freighter
    current, inflight,      \* the cached session, the login in flight
    jobs,                   \* the requests
    secret, threshold_pubkey,   \* of the backend process
    effect,                 \* the order stored or the list served in the last step
    signed,                 \* accounts whose key has signed their own challenge
    made                    \* demo accounts made so far

walletVars == <<kind, demoKeypair, address, connecting, restoring>>
serverVars == <<secret, threshold_pubkey>>
vars == <<walletVars, current, inflight, jobs, serverVars, effect, signed, made>>

Idle == [pc |-> "idle", op |-> "list", user |-> None, pubkey |-> 0, token |-> None, shared |-> FALSE]

Init ==
    /\ kind = None /\ demoKeypair = None /\ address = None
    /\ connecting = FALSE /\ restoring = FALSE
    /\ current = None /\ inflight = None
    /\ jobs = [j \in Job |-> Idle]
    /\ secret = 1 /\ threshold_pubkey = 1 /\ effect = None
    /\ signed = {} /\ made = {}

------------------------------------------------------------------------------
(* The wallet: WalletContext, services/wallet.ts.  The buttons offer to     *)
(* connect while no address is shown, to disconnect otherwise.              *)

MayConnect == address = None /\ ~connecting

\* A new key pair for each click.
ConnectDemo(d) ==
    /\ MayConnect
    /\ d \in Demo \ made
    /\ made' = made \cup {d}
    /\ current' = None
    /\ demoKeypair' = d /\ kind' = "demo" /\ address' = d
    /\ UNCHANGED <<connecting, restoring, inflight, jobs, serverVars, signed>>

AskFreighter ==
    /\ MayConnect
    /\ connecting' = TRUE
    /\ current' = None
    /\ UNCHANGED <<kind, demoKeypair, address, restoring, inflight, jobs, serverVars, signed, made>>

\* requestAccess returns, or throws.
FreighterAnswers ==
    /\ connecting
    /\ connecting' = FALSE
    /\ \/ kind' = "freighter" /\ address' = Freighter
       \/ UNCHANGED <<kind, address>>
    /\ UNCHANGED <<demoKeypair, restoring, current, inflight, jobs, serverVars, signed, made>>

\* A login in flight goes on.
Disconnect ==
    /\ address # None
    /\ current' = None
    /\ kind' = None /\ demoKeypair' = None /\ address' = None
    /\ UNCHANGED <<connecting, restoring, inflight, jobs, serverVars, signed, made>>

\* The page is loaded again: sessionStorage survives, and the effect of
\* WalletProvider calls getAddress, which has the demo account at once and has to
\* ask for Freighter's.  Requests that were sent are still handled.
Reload ==
    /\ address' = IF kind = "demo" THEN demoKeypair ELSE None
    /\ restoring' = (kind = "freighter") /\ connecting' = FALSE
    /\ inflight' = None
    /\ jobs' = [j \in Job |-> IF jobs[j].pc = "sent" /\ jobs[j].op = "submit" THEN jobs[j] ELSE Idle]
    /\ UNCHANGED <<kind, demoKeypair, current, serverVars, signed, made>>

\* getAddress brings Freighter's account or nothing, whatever the user has
\* connected in the meantime.
Restored ==
    /\ restoring
    /\ restoring' = FALSE
    /\ address' \in {Freighter, address}
    /\ UNCHANGED <<kind, demoKeypair, connecting, current, inflight, jobs, serverVars, signed, made>>

------------------------------------------------------------------------------
(* Requests of the tab: SwapForm.handleSubmit, useSwap.submitOrder and      *)
(* useUserOrders.fetchOrders, up to the token.                              *)

StartJob(j, op) ==
    /\ address # None
    /\ jobs[j].pc = "idle"
    /\ jobs' = [jobs EXCEPT ![j] = [Idle EXCEPT !.pc = IF op = "submit" THEN "config" ELSE "token", !.op = op, !.user = address]]
    /\ UNCHANGED <<walletVars, current, inflight, serverVars, signed, made>>

\* GET /api/config
PublicKeyInfo == threshold_pubkey

\* encryptOrder: fetch the threshold key and encrypt to it.
Encrypt(j) ==
    /\ jobs[j].pc = "config"
    /\ jobs' = [jobs EXCEPT ![j].pc = "token", ![j].pubkey = PublicKeyInfo]
    /\ UNCHANGED <<walletVars, current, inflight, serverVars, signed, made>>

\* Mutant: whose session it is is not compared.
isFreshAny(user) == current # None /\ current.left > EXPIRY_MARGIN_S

isFresh(user) ==
    /\ current # None /\ current.address = user
    /\ current.left > EXPIRY_MARGIN_S

SendWith(job, token) == [job EXCEPT !.pc = "sent", !.token = token]

\* authService.getToken: the cached session, else the login in flight, whoever
\* it is for, else a new login.
getToken(j) ==
    /\ jobs[j].pc = "token"
    /\ \/ /\ isFresh(jobs[j].user)
          /\ jobs' = [jobs EXCEPT ![j] = SendWith(@, current)]
          /\ UNCHANGED inflight
       \/ /\ ~isFresh(jobs[j].user)
          /\ inflight' = IF inflight # None THEN inflight
                         ELSE [step |-> "challenge", address |-> jobs[j].user, challenge |-> None, signer |-> None]
          /\ jobs' = [jobs EXCEPT ![j].pc = "login", ![j].shared = inflight'.address # jobs[j].user]
    /\ UNCHANGED <<walletVars, current, serverVars, signed, made>>

\* A request is lost or refused.
Lost(j) ==
    /\ jobs[j].pc \in {"config", "sent"}
    /\ jobs' = [jobs EXCEPT ![j] = Idle]
    /\ UNCHANGED <<walletVars, current, inflight, serverVars, signed, made>>

------------------------------------------------------------------------------
(* Signing in: authService.signIn in the tab, authService of the backend.   *)

createChallenge(a) == [address |-> a, left |-> CHALLENGE_TTL_S, secret |-> secret, age |-> 0]

Challenge ==
    /\ inflight # None /\ inflight.step = "challenge"
    /\ inflight' = [inflight EXCEPT !.step = "sign", !.challenge = createChallenge(inflight.address)]
    /\ UNCHANGED <<walletVars, current, jobs, serverVars, signed, made>>

\* walletService.signTransaction: the demo wallet signs with the key it has now,
\* Freighter with its own.
Sign ==
    /\ inflight # None /\ inflight.step = "sign"
    /\ LET signer == IF kind = "demo" THEN demoKeypair ELSE Freighter
       IN  /\ signer # None
           /\ inflight' = [inflight EXCEPT !.step = "verify", !.signer = signer]
           /\ signed' = IF signer = inflight.challenge.address THEN signed \cup {signer} ELSE signed
    /\ UNCHANGED <<walletVars, current, jobs, serverVars, made>>

\* Mutants: the signature, or the expiry, is not checked.
challengeHoldsUnsigned(c, signer) == c.secret = secret /\ c.left >= 0
challengeHoldsForever(c, signer) == c.secret = secret /\ signer = c.address

\* verifyChallenge does not throw.
challengeHolds(c, signer) == c.secret = secret /\ c.left >= 0 /\ signer = c.address

\* age goes on from the challenge.
issueSession(c) == [address |-> c.address, left |-> SESSION_TTL_S, secret |-> secret, age |-> c.age]

\* The session goes to everybody who waits for the login.
Verify ==
    /\ inflight # None /\ inflight.step = "verify"
    /\ challengeHolds(inflight.challenge, inflight.signer)
    /\ current' = issueSession(inflight.challenge)
    /\ jobs' = [j \in Job |-> IF jobs[j].pc = "login" THEN SendWith(jobs[j], current') ELSE jobs[j]]
    /\ inflight' = None
    /\ UNCHANGED <<walletVars, serverVars, signed, made>>

\* Mutant: a login that failed stays in flight.
LoginFailsForGood ==
    /\ inflight # None
    /\ jobs' = [j \in Job |-> IF jobs[j].pc = "login" THEN Idle ELSE jobs[j]]
    /\ UNCHANGED <<walletVars, current, inflight, serverVars, signed, made>>

\* A refused or lost request, a wallet that refuses, a sign-in limit reached: the
\* failure goes to everybody who waits for the login, and the next one starts anew.
LoginFails ==
    /\ inflight # None
    /\ inflight' = None
    /\ jobs' = [j \in Job |-> IF jobs[j].pc = "login" THEN Idle ELSE jobs[j]]
    /\ UNCHANGED <<walletVars, current, serverVars, signed, made>>

------------------------------------------------------------------------------
(* The gateway handles a request.                                           *)

verifySession(token) == token.secret = secret /\ token.left >= 0

validateOrderInput(job) == job.pubkey = PublicKeyInfo

\* The ciphertext is bound to the user it was made for, the row to the session's.
Stored(job) ==
    [op |-> "submit", user_address |-> job.token.address,
     boundTo |-> job.user, pubkey |-> job.pubkey, shared |-> job.shared]
Listed(job) == [op |-> "list", user_address |-> job.user]

\* POST /api/orders stores the order as the session's, whatever the tab says;
\* GET /api/orders/user/:userAddress refuses unless the session is the user's.
Route(job) ==
    CASE job.op = "submit" /\ validateOrderInput(job) -> Stored(job)
      [] job.op = "list" /\ job.user = job.token.address -> Listed(job)
      [] OTHER -> None

\* validateAuth, then the route; the answer ends the request.
Handle(j) ==
    /\ jobs[j].pc = "sent"
    /\ jobs' = [jobs EXCEPT ![j] = Idle]
    /\ effect' = IF verifySession(jobs[j].token) THEN Route(jobs[j]) ELSE None
    /\ UNCHANGED <<walletVars, current, inflight, serverVars, signed, made>>

\* The backend restarts: with AUTH_TOKEN_SECRET or with a new random secret, and
\* with the validators' key or, after the operator made a new one, another.
Restart ==
    /\ secret' \in {secret, secret + 1} \cap 1 .. MaxRestarts + 1
    /\ threshold_pubkey' \in {threshold_pubkey, threshold_pubkey + 1} \cap 1 .. MaxRestarts + 1
    /\ UNCHANGED <<walletVars, current, inflight, jobs, signed, made>>

\* A second passes for a challenge or a token, and for all there are.
Aged(t) ==
    IF t = None THEN None
    ELSE [t EXCEPT !.left = IF @ < 0 THEN @ ELSE @ - 1,
                   !.age = IF @ > CHALLENGE_TTL_S + SESSION_TTL_S THEN @ ELSE @ + 1]

Clock ==
    /\ current' = Aged(current)
    /\ inflight' = IF inflight = None THEN None ELSE [inflight EXCEPT !.challenge = Aged(@)]
    /\ jobs' = [j \in Job |-> [jobs[j] EXCEPT !.token = Aged(@)]]
    /\ UNCHANGED <<walletVars, serverVars, signed, made>>

------------------------------------------------------------------------------
Tab ==
    \/ \E d \in Demo : ConnectDemo(d)
    \/ AskFreighter \/ FreighterAnswers \/ Disconnect \/ Reload \/ Restored
    \/ \E j \in Job, op \in {"submit", "list"} : StartJob(j, op)
    \/ \E j \in Job : Encrypt(j) \/ getToken(j) \/ Lost(j)
Login == Challenge \/ Sign \/ Verify \/ LoginFails

Next ==
    \/ effect' = None /\ (Tab \/ Login \/ Restart \/ Clock)
    \/ \E j \in Job : Handle(j)

Spec == Init /\ [][Next]_vars

------------------------------------------------------------------------------
\* Type invariant: a demo wallet has its key, a request that was sent its token,
\* and somebody waits for the login in flight, if there is one.
TypeOK ==
    /\ kind \in {None, "demo", "freighter"} /\ demoKeypair \in Demo \cup {None}
    /\ (kind = "demo") = (demoKeypair # None)
    /\ address \in Account \cup {None} /\ {connecting, restoring} \subseteq BOOLEAN
    /\ current \in Tokens \cup {None}
    /\ \A j \in Job :
         /\ jobs[j].pc \in {"idle", "config", "token", "login", "sent"}
         /\ jobs[j].pc = "sent" => jobs[j].token \in Tokens
    /\ (inflight # None) = \E j \in Job : jobs[j].pc = "login"
    /\ signed \subseteq Account /\ made \subseteq Demo

\* Whatever wallets the tab mixes up (a login finished under another wallet, an
\* address restored late, a demo key that signs another account's challenge), an
\* order is stored and orders are listed only for an account whose own key
\* signed a challenge that names it.
OnlyAfterSigning == effect # None => effect.user_address \in signed

\* A stored order can be decrypted: it is encrypted to the key the validators hold
\* at that moment and bound to the address it is stored under, although key,
\* wallet and session may all have changed since the form was submitted.  Only a
\* login that was in flight for another account breaks this.
StoredOrderOpens ==
    effect # None /\ effect.op = "submit" /\ ~effect.shared =>
        effect.pubkey = threshold_pubkey /\ effect.boundTo = effect.user_address

\* A signature is good for one challenge's and one session's time, however late
\* the challenge is answered and the token is used.
AccessEnds ==
    \A j \in Job : jobs[j].pc = "sent" /\ verifySession(jobs[j].token) =>
        jobs[j].token.age <= CHALLENGE_TTL_S + SESSION_TTL_S
=============================================================================
