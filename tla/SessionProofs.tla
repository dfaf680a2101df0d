----------------------------- MODULE SessionProofs -----------------------------
(***************************************************************************)
(* Proofs about Session: any number of demo accounts and of requests at    *)
(* the same time, any lifetimes, any number of restarts.                   *)
(***************************************************************************)
EXTENDS Session, TLAPS

Requests ==
    [pc : {"idle", "config", "token", "login", "sent"}, op : {"submit", "list"},
     user : Account \cup {None}, pubkey : Nat, token : Tokens \cup {None}, shared : BOOLEAN]

\* Variables have values of their kind.
Typed ==
    /\ kind \in {None, "demo", "freighter"} /\ demoKeypair \in Demo \cup {None}
    /\ address \in Account \cup {None}
    /\ connecting \in BOOLEAN /\ restoring \in BOOLEAN
    /\ current \in Tokens \cup {None}
    /\ inflight \in Logins \cup {None}
    /\ jobs \in [Job -> Requests]
    /\ secret \in Nat /\ threshold_pubkey \in Nat
    /\ signed \subseteq Account /\ made \subseteq Demo

\* A demo wallet has its key; there is none while the tab offers to connect, or
\* waits for Freighter, so connecting Freighter leaves no demo key behind.
WalletInv ==
    /\ (kind = "demo") = (demoKeypair # None)
    /\ address = None \/ connecting => kind # "demo"

\* The login in flight is for one account from its challenge to its end, is
\* waited for, and what was signed with the right key is on record.
LoginInv ==
    /\ (inflight # None) = \E j \in Job : jobs[j].pc = "login"
    /\ inflight # None =>
         /\ inflight.step # "challenge" => inflight.challenge # None
         /\ inflight.challenge # None => inflight.challenge.address = inflight.address
         /\ inflight.step = "verify" /\ inflight.signer = inflight.address => inflight.address \in signed

\* The token of a request, and the cached one, were made for an account that
\* signed; a request that did not join another account's login has its own.
TokenInv ==
    /\ current # None => current.address \in signed
    /\ \A j \in Job :
         /\ jobs[j].pc # "idle" => jobs[j].user # None
         /\ jobs[j].pc = "login" /\ ~jobs[j].shared => inflight.address = jobs[j].user
         /\ jobs[j].pc = "sent" =>
              /\ jobs[j].token # None
              /\ jobs[j].token.address \in signed
              /\ ~jobs[j].shared => jobs[j].token.address = jobs[j].user

\* What is left of a challenge's or a token's life and what is past add up.
InTime(t, life) == t # None /\ t.left >= 0 => t.age + t.left <= life
TimeInv ==
    /\ inflight # None => InTime(inflight.challenge, CHALLENGE_TTL_S)
    /\ InTime(current, CHALLENGE_TTL_S + SESSION_TTL_S)
    /\ \A j \in Job : InTime(jobs[j].token, CHALLENGE_TTL_S + SESSION_TTL_S)

SessionInv == Typed /\ WalletInv /\ LoginInv /\ TokenInv /\ TimeInv

--------------------------------------------------------------------------------
\* A new tab has no wallet, no session and no request.
LEMMA InvInit == Init => SessionInv
  <1> SUFFICES ASSUME Init PROVE SessionInv
    OBVIOUS
  <1> USE SessionAssumption DEF Init, Idle
  <1>1. Typed
    BY DEF Typed, Requests
  <1>2. WalletInv /\ LoginInv /\ TokenInv
    BY DEF WalletInv, LoginInv, TokenInv
  <1>3. TimeInv
    BY DEF TimeInv, InTime
  <1> QED BY <1>1, <1>2, <1>3 DEF SessionInv

\* Connecting, disconnecting and restoring touch the wallet and the cached
\* session only.
LEMMA WalletStep ==
  ASSUME SessionInv,
         \/ \E d \in Demo : ConnectDemo(d)
         \/ AskFreighter \/ FreighterAnswers \/ Disconnect \/ Restored
  PROVE  SessionInv'
  <1> USE SessionAssumption DEF SessionInv
  <1>1. /\ current' \in {current, None}
        /\ UNCHANGED <<inflight, jobs, serverVars, signed>>
    BY DEF ConnectDemo, AskFreighter, FreighterAnswers, Disconnect, Restored
  <1>2. Typed' /\ WalletInv'
    <2>1. ASSUME NEW d \in Demo, ConnectDemo(d) PROVE Typed' /\ WalletInv'
      BY <2>1 DEF Typed, WalletInv, ConnectDemo, MayConnect, serverVars, Account
    <2>2. CASE AskFreighter
      BY <2>2 DEF Typed, WalletInv, AskFreighter, MayConnect, serverVars
    <2>3. CASE FreighterAnswers
      BY <2>3 DEF Typed, WalletInv, FreighterAnswers, serverVars, Account
    <2>4. CASE Disconnect
      BY <2>4 DEF Typed, WalletInv, Disconnect, serverVars
    <2>5. CASE Restored
      BY <2>5 DEF Typed, WalletInv, Restored, serverVars, Account
    <2> QED BY <2>1, <2>2, <2>3, <2>4, <2>5
  <1>3. LoginInv' /\ TokenInv' /\ TimeInv'
    BY <1>1 DEF LoginInv, TokenInv, TimeInv, InTime
  <1> QED BY <1>2, <1>3

\* A reload forgets everything but sessionStorage.
LEMMA ReloadStep == SessionInv /\ Reload => SessionInv'
  <1> SUFFICES ASSUME SessionInv, Reload PROVE SessionInv'
    OBVIOUS
  <1> USE SessionAssumption DEF SessionInv
  <1>1. Idle \in Requests
    BY DEF Idle, Requests
  <1>2. \A j \in Job : jobs'[j] = Idle \/ (jobs[j].pc = "sent" /\ jobs'[j] = jobs[j])
    BY DEF Reload
  <1>3. Typed'
    BY <1>1 DEF Typed, Reload, serverVars, Account, WalletInv
  <1>4. WalletInv'
    BY DEF WalletInv, Reload, Typed, Account
  <1>5. LoginInv' /\ TokenInv'
    BY <1>2 DEF LoginInv, TokenInv, Reload, Idle
  <1>6. TimeInv'
    BY <1>2 DEF TimeInv, InTime, Reload, Idle
  <1> QED BY <1>3, <1>4, <1>5, <1>6

\* A request advances to the point where it needs a token, or ends there.
LEMMA RequestStep ==
  ASSUME SessionInv, NEW j \in Job,
         (\E op \in {"submit", "list"} : StartJob(j, op)) \/ Encrypt(j) \/ Lost(j) \/ Handle(j)
  PROVE  SessionInv'
  <1> USE SessionAssumption DEF SessionInv
  <1>1. UNCHANGED <<walletVars, current, inflight, serverVars, signed, made>>
    BY DEF StartJob, Encrypt, Lost, Handle
  <1>2. jobs[j] \in Requests /\ Idle \in Requests
    BY DEF Typed, Idle, Requests
  <1> DEFINE Steps(r) ==
        /\ r \in Requests /\ r.pc \notin {"login", "sent"} /\ r.token \in {None, jobs[j].token}
        /\ r.pc # "idle" => r.user # None
        /\ jobs[j].pc # "login" /\ jobs' = [jobs EXCEPT ![j] = r]
  <1>3. \E r : Steps(r)
    <2>1. ASSUME NEW op \in {"submit", "list"}, StartJob(j, op) PROVE \E r : Steps(r)
      <3> DEFINE r == [Idle EXCEPT !.pc = IF op = "submit" THEN "config" ELSE "token", !.op = op, !.user = address]
      <3>1. r \in Requests /\ r.pc \in {"config", "token"} /\ r.token = None /\ r.user = address
        BY <1>2 DEF Idle, Requests, Typed
      <3>2. jobs' = [jobs EXCEPT ![j] = r] /\ address # None /\ jobs[j].pc = "idle"
        BY <2>1 DEF StartJob
      <3> QED BY <3>1, <3>2
    <2>2. CASE Encrypt(j)
      <3> DEFINE r == [jobs[j] EXCEPT !.pc = "token", !.pubkey = PublicKeyInfo]
      <3>1. r \in Requests /\ r.pc = "token" /\ r.token = jobs[j].token /\ r.user = jobs[j].user
        BY <1>2 DEF Requests, Typed, PublicKeyInfo
      <3>2. jobs' = [jobs EXCEPT ![j] = r] /\ jobs[j].pc = "config"
        BY <2>2 DEF Encrypt, Typed
      <3> QED BY <3>1, <3>2 DEF TokenInv
    <2>3. CASE Lost(j) \/ Handle(j)
      <3>1. jobs' = [jobs EXCEPT ![j] = Idle] /\ jobs[j].pc # "login"
        BY <2>3 DEF Lost, Handle
      <3>2. Idle.pc = "idle" /\ Idle.token = None
        BY DEF Idle
      <3> QED BY <3>1, <3>2, <1>2
    <2> QED BY <2>1, <2>2, <2>3
  <1> PICK r : Steps(r)
    BY <1>3
  <1>a. jobs'[j] = r /\ \A i \in Job : i # j => jobs'[i] = jobs[i]
    BY DEF Typed
  <1>4. Typed'
    BY <1>1 DEF Typed, serverVars, walletVars
  <1>5. WalletInv' /\ LoginInv'
    BY <1>1, <1>a DEF WalletInv, LoginInv, walletVars
  <1>t. TokenInv'
    BY <1>1, <1>a DEF TokenInv
  <1>6. TimeInv'
    BY <1>1, <1>a DEF TimeInv, InTime
  <1> QED BY <1>4, <1>5, <1>t, <1>6

\* A request takes the cached token, joins the login in flight or starts one.
LEMMA TokenStep ==
  ASSUME SessionInv, NEW j \in Job, getToken(j)
  PROVE  SessionInv'
  <1> USE SessionAssumption DEF SessionInv
  <1>1. UNCHANGED <<walletVars, current, serverVars, signed, made>>
    BY DEF getToken
  <1>2. \A i \in Job : i # j => jobs'[i] = jobs[i]
    BY DEF getToken, Typed
  <1>3. CASE isFresh(jobs[j].user)
    <2>1. /\ inflight' = inflight /\ current \in Tokens /\ current # None /\ current.address = jobs[j].user
          /\ jobs[j].pc = "token" /\ jobs'[j] = SendWith(jobs[j], current)
      BY <1>3 DEF getToken, isFresh, Typed
    <2>2. jobs' \in [Job -> Requests] /\ jobs'[j].pc = "sent" /\ jobs'[j].token = current /\ jobs'[j].user = jobs[j].user
      <3>1. jobs' = [jobs EXCEPT ![j] = SendWith(@, current)] /\ jobs[j] \in Requests
        BY <1>3 DEF getToken, Typed
      <3>2. SendWith(jobs[j], current) \in Requests
        BY <2>1, <3>1 DEF SendWith, Requests
      <3> QED BY <2>1, <3>1, <3>2 DEF SendWith, Typed, Requests
    <2>3. Typed'
      BY <1>1, <2>1, <2>2 DEF Typed, serverVars, walletVars
    <2>4. WalletInv' /\ LoginInv' /\ TokenInv'
      BY <1>1, <1>2, <2>1, <2>2 DEF WalletInv, LoginInv, TokenInv, walletVars
    <2>5. TimeInv'
      BY <1>1, <1>2, <2>1, <2>2 DEF TimeInv, InTime
    <2> QED BY <2>3, <2>4, <2>5
  <1>4. CASE ~isFresh(jobs[j].user)
    <2>1. jobs[j].pc = "token" /\ jobs[j] \in Requests
      BY DEF getToken, Typed
    <2>2. /\ jobs' \in [Job -> Requests] /\ jobs'[j].pc = "login" /\ jobs'[j].token = jobs[j].token
          /\ jobs'[j].user = jobs[j].user /\ jobs'[j].shared = (inflight'.address # jobs[j].user)
      BY <1>4, <2>1 DEF getToken, Typed, Requests
    <2>3. CASE inflight # None
      <3>1. inflight' = inflight
        BY <1>4, <2>3 DEF getToken
      <3>2. Typed' /\ WalletInv'
        BY <1>1, <2>2, <3>1 DEF Typed, WalletInv, walletVars, serverVars
      <3>4. LoginInv'
        BY <1>1, <1>2, <2>1, <2>2, <2>3, <3>1 DEF LoginInv
      <3>5. TokenInv'
        BY <1>1, <1>2, <2>1, <2>2, <3>1 DEF TokenInv
      <3>3. TimeInv'
        BY <1>1, <1>2, <2>2, <3>1 DEF TimeInv, InTime
      <3> QED BY <3>2, <3>3, <3>4, <3>5
    <2>4. CASE inflight = None
      <3>1. inflight' = [step |-> "challenge", address |-> jobs[j].user, challenge |-> None, signer |-> None]
        BY <1>4, <2>4 DEF getToken
      <3>2. jobs[j].user \in Account
        BY <2>1 DEF Requests, TokenInv
      <3>3. inflight' \in Logins /\ inflight' # None
        BY <3>1, <3>2 DEF Logins
      <3>4. \A i \in Job : jobs[i].pc # "login"
        BY <2>4 DEF LoginInv
      <3>5. Typed' /\ WalletInv'
        BY <1>1, <2>2, <3>3 DEF Typed, WalletInv, walletVars, serverVars
      <3>6. LoginInv'
        BY <2>2, <3>1, <3>3 DEF LoginInv
      <3>8. TokenInv'
        BY <1>1, <1>2, <2>1, <2>2, <3>4 DEF TokenInv
      <3>7. TimeInv'
        BY <1>1, <1>2, <2>2, <3>1 DEF TimeInv, InTime
      <3> QED BY <3>5, <3>6, <3>7, <3>8
    <2> QED BY <2>3, <2>4
  <1> QED BY <1>3, <1>4

\* The backend answers with a challenge for the account of the login.
LEMMA ChallengeStep == SessionInv /\ Challenge => SessionInv'
  <1> SUFFICES ASSUME SessionInv, Challenge PROVE SessionInv'
    OBVIOUS
  <1> USE SessionAssumption DEF SessionInv
  <1>1. /\ inflight \in Logins
        /\ inflight' = [inflight EXCEPT !.step = "sign", !.challenge = createChallenge(inflight.address)]
        /\ UNCHANGED <<walletVars, current, jobs, serverVars, signed, made>>
    BY DEF Challenge, Typed
  <1>2. createChallenge(inflight.address) \in Challenges
    BY <1>1 DEF createChallenge, Challenges, Logins, Typed
  <1>3. /\ inflight' \in Logins /\ inflight' # None /\ inflight # None
        /\ inflight'.address = inflight.address /\ inflight'.step = "sign"
        /\ inflight'.challenge = createChallenge(inflight.address)
    BY <1>1, <1>2 DEF Logins
  <1>4. Typed' /\ WalletInv'
    BY <1>1, <1>3 DEF Typed, WalletInv, walletVars, serverVars
  <1>5. None \notin Challenges
    BY SessionAssumption
  <1>6. LoginInv'
    <2>1. \E j \in Job : jobs'[j].pc = "login"
      BY <1>1, <1>3 DEF LoginInv
    <2>2. inflight'.challenge # None /\ inflight'.challenge.address = inflight'.address
      BY <1>2, <1>3, <1>5 DEF createChallenge
    <2> QED BY <1>3, <2>1, <2>2 DEF LoginInv
  <1>8. TokenInv'
    BY <1>1, <1>3 DEF TokenInv
  <1>7. TimeInv'
    BY <1>1, <1>3 DEF TimeInv, InTime, createChallenge
  <1> QED BY <1>4, <1>6, <1>7, <1>8

\* The wallet signs, whichever account it is on by now.
LEMMA SignStep == SessionInv /\ Sign => SessionInv'
  <1> SUFFICES ASSUME SessionInv, Sign PROVE SessionInv'
    OBVIOUS
  <1> USE SessionAssumption DEF SessionInv
  <1> DEFINE signer == IF kind = "demo" THEN demoKeypair ELSE Freighter
  <1>1. /\ inflight \in Logins /\ inflight # None /\ inflight.step = "sign"
        /\ inflight' = [inflight EXCEPT !.step = "verify", !.signer = signer]
        /\ signer \in Account
        /\ signed' = IF signer = inflight.challenge.address THEN signed \cup {signer} ELSE signed
        /\ UNCHANGED <<walletVars, current, jobs, serverVars, made>>
    BY DEF Sign, Typed, Account
  <1>2. /\ inflight' \in Logins /\ inflight' # None
        /\ inflight'.address = inflight.address /\ inflight'.step = "verify"
        /\ inflight'.challenge = inflight.challenge /\ inflight'.signer = signer
    BY <1>1 DEF Logins
  <1>3. inflight.challenge # None /\ inflight.challenge.address = inflight.address
    BY <1>1 DEF LoginInv
  <1>4. signed \subseteq signed' /\ signed' \subseteq Account
    BY <1>1 DEF Typed
  <1>5. Typed' /\ WalletInv'
    BY <1>1, <1>2, <1>4 DEF Typed, WalletInv, walletVars, serverVars
  <1>6. LoginInv'
    <2>1. \E j \in Job : jobs'[j].pc = "login"
      BY <1>1 DEF LoginInv
    <2>2. inflight'.signer = inflight'.address => inflight'.address \in signed'
      BY <1>1, <1>2, <1>3
    <2> HIDE DEF signer
    <2> QED BY <1>2, <1>3, <2>1, <2>2 DEF LoginInv
  <1>8. TokenInv'
    BY <1>1, <1>2, <1>4 DEF TokenInv
  <1>7. TimeInv'
    BY <1>1, <1>2 DEF TimeInv, InTime
  <1> QED BY <1>5, <1>6, <1>7, <1>8

\* The backend checks the signature, and the tab caches the session it issues.
LEMMA VerifyStep == SessionInv /\ Verify => SessionInv'
  <1> SUFFICES ASSUME SessionInv, Verify PROVE SessionInv'
    OBVIOUS
  <1> USE SessionAssumption DEF SessionInv
  <1> DEFINE c == inflight.challenge
  <1>1. /\ inflight \in Logins /\ inflight # None /\ inflight.step = "verify" /\ c \in Challenges
        /\ c.left >= 0 /\ inflight.signer = c.address /\ c.address = inflight.address
        /\ inflight' = None /\ UNCHANGED <<walletVars, serverVars, signed, made>>
    BY DEF Verify, Typed, challengeHolds, LoginInv, Logins
  <1>2. current' = issueSession(c)
    BY DEF Verify
  <1>3. /\ current' \in Tokens /\ current' # None
        /\ current'.address = inflight.address /\ current'.age = c.age /\ current'.left = SESSION_TTL_S
    BY <1>1, <1>2 DEF issueSession, Challenges, Tokens, Typed
  <1>4. inflight.address \in signed
    BY <1>1 DEF LoginInv
  <1>5. jobs' = [j \in Job |-> IF jobs[j].pc = "login" THEN SendWith(jobs[j], current') ELSE jobs[j]]
    BY DEF Verify
  <1>6. ASSUME NEW j \in Job
        PROVE  /\ jobs'[j] \in Requests /\ jobs'[j].pc # "login" /\ jobs'[j].user = jobs[j].user
               /\ jobs'[j].shared = jobs[j].shared /\ jobs'[j].token \in {jobs[j].token, current'}
               /\ jobs'[j] # jobs[j] => jobs[j].pc = "login" /\ jobs'[j].token = current'
    <2>1. jobs[j] \in Requests
      BY DEF Typed
    <2>2. SendWith(jobs[j], current') \in Requests
      BY <2>1, <1>3 DEF SendWith, Requests
    <2> QED BY <1>5, <2>1, <2>2 DEF SendWith, Requests
  <1>7. Typed' /\ WalletInv'
    BY <1>1, <1>3, <1>5, <1>6 DEF Typed, WalletInv, walletVars, serverVars
  <1>8. LoginInv' /\ TokenInv'
    BY <1>1, <1>3, <1>4, <1>6 DEF LoginInv, TokenInv
  <1>9. InTime(current', CHALLENGE_TTL_S + SESSION_TTL_S)
    <2>1. c.age + c.left <= CHALLENGE_TTL_S /\ c.age \in Nat /\ c.left \in Int
      BY <1>1 DEF TimeInv, InTime, Challenges
    <2> QED BY <2>1, <1>1, <1>3 DEF InTime
  <1>10. TimeInv'
    BY <1>1, <1>6, <1>9 DEF TimeInv, InTime
  <1> QED BY <1>7, <1>8, <1>10

\* A login fails for every request that waits for it.
LEMMA LoginFailsStep == SessionInv /\ LoginFails => SessionInv'
  <1> SUFFICES ASSUME SessionInv, LoginFails PROVE SessionInv'
    OBVIOUS
  <1> USE SessionAssumption DEF SessionInv
  <1>1. Idle \in Requests /\ Idle.pc = "idle" /\ Idle.token = None
    BY DEF Idle, Requests
  <1>2. inflight' = None /\ UNCHANGED <<walletVars, current, serverVars, signed, made>>
    BY DEF LoginFails
  <1>3. \A j \in Job : jobs'[j] = Idle \/ (jobs[j].pc # "login" /\ jobs'[j] = jobs[j])
    BY DEF LoginFails
  <1>4. Typed' /\ WalletInv'
    BY <1>1, <1>2 DEF Typed, WalletInv, walletVars, serverVars, LoginFails
  <1>5. LoginInv' /\ TokenInv'
    BY <1>1, <1>2, <1>3 DEF LoginInv, TokenInv
  <1>6. TimeInv'
    BY <1>1, <1>2, <1>3 DEF TimeInv, InTime
  <1> QED BY <1>4, <1>5, <1>6

\* The backend restarts, with another secret or key.
LEMMA RestartStep == SessionInv /\ Restart => SessionInv'
  <1> SUFFICES ASSUME SessionInv, Restart PROVE SessionInv'
    OBVIOUS
  <1> USE DEF SessionInv, Restart
  <1>1. Typed'
    BY DEF Typed, walletVars
  <1>2. WalletInv' /\ LoginInv'
    BY DEF WalletInv, LoginInv, walletVars
  <1>3. TokenInv'
    BY DEF TokenInv
  <1>4. TimeInv'
    BY DEF TimeInv, InTime
  <1> QED BY <1>1, <1>2, <1>3, <1>4

\* Time passes for a challenge or a token.
LEMMA AgedKeeps ==
  ASSUME NEW life \in Nat, life <= CHALLENGE_TTL_S + SESSION_TTL_S,
         NEW t \in [address : Account, secret : Nat, age : Nat, left : -1 .. life],
         InTime(t, CHALLENGE_TTL_S + SESSION_TTL_S), t # None
  PROVE  /\ Aged(t) \in [address : Account, secret : Nat, age : Nat, left : -1 .. life]
         /\ Aged(t).address = t.address
         /\ Aged(t).left >= 0 => Aged(t).age = t.age + 1 /\ Aged(t).left = t.left - 1
  <1> DEFINE L == IF t.left < 0 THEN t.left ELSE t.left - 1
             A == IF t.age > CHALLENGE_TTL_S + SESSION_TTL_S THEN t.age ELSE t.age + 1
  <1>1. Aged(t) = [t EXCEPT !.left = L, !.age = A]
    BY DEF Aged
  <1>2. t.left \in -1 .. life /\ t.age \in Nat
    OBVIOUS
  <1>3. L \in -1 .. life /\ A \in Nat
    BY <1>2, SessionAssumption
  <1>4. /\ Aged(t) \in [address : Account, secret : Nat, age : Nat, left : -1 .. life]
        /\ Aged(t).address = t.address /\ Aged(t).left = L /\ Aged(t).age = A
    BY <1>1, <1>3
  <1>5. L >= 0 => A = t.age + 1 /\ L = t.left - 1
    BY <1>2, SessionAssumption DEF InTime
  <1> QED BY <1>4, <1>5

\* Time passes.
LEMMA ClockStep == SessionInv /\ Clock => SessionInv'
  <1> SUFFICES ASSUME SessionInv, Clock PROVE SessionInv'
    OBVIOUS
  <1> USE SessionAssumption DEF SessionInv
  <1> DEFINE life == CHALLENGE_TTL_S + SESSION_TTL_S
  <1>1. ASSUME NEW t \in Tokens \cup {None}, InTime(t, life)
        PROVE  /\ Aged(t) \in Tokens \cup {None} /\ (Aged(t) = None) = (t = None)
               /\ t # None => Aged(t).address = t.address
               /\ InTime(Aged(t), life)
    <2>1. CASE t = None
      BY <2>1 DEF Aged, InTime
    <2>2. CASE t # None
      <3>1. /\ Aged(t) \in Tokens /\ Aged(t).address = t.address
            /\ Aged(t).left >= 0 => Aged(t).age = t.age + 1 /\ Aged(t).left = t.left - 1
        BY <2>2, <1>1, AgedKeeps DEF Tokens
      <3>2. t.age \in Nat /\ t.left \in Int /\ Aged(t).left \in Int
        BY <3>1, <2>2 DEF Tokens
      <3> QED BY <3>1, <3>2, <2>2, <1>1 DEF InTime
    <2> QED BY <2>1, <2>2
  <1>2. ASSUME NEW t \in Challenges \cup {None}, InTime(t, CHALLENGE_TTL_S)
        PROVE  /\ Aged(t) \in Challenges \cup {None} /\ (Aged(t) = None) = (t = None)
               /\ t # None => Aged(t).address = t.address
               /\ InTime(Aged(t), CHALLENGE_TTL_S)
    <2>1. CASE t = None
      BY <2>1 DEF Aged, InTime
    <2>2. CASE t # None
      <3>0. t.age \in Nat /\ t.left \in Int /\ InTime(t, life)
        BY <2>2, <1>2 DEF InTime, Challenges
      <3>1. /\ Aged(t) \in Challenges /\ Aged(t).address = t.address
            /\ Aged(t).left >= 0 => Aged(t).age = t.age + 1 /\ Aged(t).left = t.left - 1
        BY <2>2, <3>0, AgedKeeps DEF Challenges
      <3>2. Aged(t).left \in Int
        BY <3>1 DEF Challenges
      <3> QED BY <3>0, <3>1, <3>2, <2>2, <1>2 DEF InTime
    <2> QED BY <2>1, <2>2
  <1>3. UNCHANGED <<walletVars, serverVars, signed, made>>
    BY DEF Clock
  <1>4. /\ current' \in Tokens \cup {None} /\ (current' = None) = (current = None)
        /\ current # None => current'.address = current.address
        /\ InTime(current', life)
    BY <1>1 DEF Clock, Typed, TimeInv
  <1>5. /\ inflight' \in Logins \cup {None} /\ (inflight' = None) = (inflight = None)
        /\ inflight # None =>
             /\ inflight'.step = inflight.step /\ inflight'.address = inflight.address
             /\ inflight'.signer = inflight.signer
             /\ (inflight'.challenge = None) = (inflight.challenge = None)
             /\ inflight.challenge # None => inflight'.challenge.address = inflight.challenge.address
             /\ InTime(inflight'.challenge, CHALLENGE_TTL_S)
    <2>1. CASE inflight = None
      BY <2>1 DEF Clock
    <2>2. CASE inflight # None
      <3>1. inflight \in Logins /\ inflight' = [inflight EXCEPT !.challenge = Aged(@)]
        BY <2>2 DEF Clock, Typed
      <3>2. inflight.challenge \in Challenges \cup {None} /\ InTime(inflight.challenge, CHALLENGE_TTL_S)
        BY <3>1, <2>2 DEF Logins, TimeInv
      <3> DEFINE a == Aged(inflight.challenge)
      <3>3. /\ a \in Challenges \cup {None} /\ (a = None) = (inflight.challenge = None)
            /\ inflight.challenge # None => a.address = inflight.challenge.address
            /\ InTime(a, CHALLENGE_TTL_S)
        BY <1>2, <3>2
      <3>4. /\ inflight' \in Logins /\ inflight'.challenge = a
            /\ inflight'.step = inflight.step /\ inflight'.address = inflight.address
            /\ inflight'.signer = inflight.signer
        BY <3>1, <3>3 DEF Logins
      <3>5. inflight' # None
        BY <3>4
      <3> QED BY <2>2, <3>3, <3>4, <3>5
    <2> QED BY <2>1, <2>2
  <1>6. ASSUME NEW j \in Job
        PROVE  /\ jobs'[j] \in Requests /\ jobs'[j].pc = jobs[j].pc /\ jobs'[j].user = jobs[j].user
               /\ jobs'[j].shared = jobs[j].shared
               /\ (jobs'[j].token = None) = (jobs[j].token = None)
               /\ jobs[j].token # None => jobs'[j].token.address = jobs[j].token.address
               /\ InTime(jobs'[j].token, life)
    <2>1. jobs[j] \in Requests /\ jobs'[j] = [jobs[j] EXCEPT !.token = Aged(@)]
      BY DEF Clock, Typed
    <2> DEFINE a == Aged(jobs[j].token)
    <2>2. jobs[j].token \in Tokens \cup {None} /\ InTime(jobs[j].token, life)
      BY <2>1 DEF Requests, TimeInv
    <2>3. /\ a \in Tokens \cup {None} /\ (a = None) = (jobs[j].token = None)
          /\ jobs[j].token # None => a.address = jobs[j].token.address
          /\ InTime(a, life)
      BY <1>1, <2>2
    <2>4. /\ jobs'[j] \in Requests /\ jobs'[j].token = a /\ jobs'[j].pc = jobs[j].pc
          /\ jobs'[j].user = jobs[j].user /\ jobs'[j].shared = jobs[j].shared
      BY <2>1, <2>3 DEF Requests
    <2> QED BY <2>3, <2>4
  <1>7. Typed' /\ WalletInv'
    <2>1. jobs' \in [Job -> Requests]
      BY <1>6 DEF Clock
    <2> QED BY <2>1, <1>3, <1>4, <1>5 DEF Typed, WalletInv, walletVars, serverVars
  <1>8. LoginInv'
    BY <1>3, <1>5, <1>6 DEF LoginInv
  <1>9. TokenInv'
    <2>1. inflight = None => \A j \in Job : jobs[j].pc # "login"
      BY DEF LoginInv
    <2> QED BY <2>1, <1>3, <1>4, <1>5, <1>6 DEF TokenInv
  <1>10. TimeInv'
    BY <1>4, <1>5, <1>6 DEF TimeInv
  <1> QED BY <1>7, <1>8, <1>9, <1>10

\* Every step keeps the invariant.
LEMMA InvNext == SessionInv /\ [Next]_vars => SessionInv'
  <1> SUFFICES ASSUME SessionInv, [Next]_vars PROVE SessionInv'
    OBVIOUS
  <1>1. CASE UNCHANGED vars
    <2>1. UNCHANGED <<walletVars, current, inflight, jobs, serverVars, signed, made>>
      BY <1>1 DEF vars
    <2> QED BY <2>1 DEF SessionInv, Typed, WalletInv, LoginInv, TokenInv, TimeInv, InTime, walletVars, serverVars
  <1>2. CASE Tab
    BY <1>2, WalletStep, ReloadStep, RequestStep, TokenStep DEF Tab
  <1>3. CASE Login
    BY <1>3, ChallengeStep, SignStep, VerifyStep, LoginFailsStep DEF Login
  <1>4. ASSUME NEW j \in Job, Handle(j) PROVE SessionInv'
    BY <1>4, RequestStep
  <1> QED BY <1>1, <1>2, <1>3, <1>4, RestartStep, ClockStep DEF Next

--------------------------------------------------------------------------------
\* What a request leads to, given its token.
LEMMA EffectStep ==
  ASSUME SessionInv, [Next]_vars
  PROVE  /\ OnlyAfterSigning => OnlyAfterSigning'
         /\ StoredOrderOpens => StoredOrderOpens'
  <1>1. CASE UNCHANGED vars
    BY <1>1 DEF vars, serverVars, OnlyAfterSigning, StoredOrderOpens
  <1>2. CASE effect' = None
    BY <1>2 DEF OnlyAfterSigning, StoredOrderOpens
  <1>3. ASSUME NEW j \in Job, Handle(j), effect' # None
        PROVE  OnlyAfterSigning' /\ StoredOrderOpens'
    <2>1. /\ jobs[j].token.address \in signed
          /\ ~jobs[j].shared => jobs[j].token.address = jobs[j].user
          /\ signed' = signed /\ threshold_pubkey' = threshold_pubkey
          /\ effect' = Route(jobs[j])
      BY <1>3 DEF SessionInv, TokenInv, Handle, serverVars
    <2>2. CASE effect' = Stored(jobs[j]) /\ validateOrderInput(jobs[j])
      BY <2>1, <2>2 DEF OnlyAfterSigning, StoredOrderOpens, Stored, validateOrderInput, PublicKeyInfo
    <2>3. CASE effect' = Listed(jobs[j]) /\ jobs[j].user = jobs[j].token.address
      BY <2>1, <2>3 DEF OnlyAfterSigning, StoredOrderOpens, Listed
    <2> QED BY <2>1, <2>2, <2>3, <1>3 DEF Route
  <1> QED BY <1>1, <1>2, <1>3 DEF Next

\* A wallet of the tab is what its parts say, and every login in flight is waited
\* for by a request, whatever the user connects, disconnects and reloads.
THEOREM TypeCorrect == Spec => []TypeOK
  <1>1. SessionInv => TypeOK
    BY SessionAssumption DEF SessionInv, Typed, WalletInv, LoginInv, TokenInv, TypeOK, Requests
  <1> QED BY <1>1, InvInit, InvNext, PTL DEF Spec

\* Orders are stored and listed only for accounts whose own key signed a challenge
\* that names them (services/auth.ts, services/authService.ts).
THEOREM SignedFirst == Spec => []OnlyAfterSigning
  <1>1. Init => OnlyAfterSigning
    BY DEF Init, OnlyAfterSigning
  <1> QED BY <1>1, EffectStep, InvInit, InvNext, PTL DEF Spec

\* A stored order can be decrypted (SwapForm.tsx, routes/orders.ts), unless its
\* request joined a login that was in flight for another account.
THEOREM StoredOrdersOpen == Spec => []StoredOrderOpens
  <1>1. Init => StoredOrderOpens
    BY DEF Init, StoredOrderOpens
  <1> QED BY <1>1, EffectStep, InvInit, InvNext, PTL DEF Spec

\* A signature opens the gateway for one challenge's and one session's time
\* (CHALLENGE_TTL_S, SESSION_TTL_S), whatever these are.
THEOREM AccessIsLimited == Spec => []AccessEnds
  <1>1. SessionInv => AccessEnds
    <2> SUFFICES ASSUME SessionInv, NEW j \in Job, jobs[j].pc = "sent", verifySession(jobs[j].token)
                 PROVE  jobs[j].token.age <= CHALLENGE_TTL_S + SESSION_TTL_S
      BY DEF AccessEnds
    <2>1. jobs[j].token \in Tokens /\ jobs[j].token # None
      BY DEF SessionInv, Typed, TokenInv, Requests
    <2>2. jobs[j].token.age \in Nat /\ jobs[j].token.left \in Int /\ jobs[j].token.left >= 0
      BY <2>1 DEF Tokens, verifySession
    <2> QED BY <2>1, <2>2, SessionAssumption DEF SessionInv, TimeInv, InTime
  <1> QED BY <1>1, InvInit, InvNext, PTL DEF Spec
=============================================================================
