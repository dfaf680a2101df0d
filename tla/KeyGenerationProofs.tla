-------------------------- MODULE KeyGenerationProofs --------------------------
(***************************************************************************)
(* Proofs about KeyGeneration: any number of validators and sessions, any  *)
(* threshold, any conduct of the dealers and any number of faults.         *)
(***************************************************************************)
EXTENDS KeyGeneration, FiniteSetTheorems, TLAPS

Budgets == [FaultKinds \cup {"all"} -> Nat]
Transcripts ==
    [dealt : SUBSET Validator, complaints : SUBSET (Validator \X Validator),
     reveals : SUBSET (Validator \X Validator \X {"right", "wrong"})]
Calls == [to : Validator, round : Rounds, session : Sessions]

\* Variables have values of their kind; a round is a round of a session, and what
\* the backend serves is a key.
Typed ==
    /\ mode \in {"local", "remote"} /\ conduct \in ConductType
    /\ phase \in Phases /\ session \in 0 .. MaxSessions
    /\ answer \in [Validator -> {"none", "ok", "error"}]
    /\ info \in [Validator -> Keys \cup {NoKey}]
    /\ transcript \in [Sessions -> Transcripts]
    /\ calls \subseteq Calls
    /\ network \in Keys \cup {NoKey} /\ registry \in [Validator -> Keys \cup {NoKey}]
    /\ mem \in [Validator -> Keys \cup {NoKey}] /\ disk \in [Validator -> Keys \cup {NoKey}]
    /\ broken \subseteq Validator
    /\ dkg \in [Validator -> 0 .. MaxSessions] /\ received \in [Validator -> SUBSET Validator]
    /\ budget \in Budgets
    /\ phase \in Rounds => session \in Sessions
    /\ phase \in {"sync", "serving"} => network \in Keys

\* Every validator answered the session's first round, or the session is at a
\* later round now.
Passed(s) == transcript[s].dealt # {} \/ (s = session /\ phase \in Rounds \ {"begin"})

\* Nothing is added to the session's transcript any more.
Frozen(s) == s < session \/ phase \notin {"begin", "deal", "receive", "respond"}

\* No request runs ahead of the coordinator; a session is not begun again once it
\* passed its first round, and only a frozen transcript is sent out to finalize.
CallsInv ==
    \A c \in calls :
        /\ c.session <= session
        /\ c.round = "begin" => ~Passed(c.session)
        /\ c.round = "finalize" => Frozen(c.session)

TranscriptInv ==
    \A s \in Sessions : s > session \/ (s = session /\ phase = "begin") => transcript[s].dealt = {}

\* In-process validators are gone while the backend is.
Gone == mode = "local" /\ phase \in {"down", "connect"}
LocalInv == Gone => calls = {} /\ \A v \in Validator : dkg[v] = 0 /\ mem[v] = NoKey

\* A validator in a session has no key; one that runs has the key of its file.
StoreInv ==
    \A v \in Validator :
        /\ dkg[v] <= session
        /\ dkg[v] # 0 => mem[v] = NoKey
        /\ disk[v] # NoKey => mem[v] = disk[v] \/ Gone

\* Who agreed to begin has no key, and left every session a key can come from.
BegunInv ==
    phase = "begin" => \A v \in Validator : answer[v] = "ok" =>
        /\ mem[v] = NoKey
        /\ dkg[v] \in 1 .. session - 1 => ~Passed(dkg[v])
        /\ [to |-> v, round |-> "begin", session |-> session] \notin calls

\* After a later session passed, an earlier one has left nothing behind.
SupersededInv ==
    \A r, s \in Sessions : r < s /\ Passed(r) /\ Passed(s) =>
        \A v \in Validator : dkg[v] # r /\ mem[v].session # r /\ disk[v].session # r

\* A key is what its session's transcript says.
IsKeyOf(k) ==
    k # NoKey =>
        /\ transcript[k.session].dealt # {}
        /\ k.dealers = Qualified(transcript[k.session])
        /\ Frozen(k.session)
KeyInv == \A v \in Validator : IsKeyOf(mem[v]) /\ IsKeyOf(disk[v])

\* Who answered the last round has written its key; the rows that were synchronised
\* hold the key served.
AnswerInv ==
    /\ phase = "finalize" => \A v \in Validator : answer[v] = "ok" =>
         disk[v] = [session |-> session, dealers |-> Qualified(transcript[session])]
    /\ phase = "sync" => \A v \in Validator : answer[v] = "ok" => registry[v] = network
    /\ phase = "serving" => \A v \in Validator : registry[v] = network
    /\ phase # "connect" => \A v \in Validator : info[v] = NoKey

\* Validators that have, or reported, a key their file does not hold.
Unwritten ==
    {v \in Validator : (mem[v] # NoKey /\ disk[v] # mem[v]) \/ (info[v] # NoKey /\ disk[v] # info[v])}
DiskInv ==
    /\ budget["diskFull"] <= FaultBudget["diskFull"]
    /\ Cardinality(Unwritten) <= FaultBudget["diskFull"] - budget["diskFull"]

\* While nothing failed and no key is served: a session fails for all or for
\* none, since all have the same shares of qualified dealers, sent or revealed.
Enough(s) == Cardinality(Qualified(transcript[s])) >= Threshold
Checked(v) ==
    /\ received[v] = transcript[session].dealt \ Wrong(v, session)
    /\ \A d \in Wrong(v, session) : <<v, d>> \in transcript[session].complaints
Sound == budget = FaultBudget /\ phase \notin {"sync", "serving"}
SoundStore ==
    /\ broken = {}
    /\ phase # "finalize" => \A v \in Validator : mem[v] = NoKey /\ disk[v] = NoKey
SoundRounds ==
    \A v \in Validator :
        /\ phase = "begin" => answer[v] # "error" /\ (answer[v] = "ok" => dkg[v] = session)
        /\ phase \in {"deal", "receive", "respond"} => dkg[v] = session
        /\ (phase = "receive" /\ answer[v] = "ok") \/ phase = "respond" => Checked(v)
        /\ phase = "finalize" =>
             /\ dkg[v] = session => Checked(v)
             /\ answer[v] = "error" => ~Enough(session)
             /\ mem[v] # NoKey => Enough(session)
SoundCalls ==
    \A c \in calls :
        /\ c.round = "begin" => phase = "begin" /\ c.session = session /\ answer[c.to] = "none"
        /\ c.round = "finalize" =>
             IF phase = "finalize" /\ c.session = session THEN dkg[c.to] = session ELSE ~Enough(c.session)
SoundInv ==
    /\ budget["all"] <= FaultBudget["all"]
    /\ Sound => SoundStore /\ SoundRounds /\ SoundCalls

KeyGenInv ==
    /\ Typed /\ CallsInv /\ TranscriptInv /\ LocalInv /\ StoreInv
    /\ BegunInv /\ SupersededInv /\ KeyInv /\ AnswerInv /\ DiskInv

--------------------------------------------------------------------------------
\* `No key' is not a key.
LEMMA NoKeyIsNone == NoKey \notin Keys
  BY DEF NoKey, Keys, Sessions

\* The qualified dealers of a transcript are among those that dealt.
LEMMA QualifiedType == ASSUME NEW t \in Transcripts PROVE Qualified(t) \subseteq t.dealt /\ Qualified(t) \subseteq Validator
  BY DEF Qualified, Transcripts

\* A fault uses up budget of its own kind.
LEMMA FaultUses ==
  ASSUME budget \in Budgets, NEW kind \in FaultKinds, Fault(kind)
  PROVE  /\ budget' \in Budgets
         /\ budget'["diskFull"] = IF kind = "diskFull" THEN budget["diskFull"] - 1 ELSE budget["diskFull"]
         /\ budget'["all"] = budget["all"] - 1
  <1>1. budget' = [budget EXCEPT ![kind] = budget[kind] - 1, !["all"] = budget["all"] - 1]
    BY DEF Fault, FaultKinds
  <1>2. budget[kind] \in Nat /\ budget[kind] > 0 /\ budget["all"] \in Nat /\ budget["all"] > 0
    BY DEF Fault, Budgets
  <1> QED BY <1>1, <1>2 DEF Budgets, FaultKinds

\* Before the first start there is no key, no session and no call.
LEMMA InvInit == Init => KeyGenInv
  <1> SUFFICES ASSUME Init PROVE KeyGenInv
    OBVIOUS
  <1> USE KeyGenerationAssumption DEF Init
  <1>1. Typed
    BY DEF Typed, Phases, Rounds, Transcripts, NoTranscript, Budgets, Calls
  <1>2. CallsInv /\ LocalInv /\ BegunInv /\ AnswerInv
    BY DEF CallsInv, LocalInv, BegunInv, AnswerInv
  <1>3. TranscriptInv
    BY DEF TranscriptInv, NoTranscript
  <1>4. StoreInv
    BY DEF StoreInv
  <1>5. SupersededInv
    BY DEF SupersededInv, Passed, NoTranscript, Rounds
  <1>6. KeyInv
    BY DEF KeyInv, IsKeyOf
  <1>7. DiskInv
    <2>1. Unwritten = {}
      BY DEF Unwritten
    <2> QED BY <2>1, FS_EmptySet DEF DiskInv, FaultKinds
  <1> QED BY <1>1, <1>2, <1>3, <1>4, <1>5, <1>6, <1>7 DEF KeyGenInv

\* The set of validators without their key on disk only shrinks.
LEMMA UnwrittenShrinks ==
  ASSUME DiskInv, budget \in Budgets, Unwritten' \subseteq Unwritten, budget'["diskFull"] = budget["diskFull"]
  PROVE  DiskInv'
  <1>1. IsFiniteSet(Unwritten)
    BY KeyGenerationAssumption, FS_Subset DEF Unwritten
  <1>2. Cardinality(Unwritten') \in Nat /\ Cardinality(Unwritten) \in Nat
        /\ Cardinality(Unwritten') <= Cardinality(Unwritten)
    BY <1>1, FS_Subset, FS_CardinalityType
  <1>3. FaultBudget["diskFull"] \in Nat
    BY KeyGenerationAssumption DEF FaultKinds
  <1> QED BY <1>2, <1>3 DEF DiskInv, Budgets, FaultKinds

--------------------------------------------------------------------------------
(* The coordinator's steps.                                                   *)

\* The backend ends, at an error or in a crash.
LEMMA ExitStep ==
  ASSUME KeyGenInv, Exit, UNCHANGED <<mode, conduct, session, transcript, registry, disk>>,
         broken' \subseteq Validator, budget' \in Budgets, budget'["diskFull"] = budget["diskFull"]
  PROVE  KeyGenInv'
  <1> USE DEF KeyGenInv
  <1>1. /\ phase' = "down" /\ network' = NoKey
        /\ answer' = [v \in Validator |-> "none"] /\ info' = [v \in Validator |-> NoKey]
        /\ \/ mode = "remote" /\ UNCHANGED <<mem, dkg, received, calls>>
           \/ /\ mode = "local" /\ calls' = {} /\ dkg' = [v \in Validator |-> 0]
              /\ mem' = [v \in Validator |-> NoKey] /\ received' = [v \in Validator |-> {}]
    BY DEF Exit, Typed
  <1>2. /\ \A v \in Validator : mem'[v] \in {mem[v], NoKey} /\ dkg'[v] \in {dkg[v], 0}
        /\ calls' \subseteq calls
    BY <1>1
  <1>3. \A s \in Sessions : Frozen(s)' /\ (Passed(s)' => Passed(s))
    BY <1>1 DEF Frozen, Passed, Rounds
  <1>4. Typed'
    BY <1>1, KeyGenerationAssumption DEF Typed, Phases, Rounds
  <1>5. CallsInv'
    <2> SUFFICES ASSUME NEW c \in calls'
                 PROVE  c.session <= session /\ (c.round = "begin" => ~Passed(c.session)') /\ Frozen(c.session)'
      BY DEF CallsInv
    <2>1. c \in calls /\ c.session \in Sessions
      BY <1>2 DEF Typed, Calls
    <2> QED BY <2>1, <1>3 DEF CallsInv
  <1>6. TranscriptInv'
    BY <1>1 DEF TranscriptInv
  <1>7. LocalInv' /\ BegunInv' /\ AnswerInv'
    BY <1>1 DEF LocalInv, BegunInv, AnswerInv, Gone
  <1>8. StoreInv'
    BY <1>1, <1>2 DEF StoreInv, Gone, Typed
  <1>9. SupersededInv'
    BY <1>2, <1>3 DEF SupersededInv, NoKey, Sessions
  <1>10. KeyInv'
    <2> SUFFICES ASSUME NEW v \in Validator, NEW k \in {mem'[v], disk[v]}, k # NoKey
                 PROVE  transcript[k.session].dealt # {} /\ k.dealers = Qualified(transcript[k.session]) /\ Frozen(k.session)'
      BY DEF KeyInv, IsKeyOf
    <2>1. k \in {mem[v], disk[v]} /\ k.session \in Sessions
      BY <1>2 DEF Typed, Keys
    <2> QED BY <2>1, <1>3 DEF KeyInv, IsKeyOf
  <1>11. Unwritten' \subseteq Unwritten
    BY <1>1, <1>2 DEF Unwritten
  <1> QED BY <1>4, <1>5, <1>6, <1>7, <1>8, <1>9, <1>10, <1>11, UnwrittenShrinks DEF Typed

\* A step that leaves requests, transcripts and validators alone, and does not
\* start or end a round.
LEMMA QuietStep ==
  ASSUME KeyGenInv, Typed', AnswerInv', Unwritten' \subseteq Unwritten, budget'["diskFull"] = budget["diskFull"],
         UNCHANGED <<mode, conduct, session, transcript, network, calls, validatorVars>>,
         phase' = phase \/ <<phase, phase'>> \in {<<"down", "connect">>, <<"sync", "serving">>},
         phase = "begin" => \A v \in Validator : answer'[v] = "ok" => answer[v] = "ok"
  PROVE  KeyGenInv'
  <1> USE DEF KeyGenInv
  <1>1. /\ \A s : Passed(s)' = Passed(s) /\ Frozen(s)' = Frozen(s)
        /\ Gone' = Gone /\ (phase' = "begin") = (phase = "begin")
    BY DEF Passed, Frozen, Gone, Rounds
  <1>2. CallsInv' /\ TranscriptInv' /\ LocalInv'
    BY <1>1 DEF CallsInv, TranscriptInv, LocalInv, validatorVars
  <1>3. StoreInv' /\ BegunInv'
    BY <1>1 DEF StoreInv, BegunInv, validatorVars
  <1>4. SupersededInv' /\ KeyInv'
    BY <1>1 DEF SupersededInv, KeyInv, IsKeyOf, validatorVars
  <1> QED BY <1>2, <1>3, <1>4, UnwrittenShrinks DEF Typed

\* The supervisor starts the backend again.
LEMMA RestartStep == KeyGenInv /\ Restart => KeyGenInv'
  <1> SUFFICES ASSUME KeyGenInv, Restart PROVE KeyGenInv'
    OBVIOUS
  <1>1. Typed'
    BY DEF KeyGenInv, Typed, Restart, Phases, Rounds, validatorVars
  <1>2. AnswerInv'
    BY DEF AnswerInv, Restart
  <1>3. Unwritten' = Unwritten
    BY DEF Unwritten, Restart, validatorVars
  <1> QED BY <1>1, <1>2, <1>3, QuietStep DEF Restart

\* A validator reports the key it has.
LEMMA InfoStep == ASSUME KeyGenInv, NEW v \in Validator, Info(v) PROVE KeyGenInv'
  <1> USE DEF KeyGenInv
  <1>1. budget' \in Budgets /\ budget'["diskFull"] = budget["diskFull"]
    BY FaultUses DEF Info, Typed, FaultKinds
  <1>2. /\ UNCHANGED <<mode, conduct, phase, session, transcript, network, registry, calls, validatorVars>>
        /\ phase = "connect" /\ info' \in {info, [info EXCEPT ![v] = mem[v]]}
        /\ answer' \in [Validator -> {"none", "ok", "error"}]
    BY DEF Info, Typed
  <1>3. Typed'
    BY <1>1, <1>2 DEF Typed, validatorVars
  <1>4. AnswerInv'
    BY <1>2 DEF AnswerInv
  <1>5. Unwritten' \subseteq Unwritten
    BY <1>2 DEF Unwritten, validatorVars, Typed
  <1> QED BY <1>1, <1>2, <1>3, <1>4, <1>5, QuietStep

\* A row of the validators table is written.
LEMMA SyncStep == ASSUME KeyGenInv, NEW v \in Validator, Sync(v) PROVE KeyGenInv'
  <1> USE DEF KeyGenInv
  <1>1. /\ registry' = [registry EXCEPT ![v] = network] /\ answer' = [answer EXCEPT ![v] = "ok"]
        /\ phase = "sync" /\ phase' = IF \A w \in Validator \ {v} : answer[w] = "ok" THEN "serving" ELSE "sync"
        /\ UNCHANGED <<mode, conduct, session, info, transcript, network, calls, validatorVars, budget>>
    BY DEF Sync, Row, Typed
  <1>2. Typed'
    BY <1>1 DEF Typed, Phases, Rounds, validatorVars
  <1>3. AnswerInv'
    BY <1>1 DEF AnswerInv, Typed
  <1>4. Unwritten' = Unwritten
    BY <1>1 DEF Unwritten, validatorVars
  <1> QED BY <1>1, <1>2, <1>3, <1>4, QuietStep

\* A call is given up: it may still be handled later.
LEMMA TimeoutStep == ASSUME KeyGenInv, NEW v \in Validator, Timeout(v) PROVE KeyGenInv'
  <1> USE DEF KeyGenInv
  <1>1. budget' \in Budgets /\ budget'["diskFull"] = budget["diskFull"]
    BY FaultUses DEF Timeout, Typed, FaultKinds
  <1>2. /\ UNCHANGED <<mode, conduct, phase, session, info, transcript, network, registry, calls, validatorVars>>
        /\ phase \in Rounds /\ answer' = [answer EXCEPT ![v] = "error"]
    BY DEF Timeout
  <1>3. Typed'
    BY <1>1, <1>2 DEF Typed, validatorVars
  <1>4. AnswerInv'
    BY <1>2 DEF AnswerInv, Typed, validatorVars
  <1>5. Unwritten' = Unwritten
    BY <1>2 DEF Unwritten, validatorVars
  <1>6. phase = "begin" => \A w \in Validator : answer'[w] = "ok" => answer[w] = "ok"
    BY <1>2 DEF Typed
  <1> QED BY <1>1, <1>2, <1>3, <1>4, <1>5, <1>6, QuietStep

\* A fresh session: nobody dealt in it yet, and all earlier transcripts are frozen.
LEMMA BeginStep ==
  ASSUME KeyGenInv, BeginDkg, UNCHANGED <<mode, conduct, budget, validatorVars>>,
         mode = "local" => phase = "connect" /\ \A v \in Validator : disk[v] = NoKey
  PROVE  KeyGenInv'
  <1> USE DEF KeyGenInv
  <1>1. /\ phase' = "begin" /\ session' = session + 1 /\ session' \in Sessions /\ session \in Nat
        /\ answer' = [v \in Validator |-> "none"] /\ info' = [v \in Validator |-> NoKey]
        /\ calls' = calls \cup [to : Validator, round : {"begin"}, session : {session + 1}]
        /\ UNCHANGED <<mode, conduct, transcript, network, registry, budget, mem, disk, broken, dkg, received>>
    BY KeyGenerationAssumption DEF BeginDkg, Ask, Typed, Sessions, validatorVars
  <1>2. \A s \in Sessions : Passed(s)' => Passed(s) /\ s # session + 1
    BY <1>1 DEF Passed, TranscriptInv
  <1>3. \A s \in Sessions : s <= session => Frozen(s)'
    BY <1>1 DEF Frozen, Sessions
  <1>4. Typed'
    <2>1. calls' \subseteq Calls
      BY <1>1 DEF Typed, Calls, Rounds
    <2> QED BY <1>1, <2>1 DEF Typed, Phases, Rounds, Sessions
  <1>5. CallsInv'
    <2> SUFFICES ASSUME NEW c \in calls'
                 PROVE  /\ c.session <= session + 1
                        /\ c.round = "begin" => ~Passed(c.session)'
                        /\ c.round = "finalize" => Frozen(c.session)'
      BY <1>1 DEF CallsInv
    <2>1. CASE c \in calls
      BY <2>1, <1>1, <1>2, <1>3 DEF CallsInv, Typed, Calls, Sessions
    <2>2. CASE c \in [to : Validator, round : {"begin"}, session : {session + 1}]
      BY <2>2, <1>1, <1>2
    <2> QED BY <1>1, <2>1, <2>2
  <1>6. TranscriptInv'
    BY <1>1 DEF TranscriptInv, Sessions
  <1>7. LocalInv' /\ BegunInv' /\ AnswerInv'
    BY <1>1 DEF LocalInv, BegunInv, AnswerInv, Gone
  <1>8. StoreInv'
    BY <1>1 DEF StoreInv, Gone, Typed
  <1>9. SupersededInv'
    BY <1>1, <1>2 DEF SupersededInv
  <1>10. KeyInv'
    <2> SUFFICES ASSUME NEW v \in Validator, NEW k \in {mem[v], disk[v]}, k # NoKey
                 PROVE  transcript[k.session].dealt # {} /\ k.dealers = Qualified(transcript[k.session]) /\ Frozen(k.session)'
      BY <1>1 DEF KeyInv, IsKeyOf
    <2>1. k.session \in Sessions /\ transcript[k.session].dealt # {}
      BY DEF KeyInv, IsKeyOf, Typed, Keys
    <2>2. k.session <= session
      BY <1>1, <2>1 DEF TranscriptInv, Sessions
    <2> QED BY <2>1, <2>2, <1>3 DEF KeyInv, IsKeyOf
  <1>11. Unwritten' \subseteq Unwritten
    BY <1>1 DEF Unwritten
  <1> QED BY <1>1, <1>4, <1>5, <1>6, <1>7, <1>8, <1>9, <1>10, <1>11, UnwrittenShrinks DEF Typed

\* The coordinator has a key to serve; in-process validators are loaded from
\* their files.
LEMMA ServeStep ==
  ASSUME KeyGenInv, NEW key \in Keys, Serve(key), UNCHANGED <<mode, conduct, budget, disk, broken, dkg, received>>,
         (~Gone /\ mem' = mem) \/ (Gone /\ mem' = disk)
  PROVE  KeyGenInv'
  <1> USE DEF KeyGenInv
  <1>1. /\ phase' = "sync" /\ network' = key
        /\ answer' = [v \in Validator |-> "none"] /\ info' = [v \in Validator |-> NoKey]
        /\ UNCHANGED <<session, transcript, registry, calls>>
    BY DEF Serve
  <1>2. \A s \in Sessions : Frozen(s)' /\ (Passed(s)' => Passed(s))
    BY <1>1 DEF Frozen, Passed, Rounds
  <1>3. \A v \in Validator : mem'[v] \in {mem[v], disk[v]}
    OBVIOUS
  <1>4. Typed'
    BY <1>1 DEF Typed, Phases, Rounds
  <1>5. CallsInv'
    BY <1>1, <1>2 DEF CallsInv, Typed, Calls
  <1>6. TranscriptInv' /\ LocalInv' /\ BegunInv' /\ AnswerInv'
    BY <1>1 DEF TranscriptInv, LocalInv, BegunInv, AnswerInv, Gone
  <1>7. StoreInv'
    BY <1>1 DEF StoreInv, LocalInv, Typed
  <1>8. SupersededInv'
    BY <1>2, <1>3 DEF SupersededInv
  <1>9. KeyInv'
    <2> SUFFICES ASSUME NEW v \in Validator, NEW k \in {mem'[v], disk[v]}, k # NoKey
                 PROVE  transcript[k.session].dealt # {} /\ k.dealers = Qualified(transcript[k.session]) /\ Frozen(k.session)'
      BY <1>1 DEF KeyInv, IsKeyOf
    <2>1. k \in {mem[v], disk[v]} /\ k.session \in Sessions
      BY <1>3 DEF Typed, Keys
    <2> QED BY <2>1, <1>2 DEF KeyInv, IsKeyOf
  <1>10. Unwritten' \subseteq Unwritten
    BY <1>1 DEF Unwritten
  <1> QED BY <1>4, <1>5, <1>6, <1>7, <1>8, <1>9, <1>10, UnwrittenShrinks DEF Typed

\* The next round of a session.  When the first one is over, all agreed to it and
\* hold no key and no session that could still give them one.
LEMMA AskStep ==
  ASSUME KeyGenInv, NEW round \in {"deal", "receive", "respond", "finalize"}, Ask(round, session),
         phase \in {"begin", "deal", "receive", "respond"},
         phase = "begin" => \A v \in Validator : answer[v] = "ok",
         UNCHANGED <<mode, conduct, budget, session, info, transcript, network, registry, validatorVars>>
  PROVE  KeyGenInv'
  <1> USE DEF KeyGenInv
  <1>1. /\ phase' = round /\ answer' = [v \in Validator |-> "none"]
        /\ calls' = calls \cup [to : Validator, round : {round}, session : {session}]
        /\ session \in Sessions /\ session \in Nat /\ Sessions \subseteq Nat
        /\ UNCHANGED <<mem, disk, broken, dkg, received>>
    BY DEF Ask, Typed, Rounds, validatorVars, Sessions
  <1>2. \A s \in Sessions : Frozen(s) => Frozen(s)'
    BY <1>1 DEF Frozen
  <1>3. \A s \in Sessions : s # session => Passed(s)' = Passed(s)
    BY <1>1 DEF Passed
  <1>4. \A s \in Sessions : s > session => ~Passed(s)
    BY <1>1 DEF Passed, TranscriptInv
  <1>5. phase # "begin" => Passed(session)
    BY DEF Passed, Rounds
  <1>6. Typed'
    <2>1. calls' \subseteq Calls
      BY <1>1 DEF Typed, Calls, Rounds
    <2> QED BY <1>1, <2>1 DEF Typed, Phases, Rounds
  <1>7. CallsInv'
    <2> SUFFICES ASSUME NEW c \in calls'
                 PROVE  /\ c.session <= session
                        /\ c.round = "begin" => ~Passed(c.session)'
                        /\ c.round = "finalize" => Frozen(c.session)'
      BY DEF CallsInv
    <2>1. CASE c \in calls
      <3>1. c \in Calls /\ c.session \in Sessions
        BY <2>1 DEF Typed, Calls
      <3>2. c.round = "begin" => c.session # session
        <4> SUFFICES ASSUME c.round = "begin", c.session = session PROVE FALSE
          OBVIOUS
        <4>1. phase = "begin"
          BY <2>1, <1>5 DEF CallsInv
        <4>2. c = [to |-> c.to, round |-> "begin", session |-> session] /\ c.to \in Validator
          BY <3>1 DEF Calls
        <4> QED BY <2>1, <4>1, <4>2 DEF BegunInv
      <3> QED BY <2>1, <3>1, <3>2, <1>2, <1>3 DEF CallsInv
    <2>2. CASE c \in [to : Validator, round : {round}, session : {session}]
      BY <2>2, <1>1 DEF Frozen
    <2> QED BY <1>1, <2>1, <2>2
  <1>8. TranscriptInv' /\ LocalInv' /\ BegunInv' /\ AnswerInv'
    BY <1>1 DEF TranscriptInv, LocalInv, BegunInv, AnswerInv, Gone
  <1>9. StoreInv'
    BY <1>1 DEF StoreInv, Gone
  <1>10. SupersededInv'
    <2> SUFFICES ASSUME NEW r \in Sessions, NEW s \in Sessions, r < s, Passed(r)', Passed(s)', NEW v \in Validator
                 PROVE  dkg[v] # r /\ mem[v].session # r /\ disk[v].session # r
      BY <1>1 DEF SupersededInv
    <2>1. s <= session /\ r < session
      BY <1>1, <1>3, <1>4
    <2>2. Passed(r)
      BY <1>1, <1>3, <2>1
    <2>3. CASE Passed(s)
      BY <2>2, <2>3 DEF SupersededInv
    <2>4. CASE ~Passed(s)
      <3>1. s = session /\ phase = "begin"
        BY <2>4, <1>3, <1>5
      <3>2. mem[v] = NoKey /\ disk[v] = NoKey
        BY <3>1 DEF BegunInv, StoreInv, Gone
      <3>3. dkg[v] # r
        <4>1. r \in 1 .. session - 1
          BY <2>1, <1>1 DEF Sessions
        <4>2. dkg[v] \in 1 .. session - 1 => ~Passed(dkg[v])
          BY <3>1 DEF BegunInv
        <4> QED BY <4>1, <4>2, <2>2
      <3> QED BY <3>2, <3>3 DEF NoKey, Sessions
    <2> QED BY <2>3, <2>4
  <1>11. KeyInv'
    <2> SUFFICES ASSUME NEW v \in Validator, NEW k \in {mem[v], disk[v]}, k # NoKey
                 PROVE  transcript[k.session].dealt # {} /\ k.dealers = Qualified(transcript[k.session]) /\ Frozen(k.session)'
      BY <1>1 DEF KeyInv, IsKeyOf
    <2>1. k.session \in Sessions
      BY DEF Typed, Keys
    <2> QED BY <2>1, <1>2 DEF KeyInv, IsKeyOf
  <1>12. Unwritten' = Unwritten
    BY <1>1 DEF Unwritten
  <1> QED BY <1>6, <1>7, <1>8, <1>9, <1>10, <1>11, <1>12, UnwrittenShrinks DEF Typed

\* The backend finds a key at all validators, or none, or leaves.
LEMMA ConnectStep == KeyGenInv /\ (ConnectRemote \/ ConnectLocal) => KeyGenInv'
  <1> USE DEF KeyGenInv
  <1>1. ASSUME KeyGenInv, ConnectRemote PROVE KeyGenInv'
    <2> DEFINE reachable == {v \in Validator : answer[v] = "ok"}
               keys == AgreedKeys([v \in reachable |-> info[v]])
    <2>1. /\ phase = "connect" /\ mode = "remote" /\ UNCHANGED <<mode, conduct, budget>>
          /\ \/ BeginDkg /\ UNCHANGED validatorVars
             \/ /\ \E k \in Keys : keys = {k}
                /\ Serve(CHOOSE k \in keys : TRUE) /\ UNCHANGED validatorVars
             \/ Exit /\ UNCHANGED <<session, transcript, registry, disk, broken>>
      BY <1>1 DEF ConnectRemote
    <2>2. CASE BeginDkg /\ UNCHANGED validatorVars
      BY <1>1, <2>1, <2>2, BeginStep
    <2>3. CASE (\E k \in Keys : keys = {k}) /\ Serve(CHOOSE k \in keys : TRUE) /\ UNCHANGED validatorVars
      <3>1. PICK k \in Keys : keys = {k}
        BY <2>3
      <3>2. Serve(k)
        BY <2>3, <3>1
      <3> QED BY <1>1, <2>1, <2>3, <3>2, ServeStep DEF Gone, validatorVars
    <2>4. CASE Exit /\ UNCHANGED <<session, transcript, registry, disk, broken>>
      BY <1>1, <2>1, <2>4, ExitStep DEF Typed
    <2> QED BY <2>1, <2>2, <2>3, <2>4
  <1>2. ASSUME KeyGenInv, ConnectLocal PROVE KeyGenInv'
    <2> DEFINE keys == AgreedKeys(disk)
    <2>1. /\ phase = "connect" /\ mode = "local" /\ UNCHANGED <<mode, conduct, budget>>
          /\ \/ keys = {NoKey} /\ BeginDkg /\ UNCHANGED validatorVars
             \/ /\ \E k \in Keys : keys = {k}
                /\ Serve(CHOOSE k \in keys : TRUE) /\ mem' = disk /\ UNCHANGED <<disk, broken, dkg, received>>
             \/ Exit /\ UNCHANGED <<session, transcript, registry, disk, broken>>
      BY <1>2 DEF ConnectLocal
    <2>2. CASE keys = {NoKey} /\ BeginDkg /\ UNCHANGED validatorVars
      <3>1. \A v \in Validator : disk[v] = NoKey
        BY <1>2, <2>2 DEF AgreedKeys, Typed
      <3> QED BY <1>2, <2>1, <2>2, <3>1, BeginStep
    <2>3. CASE /\ \E k \in Keys : keys = {k}
               /\ Serve(CHOOSE k \in keys : TRUE) /\ mem' = disk /\ UNCHANGED <<disk, broken, dkg, received>>
      <3>1. PICK k \in Keys : keys = {k}
        BY <2>3
      <3>2. Serve(k)
        BY <2>3, <3>1
      <3> QED BY <1>2, <2>1, <2>3, <3>2, ServeStep DEF Gone
    <2>4. CASE Exit /\ UNCHANGED <<session, transcript, registry, disk, broken>>
      BY <1>2, <2>1, <2>4, ExitStep DEF Typed
    <2> QED BY <2>1, <2>2, <2>3, <2>4
  <1> QED BY <1>1, <1>2

\* A round is over: the next one begins, the network is served, or the start fails.
LEMMA NextRoundStep == KeyGenInv /\ NextRound => KeyGenInv'
  <1> SUFFICES ASSUME KeyGenInv, NextRound PROVE KeyGenInv'
    OBVIOUS
  <1> USE DEF KeyGenInv
  <1> DEFINE On(round) == Ask(round, session) /\ UNCHANGED <<session, info, transcript, network, registry, validatorVars>>
             Out == Exit /\ UNCHANGED <<session, transcript, registry, disk, broken>>
             Key == [session |-> session, dealers |-> Qualified(transcript[session])]
  <1>1. /\ phase \in Rounds /\ UNCHANGED <<mode, conduct, budget>>
        /\ \/ \E round \in {"deal", "receive", "respond", "finalize"} :
                /\ phase \in {"begin", "deal", "receive", "respond"} /\ On(round)
                /\ phase = "begin" => \A v \in Validator : answer[v] = "ok"
           \/ phase = "finalize" /\ Serve(Key) /\ UNCHANGED validatorVars
           \/ Out
    <2>1. \A v \in Validator : answer[v] \notin {"none", "error"} => answer[v] = "ok"
      BY DEF Typed
    <2> QED BY <2>1 DEF NextRound
  <1>2. CASE \E round \in {"deal", "receive", "respond", "finalize"} :
                /\ phase \in {"begin", "deal", "receive", "respond"} /\ On(round)
                /\ phase = "begin" => \A v \in Validator : answer[v] = "ok"
    BY <1>1, <1>2, AskStep
  <1>3. CASE phase = "finalize" /\ Serve(Key) /\ UNCHANGED validatorVars
    <2>1. Key \in Keys
      BY <1>1, QualifiedType DEF Typed, Keys
    <2> QED BY <1>1, <1>3, <2>1, ServeStep DEF Gone, validatorVars
  <1>4. CASE Out
    BY <1>1, <1>4, ExitStep DEF Typed
  <1> QED BY <1>1, <1>2, <1>3, <1>4

--------------------------------------------------------------------------------
(* The validators' steps.                                                     *)

\* A session begins with an empty transcript.
LEMMA NoTranscriptType == NoTranscript \in Transcripts
  BY DEF NoTranscript, Transcripts

\* An answer adds to the transcript of the session that waits for it and to no
\* frozen one, and nobody deals outside the dealing round.
LEMMA ReplyFacts ==
  ASSUME KeyGenInv, NEW c \in calls, NEW outcome \in {"ok", "error"}, NEW found \in Transcripts,
         Reply(c, outcome, found),
         \/ found = NoTranscript
         \/ c.round = "deal"
         \/ c.round \in {"receive", "respond"} /\ found.dealt = {}
  PROVE  /\ UNCHANGED <<mode, conduct, phase, session, info, network, registry, broken>>
         /\ c \in Calls /\ calls' = calls \ {c} /\ ~Gone
         /\ answer' \in [Validator -> {"none", "ok", "error"}]
         /\ \A v \in Validator : answer'[v] = IF Waiting(c) /\ v = c.to THEN outcome ELSE answer[v]
         /\ transcript' \in [Sessions -> Transcripts]
         /\ \A s \in Sessions :
              /\ transcript'[s] # transcript[s] => s = session /\ phase \in {"deal", "receive", "respond"}
              /\ Passed(s)' = Passed(s) /\ Frozen(s)' = Frozen(s)
              /\ phase # "deal" => transcript'[s].dealt = transcript[s].dealt
              /\ transcript[s].complaints \subseteq transcript'[s].complaints
         /\ found = NoTranscript => transcript' = transcript
         /\ Waiting(c) /\ outcome = "ok" => found.complaints \subseteq transcript'[c.session].complaints
  <1> USE DEF KeyGenInv
  <1> DEFINE t == transcript[c.session]
             u == [dealt      |-> t.dealt \cup found.dealt,
                   complaints |-> t.complaints \cup found.complaints,
                   reveals    |-> t.reveals \cup found.reveals]
  <1>1. c \in Calls /\ ~Gone
    BY DEF Typed, LocalInv
  <1>2. /\ UNCHANGED <<mode, conduct, phase, session, info, network, registry, broken>>
        /\ calls' = calls \ {c}
        /\ answer' = IF Waiting(c) THEN [answer EXCEPT ![c.to] = outcome] ELSE answer
        /\ transcript' = IF Waiting(c) /\ outcome = "ok" THEN [transcript EXCEPT ![c.session] = u] ELSE transcript
    BY DEF Reply
  <1>3. t \in Transcripts /\ u \in Transcripts
    BY <1>1 DEF Typed, Transcripts, Calls
  <1>4. found = NoTranscript => u = t
    BY <1>3 DEF NoTranscript, Transcripts
  <1>5. /\ answer' \in [Validator -> {"none", "ok", "error"}]
        /\ \A v \in Validator : answer'[v] = IF Waiting(c) /\ v = c.to THEN outcome ELSE answer[v]
    BY <1>1, <1>2 DEF Typed, Calls
  <1>6. transcript' \in [Sessions -> Transcripts]
    <2> HIDE DEF u
    <2> QED BY <1>1, <1>2, <1>3 DEF Typed, Calls
  <1>7. found = NoTranscript => transcript' = transcript
    <2> HIDE DEF u
    <2> QED BY <1>1, <1>2, <1>4 DEF Typed, Calls
  <1>8. ASSUME NEW s \in Sessions, transcript'[s] # transcript[s]
        PROVE  /\ s = session /\ phase \in {"deal", "receive", "respond"}
               /\ phase # "deal" => transcript'[s].dealt = transcript[s].dealt
               /\ transcript[s].complaints \subseteq transcript'[s].complaints
    <2>1. Waiting(c) /\ s = c.session /\ found # NoTranscript /\ transcript'[s] = u
      <3> HIDE DEF u
      <3> QED BY <1>1, <1>2, <1>7, <1>8 DEF Typed, Calls
    <2> QED BY <2>1 DEF Waiting
  <1>9. ASSUME NEW s \in Sessions PROVE Passed(s)' = Passed(s) /\ Frozen(s)' = Frozen(s)
    <2>1. CASE transcript'[s] = transcript[s]
      BY <2>1, <1>2 DEF Passed, Frozen
    <2>2. CASE transcript'[s] # transcript[s]
      BY <2>2, <1>2, <1>8 DEF Passed, Frozen, Rounds
    <2> QED BY <2>1, <2>2
  <1>10. Waiting(c) /\ outcome = "ok" => found.complaints \subseteq transcript'[c.session].complaints
    <2>1. Waiting(c) /\ outcome = "ok" => transcript'[c.session] = u
      <3> HIDE DEF u
      <3> QED BY <1>1, <1>2 DEF Typed, Calls
    <2> QED BY <2>1
  <1> HIDE DEF u
  <1> QED BY <1>1, <1>2, <1>5, <1>6, <1>7, <1>8, <1>9, <1>10

\* What every answer preserves.
LEMMA ReplyKeeps ==
  ASSUME KeyGenInv, NEW c \in calls, calls' = calls \ {c}, ~Gone, UNCHANGED <<mode, phase, session>>,
         \A s \in Sessions :
           /\ transcript'[s] # transcript[s] => s = session /\ phase \in {"deal", "receive", "respond"}
           /\ Passed(s)' = Passed(s) /\ Frozen(s)' = Frozen(s)
  PROVE  /\ CallsInv' /\ TranscriptInv' /\ LocalInv' /\ ~Gone'
         /\ \A k \in Keys \cup {NoKey} : IsKeyOf(k) => IsKeyOf(k)'
         /\ phase = "finalize" => transcript'[session] = transcript[session]
  <1> USE DEF KeyGenInv
  <1>1. CallsInv'
    BY DEF CallsInv, Typed, Calls
  <1>2. TranscriptInv'
    <2> SUFFICES ASSUME NEW s \in Sessions, s > session \/ (s = session /\ phase = "begin")
                 PROVE  transcript'[s].dealt = {}
      BY DEF TranscriptInv
    <2>1. transcript'[s] = transcript[s]
      BY DEF Typed, Sessions
    <2> QED BY <2>1 DEF TranscriptInv
  <1>3. LocalInv' /\ ~Gone'
    BY DEF LocalInv, Gone
  <1>4. ASSUME NEW k \in Keys \cup {NoKey}, IsKeyOf(k), k # NoKey PROVE IsKeyOf(k)'
    <2>1. k.session \in Sessions /\ Frozen(k.session)
      BY <1>4 DEF Keys, IsKeyOf
    <2>2. transcript'[k.session] = transcript[k.session]
      BY <2>1 DEF Frozen, Typed, Sessions
    <2> QED BY <2>1, <2>2, <1>4 DEF IsKeyOf
  <1>5. \A k : k = NoKey => IsKeyOf(k)'
    BY DEF IsKeyOf
  <1>6. phase = "finalize" => transcript'[session] = transcript[session]
    BY DEF Typed, Rounds
  <1> QED BY <1>1, <1>2, <1>3, <1>4, <1>5, <1>6

\* A request that changes no session and no key.
LEMMA PlainStep ==
  ASSUME KeyGenInv, NEW c \in calls, NEW outcome \in {"ok", "error"}, NEW found \in Transcripts,
         Reply(c, outcome, found),
         \/ found = NoTranscript
         \/ c.round = "deal"
         \/ c.round \in {"receive", "respond"} /\ found.dealt = {},
         outcome = "error" \/ c.round \in {"deal", "receive", "respond"},
         received' \in [Validator -> SUBSET Validator], UNCHANGED <<mem, disk, dkg, budget>>
  PROVE  KeyGenInv'
  <1> USE DEF KeyGenInv
  <1>1. /\ UNCHANGED <<mode, conduct, phase, session, info, network, registry, broken>>
        /\ c \in Calls /\ calls' = calls \ {c} /\ ~Gone
        /\ answer' \in [Validator -> {"none", "ok", "error"}]
        /\ \A v \in Validator : answer'[v] = IF Waiting(c) /\ v = c.to THEN outcome ELSE answer[v]
        /\ transcript' \in [Sessions -> Transcripts]
        /\ \A s \in Sessions :
             /\ transcript'[s] # transcript[s] => s = session /\ phase \in {"deal", "receive", "respond"}
             /\ Passed(s)' = Passed(s) /\ Frozen(s)' = Frozen(s)
    BY ReplyFacts
  <1>2. /\ CallsInv' /\ TranscriptInv' /\ LocalInv' /\ ~Gone'
        /\ \A k \in Keys \cup {NoKey} : IsKeyOf(k) => IsKeyOf(k)'
        /\ phase = "finalize" => transcript'[session] = transcript[session]
    BY <1>1, ReplyKeeps
  <1>3. phase \in {"begin", "finalize"} => \A v \in Validator : answer'[v] = "ok" => answer[v] = "ok"
    BY <1>1 DEF Waiting
  <1>4. Typed'
    BY <1>1 DEF Typed
  <1>5. StoreInv'
    BY <1>1 DEF StoreInv
  <1>6. BegunInv'
    <2> SUFFICES ASSUME phase = "begin", NEW v \in Validator, answer'[v] = "ok"
                 PROVE  /\ mem[v] = NoKey
                        /\ dkg[v] \in 1 .. session - 1 => ~Passed(dkg[v])'
                        /\ [to |-> v, round |-> "begin", session |-> session] \notin calls'
      BY <1>1 DEF BegunInv
    <2>1. dkg[v] \in 1 .. session - 1 => dkg[v] \in Sessions
      BY DEF Typed, Sessions
    <2> QED BY <1>1, <1>3, <2>1 DEF BegunInv
  <1>7. SupersededInv'
    BY <1>1 DEF SupersededInv
  <1>8. KeyInv'
    BY <1>2 DEF KeyInv, Typed
  <1>9. AnswerInv'
    <2>1. phase \in {"sync", "serving"} => answer' = answer
      BY <1>1 DEF Waiting, Typed, Calls, Rounds
    <2> QED BY <1>1, <1>2, <1>3, <2>1 DEF AnswerInv
  <1>10. Unwritten' = Unwritten
    BY <1>1 DEF Unwritten
  <1> QED BY <1>2, <1>4, <1>5, <1>6, <1>7, <1>8, <1>9, <1>10, UnwrittenShrinks DEF Typed

\* A validator joins a session, leaving the one it was in.
LEMMA dkgBeginStep == ASSUME KeyGenInv, NEW c \in calls, dkgBegin(c) PROVE KeyGenInv'
  <1> USE DEF KeyGenInv
  <1> DEFINE v == c.to
  <1>1. CASE ~MayBegin(v)
    BY <1>1, NoTranscriptType, PlainStep DEF dkgBegin, Typed
  <1>2. CASE MayBegin(v)
    <2>1. /\ c.round = "begin" /\ mem[v] = NoKey /\ Reply(c, "ok", NoTranscript)
          /\ dkg' = [dkg EXCEPT ![v] = c.session] /\ received' = [received EXCEPT ![v] = {}]
          /\ UNCHANGED <<mem, disk, budget>>
      BY <1>2 DEF dkgBegin, MayBegin
    <2>2. /\ UNCHANGED <<mode, conduct, phase, session, info, network, registry, broken>>
          /\ c \in Calls /\ calls' = calls \ {c} /\ ~Gone
          /\ answer' \in [Validator -> {"none", "ok", "error"}]
          /\ \A w \in Validator : answer'[w] = IF Waiting(c) /\ w = v THEN "ok" ELSE answer[w]
          /\ transcript' = transcript
          /\ \A s \in Sessions : Passed(s)' = Passed(s) /\ Frozen(s)' = Frozen(s)
      BY <2>1, NoTranscriptType, ReplyFacts
    <2>3. CallsInv' /\ TranscriptInv' /\ LocalInv' /\ \A k \in Keys \cup {NoKey} : IsKeyOf(k) => IsKeyOf(k)'
      BY <2>2, ReplyKeeps
    <2>4. c.session \in Sessions /\ v \in Validator /\ c.session <= session /\ ~Passed(c.session)
      BY <2>1, <2>2 DEF Calls, CallsInv
    <2>5. dkg' \in [Validator -> 0 .. MaxSessions] /\ \A w \in Validator : dkg'[w] = IF w = v THEN c.session ELSE dkg[w]
      BY <2>1, <2>4 DEF Typed, Sessions
    <2>6. Typed'
      BY <2>1, <2>2, <2>5 DEF Typed
    <2>7. StoreInv'
      BY <2>1, <2>2, <2>4, <2>5 DEF StoreInv
    <2>8. BegunInv'
      <3> SUFFICES ASSUME phase = "begin", NEW w \in Validator, answer'[w] = "ok"
                   PROVE  /\ mem[w] = NoKey
                          /\ dkg'[w] \in 1 .. session - 1 => ~Passed(dkg'[w])
                          /\ [to |-> w, round |-> "begin", session |-> session] \notin calls'
        BY <2>1, <2>2 DEF BegunInv, Passed
      <3>1. CASE w = v /\ Waiting(c)
        <4>1. c = [to |-> w, round |-> "begin", session |-> session]
          BY <3>1, <2>1, <2>2 DEF Calls, Waiting
        <4> QED BY <3>1, <4>1, <2>1, <2>2, <2>4, <2>5
      <3>2. CASE ~(w = v /\ Waiting(c))
        BY <3>2, <2>1, <2>2, <2>4, <2>5 DEF BegunInv
      <3> QED BY <3>1, <3>2
    <2>9. SupersededInv'
      BY <2>1, <2>2, <2>4, <2>5 DEF SupersededInv
    <2>10. KeyInv'
      BY <2>1, <2>3 DEF KeyInv, Typed
    <2>11. AnswerInv'
      <3>1. phase # "begin" => \A w \in Validator : answer'[w] = answer[w]
        BY <2>1, <2>2 DEF Waiting
      <3> QED BY <2>1, <2>2, <3>1 DEF AnswerInv
    <2>12. Unwritten' = Unwritten
      BY <2>1, <2>2 DEF Unwritten
    <2> QED BY <2>1, <2>3, <2>6, <2>7, <2>8, <2>9, <2>10, <2>11, <2>12, UnwrittenShrinks DEF Typed
  <1> QED BY <1>1, <1>2

\* A validator deals.
LEMMA dkgDealStep == ASSUME KeyGenInv, NEW c \in calls, dkgDeal(c) PROVE KeyGenInv'
  <1>1. [NoTranscript EXCEPT !.dealt = {c.to}] \in Transcripts
    BY DEF NoTranscript, Transcripts, KeyGenInv, Typed, Calls
  <1> QED BY <1>1, NoTranscriptType, PlainStep DEF dkgDeal, KeyGenInv, Typed

\* A validator checks the shares it received and complains.
LEMMA dkgReceiveStep == ASSUME KeyGenInv, NEW c \in calls, dkgReceive(c) PROVE KeyGenInv'
  <1> DEFINE found == [NoTranscript EXCEPT !.complaints = Complaints(c.to, c.session)]
  <1>1. c \in Calls /\ transcript[c.session] \in Transcripts
    BY DEF KeyGenInv, Typed, Calls
  <1>2. found \in Transcripts /\ found.dealt = {}
    BY <1>1 DEF NoTranscript, Transcripts, Complaints, Wrong, Calls
  <1>3. received' \in [Validator -> SUBSET Validator]
    <2>1. transcript[c.session].dealt \ Wrong(c.to, c.session) \subseteq Validator
      BY <1>1 DEF Transcripts
    <2> QED BY <2>1 DEF dkgReceive, KeyGenInv, Typed
  <1>4. c.round = "receive" /\ UNCHANGED <<mem, disk, dkg, budget>>
        /\ \/ Reply(c, "error", NoTranscript)
           \/ Reply(c, "ok", NoTranscript)
           \/ Reply(c, "ok", found)
    BY DEF dkgReceive
  <1> QED BY <1>2, <1>3, <1>4, NoTranscriptType, PlainStep

\* What an accused dealer publishes.
LEMMA RevealsType ==
  ASSUME NEW v \in Validator, NEW s PROVE Reveals(v, s) \subseteq Validator \X Validator \X {"right", "wrong"}
  <1> SUFFICES ASSUME NEW x \in Reveals(v, s) PROVE x \in Validator \X Validator \X {"right", "wrong"}
    OBVIOUS
  <1>1. PICK a \in Validator, said \in {"right", "wrong"} : x = <<v, a, said>>
    BY DEF Reveals
  <1> QED BY <1>1

\* An accused dealer publishes the disputed shares.
LEMMA dkgRespondStep == ASSUME KeyGenInv, NEW c \in calls, dkgRespond(c) PROVE KeyGenInv'
  <1> DEFINE found == [NoTranscript EXCEPT !.reveals = Reveals(c.to, c.session)]
  <1>1. c \in Calls
    BY DEF KeyGenInv, Typed
  <1>2. found \in Transcripts /\ found.dealt = {}
    <2>1. c.to \in Validator
      BY <1>1 DEF Calls
    <2> QED BY <2>1, RevealsType DEF NoTranscript, Transcripts
  <1>3. c.round = "respond" /\ UNCHANGED <<mem, disk, dkg, received, budget>>
        /\ \/ Reply(c, "error", NoTranscript)
           \/ Reply(c, "ok", NoTranscript)
           \/ Reply(c, "ok", found)
    BY DEF dkgRespond
  <1> QED BY <1>2, <1>3, NoTranscriptType, PlainStep DEF KeyGenInv, Typed

\* Who can finalize has no key yet and is in a session that no later one replaced.
LEMMA CanFinalizeFacts ==
  ASSUME KeyGenInv, NEW c \in calls, c.round = "finalize", CanFinalize(c.to, c.session)
  PROVE  /\ c.session \in Sessions /\ c.to \in Validator /\ dkg[c.to] = c.session
         /\ transcript[c.session].dealt # {} /\ Passed(c.session) /\ Frozen(c.session)
         /\ mem[c.to] = NoKey /\ disk[c.to] = NoKey
         /\ [session |-> c.session, dealers |-> Qualified(transcript[c.session])] \in Keys
  <1> USE DEF KeyGenInv
  <1>1. c.session \in Sessions /\ c.to \in Validator /\ ~Gone /\ transcript[c.session] \in Transcripts
    BY DEF Typed, Calls, LocalInv
  <1>2. dkg[c.to] = c.session /\ Cardinality(Qualified(transcript[c.session])) >= Threshold
    BY DEF CanFinalize
  <1>3. transcript[c.session].dealt # {}
    <2> SUFFICES ASSUME transcript[c.session].dealt = {} PROVE FALSE
      OBVIOUS
    <2>1. Qualified(transcript[c.session]) = {}
      BY <1>1, QualifiedType
    <2> QED BY <2>1, <1>2, FS_EmptySet, ThresholdAssumption
  <1>4. mem[c.to] = NoKey /\ disk[c.to] = NoKey
    BY <1>1, <1>2 DEF StoreInv, Sessions
  <1>5. Frozen(c.session)
    BY DEF CallsInv
  <1> QED BY <1>1, <1>2, <1>3, <1>4, <1>5, QualifiedType DEF Keys, Passed

\* A validator derives its key from the transcript and writes it.
LEMMA dkgFinalizeStep == ASSUME KeyGenInv, NEW c \in calls, dkgFinalize(c) PROVE KeyGenInv'
  <1> USE DEF KeyGenInv
  <1>1. CASE ~CanFinalize(c.to, c.session)
    BY <1>1, NoTranscriptType, PlainStep DEF dkgFinalize, Typed
  <1>2. CASE CanFinalize(c.to, c.session)
    <2>1. PICK v, s, key : v = c.to /\ s = c.session /\ key = [session |-> s, dealers |-> Qualified(transcript[s])]
      OBVIOUS
    <2>2. /\ c.round = "finalize" /\ mem' = [mem EXCEPT ![v] = key]
          /\ dkg' = [dkg EXCEPT ![v] = 0] /\ received' = [received EXCEPT ![v] = {}]
          /\ \/ disk' = [disk EXCEPT ![v] = key] /\ Reply(c, "ok", NoTranscript) /\ UNCHANGED budget
             \/ disk' = disk /\ Fault("diskFull") /\ Reply(c, "error", NoTranscript)
      BY <1>2, <2>1 DEF dkgFinalize
    <2>3. /\ s \in Sessions /\ v \in Validator /\ dkg[v] = s /\ transcript[s].dealt # {} /\ Passed(s) /\ Frozen(s)
          /\ mem[v] = NoKey /\ disk[v] = NoKey /\ key \in Keys /\ key # NoKey
          /\ key.session = s /\ key.dealers = Qualified(transcript[s])
      BY <1>2, <2>1, <2>2, CanFinalizeFacts, NoKeyIsNone
    <2>4. /\ UNCHANGED <<mode, conduct, phase, session, info, network, registry, broken>>
          /\ c \in Calls /\ calls' = calls \ {c} /\ ~Gone /\ transcript' = transcript
          /\ answer' \in [Validator -> {"none", "ok", "error"}]
          /\ \A r \in Sessions : Passed(r)' = Passed(r) /\ Frozen(r)' = Frozen(r)
      BY <2>2, NoTranscriptType, ReplyFacts
    <2>5. \A w \in Validator :
            answer'[w] # answer[w] => w = v /\ Waiting(c) /\ (answer'[w] = "ok" => disk' = [disk EXCEPT ![v] = key])
      BY <2>1, <2>2, NoTranscriptType, ReplyFacts
    <2>6. /\ CallsInv' /\ TranscriptInv' /\ LocalInv' /\ ~Gone'
          /\ \A k \in Keys \cup {NoKey} : IsKeyOf(k) => IsKeyOf(k)'
      BY <2>4, ReplyKeeps
    <2>7. /\ \A w \in Validator : mem'[w] = IF w = v THEN key ELSE mem[w]
          /\ \A w \in Validator : dkg'[w] = IF w = v THEN 0 ELSE dkg[w]
          /\ \A w \in Validator : disk'[w] = disk[w] \/ (w = v /\ disk'[w] = key)
          /\ \A w \in Validator : disk'[w] # NoKey => disk'[w] = mem'[w] \/ w # v
      BY <2>2, <2>3 DEF Typed
    <2>8. Typed'
      <3>1. budget' \in Budgets
        BY <2>2, FaultUses DEF Typed, FaultKinds
      <3>2. mem' \in [Validator -> Keys \cup {NoKey}] /\ disk' \in [Validator -> Keys \cup {NoKey}]
            /\ dkg' \in [Validator -> 0 .. MaxSessions] /\ received' \in [Validator -> SUBSET Validator]
        BY <2>2, <2>3, KeyGenerationAssumption DEF Typed
      <3> QED BY <2>4, <3>1, <3>2 DEF Typed
    <2>9. StoreInv'
      BY <2>3, <2>4, <2>6, <2>7 DEF StoreInv, Typed
    <2>10. BegunInv'
      <3> SUFFICES ASSUME phase = "begin", NEW w \in Validator, answer'[w] = "ok"
                   PROVE  /\ mem'[w] = NoKey
                          /\ dkg'[w] \in 1 .. session - 1 => ~Passed(dkg'[w])
                          /\ [to |-> w, round |-> "begin", session |-> session] \notin calls'
        BY <2>4 DEF BegunInv, Passed
      <3>1. answer[w] = "ok"
        BY <2>2, <2>5 DEF Waiting
      <3>2. w # v
        <4> SUFFICES ASSUME w = v PROVE FALSE
          OBVIOUS
        <4>1. s < session
          BY <2>3 DEF Frozen
        <4>2. s \in 1 .. session - 1
          BY <4>1, <2>3 DEF Sessions, Typed
        <4>3. dkg[w] \in 1 .. session - 1 => ~Passed(dkg[w])
          BY <3>1 DEF BegunInv
        <4> QED BY <2>3, <4>2, <4>3
      <3> QED BY <3>1, <3>2, <2>4, <2>7 DEF BegunInv
    <2>11. SupersededInv'
      <3> SUFFICES ASSUME NEW q \in Sessions, NEW r \in Sessions, q < r, Passed(q), Passed(r), NEW w \in Validator
                   PROVE  dkg'[w] # q /\ mem'[w].session # q /\ disk'[w].session # q
        BY <2>4 DEF SupersededInv
      <3>1. dkg[w] # q /\ mem[w].session # q /\ disk[w].session # q
        BY DEF SupersededInv
      <3> QED BY <3>1, <2>3, <2>7 DEF Sessions
    <2>12. KeyInv'
      <3> SUFFICES ASSUME NEW w \in Validator, NEW k \in {mem'[w], disk'[w]}, k # NoKey
                   PROVE  transcript[k.session].dealt # {} /\ k.dealers = Qualified(transcript[k.session]) /\ Frozen(k.session)'
        BY <2>4 DEF KeyInv, IsKeyOf
      <3>1. CASE k = key
        BY <3>1, <2>3, <2>4
      <3>2. CASE k \in {mem[w], disk[w]}
        BY <3>2, <2>4 DEF KeyInv, IsKeyOf, Typed, Keys
      <3> QED BY <3>1, <3>2, <2>7
    <2>13. AnswerInv'
      <3>1. phase # "finalize" => \A w \in Validator : answer'[w] = answer[w]
        BY <2>2, <2>5 DEF Waiting
      <3>2. ASSUME phase = "finalize", NEW w \in Validator, answer'[w] = "ok"
            PROVE  disk'[w] = [session |-> session, dealers |-> Qualified(transcript[session])]
        <4>1. CASE answer[w] = "ok"
          BY <4>1, <3>2, <2>3, <2>7, NoKeyIsNone DEF AnswerInv, NoKey, Sessions, Typed, Rounds
        <4>2. CASE answer[w] # "ok"
          BY <4>2, <3>2, <2>1, <2>3, <2>5 DEF Waiting, Typed
        <4> QED BY <4>1, <4>2
      <3> QED BY <2>4, <3>1, <3>2 DEF AnswerInv
    <2>14. DiskInv'
      <3>1. CASE disk' = [disk EXCEPT ![v] = key] /\ UNCHANGED budget
        <4>1. Unwritten' \subseteq Unwritten
          BY <3>1, <2>3, <2>4, <2>7 DEF Unwritten, Typed
        <4> QED BY <3>1, <4>1, UnwrittenShrinks DEF Typed
      <3>2. CASE disk' = disk /\ Fault("diskFull")
        <4>1. Unwritten' \subseteq Unwritten \cup {v}
          BY <3>2, <2>4, <2>7 DEF Unwritten
        <4>2. IsFiniteSet(Unwritten) /\ IsFiniteSet(Unwritten \cup {v})
          BY KeyGenerationAssumption, <2>3, FS_Subset DEF Unwritten
        <4>3. Cardinality(Unwritten \cup {v}) <= Cardinality(Unwritten) + 1
          BY <4>2, FS_AddElement, FS_CardinalityType
        <4>4. Cardinality(Unwritten') <= Cardinality(Unwritten \cup {v})
          BY <4>1, <4>2, FS_Subset
        <4>5. Cardinality(Unwritten') \in Nat /\ Cardinality(Unwritten \cup {v}) \in Nat /\ Cardinality(Unwritten) \in Nat
          BY <4>1, <4>2, FS_Subset, FS_CardinalityType
        <4>6. budget'["diskFull"] = budget["diskFull"] - 1 /\ budget["diskFull"] \in Nat /\ FaultBudget["diskFull"] \in Nat
          BY <3>2, FaultUses, KeyGenerationAssumption DEF Typed, FaultKinds, Budgets
        <4> QED BY <4>3, <4>4, <4>5, <4>6 DEF DiskInv
      <3> QED BY <2>2, <3>1, <3>2
    <2> QED BY <2>6, <2>8, <2>9, <2>10, <2>11, <2>12, <2>13, <2>14
  <1> QED BY <1>1, <1>2

\* A handler of a validator runs, whenever its call arrives.
LEMMA HandleStep == ASSUME KeyGenInv, NEW c \in calls, Handle(c) PROVE KeyGenInv'
  BY dkgBeginStep, dkgDealStep, dkgReceiveStep, dkgRespondStep, dkgFinalizeStep DEF Handle

--------------------------------------------------------------------------------
(* Faults.                                                                    *)

\* The backend dies; its calls may still be handled.
LEMMA CrashCoordinatorStep == KeyGenInv /\ CrashCoordinator => KeyGenInv'
  <1> SUFFICES ASSUME KeyGenInv, CrashCoordinator PROVE KeyGenInv'
    OBVIOUS
  <1>1. budget' \in Budgets /\ budget'["diskFull"] = budget["diskFull"]
    BY FaultUses DEF CrashCoordinator, KeyGenInv, Typed, FaultKinds
  <1> QED BY <1>1, ExitStep DEF CrashCoordinator, KeyGenInv, Typed

\* A validator ends and has, when it is up again, at most what its file has.
LEMMA ValidatorDownStep ==
  ASSUME KeyGenInv, NEW v \in Validator, mode = "remote",
         mem' \in {mem, [mem EXCEPT ![v] = disk[v]]},
         dkg' = [dkg EXCEPT ![v] = 0], received' = [received EXCEPT ![v] = {}],
         calls' \subseteq calls, broken' \subseteq Validator,
         budget' \in Budgets, budget'["diskFull"] = budget["diskFull"],
         UNCHANGED <<mode, conduct, coordinatorVars, disk>>
  PROVE  KeyGenInv'
  <1> USE DEF KeyGenInv
  <1>1. UNCHANGED <<phase, session, answer, info, transcript, network, registry>>
    BY DEF coordinatorVars
  <1>2. /\ \A s : Passed(s)' = Passed(s) /\ Frozen(s)' = Frozen(s)
        /\ ~Gone /\ ~Gone'
    BY <1>1 DEF Passed, Frozen, Gone
  <1>3. \A w \in Validator : mem'[w] \in {mem[w], disk[w]} /\ dkg'[w] \in {dkg[w], 0}
    BY DEF Typed
  <1>4. Typed'
    BY <1>1, KeyGenerationAssumption DEF Typed
  <1>5. CallsInv' /\ TranscriptInv' /\ LocalInv'
    BY <1>1, <1>2 DEF CallsInv, TranscriptInv, LocalInv
  <1>6. StoreInv'
    BY <1>1, <1>2, <1>3 DEF StoreInv, Typed
  <1>7. BegunInv'
    BY <1>1, <1>2, <1>3 DEF BegunInv, StoreInv
  <1>8. SupersededInv'
    BY <1>2, <1>3 DEF SupersededInv, Sessions
  <1>9. KeyInv'
    BY <1>1, <1>2, <1>3 DEF KeyInv, IsKeyOf
  <1>10. AnswerInv'
    BY <1>1 DEF AnswerInv
  <1>11. Unwritten' \subseteq Unwritten
    BY <1>1, <1>3 DEF Unwritten
  <1> QED BY <1>4, <1>5, <1>6, <1>7, <1>8, <1>9, <1>10, <1>11, UnwrittenShrinks DEF Typed

\* A validator dies and starts again with the key of its file.
LEMMA CrashValidatorStep == ASSUME KeyGenInv, NEW v \in Validator, CrashValidator(v) PROVE KeyGenInv'
  <1>1. budget' \in Budgets /\ budget'["diskFull"] = budget["diskFull"]
    BY FaultUses DEF CrashValidator, KeyGenInv, Typed, FaultKinds
  <1> QED BY <1>1, ValidatorDownStep DEF CrashValidator, KeyGenInv, Typed

\* A validator dies while it writes its key file.
LEMMA CrashInWriteStep == ASSUME KeyGenInv, NEW c \in calls, CrashInWrite(c) PROVE KeyGenInv'
  <1>1. budget' \in Budgets /\ budget'["diskFull"] = budget["diskFull"]
    BY FaultUses DEF CrashInWrite, KeyGenInv, Typed, FaultKinds
  <1>2. c.to \in Validator /\ broken' \subseteq Validator /\ mode \in {"local", "remote"}
    BY DEF CrashInWrite, KeyGenInv, Typed, Calls
  <1>3. CASE mode = "local"
    BY <1>1, <1>2, <1>3, ExitStep DEF CrashInWrite
  <1>4. CASE mode = "remote"
    BY <1>1, <1>2, <1>4, ValidatorDownStep DEF CrashInWrite, coordinatorVars
  <1> QED BY <1>2, <1>3, <1>4

\* The operator deletes all keys.
LEMMA OperatorRekeyStep == KeyGenInv /\ OperatorRekey => KeyGenInv'
  <1> SUFFICES ASSUME KeyGenInv, OperatorRekey PROVE KeyGenInv'
    OBVIOUS
  <1> USE DEF KeyGenInv
  <1>1. budget' \in Budgets /\ budget'["diskFull"] = budget["diskFull"]
    BY FaultUses DEF OperatorRekey, Typed, FaultKinds
  <1>2. /\ phase = "down" /\ broken' = {}
        /\ mem' = [v \in Validator |-> NoKey] /\ disk' = [v \in Validator |-> NoKey]
        /\ dkg' = [v \in Validator |-> 0] /\ received' = [v \in Validator |-> {}]
        /\ UNCHANGED <<mode, conduct, phase, session, answer, info, transcript, network, registry, calls>>
    BY DEF OperatorRekey, coordinatorVars
  <1>3. (\A s : Passed(s)' = Passed(s) /\ Frozen(s)' = Frozen(s)) /\ Gone' = Gone
    BY <1>2 DEF Passed, Frozen, Gone
  <1>4. Typed'
    BY <1>1, <1>2, KeyGenerationAssumption DEF Typed, Rounds
  <1>5. CallsInv' /\ TranscriptInv' /\ LocalInv' /\ BegunInv' /\ AnswerInv'
    BY <1>2, <1>3 DEF CallsInv, TranscriptInv, LocalInv, BegunInv, AnswerInv
  <1>6. StoreInv' /\ KeyInv'
    BY <1>2 DEF StoreInv, KeyInv, IsKeyOf, Typed
  <1>7. SupersededInv'
    BY <1>2 DEF SupersededInv, Sessions, NoKey
  <1>8. Unwritten' \subseteq Unwritten
    BY <1>2 DEF Unwritten, AnswerInv
  <1> QED BY <1>1, <1>4, <1>5, <1>6, <1>7, <1>8, UnwrittenShrinks DEF Typed

\* Every step keeps the invariant.
LEMMA InvNext == KeyGenInv /\ [Next]_vars => KeyGenInv'
  <1> SUFFICES ASSUME KeyGenInv, [Next]_vars PROVE KeyGenInv'
    OBVIOUS
  <1>1. CASE UNCHANGED vars
    <2>1. /\ Typed' /\ AnswerInv' /\ Unwritten' = Unwritten
          /\ UNCHANGED <<mode, conduct, phase, answer, session, transcript, network, calls, validatorVars, budget>>
      BY <1>1 DEF vars, coordinatorVars, validatorVars, KeyGenInv, Typed, AnswerInv, Unwritten
    <2> QED BY <2>1, QuietStep
  <1>2. CASE Coordinator
    BY <1>2, RestartStep, ConnectStep, NextRoundStep, InfoStep, SyncStep DEF Coordinator
  <1>3. CASE \E c \in calls : Handle(c)
    BY <1>3, HandleStep
  <1>4. CASE Faults
    BY <1>4, CrashCoordinatorStep, OperatorRekeyStep, TimeoutStep, CrashValidatorStep, CrashInWriteStep DEF Faults
  <1> QED BY <1>1, <1>2, <1>3, <1>4 DEF Next

--------------------------------------------------------------------------------
\* Requests and transcripts are of sessions that were begun, keys of sessions and
\* dealers that exist.
THEOREM TypeCorrect == Spec => []TypeOK
  <1>1. KeyGenInv /\ mode \in Modes /\ conduct \in Conducts => TypeOK
    BY DEF KeyGenInv, Typed, TypeOK, Transcripts, Calls, Budgets
  <1>2. Init => mode \in Modes /\ conduct \in Conducts
    BY DEF Init
  <1>3. (mode \in Modes /\ conduct \in Conducts) /\ [Next]_vars => (mode \in Modes /\ conduct \in Conducts)'
    BY DEF Next, vars, Coordinator, Faults, Handle, Restart, ConnectRemote, ConnectLocal, NextRound, Info, Sync,
           dkgBegin, dkgDeal, dkgReceive, dkgRespond, dkgFinalize, Reply,
           CrashCoordinator, OperatorRekey, Timeout, CrashValidator, CrashInWrite
  <1> QED BY <1>1, <1>2, <1>3, InvInit, InvNext, PTL DEF Spec

\* Shares of two keys never exist side by side, in memory or in files, whatever is
\* late, lost or restarted (services/validatorNetwork.ts, validator/localValidator.ts):
\* for any number of validators, sessions and faults.
THEOREM OneKeyOnly == Spec => []OneKey
  <1>1. KeyGenInv => OneKey
    <2> SUFFICES ASSUME KeyGenInv, NEW v \in Validator, NEW w \in Validator,
                        NEW j \in {mem[v], disk[v]}, NEW k \in {mem[w], disk[w]}, j # NoKey, k # NoKey
                 PROVE  j = k
      BY DEF OneKey
    <2>1. j \in Keys /\ k \in Keys /\ j.session \in Sessions /\ k.session \in Sessions
      BY DEF KeyGenInv, Typed, Keys
    <2>2. Passed(j.session) /\ Passed(k.session)
      BY DEF KeyGenInv, KeyInv, IsKeyOf, Passed
    <2>3. ~(j.session < k.session) /\ ~(k.session < j.session)
      BY <2>1, <2>2 DEF KeyGenInv, SupersededInv
    <2>4. j.session = k.session
      BY <2>1, <2>3 DEF Sessions
    <2>5. j.dealers = k.dealers
      BY <2>4 DEF KeyGenInv, KeyInv, IsKeyOf
    <2> QED BY <2>1, <2>4, <2>5 DEF Keys
  <1> QED BY <1>1, InvInit, InvNext, PTL DEF Spec

\* When the backend accepts requests, the validators table holds the keys it
\* serves (services/validatorService.ts).
THEOREM RegistryIsRight == Spec => []RegistryMatches
  <1>1. KeyGenInv => RegistryMatches
    BY DEF KeyGenInv, AnswerInv, RegistryMatches
  <1> QED BY <1>1, InvInit, InvNext, PTL DEF Spec

--------------------------------------------------------------------------------
\* The validators that will have the served key after any restart.
Holders == {v \in Validator : disk[v] = network}

\* Counting the validators that hold the served key.
LEMMA HoldersFinite ==
  /\ IsFiniteSet(Holders) /\ Cardinality(Holders) \in Nat
  /\ IsFiniteSet(Holders') /\ Cardinality(Holders') \in Nat
  /\ Holders \subseteq Holders' => Cardinality(Holders) <= Cardinality(Holders')
  /\ Holders' = Validator => Cardinality(Holders') >= Threshold
  BY KeyGenerationAssumption, ThresholdAssumption, FS_Subset, FS_CardinalityType DEF Holders

\* A key once served is overwritten in no file while it is served.
LEMMA ServingStep ==
  ASSUME KeyGenInv, [Next]_vars, phase \in {"sync", "serving"}, phase' \in {"sync", "serving"}
  PROVE  /\ Holders \subseteq Holders'
         /\ budget'["diskFull"] \in Nat /\ budget["diskFull"] \in Nat /\ budget'["diskFull"] <= budget["diskFull"]
  <1> USE DEF KeyGenInv
  <1>1. budget["diskFull"] \in Nat
    BY DEF Typed, Budgets, FaultKinds
  <1>2. SUFFICES /\ network' = network
                 /\ \A v \in Validator : disk[v] = network => disk'[v] = network
                 /\ budget' = budget \/ \E kind \in FaultKinds : Fault(kind)
    <2>1. Holders \subseteq Holders'
      BY DEF Holders
    <2>2. ASSUME NEW kind \in FaultKinds, Fault(kind)
          PROVE  budget'["diskFull"] \in Nat /\ budget'["diskFull"] <= budget["diskFull"]
      <3>1. budget' \in Budgets /\ budget'["diskFull"] \in {budget["diskFull"], budget["diskFull"] - 1}
        BY <2>2, FaultUses DEF Typed
      <3> QED BY <3>1, <1>1 DEF Budgets, FaultKinds
    <2> QED BY <2>1, <2>2, <1>1
  <1>3. CASE UNCHANGED vars
    BY <1>3 DEF vars, coordinatorVars, validatorVars
  <1>4. CASE Coordinator
    BY <1>4 DEF Coordinator, Restart, ConnectRemote, ConnectLocal, NextRound, Info, Sync, Rounds, validatorVars
  <1>5. ASSUME NEW c \in calls, Handle(c)
        PROVE  /\ network' = network
               /\ \A v \in Validator : disk[v] = network => disk'[v] = network
               /\ budget' = budget \/ \E kind \in FaultKinds : Fault(kind)
    <2>1. CASE dkgFinalize(c) /\ CanFinalize(c.to, c.session)
      <3>1. disk[c.to] = NoKey /\ network # NoKey
        BY <2>1, CanFinalizeFacts, NoKeyIsNone DEF dkgFinalize, Typed
      <3> QED BY <2>1, <3>1 DEF dkgFinalize, Reply, FaultKinds, Typed
    <2>2. CASE ~(dkgFinalize(c) /\ CanFinalize(c.to, c.session))
      BY <2>2, <1>5 DEF Handle, dkgBegin, dkgDeal, dkgReceive, dkgRespond, dkgFinalize, Reply
    <2> QED BY <2>1, <2>2
  <1>6. CASE Faults
    BY <1>6 DEF Faults, CrashCoordinator, OperatorRekey, Timeout, CrashValidator, CrashInWrite, Exit, Rounds, FaultKinds,
                coordinatorVars
  <1> QED BY <1>3, <1>4, <1>5, <1>6 DEF Next

\* The key comes from all files, from a session all finished, or from enough
\* validators that reported it.
LEMMA ServeHeld ==
  ASSUME KeyGenInv, [Next]_vars, phase \notin {"sync", "serving"}, phase' \in {"sync", "serving"}
  PROVE  Cardinality(Holders') + Cardinality(Unwritten) >= Threshold /\ UNCHANGED budget
  <1> USE DEF KeyGenInv
  <1>1. IsFiniteSet(Unwritten) /\ Cardinality(Unwritten) \in Nat /\ Threshold \in Nat
    BY KeyGenerationAssumption, ThresholdAssumption, FS_Subset, FS_CardinalityType DEF Unwritten
  <1>2. ConnectRemote \/ ConnectLocal \/ NextRound
    <2>1. ~UNCHANGED vars
      BY DEF vars, coordinatorVars
    <2>2. \A c \in calls : ~Handle(c)
      BY DEF Handle, dkgBegin, dkgDeal, dkgReceive, dkgRespond, dkgFinalize, Reply
    <2>3. ~Faults
      BY DEF Faults, CrashCoordinator, OperatorRekey, Timeout, CrashValidator, CrashInWrite, Exit, coordinatorVars
    <2> QED BY <2>1, <2>2, <2>3 DEF Next, Coordinator, Restart, Info, Sync
  <1>3. CASE ConnectRemote
    <2> DEFINE reachable == {v \in Validator : answer[v] = "ok"}
               keys == AgreedKeys([v \in reachable |-> info[v]])
    <2>1. /\ \E k \in Keys : keys = {k} /\ Cardinality(reachable) >= Threshold
          /\ Serve(CHOOSE k \in keys : TRUE) /\ UNCHANGED <<validatorVars, budget>>
      BY <1>3 DEF ConnectRemote, BeginDkg, Ask, Exit
    <2>2. PICK k \in Keys : keys = {k} /\ Cardinality(reachable) >= Threshold
      BY <2>1
    <2>3. network' = k /\ disk' = disk
      BY <2>1, <2>2 DEF Serve, validatorVars
    <2>4. \A v \in reachable : info[v] = k
      BY <2>2 DEF AgreedKeys
    <2>5. reachable \subseteq Holders' \cup Unwritten
      BY <2>3, <2>4, NoKeyIsNone DEF Holders, Unwritten
    <2>6. /\ IsFiniteSet(Holders' \cup Unwritten)
          /\ Cardinality(Holders' \cup Unwritten) <= Cardinality(Holders') + Cardinality(Unwritten)
      <3>1. /\ IsFiniteSet(Holders' \cup Unwritten) /\ IsFiniteSet(Holders' \cap Unwritten)
            /\ Cardinality(Holders' \cup Unwritten)
                 = Cardinality(Holders') + Cardinality(Unwritten) - Cardinality(Holders' \cap Unwritten)
        BY <1>1, HoldersFinite, FS_Union, FS_Intersection
      <3>2. Cardinality(Holders' \cap Unwritten) \in Nat
        BY <3>1, FS_CardinalityType
      <3> QED BY <3>1, <3>2, <1>1, HoldersFinite
    <2>7. /\ Cardinality(reachable) <= Cardinality(Holders' \cup Unwritten)
          /\ Cardinality(reachable) \in Nat /\ Cardinality(Holders' \cup Unwritten) \in Nat
      BY <2>5, <2>6, FS_Subset, FS_CardinalityType
    <2> HIDE DEF reachable
    <2> QED BY <2>1, <2>2, <2>6, <2>7, <1>1, HoldersFinite
  <1>4. CASE ConnectLocal
    <2>1. /\ \E k \in Keys : AgreedKeys(disk) = {k}
          /\ Serve(CHOOSE k \in AgreedKeys(disk) : TRUE) /\ UNCHANGED <<disk, budget>>
      BY <1>4 DEF ConnectLocal, BeginDkg, Ask, Exit
    <2>2. PICK k \in Keys : AgreedKeys(disk) = {k}
      BY <2>1
    <2>3. Holders' = Validator
      BY <2>1, <2>2 DEF Serve, AgreedKeys, Holders, Typed
    <2> QED BY <2>1, <2>3, <1>1, HoldersFinite
  <1>5. CASE NextRound
    <2> DEFINE Key == [session |-> session, dealers |-> Qualified(transcript[session])]
    <2>1. /\ phase = "finalize" /\ \A v \in Validator : answer[v] \notin {"none", "error"}
          /\ Serve(Key) /\ UNCHANGED <<validatorVars, budget>>
      BY <1>5 DEF NextRound, Ask, Exit
    <2>2. \A v \in Validator : answer[v] = "ok"
      BY <2>1 DEF Typed
    <2>3. \A v \in Validator : disk[v] = Key
      BY <2>1, <2>2 DEF AnswerInv
    <2>4. Holders' = Validator
      BY <2>1, <2>3 DEF Serve, Holders, validatorVars
    <2> QED BY <2>1, <2>4, <1>1, HoldersFinite
  <1> QED BY <1>2, <1>3, <1>4, <1>5

\* A served key is on the disk of Threshold validators but for those whose write
\* failed, from its start to the end of the backend (connectRemoteNetwork,
\* loadLocalNetwork, runDkg): decryption survives a restart of everything.
THEOREM ServedKeysAreHeld == Spec => []ServedKeyIsHeld
  <1>1. Init => ServedKeyIsHeld
    BY DEF Init, ServedKeyIsHeld
  <1>2. KeyGenInv /\ ServedKeyIsHeld /\ [Next]_vars => ServedKeyIsHeld'
    <2> SUFFICES ASSUME KeyGenInv, ServedKeyIsHeld, [Next]_vars, phase' \in {"sync", "serving"}
                 PROVE  Cardinality(Holders') + FaultBudget["diskFull"] - budget'["diskFull"] >= Threshold
      BY DEF ServedKeyIsHeld, Holders
    <2>1. /\ FaultBudget["diskFull"] \in Nat /\ Threshold \in Nat /\ budget["diskFull"] \in Nat
          /\ Cardinality(Unwritten) \in Nat
      BY KeyGenerationAssumption, ThresholdAssumption, FS_Subset, FS_CardinalityType
         DEF KeyGenInv, Typed, Budgets, FaultKinds, Unwritten
    <2>2. CASE phase \in {"sync", "serving"}
      <3>1. Cardinality(Holders) + FaultBudget["diskFull"] - budget["diskFull"] >= Threshold
        BY <2>2 DEF ServedKeyIsHeld, Holders
      <3> QED BY <2>1, <2>2, <3>1, ServingStep, HoldersFinite
    <2>3. CASE phase \notin {"sync", "serving"}
      <3>1. Cardinality(Unwritten) <= FaultBudget["diskFull"] - budget["diskFull"]
        BY DEF KeyGenInv, DiskInv
      <3> QED BY <2>1, <2>3, <3>1, ServeHeld, HoldersFinite
    <2> QED BY <2>2, <2>3
  <1> QED BY <1>1, <1>2, InvInit, InvNext, PTL DEF Spec

--------------------------------------------------------------------------------
(* Runs without failures.                                                     *)

\* A step with a fault shows in the budget for good.
LEMMA FaultShows ==
  ASSUME budget \in Budgets, budget["all"] <= FaultBudget["all"], NEW kind \in FaultKinds, Fault(kind)
  PROVE  budget'["all"] <= FaultBudget["all"] /\ budget' # FaultBudget
  <1>1. budget["all"] \in Nat /\ FaultBudget["all"] \in Nat
    BY KeyGenerationAssumption DEF Budgets
  <1> QED BY <1>1, FaultUses

\* Without a fault a step is the coordinator's, or a validator's that handles a
\* request, and no key was served before.
LEMMA SoundStepKinds ==
  ASSUME KeyGenInv, SoundInv, [Next]_vars
  PROVE  /\ budget'["all"] <= FaultBudget["all"]
         /\ Sound' => /\ Sound /\ UNCHANGED <<conduct, budget>>
                      /\ \/ UNCHANGED vars \/ Restart \/ ConnectRemote \/ ConnectLocal \/ NextRound
                         \/ \E v \in Validator : Info(v)
                         \/ \E c \in calls : Handle(c)
  <1>1. CASE \E kind \in FaultKinds : Fault(kind)
    BY <1>1, FaultShows DEF KeyGenInv, Typed, SoundInv, Sound
  <1>2. CASE ~\E kind \in FaultKinds : Fault(kind)
    <2>1. UNCHANGED <<conduct, budget>>
      BY <1>2 DEF Next, vars, Coordinator, Faults, Handle, Restart, ConnectRemote, ConnectLocal, NextRound, Info, Sync,
           dkgBegin, dkgDeal, dkgReceive, dkgRespond, dkgFinalize, Reply,
           CrashCoordinator, OperatorRekey, Timeout, CrashValidator, CrashInWrite, FaultKinds
    <2>2. ASSUME Sound' PROVE Sound
      BY <1>2, <2>1, <2>2 DEF Sound, Next, vars, coordinatorVars, Coordinator, Faults, Handle, Restart, ConnectRemote, ConnectLocal,
           NextRound, Info, Sync, dkgBegin, dkgDeal, dkgReceive, dkgRespond, dkgFinalize, Reply, Rounds,
           CrashCoordinator, OperatorRekey, Timeout, CrashValidator, CrashInWrite, FaultKinds
    <2>3. ASSUME Sound' PROVE ~Faults /\ \A v \in Validator : ~Sync(v)
      <3>1. broken = {} /\ Sound
        BY <2>2, <2>3 DEF SoundInv, SoundStore
      <3> QED BY <1>2, <3>1 DEF Sound, Faults, CrashCoordinator, OperatorRekey, Timeout, CrashValidator, CrashInWrite,
                                FaultKinds, Sync
    <2> QED BY <2>1, <2>2, <2>3 DEF SoundInv, Next, Coordinator
  <1> QED BY <1>1, <1>2

\* Steps that end before any key is made, at any point.
LEMMA SoundExit ==
  ASSUME KeyGenInv, Sound, SoundInv, Exit, UNCHANGED <<session, transcript, disk, broken>>,
         phase # "begin", phase = "finalize" => ~Enough(session)
  PROVE  SoundStore' /\ SoundRounds' /\ SoundCalls'
  <1>1. phase' = "down" /\ calls' \subseteq calls /\ \A v \in Validator : mem'[v] \in {mem[v], NoKey}
    BY DEF Exit
  <1>2. SoundStore /\ SoundRounds /\ SoundCalls
    BY DEF SoundInv
  <1>3. \A v \in Validator : mem[v] = NoKey /\ disk[v] = NoKey
    BY <1>2 DEF SoundStore, SoundRounds, KeyGenInv, StoreInv, Gone
  <1>4. SoundStore'
    BY <1>1, <1>2, <1>3 DEF SoundStore
  <1>5. SoundRounds'
    BY <1>1 DEF SoundRounds
  <1>6. SoundCalls'
    BY <1>1, <1>2 DEF SoundCalls, Enough
  <1> QED BY <1>4, <1>5, <1>6

\* Without faults so far, a new session begins at validators without keys.
LEMMA SoundConnect ==
  ASSUME KeyGenInv, Sound, Sound', SoundInv, ConnectRemote \/ ConnectLocal
  PROVE  SoundStore' /\ SoundRounds' /\ SoundCalls'
  <1>1. CASE BeginDkg /\ UNCHANGED validatorVars
    <2>1. /\ phase' = "begin" /\ session' = session + 1 /\ session \in Nat /\ transcript' = transcript
          /\ answer' = [v \in Validator |-> "none"] /\ phase = "connect"
          /\ calls' = calls \cup [to : Validator, round : {"begin"}, session : {session + 1}]
          /\ UNCHANGED <<mem, disk, broken>>
      BY <1>1 DEF BeginDkg, Ask, validatorVars, ConnectRemote, ConnectLocal, KeyGenInv, Typed
    <2>2. SoundStore /\ SoundRounds /\ SoundCalls
      BY DEF SoundInv
    <2>3. SoundStore' /\ SoundRounds'
      BY <2>1, <2>2 DEF SoundStore, SoundRounds
    <2>4. SoundCalls'
      BY <2>1, <2>2 DEF SoundCalls, Enough
    <2> QED BY <2>3, <2>4
  <1>2. CASE Exit /\ UNCHANGED <<session, transcript, registry, disk, broken>> /\ phase = "connect"
    BY <1>2, SoundExit
  <1> QED BY <1>1, <1>2 DEF ConnectRemote, ConnectLocal, Serve, Sound

\* Without faults so far, a round ends with the same outcome for all.
LEMMA SoundNextRound ==
  ASSUME KeyGenInv, Sound, Sound', SoundInv, NextRound
  PROVE  SoundStore' /\ SoundRounds' /\ SoundCalls'
  <1> DEFINE On(round) == Ask(round, session) /\ UNCHANGED <<session, info, transcript, network, registry, validatorVars>>
             Out == Exit /\ UNCHANGED <<session, transcript, registry, disk, broken>>
             AllOk == \A v \in Validator : answer[v] = "ok"
  <1>1. SoundStore /\ SoundRounds /\ SoundCalls /\ UNCHANGED conduct
    BY DEF SoundInv, NextRound
  <1>2. \/ phase = "begin" /\ AllOk /\ On("deal")
        \/ phase = "deal" /\ On("receive")
        \/ phase = "receive" /\ AllOk /\ On("respond")
        \/ phase = "respond" /\ On("finalize")
        \/ phase \in Rounds /\ Out /\ (phase \in {"begin", "finalize"} => \E v \in Validator : answer[v] = "error")
    <2>1. \A v \in Validator : answer[v] \in {"none", "ok", "error"}
      BY DEF KeyGenInv, Typed
    <2> QED BY <2>1 DEF NextRound, Serve, Sound
  <1>3. CASE Out /\ (phase \in {"begin", "finalize"} => \E v \in Validator : answer[v] = "error")
    BY <1>1, <1>3, SoundExit DEF SoundRounds
  <1>4. CASE \/ phase = "begin" /\ AllOk /\ On("deal")
             \/ phase = "deal" /\ On("receive")
             \/ phase = "receive" /\ AllOk /\ On("respond")
             \/ phase = "respond" /\ On("finalize")
    <2>1. PICK round \in {"deal", "receive", "respond", "finalize"} : On(round)
      BY <1>4
    <2>2. /\ phase' = round /\ answer' = [v \in Validator |-> "none"]
          /\ calls' = calls \cup [to : Validator, round : {round}, session : {session}]
          /\ UNCHANGED <<session, transcript, mem, disk, broken, dkg, received, conduct>>
      BY <1>1, <2>1 DEF Ask, validatorVars
    <2>3. \A v \in Validator : dkg[v] = session
      BY <1>1, <1>4 DEF SoundRounds
    <2>4. SoundStore'
      BY <1>1, <1>4, <2>2 DEF SoundStore
    <2>5. SoundRounds'
      <3>1. round \in {"respond", "finalize"} => \A v \in Validator : Checked(v)
        BY <1>1, <1>4, <2>2 DEF SoundRounds, Ask
      <3>2. \A v \in Validator : Checked(v) => Checked(v)'
        BY <2>2 DEF Checked, Wrong
      <3>3. \A v \in Validator : mem[v] = NoKey
        BY <1>1, <1>4 DEF SoundStore
      <3> QED BY <2>2, <2>3, <3>1, <3>2, <3>3 DEF SoundRounds
    <2>6. SoundCalls'
      <3> SUFFICES ASSUME NEW c \in calls'
                   PROVE  /\ c.round # "begin"
                          /\ c.round = "finalize" =>
                               IF phase' = "finalize" /\ c.session = session THEN dkg[c.to] = session ELSE ~Enough(c.session)
        BY <2>2 DEF SoundCalls, Enough
      <3>1. CASE c \in calls
        <4>1. c.round # "begin"
          BY <3>1, <1>1, <1>4 DEF SoundCalls, KeyGenInv, Typed, Calls
        <4>2. c.round = "finalize" => ~Enough(c.session)
          BY <3>1, <1>1, <1>4 DEF SoundCalls
        <4>3. c.to \in Validator
          BY <3>1 DEF KeyGenInv, Typed, Calls
        <4> QED BY <4>1, <4>2, <4>3, <2>3
      <3>2. CASE c \in [to : Validator, round : {round}, session : {session}]
        BY <3>2, <2>2, <2>3
      <3> QED BY <2>2, <3>1, <3>2
    <2> QED BY <2>4, <2>5, <2>6
  <1> QED BY <1>2, <1>3, <1>4

\* Whoever checked all shares can finalize exactly if enough dealers qualify: a
\* share that was not sent right was complained about, and revealed.
LEMMA CheckedCanFinalize ==
  ASSUME NEW v \in Validator, Checked(v), dkg[v] = session, transcript[session] \in Transcripts
  PROVE  CanFinalize(v, session) <=> Enough(session)
  <1>1. ASSUME NEW d \in Qualified(transcript[session])
        PROVE  d \in received[v] \/ <<d, v, "right">> \in transcript[session].reveals
    BY DEF Qualified, Checked
  <1> QED BY <1>1 DEF CanFinalize, Enough

\* What an answer leaves of the invariant when no session and no key changes.
LEMMA SoundPlain ==
  ASSUME KeyGenInv, Sound, SoundInv, NEW c \in calls, NEW outcome \in {"ok", "error"}, NEW found \in Transcripts,
         Reply(c, outcome, found),
         \/ found = NoTranscript
         \/ c.round = "deal"
         \/ c.round \in {"receive", "respond"} /\ found.dealt = {},
         UNCHANGED <<mem, disk, dkg, conduct>>,
         Waiting(c) => \/ c.round \in {"deal", "respond"}
                       \/ c.round = "receive" /\ (outcome = "ok" => Checked(c.to)')
                       \/ c.round = "finalize" /\ outcome = "error" /\ ~Enough(session),
         \A v \in Validator : Checked(v) /\ dkg[v] = session => received'[v] = received[v]
  PROVE  SoundStore' /\ SoundRounds' /\ SoundCalls'
  <1>1. /\ UNCHANGED <<phase, session, broken>>
        /\ c \in Calls /\ calls' = calls \ {c}
        /\ \A v \in Validator : answer'[v] = IF Waiting(c) /\ v = c.to THEN outcome ELSE answer[v]
        /\ \A s \in Sessions :
             /\ transcript'[s] # transcript[s] => s = session /\ phase \in {"deal", "receive", "respond"}
             /\ phase # "deal" => transcript'[s].dealt = transcript[s].dealt
             /\ transcript[s].complaints \subseteq transcript'[s].complaints
    BY ReplyFacts
  <1>2. SoundStore /\ SoundRounds /\ SoundCalls
    BY DEF SoundInv
  <1>3. SoundStore'
    BY <1>1, <1>2 DEF SoundStore
  <1>4. ASSUME NEW v \in Validator, Checked(v), dkg[v] = session, phase \in {"receive", "respond", "finalize"}
        PROVE  Checked(v)'
    <2>1. session \in Sessions
      BY <1>4 DEF KeyGenInv, Typed, Rounds
    <2>2. /\ transcript'[session].dealt = transcript[session].dealt
          /\ transcript[session].complaints \subseteq transcript'[session].complaints
      BY <2>1, <1>1, <1>4
    <2> QED BY <1>1, <1>4, <2>2 DEF Checked, Wrong
  <1>5. phase = "finalize" => Enough(session)' = Enough(session)
    BY <1>1 DEF Enough, KeyGenInv, Typed, Rounds
  <1>6. SoundRounds'
    <2> SUFFICES ASSUME NEW v \in Validator
                 PROVE  /\ phase = "begin" => answer'[v] # "error" /\ (answer'[v] = "ok" => dkg[v] = session)
                        /\ phase \in {"deal", "receive", "respond"} => dkg[v] = session
                        /\ (phase = "receive" /\ answer'[v] = "ok") \/ phase = "respond" => Checked(v)'
                        /\ phase = "finalize" =>
                             /\ dkg[v] = session => Checked(v)'
                             /\ answer'[v] = "error" => ~Enough(session)'
                             /\ mem[v] # NoKey => Enough(session)'
      BY <1>1 DEF SoundRounds
    <2>1. phase = "begin" => answer'[v] = answer[v]
      BY <1>1 DEF Waiting
    <2>2. phase = "finalize" => answer'[v] = answer[v] \/ ~Enough(session)
      BY <1>1 DEF Waiting
    <2>3. phase = "receive" /\ answer'[v] = "ok" => answer[v] = "ok" \/ Checked(v)'
      BY <1>1 DEF Waiting
    <2> QED BY <1>2, <1>4, <1>5, <2>1, <2>2, <2>3 DEF SoundRounds
  <1>7. SoundCalls'
    <2> SUFFICES ASSUME NEW d \in calls, d # c
                 PROVE  /\ d.round = "begin" => phase = "begin" /\ d.session = session /\ answer'[d.to] = "none"
                        /\ d.round = "finalize" =>
                             IF phase = "finalize" /\ d.session = session THEN dkg[d.to] = session ELSE ~Enough(d.session)'
      BY <1>1 DEF SoundCalls
    <2>1. d \in Calls /\ d.to \in Validator /\ d.session \in Sessions
      BY DEF KeyGenInv, Typed, Calls
    <2>2. phase = "begin" => answer'[d.to] = answer[d.to]
      BY <1>1, <2>1 DEF Waiting
    <2>3. d.round = "finalize" => Enough(d.session)' = Enough(d.session)
      <3> SUFFICES ASSUME d.round = "finalize" PROVE transcript'[d.session] = transcript[d.session]
        BY DEF Enough
      <3>1. Frozen(d.session)
        BY DEF KeyGenInv, CallsInv
      <3> QED BY <3>1, <2>1, <1>1 DEF Frozen, KeyGenInv, Typed, Sessions
    <2> QED BY <1>2, <2>2, <2>3 DEF SoundCalls
  <1> QED BY <1>3, <1>6, <1>7

\* Every begin request is awaited, and none is refused.
LEMMA SoundBegin ==
  ASSUME KeyGenInv, Sound, SoundInv, NEW c \in calls, dkgBegin(c), UNCHANGED conduct
  PROVE  SoundStore' /\ SoundRounds' /\ SoundCalls'
  <1>1. SoundStore /\ SoundRounds /\ SoundCalls
    BY DEF SoundInv
  <1>2. /\ c \in Calls /\ c.to \in Validator /\ c.round = "begin"
        /\ phase = "begin" /\ c.session = session /\ answer[c.to] = "none" /\ Waiting(c)
    BY <1>1 DEF SoundCalls, dkgBegin, Waiting, KeyGenInv, Typed, Calls
  <1>3. /\ dkg' = [dkg EXCEPT ![c.to] = session] /\ Reply(c, "ok", NoTranscript)
        /\ UNCHANGED <<mem, disk>>
    BY <1>1, <1>2 DEF SoundStore, dkgBegin, MayBegin
  <1>4. /\ UNCHANGED <<phase, session, broken, transcript>> /\ calls' = calls \ {c}
        /\ \A v \in Validator : answer'[v] = IF v = c.to THEN "ok" ELSE answer[v]
    BY <1>2, <1>3, NoTranscriptType, ReplyFacts
  <1>5. \A v \in Validator : dkg'[v] = IF v = c.to THEN session ELSE dkg[v]
    BY <1>3 DEF KeyGenInv, Typed
  <1>6. SoundStore' /\ SoundRounds'
    BY <1>1, <1>2, <1>3, <1>4, <1>5 DEF SoundStore, SoundRounds
  <1>7. SoundCalls'
    <2> SUFFICES ASSUME NEW d \in calls, d # c
                 PROVE  /\ d.round = "begin" => d.session = session /\ answer'[d.to] = "none"
                        /\ d.round = "finalize" => ~Enough(d.session)
      BY <1>2, <1>4 DEF SoundCalls, Enough
    <2>1. d \in Calls
      BY DEF KeyGenInv, Typed
    <2>2. d.round = "begin" => d.session = session /\ answer[d.to] = "none" /\ d.to # c.to
      BY <1>1, <1>2, <2>1 DEF SoundCalls, Calls
    <2> QED BY <1>1, <1>2, <1>4, <2>1, <2>2 DEF SoundCalls, Calls
  <1> QED BY <1>6, <1>7

\* Without faults so far, a validator has the shares that were sent right, and complains
\* about the others.
LEMMA SoundReceive ==
  ASSUME KeyGenInv, Sound, SoundInv, NEW c \in calls, dkgReceive(c), UNCHANGED conduct
  PROVE  SoundStore' /\ SoundRounds' /\ SoundCalls'
  <1> DEFINE v == c.to
             s == c.session
             found == [NoTranscript EXCEPT !.complaints = Complaints(v, s)]
  <1>1. /\ c \in Calls /\ v \in Validator /\ s \in Sessions /\ transcript[s] \in Transcripts
        /\ c.round = "receive" /\ UNCHANGED <<mem, disk, dkg>>
    BY DEF KeyGenInv, Typed, Calls, dkgReceive
  <1>2. found \in Transcripts /\ found.dealt = {} /\ found.complaints = Complaints(v, s)
    BY <1>1 DEF NoTranscript, Transcripts, Complaints, Wrong
  <1>3. \A w \in Validator : Checked(w) /\ dkg[w] = session => received'[w] = received[w]
    BY DEF dkgReceive, Checked, KeyGenInv, Typed
  <1>4. Waiting(c) => dkg[v] = session /\ s = session /\ phase = "receive"
    BY <1>1 DEF Waiting, SoundInv, SoundRounds
  <1>5. CASE Reply(c, "error", NoTranscript)
    BY <1>1, <1>3, <1>5, NoTranscriptType, SoundPlain
  <1>6. CASE Reply(c, "ok", NoTranscript) /\ dkg[v] \notin {0, s}
    BY <1>1, <1>3, <1>4, <1>6, NoTranscriptType, SoundPlain
  <1>7. CASE Reply(c, "ok", found) /\ received' = [received EXCEPT ![v] = transcript[s].dealt \ Wrong(v, s)]
    <2>1. Waiting(c) => Checked(v)'
      <3> SUFFICES ASSUME Waiting(c) PROVE Checked(v)'
        OBVIOUS
      <3>1. /\ session' = session /\ transcript'[s].dealt = transcript[s].dealt
            /\ Complaints(v, s) \subseteq transcript'[s].complaints
        <4> HIDE DEF found
        <4> QED BY <1>1, <1>2, <1>4, <1>7, ReplyFacts
      <3>2. Wrong(v, s)' = Wrong(v, s)
        BY <3>1 DEF Wrong
      <3>3. received'[v] = transcript'[s].dealt \ Wrong(v, s)
        BY <1>1, <1>7, <3>1 DEF KeyGenInv, Typed
      <3> QED BY <1>4, <3>1, <3>2, <3>3 DEF Checked, Complaints
    <2> HIDE DEF found
    <2> QED BY <1>1, <1>2, <1>3, <1>7, <2>1, SoundPlain
  <1> QED BY <1>5, <1>6, <1>7 DEF dkgReceive

\* Without faults so far, the last round gives a key to all or to none.
LEMMA SoundFinalize ==
  ASSUME KeyGenInv, Sound, Sound', SoundInv, NEW c \in calls, dkgFinalize(c), UNCHANGED <<conduct, budget>>
  PROVE  SoundStore' /\ SoundRounds' /\ SoundCalls'
  <1>1. SoundStore /\ SoundRounds /\ SoundCalls
    BY DEF SoundInv
  <1>2. c \in Calls /\ c.round = "finalize" /\ c.to \in Validator /\ c.session \in Sessions /\ 0 \notin Sessions
        /\ transcript[c.session] \in Transcripts
    BY DEF dkgFinalize, KeyGenInv, Typed, Calls, Sessions
  <1>3. CanFinalize(c.to, c.session) => phase = "finalize" /\ c.session = session
    BY <1>1, <1>2 DEF SoundCalls, CanFinalize, Enough
  <1>4. phase = "finalize" /\ c.session = session =>
          /\ dkg[c.to] = session /\ Checked(c.to)
          /\ CanFinalize(c.to, c.session) <=> Enough(session)
    BY <1>1, <1>2, CheckedCanFinalize DEF SoundCalls, SoundRounds
  <1>5. CASE ~CanFinalize(c.to, c.session)
    <2>1. Reply(c, "error", NoTranscript) /\ UNCHANGED <<mem, dkg, received, disk>>
      BY <1>5 DEF dkgFinalize
    <2>2. Waiting(c) => ~Enough(session)
      BY <1>2, <1>4, <1>5 DEF Waiting
    <2> QED BY <1>2, <2>1, <2>2, NoTranscriptType, SoundPlain
  <1>6. CASE CanFinalize(c.to, c.session)
    <2>1. /\ phase = "finalize" /\ c.session = session /\ Enough(session)
          /\ dkg' = [dkg EXCEPT ![c.to] = 0] /\ received' = [received EXCEPT ![c.to] = {}]
          /\ mem' = [mem EXCEPT ![c.to] = [session |-> c.session, dealers |-> Qualified(transcript[c.session])]]
      BY <1>3, <1>4, <1>6 DEF dkgFinalize
    <2>2. Reply(c, "ok", NoTranscript)
      <3>1. ~Fault("diskFull")
        BY FaultShows DEF SoundInv, KeyGenInv, Typed, FaultKinds, Sound
      <3> QED BY <1>6, <3>1 DEF dkgFinalize
    <2>3. /\ UNCHANGED <<phase, session, broken, transcript>> /\ calls' = calls \ {c}
          /\ \A v \in Validator : answer'[v] = answer[v] \/ answer'[v] = "ok"
      BY <2>2, NoTranscriptType, ReplyFacts
    <2>4. SoundStore'
      BY <1>1, <2>1, <2>3 DEF SoundStore
    <2>5. SoundRounds'
      <3> SUFFICES ASSUME NEW v \in Validator
                   PROVE  /\ dkg'[v] = session => Checked(v)'
                          /\ answer'[v] # "error"
        BY <2>1, <2>3 DEF SoundRounds, Enough
      <3>1. answer'[v] # "error"
        BY <1>1, <2>1, <2>3 DEF SoundRounds
      <3>2. CASE v = c.to
        BY <3>1, <3>2, <1>2, <2>1 DEF KeyGenInv, Typed
      <3>3. CASE v # c.to
        BY <3>1, <3>3, <1>1, <2>1, <2>3 DEF SoundRounds, Checked, Wrong, KeyGenInv, Typed
      <3> QED BY <3>2, <3>3
    <2>6. SoundCalls'
      <3> SUFFICES ASSUME NEW d \in calls, d # c
                   PROVE  /\ d.round # "begin"
                          /\ d.round = "finalize" => IF d.session = session THEN dkg'[d.to] = session ELSE ~Enough(d.session)
        BY <2>1, <2>3 DEF SoundCalls, Enough
      <3>1. d \in Calls /\ (d.round = "finalize" /\ d.session = session => d.to # c.to)
        BY <1>2, <2>1 DEF KeyGenInv, Typed, Calls
      <3> QED BY <1>1, <2>1, <3>1 DEF SoundCalls, KeyGenInv, Typed, Calls
    <2> QED BY <2>4, <2>5, <2>6
  <1> QED BY <1>5, <1>6

\* Without faults so far, every handler keeps a session's fate common to all.
LEMMA SoundHandle ==
  ASSUME KeyGenInv, Sound, Sound', SoundInv, NEW c \in calls, Handle(c), UNCHANGED <<conduct, budget>>
  PROVE  SoundStore' /\ SoundRounds' /\ SoundCalls'
  <1>1. CASE dkgDeal(c)
    <2>1. [NoTranscript EXCEPT !.dealt = {c.to}] \in Transcripts
      BY DEF NoTranscript, Transcripts, KeyGenInv, Typed, Calls
    <2> QED BY <1>1, <2>1, NoTranscriptType, SoundPlain DEF dkgDeal
  <1>2. CASE dkgRespond(c)
    <2> DEFINE found == [NoTranscript EXCEPT !.reveals = Reveals(c.to, c.session)]
    <2>1. found \in Transcripts /\ found.dealt = {}
      <3>1. c.to \in Validator
        BY DEF KeyGenInv, Typed, Calls
      <3> QED BY <3>1, RevealsType DEF NoTranscript, Transcripts
    <2>2. c.round = "respond" /\ UNCHANGED <<mem, disk, dkg, received>>
          /\ (Reply(c, "error", NoTranscript) \/ Reply(c, "ok", NoTranscript) \/ Reply(c, "ok", found))
      BY <1>2 DEF dkgRespond
    <2> QED BY <2>1, <2>2, NoTranscriptType, SoundPlain
  <1> QED BY <1>1, <1>2, SoundBegin, SoundReceive, SoundFinalize DEF Handle

\* Without failures no key is left on a part of the network: dealers that cheat
\* make a session fail for all validators or for none (crypto/dkg.ts, runDkg).
THEOREM KeysForAllOrNone == Spec => []NoPartialKeys
  <1>1. Init => SoundInv
    <2> SUFFICES ASSUME Init PROVE SoundInv
      OBVIOUS
    <2>1. budget["all"] <= FaultBudget["all"]
      BY KeyGenerationAssumption DEF Init
    <2>2. SoundStore /\ SoundRounds /\ SoundCalls
      BY DEF Init, SoundStore, SoundRounds, SoundCalls
    <2> QED BY <2>1, <2>2 DEF SoundInv
  <1>2. KeyGenInv /\ SoundInv /\ [Next]_vars => SoundInv'
    <2> SUFFICES ASSUME KeyGenInv, SoundInv, [Next]_vars, Sound'
                 PROVE  SoundStore' /\ SoundRounds' /\ SoundCalls'
      BY SoundStepKinds DEF SoundInv
    <2>1. Sound /\ UNCHANGED <<conduct, budget>> /\ SoundStore /\ SoundRounds /\ SoundCalls
      BY SoundStepKinds DEF SoundInv
    <2>2. CASE Restart \/ UNCHANGED vars \/ \E v \in Validator : Info(v)
      <3>1. /\ UNCHANGED <<session, transcript, calls, mem, disk, broken, dkg, received>>
            /\ \/ UNCHANGED <<phase, answer>>
               \/ phase \in {"down", "connect"} /\ phase' = "connect"
        BY <2>2 DEF Restart, Info, vars, coordinatorVars, validatorVars
      <3>2. SoundStore' /\ SoundRounds'
        BY <2>1, <3>1 DEF SoundStore, SoundRounds, Checked, Wrong, Enough
      <3>3. SoundCalls'
        BY <2>1, <3>1 DEF SoundCalls, Enough
      <3> QED BY <3>2, <3>3
    <2> QED BY <2>1, <2>2, SoundStepKinds, SoundConnect, SoundNextRound, SoundHandle
  <1>3. SoundInv => NoPartialKeys
    BY DEF SoundInv, Sound, SoundStore, NoPartialKeys
  <1> QED BY <1>1, <1>2, <1>3, InvInit, InvNext, PTL DEF Spec
=============================================================================
