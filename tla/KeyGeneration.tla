----------------------------- MODULE KeyGeneration -----------------------------
(***************************************************************************)
(* How the validators come to hold shares of one group key, and how the    *)
(* backend finds or creates that key when it starts:                       *)
(*   - the coordinator: initValidatorNetwork, connectRemoteNetwork,        *)
(*     createLocalNetwork, loadLocalNetwork and runDkg                     *)
(*     (services/validatorNetwork.ts), syncValidatorRegistry               *)
(*     (services/validatorService.ts) and start (index.ts);                *)
(*   - a validator: LocalValidator's DKG handlers and key file             *)
(*     (validator/localValidator.ts, main.ts), DkgParticipant and          *)
(*     computePublicResult (crypto/dkg.ts).                                *)
(*                                                                         *)
(* A round of runDkg is one request to every validator.  Over HTTP a       *)
(* request may be given up after TIMEOUT_MS and still be handled later, in *)
(* another session, or after the coordinator or the validator restarted.   *)
(* Dealers may send wrong shares, lie when accused, or leave shares out.   *)
(* The coordinator routes what it gets.                                    *)
(*                                                                         *)
(* Data is abstract: a share is right or wrong, a key is the session that  *)
(* made it and the dealers summed up in it.  ThresholdMath has the         *)
(* arithmetic; the shares of value zero it meets are left out here.        *)
(***************************************************************************)
EXTENDS Naturals, FiniteSets

CONSTANTS
    Validator,
    Threshold,
    Modes,          \* a subset of {"local", "remote"}: cluster file set or not
    Conducts,       \* how the dealers may behave, see ConductType
    MaxSessions,    \* bound: sessions of key generation
    FaultBudget     \* bound: number of faults of each kind, and of all

ASSUME ThresholdAssumption == Threshold \in 1 .. Cardinality(Validator)

VARIABLES
    mode, conduct,     \* fixed at the start
    phase,             \* where the coordinator's start() is
    session,           \* the last session it began
    answer,            \* the validators' answers in the current round
    info,              \* the keys they reported
    transcript,        \* what each session's rounds collected
    calls,             \* requests that are not handled yet
    network,           \* the key the backend serves
    registry,          \* the validators table
    mem, disk,         \* each validator's key, in memory and in its file
    broken,            \* validators that do not start: their key file is cut off
    dkg, received,     \* each validator's session, and the shares it checked
    budget             \* faults left

validatorVars == <<mem, disk, broken, dkg, received>>
coordinatorVars == <<phase, session, answer, info, transcript, network, registry>>
vars == <<mode, conduct, coordinatorVars, calls, validatorVars, budget>>

Rounds == {"begin", "deal", "receive", "respond", "finalize"}
Phases == Rounds \cup {"down", "connect", "sync", "serving"}
FaultKinds == {"timeout", "validatorCrash", "coordinatorCrash", "diskFull", "tornWrite", "rekey"}

Sessions == 1 .. MaxSessions
NoKey == [session |-> 0, dealers |-> {}]
Keys == [session : Sessions, dealers : SUBSET Validator]
NoTranscript == [dealt |-> {}, complaints |-> {}, reveals |-> {}]

\* corruptSharesTo and lieOnReveal are DkgFaults; withholds are recipients to
\* whom a dealer encrypts nothing.
ConductType ==
    [corruptSharesTo : [Validator -> SUBSET Validator],
     withholds       : [Validator -> SUBSET Validator],
     lieOnReveal     : SUBSET Validator]

ASSUME KeyGenerationAssumption ==
    /\ IsFiniteSet(Validator) /\ MaxSessions \in Nat
    /\ Modes \subseteq {"local", "remote"} /\ Conducts \subseteq ConductType
    /\ FaultBudget \in [FaultKinds \cup {"all"} -> Nat]

Init ==
    /\ mode \in Modes /\ conduct \in Conducts
    /\ phase = "down" /\ session = 0
    /\ answer = [v \in Validator |-> "none"] /\ info = [v \in Validator |-> NoKey]
    /\ transcript = [s \in Sessions |-> NoTranscript]
    /\ calls = {} /\ network = NoKey /\ registry = [v \in Validator |-> NoKey]
    /\ mem = [v \in Validator |-> NoKey] /\ disk = mem /\ broken = {}
    /\ dkg = [v \in Validator |-> 0] /\ received = [v \in Validator |-> {}]
    /\ budget = FaultBudget

Fault(kind) ==
    /\ budget[kind] > 0 /\ budget["all"] > 0
    /\ budget' = [budget EXCEPT ![kind] = @ - 1, !["all"] = @ - 1]

------------------------------------------------------------------------------
(* computePublicResult: what every participant derives from a transcript.   *)

\* Mutant: complaints do not disqualify.
QualifiedDespiteComplaints(t) == t.dealt

\* Dealers with commitments whose complainers were all answered with a share
\* that matches.
Qualified(t) ==
    {d \in t.dealt : \A c \in Validator : <<c, d>> \in t.complaints => <<d, c, "right">> \in t.reveals}

------------------------------------------------------------------------------
(* The coordinator.                                                         *)

\* The whole process exits; in-process validators go with it.
Exit ==
    /\ phase' = "down"
    /\ network' = NoKey
    /\ answer' = [v \in Validator |-> "none"] /\ info' = [v \in Validator |-> NoKey]
    /\ IF mode = "remote" THEN UNCHANGED <<mem, dkg, received, calls>>
       ELSE /\ mem' = [v \in Validator |-> NoKey] /\ dkg' = [v \in Validator |-> 0]
            /\ received' = [v \in Validator |-> {}] /\ calls' = {}

Ask(round, s) ==
    /\ phase' = round
    /\ answer' = [v \in Validator |-> "none"]
    /\ calls' = calls \cup [to : Validator, round : {round}, session : {s}]

\* The supervisor starts the backend (again): start() calls
\* syncValidatorRegistry, which calls initValidatorNetwork.
Restart ==
    /\ phase = "down"
    /\ phase' = "connect"
    /\ UNCHANGED <<mode, conduct, session, answer, info, transcript, network, registry, calls, validatorVars, budget>>

\* info() of one validator, reachable or not.
Info(v) ==
    /\ phase = "connect" /\ mode = "remote" /\ answer[v] = "none"
    /\ \/ /\ v \notin broken
          /\ answer' = [answer EXCEPT ![v] = "ok"]
          /\ info' = [info EXCEPT ![v] = mem[v]]
          /\ UNCHANGED budget
       \/ /\ IF v \in broken THEN UNCHANGED budget ELSE Fault("timeout")
          /\ answer' = [answer EXCEPT ![v] = "error"]
          /\ UNCHANGED info
    /\ UNCHANGED <<mode, conduct, phase, session, transcript, network, registry, calls, validatorVars>>

\* Mutant: the requests carry the last session's id.
BeginDkgOldId ==
    /\ session < MaxSessions
    /\ session' = session + 1
    /\ Ask("begin", session)
    /\ info' = [v \in Validator |-> NoKey]
    /\ UNCHANGED <<transcript, network, registry>>

\* runDkg with a fresh session id.
BeginDkg ==
    /\ session < MaxSessions
    /\ session' = session + 1
    /\ Ask("begin", session + 1)
    /\ info' = [v \in Validator |-> NoKey]
    /\ UNCHANGED <<transcript, network, registry>>

Serve(key) ==
    /\ phase' = "sync"
    /\ network' = key
    /\ answer' = [v \in Validator |-> "none"] /\ info' = [v \in Validator |-> NoKey]
    /\ UNCHANGED <<session, transcript, registry, calls>>

\* Mutant: keys are reused when the ones that have a key agree.
AgreedKeysPartial(known) ==
    LET found == {known[v] : v \in DOMAIN known} \ {NoKey} IN IF found = {} THEN {NoKey} ELSE found

\* The keys found; one means that all found agree.
AgreedKeys(known) == {known[v] : v \in DOMAIN known}

\* connectRemoteNetwork once every info() has settled: run the DKG if nobody has
\* a key and all are reachable, use the one key all reachable hold if they
\* are enough, refuse everything else.
ConnectRemote ==
    /\ phase = "connect" /\ mode = "remote" /\ \A v \in Validator : answer[v] # "none"
    /\ LET reachable == {v \in Validator : answer[v] = "ok"}
           keys == AgreedKeys([v \in reachable |-> info[v]])
       IN  IF keys = {NoKey} /\ reachable = Validator THEN BeginDkg /\ UNCHANGED validatorVars
           ELSE IF \E k \in Keys : keys = {k} /\ Cardinality(reachable) >= Threshold
           THEN Serve(CHOOSE k \in keys : TRUE) /\ UNCHANGED validatorVars
           ELSE Exit /\ UNCHANGED <<session, transcript, registry, disk, broken>>
    /\ UNCHANGED <<mode, conduct, budget>>

\* loadLocalNetwork, and createLocalNetwork if there is no key file.
ConnectLocal ==
    /\ phase = "connect" /\ mode = "local"
    /\ LET keys == AgreedKeys(disk)
       IN  IF broken = {} /\ keys = {NoKey} THEN BeginDkg /\ UNCHANGED validatorVars
           ELSE IF broken = {} /\ \E k \in Keys : keys = {k}
           THEN /\ Serve(CHOOSE k \in keys : TRUE)
                /\ mem' = disk /\ UNCHANGED <<disk, broken, dkg, received>>
           ELSE Exit /\ UNCHANGED <<session, transcript, registry, disk, broken>>
    /\ UNCHANGED <<mode, conduct, budget>>

\* Promise.all of a round: on to the next when all answered, out at the first
\* rejection.  Dealing is Promise.allSettled: the rejected are not dealers.
NextRound ==
    /\ phase \in Rounds
    /\ LET failed == {v \in Validator : answer[v] = "error"}
           settled == \A v \in Validator : answer[v] # "none"
           enough == Cardinality(transcript[session].dealt) >= Threshold
           On(round) == Ask(round, session) /\ UNCHANGED <<session, info, transcript, network, registry, validatorVars>>
           Out == Exit /\ UNCHANGED <<session, transcript, registry, disk, broken>>
       IN  \/ phase = "begin" /\ failed = {} /\ settled /\ On("deal")
           \/ phase = "deal" /\ settled /\ enough /\ On("receive")
           \/ phase = "deal" /\ settled /\ ~enough /\ Out
           \/ phase = "receive" /\ failed = {} /\ settled /\ On("respond")
           \/ phase = "respond" /\ failed = {} /\ settled /\ On("finalize")
           \/ /\ phase = "finalize" /\ failed = {} /\ settled
              /\ Serve([session |-> session, dealers |-> Qualified(transcript[session])])
              /\ UNCHANGED validatorVars
           \/ phase # "deal" /\ failed # {} /\ Out
    /\ UNCHANGED <<mode, conduct, budget>>

\* Mutant: rows are created, never updated.
RowOnce(row) == IF row = NoKey THEN network ELSE row

\* The row is created, or updated if it holds another key.
Row(row) == IF row = network THEN row ELSE network

\* One pass of syncValidatorRegistry's loop; after the last one the server listens.
Sync(v) ==
    /\ phase = "sync" /\ answer[v] = "none"
    /\ registry' = [registry EXCEPT ![v] = Row(@)]
    /\ answer' = [answer EXCEPT ![v] = "ok"]
    /\ phase' = IF \A w \in Validator \ {v} : answer[w] = "ok" THEN "serving" ELSE "sync"
    /\ UNCHANGED <<mode, conduct, session, info, transcript, network, calls, validatorVars, budget>>

------------------------------------------------------------------------------
(* A validator handles a request.                                           *)

Waiting(c) == phase = c.round /\ session = c.session /\ answer[c.to] = "none"

\* The answer reaches the coordinator if it still waits for it, and then brings
\* what it adds to the session's transcript.
Reply(c, outcome, found) ==
    /\ calls' = calls \ {c}
    /\ answer' = IF Waiting(c) THEN [answer EXCEPT ![c.to] = outcome] ELSE answer
    /\ transcript' =
         IF Waiting(c) /\ outcome = "ok"
         THEN [transcript EXCEPT ![c.session] =
                 [dealt      |-> @.dealt \cup found.dealt,
                  complaints |-> @.complaints \cup found.complaints,
                  reveals    |-> @.reveals \cup found.reveals]]
         ELSE transcript
    /\ UNCHANGED <<mode, conduct, phase, session, info, network, registry, broken>>

MayBegin(v) == mem[v] = NoKey

dkgBegin(c) ==
    LET v == c.to
    IN  /\ c.round = "begin"
        /\ IF MayBegin(v)
           THEN /\ dkg' = [dkg EXCEPT ![v] = c.session]
                /\ received' = [received EXCEPT ![v] = {}]
                /\ Reply(c, "ok", NoTranscript)
           ELSE UNCHANGED <<dkg, received>> /\ Reply(c, "error", NoTranscript)
        /\ UNCHANGED <<mem, disk, budget>>

\* Transport keys of another session are not valid: refuse to deal.
dkgDeal(c) ==
    /\ c.round = "deal"
    /\ IF dkg[c.to] = c.session
       THEN Reply(c, "ok", [NoTranscript EXCEPT !.dealt = {c.to}])
       ELSE Reply(c, "error", NoTranscript)
    /\ UNCHANGED <<mem, disk, dkg, received, budget>>

\* deal: a corrupted share does not match its dealer's commitments.
Wrong(v, s) == {d \in transcript[s].dealt : v \in conduct.corruptSharesTo[d]}

\* receive: dealers with commitments and without a share for v.
Missing(v, s) == {d \in transcript[s].dealt : v \in conduct.withholds[d]}

\* receive: what v complains about; the other shares are kept.
Complaints(v, s) == {<<v, d>> : d \in Wrong(v, s)}

\* Messages of another session are dropped, so there is nothing to complain
\* about.  A missing share aborts, a wrong one is complained about.
dkgReceive(c) ==
    LET v == c.to
        missing == Missing(v, c.session)
    IN  /\ c.round = "receive"
        /\ \/ /\ dkg[v] = 0 \/ (dkg[v] = c.session /\ missing # {})
              /\ Reply(c, "error", NoTranscript) /\ UNCHANGED received
           \/ /\ dkg[v] \notin {0, c.session}
              /\ Reply(c, "ok", NoTranscript) /\ UNCHANGED received
           \/ /\ dkg[v] = c.session /\ missing = {}
              /\ received' = [received EXCEPT ![v] = transcript[c.session].dealt \ Wrong(v, c.session)]
              /\ Reply(c, "ok", [NoTranscript EXCEPT !.complaints = Complaints(v, c.session)])
        /\ UNCHANGED <<mem, disk, dkg, budget>>

\* respond: an accused dealer publishes the share, or a wrong one.
Reveals(v, s) ==
    LET said == IF v \in conduct.lieOnReveal THEN "wrong" ELSE "right"
    IN  {<<v, a, said>> : a \in {a \in Validator : <<a, v>> \in transcript[s].complaints}}

dkgRespond(c) ==
    LET v == c.to
    IN  /\ c.round = "respond"
        /\ CASE dkg[v] = 0 -> Reply(c, "error", NoTranscript)
             [] dkg[v] = c.session -> Reply(c, "ok", [NoTranscript EXCEPT !.reveals = Reveals(v, c.session)])
             [] OTHER -> Reply(c, "ok", NoTranscript)
        /\ UNCHANGED <<mem, disk, dkg, received, budget>>

\* Mutant: a transcript of another session is taken too.
CanFinalizeAnySession(v, s) == dkg[v] # 0 /\ transcript[s].dealt # {}

\* finalize finds a share of every qualified dealer.  A transcript of another
\* session is empty after verifyTranscript: nobody qualifies.
CanFinalize(v, s) ==
    LET t == transcript[s]
    IN  /\ dkg[v] = s
        /\ Cardinality(Qualified(t)) >= Threshold
        /\ \A d \in Qualified(t) : d \in received[v] \/ <<d, v, "right">> \in t.reveals

\* The key is in memory before the file is written; the write may throw.
dkgFinalize(c) ==
    LET v == c.to
        key == [session |-> c.session, dealers |-> Qualified(transcript[c.session])]
    IN  /\ c.round = "finalize"
        /\ IF CanFinalize(v, c.session)
           THEN /\ mem' = [mem EXCEPT ![v] = key]
                /\ dkg' = [dkg EXCEPT ![v] = 0] /\ received' = [received EXCEPT ![v] = {}]
                /\ \/ /\ disk' = [disk EXCEPT ![v] = key]
                      /\ Reply(c, "ok", NoTranscript) /\ UNCHANGED budget
                   \/ /\ Fault("diskFull") /\ UNCHANGED disk
                      /\ Reply(c, "error", NoTranscript)
           ELSE Reply(c, "error", NoTranscript) /\ UNCHANGED <<mem, dkg, received, disk, budget>>

Handle(c) ==
    /\ c \in calls /\ c.to \notin broken
    /\ dkgBegin(c) \/ dkgDeal(c) \/ dkgReceive(c) \/ dkgRespond(c) \/ dkgFinalize(c)

------------------------------------------------------------------------------
(* Faults.                                                                  *)

\* RemoteValidator gives a request up; it may still be handled.  A validator
\* that cannot start answers nothing.
Timeout(v) ==
    /\ mode = "remote" /\ phase \in Rounds /\ answer[v] = "none"
    /\ IF v \in broken THEN UNCHANGED budget ELSE Fault("timeout")
    /\ answer' = [answer EXCEPT ![v] = "error"]
    /\ UNCHANGED <<mode, conduct, phase, session, info, transcript, network, registry, calls, validatorVars>>

CrashCoordinator ==
    /\ phase # "down"
    /\ Fault("coordinatorCrash")
    /\ Exit
    /\ UNCHANGED <<mode, conduct, session, transcript, registry, disk, broken>>

\* A validator process ends and startValidator loads its key file, if any.  A file
\* the full disk cut off does not parse.
CrashValidator(v) ==
    /\ mode = "remote" /\ v \notin broken
    /\ Fault("validatorCrash")
    /\ mem' = [mem EXCEPT ![v] = disk[v]]
    /\ dkg' = [dkg EXCEPT ![v] = 0]
    /\ received' = [received EXCEPT ![v] = {}]
    /\ broken' = broken \/ (mem[v] # NoKey /\ mem[v] # disk[v] /\ broken' = broken \cup {v})
    /\ UNCHANGED <<mode, conduct, coordinatorVars, calls, disk>>

\* It ends within writeFileSync: the file does not parse, startValidator throws.
\* In-process validators end with the backend, in a crash or when the write fails.
CrashInWrite(c) ==
    /\ c \in calls /\ c.round = "finalize" /\ c.to \notin broken /\ CanFinalize(c.to, c.session)
    /\ Fault("tornWrite")
    /\ broken' = broken \cup {c.to}
    /\ IF mode = "local" THEN Exit
       ELSE /\ calls' = calls \ {c}
            /\ dkg' = [dkg EXCEPT ![c.to] = 0]
            /\ received' = [received EXCEPT ![c.to] = {}]
            /\ UNCHANGED <<phase, network, answer, info, mem>>
    /\ UNCHANGED <<mode, conduct, session, transcript, registry, disk>>

\* The operator follows the error message: with the backend stopped, stop all
\* validators, delete all key files, start the validators.
OperatorRekey ==
    /\ phase = "down"
    /\ Fault("rekey")
    /\ mem' = [v \in Validator |-> NoKey] /\ disk' = mem' /\ broken' = {}
    /\ dkg' = [v \in Validator |-> 0] /\ received' = [v \in Validator |-> {}]
    /\ UNCHANGED <<mode, conduct, coordinatorVars, calls>>

------------------------------------------------------------------------------
Coordinator == Restart \/ ConnectRemote \/ ConnectLocal \/ NextRound \/ \E v \in Validator : Info(v) \/ Sync(v)
Faults ==
    \/ CrashCoordinator \/ OperatorRekey
    \/ \E v \in Validator : Timeout(v) \/ CrashValidator(v)
    \/ \E c \in calls : CrashInWrite(c)

Next == Coordinator \/ (\E c \in calls : Handle(c)) \/ Faults

Spec == Init /\ [][Next]_vars

\* The supervisor restarts the backend, every await settles and validators handle
\* what reaches them; a request given up may be left lying for ever.
FairSpec == Spec /\ WF_vars(Coordinator \/ \E c \in calls : Handle(c))

------------------------------------------------------------------------------
\* Type invariant: requests and transcripts are of sessions that were begun, keys
\* of sessions and dealers that exist.
TypeOK ==
    /\ mode \in Modes /\ conduct \in Conducts
    /\ phase \in Phases /\ session \in 0 .. MaxSessions
    /\ answer \in [Validator -> {"none", "ok", "error"}]
    /\ info \in [Validator -> Keys \cup {NoKey}]
    /\ transcript \in [Sessions ->
         [dealt : SUBSET Validator, complaints : SUBSET (Validator \X Validator),
          reveals : SUBSET (Validator \X Validator \X {"right", "wrong"})]]
    /\ calls \subseteq [to : Validator, round : Rounds, session : Sessions]
    /\ network \in Keys \cup {NoKey} /\ registry \in [Validator -> Keys \cup {NoKey}]
    /\ mem \in [Validator -> Keys \cup {NoKey}] /\ disk \in [Validator -> Keys \cup {NoKey}]
    /\ broken \subseteq Validator
    /\ dkg \in [Validator -> 0 .. MaxSessions] /\ received \in [Validator -> SUBSET Validator]
    /\ DOMAIN budget = FaultKinds \cup {"all"}

\* All key shares that exist, in memory or in files, are of one session and sum
\* up the same dealers, so any Threshold of them combine to the group secret:
\* late requests, restarts and re-keying never leave shares of two keys.
OneKey == \A j, k \in {mem[v] : v \in Validator} \cup {disk[v] : v \in Validator} : NoKey \in {j, k} \/ j = k

\* The backend serves a group key only if Threshold validators will have their
\* share of it after any restart, but for those that could not write it.
ServedKeyIsHeld ==
    phase \in {"sync", "serving"} =>
        Cardinality({v \in Validator : disk[v] = network})
            + FaultBudget["diskFull"] - budget["diskFull"] >= Threshold

\* Dealers that send wrong shares, lie or leave shares out cannot bring about a
\* network with keys on a part of it: without failures, when the coordinator is
\* not about to finish, nobody holds a key.
NoPartialKeys ==
    budget = FaultBudget /\ phase \notin {"finalize", "sync", "serving"} =>
        \A v \in Validator : mem[v] = NoKey

\* When the backend accepts requests, decryption shares are verified against the
\* keys of the network it serves, whatever rows an earlier start left behind.
RegistryMatches == phase = "serving" => \A v \in Validator : registry[v] = network

\* The bound MaxSessions stops a coordinator that found no keys.
OutOfSessions ==
    session = MaxSessions /\ phase = "connect" /\ \A v \in Validator : answer[v] = "ok" /\ info[v] = NoKey

\* The backend gets to serve a key while nothing has failed, although dealers
\* send wrong shares and lie (one that leaves a share out does stop it), and
\* while every validator has its share of one key on disk, whatever crashes and
\* timeouts come in between.
NetworkComesUp ==
    LET sound == budget = FaultBudget /\ \A v \in Validator : conduct.withholds[v] = {}
        held == broken = {} /\ \E k \in Keys : \A v \in Validator : disk[v] = k
    IN  (sound \/ held) ~> (phase = "serving" \/ ~(sound \/ held) \/ OutOfSessions)
=============================================================================
