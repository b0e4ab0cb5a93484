------------------------ MODULE WebsocketAuth_proofs ------------------------
(***************************************************************************)
(* Theorems about HttpApi and WebsocketAuth, for every set of sessions,    *)
(* links, headers and messages and every bound on the clock.               *)
(*                                                                         *)
(* The argument.  A request or an attempt to get in does one of three      *)
(* things to the store: it writes the record of one live session (Writes), *)
(* adds a new session, or does no more than delete what has expired.  An   *)
(* id that was answered 404 once is not in the store, and only an id that  *)
(* was never handed out can be added.  What was last done to a session     *)
(* shows in its record (Marked), so that doing it again moves nothing.     *)
(***************************************************************************)
EXTENDS WebsocketAuth, TLAPS, WellFoundedInduction

\* What latest[s] may be.
Done(s) ==
  {Other("none"), Stop(s)} \cup {Glossary(s, v) : v \in Versions \cup {NoVersion}}

\* What request q, if it was answered well, leaves in a record.
Marked(r, q) ==
  /\ q.op = "stop" => r.state \in StopIdempotentStates
  /\ q.op = "glossary" /\ q.body # NoVersion => r.glossary_version = q.body

\* A record of this application, whose sessions are never in error.
Sound(r) == r \in SessionRecord /\ r.state # "error"

\* Every session has the token it was issued.
OwnTokens == \A s \in DOMAIN sessions : sessions[s].token = s

HttpInv ==
  /\ clock \in 0..MaxTime
  /\ issued \subseteq SessionIds /\ DOMAIN sessions \subseteq issued
  /\ sessions = [s \in DOMAIN sessions |-> sessions[s]]
  /\ latest = [s \in SessionIds |-> latest[s]]
  /\ \A s \in DOMAIN sessions : Sound(sessions[s]) /\ Marked(sessions[s], latest[s])
  /\ OwnTokens
  /\ \A s \in SessionIds : latest[s] \in Done(s)
  /\ \A s \in SessionIds \ issued : latest[s] = Other("none")
  /\ missed \subseteq issued \ DOMAIN sessions
  /\ answer.status # 409

AuthInv == HttpInv /\ DOMAIN link = Links /\ DOMAIN target = Links

-----------------------------------------------------------------------------
(* Records.                                                                *)

LEMMA TouchedRecord ==
  ASSUME NEW r, Sound(r), NEW t \in Int
  PROVE  /\ Sound(Touched(r, t)) /\ Touched(r, t).token = r.token
         /\ \A q : Marked(r, q) => Marked(Touched(r, t), q)
<1>1. /\ Touched(r, t) \in SessionRecord
      /\ Touched(r, t).state = r.state
      /\ Touched(r, t).glossary_version = r.glossary_version
      /\ Touched(r, t).token = r.token
  BY DEF Sound, Touched, SessionRecord
<1>2. QED
  BY <1>1 DEF Sound, Marked

LEMMA MovedRecord ==
  ASSUME NEW r, Sound(r), NEW t \in Int, NEW to \in {"recording", "paused"}
  PROVE  Sound(Moved(r, to, t)) /\ Moved(r, to, t).token = r.token
<1>1. to \in SessionState /\ to # "error"
  BY DEF SessionState, Active
<1>2. /\ Moved(r, to, t) \in SessionRecord /\ Moved(r, to, t).state = to
      /\ Moved(r, to, t).token = r.token
  BY <1>1 DEF Sound, Moved, SessionRecord
<1>3. QED
  BY <1>1, <1>2 DEF Sound

\* No session of this application is past stopping by more than its end.
LEMMA StoppedRecord ==
  ASSUME NEW r, Sound(r), NEW t \in Int
  PROVE  /\ CanStop(r)
         /\ Sound(Stopped(r, t)) /\ Stopped(r, t).state \in StopIdempotentStates
         /\ Stopped(r, t).token = r.token
         /\ r.state \in StopIdempotentStates => Stopped(r, t) = Touched(r, t)
<1>1. CanStop(r)
  BY DEF Sound, SessionRecord, SessionState, Active, Ending, Ended,
         CanStop, StopIdempotentStates, StoppableStates
<1>2. CASE r.state \in StopIdempotentStates
  <2>1. Touched(r, t).state = r.state
    BY DEF Touched, Sound, SessionRecord
  <2>2. QED
    BY <1>1, <1>2, <2>1, TouchedRecord DEF Stopped
<1>3. CASE r.state \notin StopIdempotentStates
  <2>1. "stopping" \in SessionState /\ "stopping" # "error" /\ "stopping" \in StopIdempotentStates
    BY DEF SessionState, Ending, StopIdempotentStates
  <2>2. /\ Moved(r, "stopping", t) \in SessionRecord /\ Moved(r, "stopping", t).state = "stopping"
        /\ Moved(r, "stopping", t).token = r.token
    BY <2>1 DEF Sound, Moved, SessionRecord
  <2>3. QED
    BY <1>1, <1>3, <2>1, <2>2 DEF Stopped, Sound
<1>4. QED
  BY <1>2, <1>3

LEMMA ReversionedRecord ==
  ASSUME NEW r, Sound(r), NEW t \in Int, NEW v \in Versions \cup {Stamped}
  PROVE  /\ Sound(Reversioned(r, v, t)) /\ Reversioned(r, v, t).glossary_version = v
         /\ Reversioned(r, v, t).token = r.token
         /\ r.glossary_version = v => Reversioned(r, v, t) = Touched(r, t)
<1>1. /\ Reversioned(r, v, t) \in SessionRecord
      /\ Reversioned(r, v, t).token = r.token
      /\ Reversioned(r, v, t).state = r.state
      /\ Reversioned(r, v, t).glossary_version = v
  BY DEF Sound, Reversioned, SessionRecord
<1>2. r.glossary_version = v => Reversioned(r, v, t) = Touched(r, t)
  BY DEF Sound, Reversioned, Touched, SessionRecord
<1>3. QED
  BY <1>1, <1>2 DEF Sound

-----------------------------------------------------------------------------
(* The store.                                                              *)

LEMMA LiveStore ==
  ASSUME HttpInv
  PROVE  /\ clock \in Int
         /\ Live = [s \in DOMAIN Live |-> sessions[s]]
         /\ \A s \in DOMAIN Live : s \in DOMAIN sessions /\ s \in issued /\ s \in SessionIds
                                   /\ Sound(sessions[s]) /\ Marked(sessions[s], latest[s])
         /\ \A s \in DOMAIN sessions \ DOMAIN Live :
              clock - sessions[s].last_activity_at > StaleAfter
<1>1. clock \in Int /\ StaleAfter \in Int
  <2>1. clock \in 0..MaxTime
    BY DEF HttpInv
  <2>2. MaxTime \in Nat
    BY HttpApiAssumption
  <2>3. QED
    BY <2>1, <2>2, StaleAfterAssumption
<1>2. \A s \in DOMAIN sessions : sessions[s].last_activity_at \in Int
  BY DEF HttpInv, Sound, SessionRecord
<1>3. /\ DOMAIN Live = {s \in DOMAIN sessions : clock - sessions[s].last_activity_at <= StaleAfter}
      /\ Live = [s \in DOMAIN Live |-> sessions[s]]
  BY DEF Live, Unexpired
<1>4. \A s \in DOMAIN Live : s \in DOMAIN sessions /\ s \in issued /\ s \in SessionIds
                            /\ Sound(sessions[s]) /\ Marked(sessions[s], latest[s])
  BY <1>3 DEF HttpInv
<1>5. \A s \in DOMAIN sessions \ DOMAIN Live :
        clock - sessions[s].last_activity_at > StaleAfter
  BY <1>1, <1>2, <1>3
<1>6. QED
  BY <1>1, <1>3, <1>4, <1>5

LEMMA LiveTokens ==
  ASSUME HttpInv
  PROVE  \A s \in DOMAIN Live : sessions[s].token = s
BY LiveStore DEF HttpInv, OwnTokens

LEMMA StoredStore ==
  ASSUME NEW s, NEW r, sessions' = Stored(Live, s, r)
  PROVE  /\ sessions' = [x \in DOMAIN sessions' |-> sessions'[x]]
         /\ DOMAIN sessions' = DOMAIN Live \cup {s} /\ sessions'[s] = r
         /\ \A x \in DOMAIN sessions' \ {s} : x \in DOMAIN Live /\ sessions'[x] = Live[x]
BY DEF Stored

\* A step that at most deletes what has expired.
Sweeps ==
  /\ sessions' = sessions \/ sessions' = Live
  /\ clock' \in 0..MaxTime
  /\ UNCHANGED <<issued, latest>>
  /\ missed' \subseteq issued \ DOMAIN sessions'
  /\ answer'.status # 409

\* A step that writes record r of session s, which is live or new.
Writes(s, r) ==
  /\ s \in SessionIds /\ issued' = issued \cup {s}
  /\ s \in DOMAIN Live \/ s \notin issued
  /\ sessions' = Stored(Live, s, r) /\ Sound(r) /\ r.token = s
  /\ latest' = [x \in SessionIds |-> latest'[x]]
  /\ \A x \in SessionIds \ {s} : latest'[x] = latest[x]
  /\ latest'[s] \in Done(s) /\ Marked(r, latest'[s])
  /\ clock' = clock /\ missed' = missed
  /\ answer'.status # 409

LEMMA SweepKeeps ==
  ASSUME HttpInv, Sweeps
  PROVE  HttpInv'
<1>1. /\ sessions' = [s \in DOMAIN sessions' |-> sessions'[s]]
      /\ \A s \in DOMAIN sessions' : s \in DOMAIN sessions /\ sessions'[s] = sessions[s]
  BY LiveStore DEF Sweeps, HttpInv
<1>t. OwnTokens'
  BY <1>1 DEF OwnTokens, HttpInv
<1>2. QED
  BY <1>1, <1>t DEF Sweeps, HttpInv

LEMMA WriteKeeps ==
  ASSUME HttpInv, NEW s, NEW r, Writes(s, r)
  PROVE  HttpInv'
<1>1. /\ sessions' = [x \in DOMAIN sessions' |-> sessions'[x]]
      /\ DOMAIN sessions' = DOMAIN Live \cup {s} /\ sessions'[s] = r
      /\ \A x \in DOMAIN sessions' \ {s} : x \in DOMAIN Live /\ sessions'[x] = Live[x]
  BY SMTT(30), StoredStore DEF Writes
<1>2. DOMAIN sessions' \subseteq issued' /\ issued' \subseteq SessionIds
  BY SMTT(30), <1>1, LiveStore DEF Writes, HttpInv
<1>3. \A x \in DOMAIN sessions' : Sound(sessions'[x]) /\ Marked(sessions'[x], latest'[x])
  <2>1. ASSUME NEW x \in DOMAIN sessions' \ {s}
        PROVE  Sound(sessions'[x]) /\ Marked(sessions'[x], latest'[x])
    <3>1. x \in DOMAIN Live /\ sessions'[x] = sessions[x] /\ x \in SessionIds
      BY <1>1, <2>1, LiveStore
    <3>2. latest'[x] = latest[x]
      BY <2>1, <3>1 DEF Writes
    <3>3. QED
      BY <3>1, <3>2, LiveStore
  <2>2. QED
    BY <1>1, <2>1 DEF Writes
<1>t. OwnTokens'
  <2>1. ASSUME NEW x \in DOMAIN sessions' \ {s} PROVE sessions'[x].token = x
    <3>1. x \in DOMAIN Live /\ sessions'[x] = sessions[x]
      BY <1>1, <2>1, LiveStore
    <3>2. QED
      BY <3>1, LiveTokens
  <2>2. sessions'[s].token = s
    BY <1>1 DEF Writes
  <2>3. QED
    BY <2>1, <2>2 DEF OwnTokens
<1>4. \A x \in SessionIds : latest'[x] \in Done(x)
  BY DEF Writes, HttpInv
<1>5. \A x \in SessionIds \ issued' : latest'[x] = Other("none")
  BY DEF Writes, HttpInv
<1>6. missed' \subseteq issued' \ DOMAIN sessions'
  <2>1. missed \subseteq issued /\ \A x \in missed : x \notin DOMAIN sessions
    BY DEF HttpInv
  <2>2. missed' = missed /\ issued \subseteq issued' /\ s \notin missed
    BY <2>1, LiveStore DEF Writes
  <2>3. QED
    BY <1>1, <2>1, <2>2, LiveStore
<1>7. QED
  BY <1>1, <1>2, <1>3, <1>t, <1>4, <1>5, <1>6 DEF Writes, HttpInv

\* Deleting what has expired changes nothing else.
LEMMA SweepChangesNothing ==
  ASSUME HttpInv, sessions' = sessions \/ sessions' = Live
  PROVE  \A s \in DOMAIN sessions :
           IF s \in DOMAIN sessions' THEN sessions'[s] = sessions[s]
           ELSE clock - sessions[s].last_activity_at > StaleAfter
BY LiveStore

-----------------------------------------------------------------------------
(* Requests.                                                               *)

LEMMA NoSessionEmpty ==
  ASSUME HttpInv
  PROVE  "" \notin issued /\ "" \notin missed /\ "" \notin DOMAIN Live
BY ZenonT(40), LiveStore, HttpApiAssumption DEF HttpInv

\* A request that is refused: for an id the manager has not, or before the
\* manager is asked.
RefusedWith(q, a) ==
  /\ Answered(q, a) /\ a.status \in {404, 405, 422} /\ issued' = issued
  /\ \/ sessions' = sessions /\ q.id = ""
     \/ sessions' = sessions /\ a.status = 422 /\ q.body = "invalid"
     \/ sessions' = Live /\ a.status = 404 /\ q.id \notin DOMAIN Live

Refuses == \E q, a : RefusedWith(q, a)

\* A request q for live session s that is served, and leaves record r.
Serves(q, s, r) ==
  /\ s \in DOMAIN Live /\ q.id = s /\ issued' = issued
  /\ \/ q = Get(s) /\ r = Touched(sessions[s], clock)
     \/ q = Stop(s) /\ r = Stopped(sessions[s], clock)
     \/ \E v \in Versions \cup {NoVersion} :
          /\ q = Glossary(s, v)
          /\ r = Reversioned(sessions[s], IF v = NoVersion THEN Stamped ELSE v, clock)
  /\ Succeeds(q, s, r)

LEMMA ServeCases ==
  ASSUME HttpInv, Serve
  PROVE  \/ Refuses \/ Health
         \/ \E s \in SessionIds, p \in Profiles \cup {NoProfile} : CreateSession(s, p)
         \/ \E q, s, r : Serves(q, s, r)
<1>1. CASE Unserved
  <2>0. UNCHANGED <<sessions, issued>>
    BY <1>1 DEF Unserved
  <2>1. ASSUME NEW q, q.id = "" \/ q.body = "invalid", Answered(q, Error("RequestValidationError"))
        PROVE  \E a : RefusedWith(q, a)
    <3>1. PICK a : a = Error("RequestValidationError")
      OBVIOUS
    <3>2. a.status = 422
      BY <3>1 DEF Error, Answer
    <3>3. Answered(q, a)
      BY <2>1, <3>1
    <3>4. QED
      BY ZenonT(40), <2>0, <2>1, <3>2, <3>3 DEF RefusedWith
  <2>2. ASSUME NEW e \in {"no route", "no method"}, Answered(Other(e), Error(e))
        PROVE  \E q, a : RefusedWith(q, a)
    <3>1. PICK a : a = Error(e)
      OBVIOUS
    <3>2. PICK q : q = Other(e)
      OBVIOUS
    <3>3. q.id = ""
      BY <3>2 DEF Other
    <3>4. a.status \in {404, 405}
      <4>1. CASE e = "no route"
        BY <3>1, <4>1 DEF Error, Answer
      <4>2. CASE e = "no method"
        BY <3>1, <4>2 DEF Error, Answer
      <4>3. QED
        BY <4>1, <4>2
    <3>5. Answered(q, a)
      BY <2>2, <3>1, <3>2
    <3>6. QED
      BY ZenonT(40), <2>0, <3>3, <3>4, <3>5 DEF RefusedWith
  <2>3. \A s : Glossary(s, "invalid").body = "invalid" /\ Create("invalid").id = ""
    BY DEF Glossary, Create
  <2>4. QED
    BY <1>1, <2>1, <2>2, <2>3 DEF Unserved, Refuses
<1>2. ASSUME NEW s \in SessionIds, GetSession(s) PROVE \E q, r : Serves(q, s, r)
  <2>1. Get(s).id = s /\ Get(s).op = "get"
    BY DEF Get
  <2>2. Serves(Get(s), s, Touched(sessions[s], clock))
    BY <1>2, <2>1 DEF GetSession, Serves
  <2>3. QED
    BY <2>2
<1>3. ASSUME NEW s \in SessionIds, StopSession(s) PROVE \E q, r : Serves(q, s, r)
  <2>1. Stop(s).id = s /\ Stop(s).op = "stop"
    BY DEF Stop
  <2>2. s \in DOMAIN Live /\ CanStop(sessions[s])
    BY <1>3, LiveStore, StoppedRecord DEF StopSession
  <2>3. Serves(Stop(s), s, Stopped(sessions[s], clock))
    BY <1>3, <2>1, <2>2 DEF StopSession, Serves
  <2>4. QED
    BY <2>3
<1>4. ASSUME NEW s \in SessionIds, NEW v \in Versions \cup {NoVersion}, UpdateGlossary(s, v)
      PROVE  \E q, r : Serves(q, s, r)
  <2>1. Glossary(s, v).id = s /\ Glossary(s, v).op = "glossary"
    BY DEF Glossary
  <2>2. Serves(Glossary(s, v), s,
               Reversioned(sessions[s], IF v = NoVersion THEN Stamped ELSE v, clock))
    BY <1>4, <2>1 DEF UpdateGlossary, Serves
  <2>3. QED
    BY <2>2
<1>5. ASSUME NEW s \in SessionIds, NotFound(s) PROVE Refuses
  <2>1. PICK a : a = Error("SessionNotFoundError")
    OBVIOUS
  <2>2. a.status = 404
    BY <2>1 DEF Error, Answer
  <2>3. Get(s).id = s /\ Stop(s).id = s /\ \A v : Glossary(s, v).id = s
    BY DEF Get, Stop, Glossary
  <2>4. PICK q : Answered(q, a) /\ q.id = s
    BY <1>5, <2>1, <2>3 DEF NotFound
  <2>5. QED
    <3>1. RefusedWith(q, a)
      BY <1>5, <2>2, <2>4 DEF NotFound, RefusedWith
    <3>2. QED
      BY <3>1 DEF Refuses
<1>6. QED
  BY <1>1, <1>2, <1>3, <1>4, <1>5 DEF Serve

-----------------------------------------------------------------------------
(* The inductive step.                                                     *)

LEMMA RefusalSweeps ==
  ASSUME HttpInv, Refuses
  PROVE  Sweeps
<1>1. PICK q, a : RefusedWith(q, a)
  BY DEF Refuses
<1>2. a.status # 200 /\ a.status # 409
  <2>1. a.status \in {404, 405, 422}
    BY <1>1, Zenon DEF RefusedWith
  <2>2. QED
    BY <2>1
<1>3. sessions' = sessions \/ sessions' = Live
  BY <1>1 DEF RefusedWith
<1>4. UNCHANGED <<clock, issued, latest>> /\ answer'.status # 409
  <2>1. Answered(q, a) /\ issued' = issued
    BY <1>1, Zenon DEF RefusedWith
  <2>2. QED
    BY <1>2, <2>1 DEF Answered, HttpInv
<1>5. missed' \subseteq issued \ DOMAIN sessions'
  <2>1. missed' = missed \cup {s \in issued : q.id = s /\ a.status = 404}
    BY <1>1 DEF RefusedWith, Answered
  <2>2. missed \subseteq issued \ DOMAIN sessions /\ DOMAIN Live \subseteq DOMAIN sessions
    BY LiveStore DEF HttpInv
  <2>3. ASSUME NEW s \in issued, q.id = s, a.status = 404 PROVE s \notin DOMAIN sessions'
    <3>1. q.id # ""
      BY <2>3, NoSessionEmpty
    <3>2. sessions' = Live /\ q.id \notin DOMAIN Live
      <4>1. a.status # 422
        BY <2>3
      <4>2. QED
        BY <1>1, <3>1, <4>1, Zenon DEF RefusedWith
    <3>3. QED
      BY <2>3, <3>2
  <2>4. QED
    BY <1>3, <2>1, <2>2, <2>3
<1>6. QED
  BY <1>3, <1>4, <1>5 DEF Sweeps, HttpInv

LEMMA HealthSweeps ==
  ASSUME HttpInv, Health
  PROVE  Sweeps
<1>1. PICK q : q = Other("health")
  OBVIOUS
<1>2. q.op = "health"
  BY <1>1 DEF Other
<1>3. PICK a : a = Answer(200, "")
  OBVIOUS
<1>4. a.status = 200
  BY <1>3 DEF Answer
<1>5. Answered(q, a) /\ UNCHANGED <<sessions, issued>>
  BY <1>1, <1>3 DEF Health
<1>6. UNCHANGED <<clock, latest, missed>> /\ answer'.status = 200
  BY <1>2, <1>4, <1>5 DEF Answered, HttpInv
<1>7. QED
  BY <1>5, <1>6 DEF Sweeps, HttpInv

LEMMA CreationWrites ==
  ASSUME HttpInv, NEW s \in SessionIds, NEW p \in Profiles \cup {NoProfile}, CreateSession(s, p)
  PROVE  \E r : Writes(s, r)
<1> DEFINE profile == IF p = NoProfile THEN DefaultProfile ELSE p
           r == NewRecord(s, profile, clock)
<1>1. Sound(r) /\ Marked(r, Other("none")) /\ r.token = s
  <2>1. profile \in Profiles /\ clock \in Int
    BY HttpApiAssumption, LiveStore
  <2>2. "idle" \in SessionState /\ "idle" # "error"
    BY DEF SessionState, Active
  <2>3. r \in SessionRecord /\ r.state = "idle" /\ r.token = s
    BY <2>1, <2>2 DEF NewRecord, SessionRecord
  <2>4. Other("none").op = "none"
    BY DEF Other
  <2>5. QED
    BY <2>3, <2>4 DEF Sound, Marked
<1>2. PICK q : q = Create(p)
  OBVIOUS
<1>3. PICK a : a = Answer(200, "")
  OBVIOUS
<1>4. q.op = "create" /\ a.status = 200
  BY <1>2, <1>3 DEF Create, Answer
<1>5. /\ s \notin issued /\ issued' = issued \cup {s} /\ sessions' = Stored(Live, s, r)
      /\ Answered(q, a)
  BY <1>2, <1>3 DEF CreateSession, Succeeds
<1>6. latest' = latest /\ clock' = clock /\ missed' = missed /\ answer'.status = 200
  BY <1>4, <1>5 DEF Answered, HttpInv
<1>7. latest[s] = Other("none") /\ latest[s] \in Done(s)
  BY <1>5 DEF HttpInv
<1>8. Writes(s, r)
  BY <1>1, <1>5, <1>6, <1>7 DEF Writes, HttpInv
<1>9. QED
  BY <1>8

\* What a request that is served has done.
LEMMA ServedWrites ==
  ASSUME HttpInv, NEW q, NEW s, NEW r, Serves(q, s, r)
  PROVE  /\ Writes(s, r)
         /\ answer'.status = 200 /\ request' = q /\ sessions'[s] = r
<1>1. PICK a : a = Answer(200, "")
  OBVIOUS
<1>2. a.status = 200
  BY <1>1 DEF Answer
<1>3. /\ s \in DOMAIN Live /\ q.id = s /\ issued' = issued
      /\ sessions' = Stored(Live, s, r) /\ Answered(q, a)
  BY <1>1 DEF Serves, Succeeds
<1>4. /\ clock \in Int /\ s \in SessionIds /\ s \in issued /\ sessions[s].token = s
      /\ Sound(sessions[s]) /\ Marked(sessions[s], latest[s]) /\ latest[s] \in Done(s)
  BY <1>3, LiveStore, LiveTokens DEF HttpInv
<1>5. /\ request' = q /\ answer'.status = 200 /\ clock' = clock /\ missed' = missed
      /\ latest' = [x \in SessionIds |-> latest'[x]]
      /\ \A x \in SessionIds \ {s} : latest'[x] = latest[x]
      /\ latest'[s] = IF q.op \in {"stop", "glossary"} THEN q ELSE latest[s]
  <2>1. /\ request' = q /\ answer' = a /\ clock' = clock
        /\ latest' = [x \in SessionIds |-> IF a.status = 200 /\ q.op \in {"stop", "glossary"} /\ q.id = x
                                     THEN q ELSE latest[x]]
        /\ missed' = missed \cup {x \in issued : q.id = x /\ a.status = 404}
    BY <1>3 DEF Answered
  <2>2. QED
    BY <1>2, <1>3, <1>4, <2>1
<1>6. sessions'[s] = r
  BY <1>3, StoredStore
<1>7. Sound(r) /\ r.token = s /\ latest'[s] \in Done(s) /\ Marked(r, latest'[s])
  <2>1. CASE q = Get(s) /\ r = Touched(sessions[s], clock)
    <3>1. q.op = "get"
      BY <2>1 DEF Get
    <3>2. QED
      BY <1>4, <1>5, <2>1, <3>1, TouchedRecord
  <2>2. CASE q = Stop(s) /\ r = Stopped(sessions[s], clock)
    <3>1. q.op = "stop"
      BY <2>2 DEF Stop
    <3>2. latest'[s] = q
      BY <1>5, <3>1
    <3>3. QED
      BY <1>4, <2>2, <3>1, <3>2, StoppedRecord DEF Marked, Done
  <2>3. ASSUME NEW v \in Versions \cup {NoVersion}, q = Glossary(s, v),
               r = Reversioned(sessions[s], IF v = NoVersion THEN Stamped ELSE v, clock)
        PROVE  Sound(r) /\ r.token = s /\ latest'[s] \in Done(s) /\ Marked(r, latest'[s])
    <3>1. q.op = "glossary" /\ q.body = v
      BY <2>3 DEF Glossary
    <3>2. latest'[s] = q
      BY <1>5, <3>1
    <3>3. PICK w \in Versions \cup {Stamped} : w = IF v = NoVersion THEN Stamped ELSE v
      OBVIOUS
    <3>4. Sound(r) /\ r.token = s /\ r.glossary_version = w
      BY <1>4, <2>3, <3>3, ReversionedRecord
    <3>5. Marked(r, q)
      BY <3>1, <3>3, <3>4 DEF Marked
    <3>6. QED
      BY <2>3, <3>2, <3>4, <3>5 DEF Done
  <2>4. QED
    BY <2>1, <2>2, <2>3 DEF Serves
<1>8. Writes(s, r)
  BY <1>3, <1>4, <1>5, <1>7 DEF Writes, HttpInv
<1>9. QED
  BY <1>5, <1>6, <1>8

\* Any step of HttpApi.
LEMMA StepKeeps ==
  ASSUME HttpInv, [Next]_vars
  PROVE  HttpInv'
<1>1. CASE Tick
  <2>0. MaxTime \in Nat /\ clock \in 0..MaxTime
    BY HttpApiAssumption DEF HttpInv
  <2>1. clock' \in 0..MaxTime /\ UNCHANGED <<sessions, issued, answer, latest, missed>>
    BY <1>1, <2>0 DEF Tick
  <2>2. Sweeps
    BY <2>1 DEF Sweeps, HttpInv
  <2>3. QED
    BY <2>2, SweepKeeps
<1>2. ASSUME NEW s \in SessionIds, MovedElsewhere(s) PROVE HttpInv'
  <2>1. PICK to \in {"recording", "paused"} :
          sessions' = Stored(Live, s, Moved(sessions[s], to, clock))
    BY <1>2 DEF MovedElsewhere
  <2>2. /\ s \in DOMAIN Live /\ s \in issued /\ clock \in Int /\ Sound(sessions[s])
        /\ sessions[s].token = s
        /\ latest' = [latest EXCEPT ![s] = Other("none")]
        /\ UNCHANGED <<clock, issued, request, answer, missed>>
    BY <1>2, LiveStore, LiveTokens DEF MovedElsewhere
  <2>3. PICK q : q = Other("none")
    OBVIOUS
  <2>4. q.op = "none"
    BY <2>3 DEF Other
  <2>5. /\ Sound(Moved(sessions[s], to, clock)) /\ Marked(Moved(sessions[s], to, clock), q)
        /\ Moved(sessions[s], to, clock).token = s
    BY <2>2, <2>4, MovedRecord DEF Marked
  <2>6. /\ latest' = [x \in SessionIds |-> latest'[x]]
        /\ \A x \in SessionIds \ {s} : latest'[x] = latest[x]
        /\ latest'[s] = q /\ q \in Done(s)
    BY <2>2, <2>3 DEF HttpInv, Done
  <2>7. Writes(s, Moved(sessions[s], to, clock))
    BY <2>1, <2>2, <2>5, <2>6 DEF Writes, HttpInv
  <2>8. QED
    BY <2>7, WriteKeeps
<1>3. CASE Serve
  BY <1>3, ServeCases, RefusalSweeps, HealthSweeps, CreationWrites, ServedWrites,
     SweepKeeps, WriteKeeps
<1>4. CASE UNCHANGED vars
  <2>1. Sweeps
    BY <1>4 DEF Sweeps, HttpInv, vars
  <2>2. QED
    BY <2>1, SweepKeeps
<1>5. QED
  BY <1>1, <1>2, <1>3, <1>4 DEF Next

LEMMA AtFirst ==
  ASSUME AuthInit
  PROVE  AuthInv
<1>1. /\ clock = 0 /\ sessions = <<>> /\ issued = {} /\ missed = {}
      /\ latest = [s \in SessionIds |-> Other("none")] /\ answer = Answer(200, "")
      /\ link = [c \in Links |-> "none"] /\ target = [c \in Links |-> ""]
  BY DEF AuthInit, Init
<1>2. DOMAIN sessions = {} /\ sessions = [s \in DOMAIN sessions |-> sessions[s]]
  <2>1. sessions = <<>>
    BY <1>1
  <2>2. QED
    BY <2>1
<1>3. answer.status # 409
  <2>1. answer.status = 200
    BY <1>1 DEF Answer
  <2>2. QED
    BY <2>1
<1>4. clock \in 0..MaxTime
  <2>1. MaxTime \in Nat
    BY HttpApiAssumption
  <2>2. clock = 0
    BY <1>1
  <2>3. QED
    BY <2>1, <2>2
<1>5. OwnTokens
  BY <1>2 DEF OwnTokens
<1>6. QED
  BY <1>1, <1>2, <1>3, <1>4, <1>5 DEF AuthInv, HttpInv, Done

\* What an attempt to get in does: it opens the websocket of a live session and
\* touches it, or does not open and at most deletes what has expired.
LEMMA AttemptCases ==
  ASSUME AuthInv, NEW c \in Links, NEW s, NEW ts, NEW from, NEW otherwise,
         otherwise # "open", Presents(c, s, ts, from, otherwise)
  PROVE  /\ UNCHANGED <<clock, issued, request, answer, latest, missed>>
         /\ \A d \in Links \ {c} : link'[d] = link[d]
         /\ DOMAIN link' = Links
         /\ \/ s \in DOMAIN Live /\ link'[c] = "open" /\ link[c] = from
               /\ Writes(s, Touched(sessions[s], clock))
            \/ link'[c] # "open" /\ link[c] = from /\ Sweeps
<1>1. /\ UNCHANGED <<clock, issued, request, answer, latest, missed>>
      /\ sessions' = Tried(s, ts)
      /\ link[c] = from /\ link' = [link EXCEPT ![c] = Outcome(s, ts, otherwise)]
  BY DEF Presents, Goes
<1>2. DOMAIN link = Links /\ HttpInv
  BY DEF AuthInv
<1>3. CASE \E t \in ts : Admits(s, t)
  <2>1. s \in DOMAIN Live /\ Outcome(s, ts, otherwise) = "open"
        /\ sessions' = Stored(Live, s, Touched(sessions[s], clock))
    BY <1>1, <1>3 DEF Admits, Outcome, Tried
  <2>2. s \in SessionIds /\ s \in issued /\ clock \in Int
        /\ Sound(sessions[s]) /\ Marked(sessions[s], latest[s]) /\ sessions[s].token = s
    BY <1>2, <2>1, LiveStore, LiveTokens
  <2>3. /\ Sound(Touched(sessions[s], clock)) /\ Marked(Touched(sessions[s], clock), latest[s])
        /\ Touched(sessions[s], clock).token = s
        /\ latest[s] \in Done(s)
    <3>1. PICK r : r = sessions[s]
      OBVIOUS
    <3>2. Sound(r) /\ Marked(r, latest[s]) /\ r.token = s
      BY <2>2, <3>1
    <3>3. Sound(Touched(r, clock)) /\ Marked(Touched(r, clock), latest[s])
          /\ Touched(r, clock).token = r.token
      BY <2>2, <3>2, TouchedRecord
    <3>4. latest[s] \in Done(s)
      BY <1>2, <2>2 DEF HttpInv
    <3>5. QED
      BY <3>1, <3>2, <3>3, <3>4
  <2>4. Writes(s, Touched(sessions[s], clock))
    BY <1>1, <1>2, <2>1, <2>2, <2>3 DEF Writes, HttpInv
  <2>5. QED
    BY <1>1, <1>2, <2>1, <2>4
<1>4. CASE ~ \E t \in ts : Admits(s, t)
  <2>1. Outcome(s, ts, otherwise) \in {"failed", otherwise}
        /\ (sessions' = sessions \/ sessions' = Live)
    BY <1>1, <1>4 DEF Outcome, Tried
  <2>2. missed \subseteq issued \ DOMAIN sessions'
    BY <1>2, <2>1, LiveStore DEF HttpInv
  <2>3. Sweeps
    BY <1>1, <1>2, <2>1, <2>2 DEF Sweeps, HttpInv
  <2>4. QED
    BY <1>1, <1>2, <2>1, <2>3
<1>5. QED
  BY <1>3, <1>4

\* The steps of a websocket: an attempt for the session it has as its target
\* afterwards, or nothing that concerns the sessions.
LEMMA LinkCases ==
  ASSUME AuthInv, NEW c \in Links, AuthStep(c)
  PROVE  /\ DOMAIN target' = Links
         /\ \/ \E ts, from, otherwise :
                 /\ otherwise # "open" /\ from # "open"
                 /\ Presents(c, target'[c], ts, from, otherwise)
            \/ /\ UNCHANGED vars /\ DOMAIN link' = Links
               /\ \A d \in Links : link'[d] # "open" \/ link'[d] = link[d]
<1>1. DOMAIN link = Links /\ DOMAIN target = Links
  BY DEF AuthInv
<1>2. ASSUME NEW s \in SessionIds, NEW h \in Headers, Connect(c, s, h)
      PROVE  /\ DOMAIN target' = Links
             /\ Presents(c, target'[c], Attempted(s, Candidates(h)), "none", "waiting")
  BY <1>1, <1>2 DEF Connect
<1>3. ASSUME NEW m \in Messages, FirstMessage(c, m)
      PROVE  /\ DOMAIN target' = Links
             /\ Presents(c, target'[c], {TokenOf(m)} \ {NoString}, "waiting", "closing")
  BY <1>1, <1>3 DEF FirstMessage
<1>4. ASSUME NEW from, NEW to \in {"ended", "closing"}, Goes(c, from, to), UNCHANGED <<vars, target>>
      PROVE  /\ DOMAIN target' = Links /\ UNCHANGED vars /\ DOMAIN link' = Links
             /\ \A d \in Links : link'[d] # "open" \/ link'[d] = link[d]
  BY <1>1, <1>4 DEF Goes
<1>5. CASE (\E m \in Messages : NoToken(c, m)) \/ AuthTimeout(c) \/ Closed(c)
  BY <1>4, <1>5 DEF NoToken, AuthTimeout, Closed
<1>6. QED
  BY <1>2, <1>3, <1>5 DEF AuthStep

LEMMA AuthStepKeeps ==
  ASSUME AuthInv, [AuthNext]_allvars
  PROVE  AuthInv'
<1>1. CASE [Next]_vars /\ UNCHANGED <<link, target>>
  BY <1>1, StepKeeps DEF AuthInv
<1>2. ASSUME NEW c \in Links, AuthStep(c) PROVE AuthInv'
  <2>1. CASE UNCHANGED vars /\ DOMAIN link' = Links /\ DOMAIN target' = Links
    BY <2>1, StepKeeps DEF AuthInv
  <2>2. ASSUME NEW ts, NEW from, NEW otherwise, otherwise # "open",
               Presents(c, target'[c], ts, from, otherwise), DOMAIN target' = Links
        PROVE  AuthInv'
    <3>1. /\ DOMAIN link' = Links
          /\ Sweeps \/ \E s, r : Writes(s, r)
      BY <1>2, <2>2, AttemptCases
    <3>2. QED
      BY <2>2, <3>1, SweepKeeps, WriteKeeps DEF AuthInv
  <2>3. QED
    BY <1>2, <2>1, <2>2, LinkCases
<1>3. QED
  BY <1>1, <1>2 DEF AuthNext, allvars

\* The invariant of the requests and of the three websockets.
LEMMA Invariant == AuthSpec => []AuthInv
BY AtFirst, AuthStepKeeps, PTL DEF AuthSpec

-----------------------------------------------------------------------------
(* Theorems.                                                               *)

LEMMA RequestMembers ==
  /\ \A s : Get(s).op = "get" /\ Stop(s).op = "stop" /\ Stop(s).body = ""
  /\ \A p : Create(p).id = ""
  /\ \A op : Other(op).id = ""
BY DEF Get, Stop, Create, Other

LEMMA GlossaryMembers ==
  ASSUME NEW q, NEW s, NEW v, q = Glossary(s, v)
  PROVE  q.op = "glossary" /\ q.id = s /\ q.body = v
BY DEF Glossary

\* Doing again what was last done to session s leaves its record as it is.
LEMMA RepeatTouches ==
  ASSUME HttpInv, NEW s \in DOMAIN Live, Serve, NEW q,
         request' = q, q = latest[s], q.id = s, q.body # NoVersion
  PROVE  answer'.status = 200 /\ sessions'[s] = Touched(sessions[s], clock)
<1>1. /\ s \in SessionIds /\ s \in issued /\ clock \in Int /\ s # ""
      /\ Sound(sessions[s]) /\ Marked(sessions[s], latest[s]) /\ latest[s] \in Done(s)
  BY ZenonT(40), LiveStore, NoSessionEmpty DEF HttpInv
<1>2. q = Stop(s) \/ \E v \in Versions : q = Glossary(s, v)
  <2>1. q = Other("none") \/ q = Stop(s) \/ \E v \in Versions \cup {NoVersion} : q = Glossary(s, v)
    <3>1. latest[s] = q /\ latest[s] \in Done(s)
      BY <1>1
    <3>2. QED
      BY <3>1, Zenon DEF Done
  <2>2. q # Other("none")
    BY <1>1, RequestMembers, Zenon
  <2>3. \A v : q = Glossary(s, v) => v # NoVersion
    BY GlossaryMembers
  <2>4. QED
    BY <2>1, <2>2, <2>3
<1>3. q.op \in {"stop", "glossary"} /\ q.body # "invalid"
  <2>1. CASE q = Stop(s)
    <3>1. q.op = "stop" /\ q.body = ""
      BY <2>1, RequestMembers
    <3>2. QED
      BY <3>1
  <2>2. ASSUME NEW v \in Versions, q = Glossary(s, v)
        PROVE  q.op \in {"stop", "glossary"} /\ q.body # "invalid"
    <3>1. q.op = "glossary" /\ q.body = v
      BY <2>2, GlossaryMembers
    <3>2. v # "invalid"
      BY HttpApiAssumption
    <3>3. QED
      BY <3>1, <3>2
  <2>3. QED
    BY <1>2, <2>1, <2>2
<1>4. ~Refuses
  <2>1. SUFFICES ASSUME NEW p, NEW a, RefusedWith(p, a) PROVE FALSE
    BY DEF Refuses
  <2>2. Answered(p, a)
    BY <2>1, Zenon DEF RefusedWith
  <2>3. p = q
    BY <2>2 DEF Answered
  <2>4. p.id = s /\ p.id # "" /\ p.body # "invalid"
    BY <1>1, <1>3, <2>3
  <2>5. QED
    BY <2>1, <2>4, Zenon DEF RefusedWith
<1>5. ~Health
  <2>1. SUFFICES ASSUME Health PROVE FALSE
    OBVIOUS
  <2>2. q = Other("health")
    BY <2>1 DEF Health, Answered
  <2>3. q.id = ""
    BY <2>2, RequestMembers, Zenon
  <2>4. QED
    BY <1>1, <2>3
<1>6. ~ \E x \in SessionIds, p \in Profiles \cup {NoProfile} : CreateSession(x, p)
  <2>1. SUFFICES ASSUME NEW x, NEW p, CreateSession(x, p) PROVE FALSE
    OBVIOUS
  <2>2. q = Create(p)
    BY <2>1 DEF CreateSession, Succeeds, Answered
  <2>3. q.id = ""
    BY <2>2, RequestMembers, Zenon
  <2>4. QED
    BY <1>1, <2>3
<1>7. PICK p, x, r : Serves(p, x, r)
  BY <1>4, <1>5, <1>6, ServeCases
<1>8. p = q /\ x = s /\ answer'.status = 200 /\ sessions'[s] = r
  <2>1. request' = p /\ answer'.status = 200 /\ sessions'[x] = r
    BY <1>7, ServedWrites
  <2>2. p.id = x
    BY <1>7 DEF Serves
  <2>3. QED
    BY <2>1, <2>2
<1>9. r = Touched(sessions[s], clock)
  <2>1. CASE q = Get(s)
    <3>1. q.op = "get"
      BY <2>1, RequestMembers
    <3>2. QED
      BY <1>3, <3>1
  <2>2. CASE q = Stop(s) /\ r = Stopped(sessions[s], clock)
    <3>1. q.op = "stop"
      BY <2>2, RequestMembers, Zenon
    <3>2. sessions[s].state \in StopIdempotentStates
      BY <1>1, <3>1 DEF Marked
    <3>3. QED
      BY <1>1, <2>2, <3>2, StoppedRecord
  <2>3. ASSUME NEW v \in Versions \cup {NoVersion}, q = Glossary(s, v),
               r = Reversioned(sessions[s], IF v = NoVersion THEN Stamped ELSE v, clock)
        PROVE  r = Touched(sessions[s], clock)
    <3>1. q.op = "glossary" /\ q.body = v
      BY <2>3, GlossaryMembers
    <3>2. v # NoVersion /\ v \in Versions
      BY <2>3, <3>1
    <3>3. sessions[s].glossary_version = v
      BY <1>1, <3>1, <3>2 DEF Marked
    <3>4. r = Reversioned(sessions[s], v, clock) /\ v \in Versions \cup {Stamped}
      BY <2>3, <3>2
    <3>5. QED
      BY <1>1, <3>3, <3>4, ReversionedRecord
  <2>4. QED
    BY <1>7, <1>8, <2>1, <2>2, <2>3 DEF Serves
<1>10. QED
  BY <1>8, <1>9

\* A stop or a glossary version asked for again, because the answer was lost,
\* succeeds and changes nothing but the time of the last activity, and no stop is
\* answered 409, for any number of sessions and versions (main.py:129-160;
\* sessions.py:62-73, 212-253).  The invariant needed: what was last done to a
\* session shows in its record.
THEOREM RepeatsSafe == AuthSpec => RepeatsAreSafe
<1> DEFINE A == /\ \A s \in DOMAIN Live :
                     request'.id = s /\ request' = latest[s] /\ request'.body # NoVersion /\ Serve
                       => answer'.status = 200 /\ sessions'[s] = Touched(sessions[s], clock)
                /\ answer'.status # 409
<1>1. AuthInv /\ [AuthNext]_allvars => [A]_vars
  <2>1. SUFFICES ASSUME AuthInv, AuthNext PROVE A \/ UNCHANGED vars
    BY DEF allvars
  <2>2. answer'.status # 409
    BY <2>1, AuthStepKeeps DEF AuthInv, HttpInv
  <2>3. ASSUME NEW s \in DOMAIN Live, request'.id = s, request' = latest[s],
               request'.body # NoVersion, Serve
        PROVE  answer'.status = 200 /\ sessions'[s] = Touched(sessions[s], clock)
    BY <2>1, <2>3, RepeatTouches DEF AuthInv
  <2>4. QED
    BY <2>2, <2>3
<1>2. QED
  BY <1>1, Invariant, PTL DEF AuthSpec, RepeatsAreSafe

\* A websocket that opens belongs to a live session.
LEMMA OpensLive ==
  ASSUME AuthInv, AuthNext, NEW c \in Links, Opens(c)
  PROVE  target'[c] \in DOMAIN Live
<1>1. PICK d \in Links : AuthStep(d)
  BY DEF AuthNext, Opens
<1>2. CASE (UNCHANGED vars /\ link'[c] = link[c]) \/ link'[c] # "open"
  BY <1>2 DEF Opens
<1>3. ASSUME NEW ts, NEW from, NEW otherwise, otherwise # "open",
             Presents(d, target'[d], ts, from, otherwise)
      PROVE  target'[c] \in DOMAIN Live
  BY <1>3, AttemptCases DEF Opens
<1>4. QED
  BY <1>1, <1>2, <1>3, LinkCases DEF Opens

\* A request for a session answered 404 before is refused, with 404 or 422.
LEMMA MissedRefused ==
  ASSUME HttpInv, Serve, NEW q, request' = q, q.id \in missed
  PROVE  answer'.status \in {404, 422}
<1>1. q.id # "" /\ q.id \in issued /\ q.id \notin DOMAIN Live
  BY ZenonT(40), NoSessionEmpty, LiveStore DEF HttpInv
<1>2. CASE Refuses
  <2>1. PICK p, a : RefusedWith(p, a)
    BY <1>2 DEF Refuses
  <2>2. Answered(p, a)
    BY <2>1, Zenon DEF RefusedWith
  <2>3. p = q /\ answer' = a
    BY <2>2 DEF Answered
  <2>4. p.id # ""
    BY <1>1, <2>3
  <2>5. a.status = 422 \/ a.status = 404
    BY <2>1, <2>4, Zenon DEF RefusedWith
  <2>6. QED
    BY <2>3, <2>5
<1>3. CASE Health
  <2>1. q = Other("health")
    BY <1>3 DEF Health, Answered
  <2>2. q.id = ""
    BY <2>1, RequestMembers
  <2>3. QED
    BY <1>1, <2>2
<1>4. ASSUME NEW s, NEW p, CreateSession(s, p) PROVE FALSE
  <2>1. q = Create(p)
    BY <1>4 DEF CreateSession, Succeeds, Answered
  <2>2. q.id = ""
    BY <2>1, RequestMembers
  <2>3. QED
    BY <1>1, <2>2
<1>5. ASSUME NEW p, NEW s, NEW r, Serves(p, s, r) PROVE FALSE
  <2>1. s \in DOMAIN Live /\ p.id = s
    BY <1>5 DEF Serves
  <2>2. request' = p
    BY <1>5, ServedWrites
  <2>3. QED
    BY <1>1, <2>1, <2>2
<1>6. QED
  BY <1>2, <1>3, <1>4, <1>5, ServeCases

\* A client that is told once that its session is unknown need not ask again: the
\* id is unknown to every later request and lets in no websocket, for any number
\* of clients and whatever they wait for (main.py:121-160, 484-535;
\* sessions.py:127-179, 306-314).  The invariant needed: an id answered 404 is not
\* in the store, and was handed out, so that no session gets it again.
THEOREM NotFoundFinal == AuthSpec => NotFoundIsFinal
<1> DEFINE A == /\ request'.id \in missed /\ Serve => answer'.status \in {404, 422}
                /\ \A c \in Links : Opens(c) => target'[c] \notin missed
<1>1. AuthInv /\ [AuthNext]_allvars => [A]_allvars
  <2>1. SUFFICES ASSUME AuthInv, AuthNext PROVE A
    OBVIOUS
  <2>2. ASSUME request'.id \in missed, Serve PROVE answer'.status \in {404, 422}
    <3>1. PICK q : q = request'
      OBVIOUS
    <3>2. q.id \in missed /\ HttpInv
      BY <2>1, <2>2, <3>1 DEF AuthInv
    <3>3. QED
      BY <2>2, <3>1, <3>2, MissedRefused
  <2>3. ASSUME NEW c \in Links, Opens(c) PROVE target'[c] \notin missed
    <3>1. target'[c] \in DOMAIN Live
      BY <2>1, <2>3, OpensLive
    <3>2. HttpInv
      BY <2>1 DEF AuthInv
    <3>3. QED
      BY <3>1, <3>2, LiveStore DEF HttpInv
  <2>4. QED
    BY <2>2, <2>3
<1>2. QED
  BY <1>1, Invariant, PTL DEF AuthSpec, NotFoundIsFinal

\* What is refused at most deletes what has expired.
LEMMA RefusedSweeps ==
  ASSUME AuthInv, AuthNext,
         \/ answer'.status # 200 /\ Serve
         \/ link' # link /\ ~(\E c \in Links : Opens(c))
  PROVE  sessions' = sessions \/ sessions' = Live
<1>1. HttpInv
  BY DEF AuthInv
<1>2. CASE answer'.status # 200 /\ Serve
  <2>1. ASSUME Health PROVE FALSE
    <3>1. PICK a : a = Answer(200, "")
      OBVIOUS
    <3>2. a.status = 200
      BY <3>1 DEF Answer
    <3>3. answer' = a
      BY <2>1, <3>1 DEF Health, Answered
    <3>4. QED
      BY <1>2, <3>2, <3>3
  <2>2. ASSUME NEW s, NEW p, CreateSession(s, p) PROVE FALSE
    <3>1. PICK a : a = Answer(200, "")
      OBVIOUS
    <3>2. a.status = 200
      BY <3>1 DEF Answer
    <3>3. answer' = a
      BY <2>2, <3>1 DEF CreateSession, Succeeds, Answered
    <3>4. QED
      BY <1>2, <3>2, <3>3
  <2>3. ASSUME NEW p, NEW s, NEW r, Serves(p, s, r) PROVE FALSE
    BY <1>1, <1>2, <2>3, ServedWrites
  <2>4. Refuses
    BY <1>1, <1>2, <2>1, <2>2, <2>3, ServeCases
  <2>5. QED
    BY <1>1, <2>4, RefusalSweeps DEF Sweeps
<1>3. CASE link' # link /\ ~(\E c \in Links : Opens(c))
  <2>1. PICK c \in Links : AuthStep(c)
    BY <1>3 DEF AuthNext
  <2>2. CASE UNCHANGED vars
    BY <2>2 DEF vars
  <2>3. ASSUME NEW ts, NEW from, NEW otherwise, otherwise # "open", from # "open",
               Presents(c, target'[c], ts, from, otherwise)
        PROVE  sessions' = sessions \/ sessions' = Live
    BY <1>3, <2>3, AttemptCases DEF Opens, Sweeps
  <2>4. QED
    BY <2>1, <2>2, <2>3, LinkCases
<1>4. QED
  BY <1>2, <1>3

\* Whoever is refused has changed nothing: a request answered with an error, or a
\* websocket that is not let in, neither keeps a session from expiring nor ends it
\* early, whatever subprotocols and first messages there may be (main.py:107-160,
\* 484-535; errors.py:65-93; sessions.py:166-179, 300-320).
THEOREM RefusalsHarmless == AuthSpec => RefusalsChangeNothing
<1> DEFINE A == \/ answer'.status # 200 /\ Serve
                \/ link' # link /\ ~(\E c \in Links : Opens(c))
                => \A s \in DOMAIN sessions :
                     IF s \in DOMAIN sessions' THEN sessions'[s] = sessions[s]
                     ELSE clock - sessions[s].last_activity_at > StaleAfter
<1>1. AuthInv /\ [AuthNext]_allvars => [A]_allvars
  <2>1. SUFFICES ASSUME AuthInv, AuthNext PROVE A
    OBVIOUS
  <2>2. HttpInv
    BY <2>1 DEF AuthInv
  <2>3. QED
    BY <2>1, <2>2, RefusedSweeps, SweepChangesNothing
<1>2. QED
  BY <1>1, Invariant, PTL DEF AuthSpec, RefusalsChangeNothing

-----------------------------------------------------------------------------
(* Subprotocols.                                                           *)

\* Every set of numbers has a least one, from the well-foundedness of <.
LEMMA LeastNat ==
  ASSUME NEW T, T \subseteq Nat, T # {}
  PROVE  \E m \in T : \A n \in T : m <= n
<1>1. PICK m \in T : \A n \in T : <<n, m>> \notin OpToRel(<, Nat)
  <2>1. IsWellFoundedOn(OpToRel(<, Nat), Nat)
    BY NatLessThanWellFounded
  <2>2. QED
    BY <2>1, WFMin
<1>2. ASSUME NEW n \in T PROVE m <= n
  <2>1. <<n, m>> \notin {p \in Nat \X Nat : p[1] < p[2]}
    BY <1>1 DEF OpToRel
  <2>2. <<n, m>> \in Nat \X Nat /\ <<n, m>>[1] = n /\ <<n, m>>[2] = m
    OBVIOUS
  <2>3. ~(n < m)
    BY <2>1, <2>2
  <2>4. m \in Nat /\ n \in Nat
    OBVIOUS
  <2>5. QED
    BY <2>3, <2>4
<1>3. QED
  BY <1>2

\* The string of an offer is the token s exactly if the offer is s, bare or
\* behind one prefix.
LEMMA CandidateIsToken ==
  ASSUME NEW s \in SessionIds, NEW o \in Seq(Parts)
  PROVE  /\ o \notin {<<>>, <<"ctts.v1">>} /\ Candidate(o) = <<s>>
              <=> o \in {<<s>>} \cup {<<p, s>> : p \in Prefixes}
<1>1. s \in Parts /\ s \notin Prefixes /\ s # "ctts.v1"
  BY WebsocketAuthAssumption
<1>2. ASSUME o \notin {<<>>, <<"ctts.v1">>}, Candidate(o) = <<s>>
      PROVE  o \in {<<s>>} \cup {<<p, s>> : p \in Prefixes}
  <2>1. CASE Head(o) \in Prefixes
    <3>1. Tail(o) = <<s>> /\ o # <<>>
      BY <1>2, <2>1 DEF Candidate
    <3>2. o = <<Head(o), s>>
      <4>1. Len(o) = 2 /\ Tail(o)[1] = s
        <5>1. Len(Tail(o)) = Len(o) - 1 /\ Len(o) \in Nat
          BY <3>1
        <5>2. \A t : t = <<s>> => Len(t) = 1 /\ t[1] = s
          OBVIOUS
        <5>3. Len(Tail(o)) = 1 /\ Tail(o)[1] = s
          BY <3>1, <5>2, Zenon
        <5>4. QED
          BY <5>1, <5>3
      <4>2. o[1] = Head(o) /\ o[2] = s
        BY <4>1
      <4>3. QED
        BY <4>1, <4>2
    <3>3. QED
      BY <2>1, <3>2
  <2>2. CASE Head(o) \notin Prefixes
    BY <1>2, <2>2 DEF Candidate
  <2>3. QED
    BY <2>1, <2>2
<1>3. ASSUME o = <<s>>
      PROVE  o \notin {<<>>, <<"ctts.v1">>} /\ Candidate(o) = <<s>>
  <2>1. Head(o) = s /\ o # <<>> /\ o # <<"ctts.v1">>
    BY <1>1, <1>3
  <2>2. QED
    BY <1>1, <1>3, <2>1 DEF Candidate
<1>4. ASSUME NEW p \in Prefixes, o = <<p, s>>
      PROVE  o \notin {<<>>, <<"ctts.v1">>} /\ Candidate(o) = <<s>>
  <2>1. Head(o) = p /\ Tail(o) = <<s>> /\ Len(o) = 2
    BY <1>4
  <2>2. o # <<>> /\ o # <<"ctts.v1">>
    BY <2>1
  <2>3. QED
    BY <2>1, <2>2 DEF Candidate
<1>5. QED
  BY <1>2, <1>3, <1>4

\* What is in plain ASCII makes no attempt fail.
LEMMA AsciiRaisesNothing ==
  ASSUME NEW s, NEW o \in Seq(Parts), o # <<>>, \A j \in DOMAIN o : o[j] # NotAscii
  PROVE  ~Raises(s, Candidate(o))
<1>1. \A i \in DOMAIN Tail(o) : i + 1 \in DOMAIN o /\ Tail(o)[i] = o[i + 1]
  OBVIOUS
<1>2. QED
  BY <1>1 DEF Raises, Candidate

\* Of a header in plain ASCII, an offer that admits is attempted if there is one.
LEMMA AdmittedAtOnce ==
  ASSUME NEW s \in SessionIds, NEW h \in Headers,
         \A t : Admits(s, t) <=> s \in DOMAIN Live /\ t = <<s>>,
         \A i \in DOMAIN h : \A j \in DOMAIN h[i] : h[i][j] # NotAscii
  PROVE  (\E t \in Attempted(s, Candidates(h)) : Admits(s, t))
           <=> /\ s \in DOMAIN Live
               /\ \E i \in DOMAIN h :
                    h[i] \in {<<s>>} \cup {<<p, s>> : p \in Prefixes}
<1> DEFINE ts == Candidates(h)
           T  == {i \in DOMAIN ts : Admits(s, ts[i])}
<1>1. h \in Seq(Seq(Parts)) /\ DOMAIN h \subseteq Nat
  BY WebsocketAuthAssumption
<1>2. \A i : i \in DOMAIN ts <=> i \in DOMAIN h /\ h[i] \notin {<<>>, <<"ctts.v1">>}
  BY DEF Candidates
<1>3. \A i \in DOMAIN ts : ts[i] = Candidate(h[i])
  BY DEF Candidates
<1>4. \A i \in DOMAIN h : h[i] \in Seq(Parts)
  BY <1>1
<1>5. \A i \in DOMAIN ts : Decisive(s, ts[i]) => i \in T
  BY <1>2, <1>3, <1>4, AsciiRaisesNothing DEF Decisive
<1>6. (\E t \in Attempted(s, ts) : Admits(s, t)) <=> T # {}
  <2>1. ASSUME NEW t \in Attempted(s, ts), Admits(s, t) PROVE T # {}
    BY <2>1 DEF Attempted
  <2>2. ASSUME T # {} PROVE \E t \in Attempted(s, ts) : Admits(s, t)
    <3>1. T \subseteq Nat
      BY <1>1, <1>2
    <3>2. PICK m \in T : \A n \in T : m <= n
      BY <2>2, <3>1, LeastNat
    <3>3. \A k \in DOMAIN ts : k < m => ~Decisive(s, ts[k])
      BY <1>1, <1>2, <1>5, <3>1, <3>2
    <3>4. ts[m] \in Attempted(s, ts) /\ Admits(s, ts[m])
      BY <3>2, <3>3 DEF Attempted
    <3>5. QED
      BY <3>4
  <2>3. QED
    BY <2>1, <2>2
<1>7. \A i \in DOMAIN h :
        i \in T <=> s \in DOMAIN Live /\ h[i] \in {<<s>>} \cup {<<p, s>> : p \in Prefixes}
  BY <1>2, <1>3, <1>4, CandidateIsToken
<1>8. T \subseteq DOMAIN h
  BY <1>2
<1>9. QED
  BY <1>6, <1>7, <1>8

\* A request is admitted at once exactly if it offers the token of its session,
\* which is live, bare or behind one prefix, wherever in the list that is and
\* whatever else is offered in plain ASCII, for headers of any length (main.py:
\* 484-487, 538-556).  No offer before it decides otherwise, as the first that
\* admits is found by the well-foundedness of the positions.
THEOREM OfferedAdmits == AuthSpec => OfferedTokenAdmits
<1> DEFINE A == \A c \in Links : link[c] = "none" /\ link'[c] # "none" =>
                  \A h \in Headers :
                    /\ Connect(c, target'[c], h)
                    /\ \A i \in DOMAIN h : \A j \in DOMAIN h[i] : h[i][j] # NotAscii
                    => (link'[c] = "open" <=>
                          /\ target'[c] \in DOMAIN Live
                          /\ \E i \in DOMAIN h :
                               h[i] \in {<<target'[c]>>} \cup {<<p, target'[c]>> : p \in Prefixes})
<1>1. AuthInv => A
  <2>1. SUFFICES ASSUME AuthInv, NEW c \in Links, NEW h \in Headers, NEW s,
                        s = target'[c], Connect(c, s, h),
                        \A i \in DOMAIN h : \A j \in DOMAIN h[i] : h[i][j] # NotAscii
                 PROVE  link'[c] = "open" <=>
                          /\ s \in DOMAIN Live
                          /\ \E i \in DOMAIN h :
                               h[i] \in {<<s>>} \cup {<<p, s>> : p \in Prefixes}
    OBVIOUS
  <2>2. HttpInv /\ DOMAIN link = Links
    BY <2>1 DEF AuthInv
  <2>3. s \in SessionIds
    BY <2>1, <2>2 DEF Connect, HttpInv
  <2>4. link'[c] = Outcome(s, Attempted(s, Candidates(h)), "waiting")
    BY <2>1, <2>2 DEF Connect, Presents, Goes
  <2>5. link'[c] = "open" <=> \E t \in Attempted(s, Candidates(h)) : Admits(s, t)
    BY <2>4 DEF Outcome
  <2>6. \A t : Admits(s, t) <=> s \in DOMAIN Live /\ t = <<s>>
    BY <2>2, LiveTokens DEF Admits
  <2>7. QED
    BY <2>1, <2>3, <2>5, <2>6, AdmittedAtOnce
<1>2. AuthInv /\ [AuthNext]_allvars => [A]_allvars
  BY <1>1
<1>3. QED
  BY <1>2, Invariant, PTL DEF AuthSpec, OfferedTokenAdmits

=============================================================================
