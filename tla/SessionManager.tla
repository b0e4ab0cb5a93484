--------------------------- MODULE SessionManager ---------------------------
(***************************************************************************)
(* SessionManager of backend/app/sessions.py.  Every operation first reads *)
(* the clock and then takes the lock, so a call is two steps: Enter, which *)
(* reads the clock, and one of the operations below, which is everything   *)
(* done under the lock.  Between the two, other callers may run and time   *)
(* may pass.  The application calls the manager from the event loop only,  *)
(* which is Callers with one element; the lock is there for more.          *)
(*                                                                         *)
(* The clock is datetime.now(utc), a wall clock: ClockJumps says by how    *)
(* much it may move in one step, and holds negative numbers when it may be *)
(* set back.                                                               *)
(***************************************************************************)
EXTENDS SessionRecords

CONSTANTS
  Callers,       \* threads that call the manager
  NoCall,        \* a caller that is not in a call
  NewId,         \* the target of a call that names no existing session
  ClockJumps,    \* by how much the clock may move in one step
  MaxTime        \* bound on the clock

ASSUME SessionManagerAssumption ==
  /\ MaxTime \in Nat
  /\ ClockJumps \subseteq Int
  /\ NewId \notin SessionIds
  /\ NoCall \notin [id : SessionIds \cup {NewId}, now : 0..MaxTime]

VARIABLES
  clock,         \* what the next reading of the clock returns
  sessions,      \* the store: id -> record
  call,          \* call[c]: the id and clock reading of c's call, or NoCall
  issued,        \* ids returned by create_session so far
  used           \* history: latest clock reading that refreshed each session

vars == <<clock, sessions, call, issued, used>>

Init ==
  /\ clock = 0
  /\ sessions = [s \in {} |-> {}]
  /\ call = [c \in Callers |-> NoCall]
  /\ issued = {}
  /\ used = [s \in SessionIds |-> 0]

Tick ==
  /\ \E d \in ClockJumps : clock + d \in 0..MaxTime /\ clock' = clock + d
  /\ UNCHANGED <<sessions, call, issued, used>>

\* now = self._now(), the first statement of every operation.  A caller can
\* name only a session it has been told of.
Enter(c, id) ==
  /\ call[c] = NoCall
  /\ id \in issued \cup {NewId}
  /\ call' = [call EXCEPT ![c] = [id |-> id, now |-> clock]]
  /\ UNCHANGED <<clock, sessions, issued, used>>

-----------------------------------------------------------------------------
(* The part of each operation that runs under the lock.                    *)

Locked(c) == call[c] # NoCall
Live(c)   == Unexpired(sessions, call[c].now)
Found(c)  == Locked(c) /\ call[c].id \in DOMAIN Live(c)
Record(c) == Live(c)[call[c].id]

\* Leave with record r under session s, refreshed by this call.
WriteBack(c, s, r) ==
  /\ sessions' = Stored(Live(c), s, r)
  /\ used' = [used EXCEPT ![s] = IF @ < call[c].now THEN call[c].now ELSE @]
  /\ call' = [call EXCEPT ![c] = NoCall]
  /\ UNCHANGED clock

Update(c, r) == WriteBack(c, call[c].id, r) /\ UNCHANGED issued

\* Leave with nothing done but the sweep that starts every call.
SweepOnly(c) ==
  /\ sessions' = Live(c)
  /\ call' = [call EXCEPT ![c] = NoCall]
  /\ UNCHANGED <<clock, issued, used>>

\* Mutant of CreateSession: created_at is a second reading, under the lock.
CreateSessionReadingTwice(c, s, profile) ==
  /\ Locked(c)
  /\ call[c].id = NewId
  /\ s \in SessionIds \ issued
  /\ issued' = issued \cup {s}
  /\ WriteBack(c, s, [NewRecord(s, profile, call[c].now) EXCEPT !.created_at = clock])

CreateSession(c, s, profile) ==
  /\ Locked(c)
  /\ call[c].id = NewId
  /\ s \in SessionIds \ issued
  /\ issued' = issued \cup {s}
  /\ WriteBack(c, s, NewRecord(s, profile, call[c].now))

\* get_session(touch=True) and touch_session.
TouchSession(c) == Found(c) /\ Update(c, Touched(Record(c), call[c].now))

\* get_session(touch=False) and expire_stale_sessions.
ReadOrExpire(c) == Locked(c) /\ SweepOnly(c)

AuthenticateSession(c, token) ==
  /\ Found(c)
  /\ IF token = Record(c).token
     THEN Update(c, Touched(Record(c), call[c].now))
     ELSE SweepOnly(c)

TransitionState(c, requested) ==
  /\ Found(c)
  /\ IF CanMove(Record(c), requested)
     THEN Update(c, Moved(Record(c), requested, call[c].now))
     ELSE SweepOnly(c)

RequestStop(c) ==
  /\ Found(c)
  /\ IF CanStop(Record(c))
     THEN Update(c, Stopped(Record(c), call[c].now))
     ELSE SweepOnly(c)

RequestFinalize(c) ==
  /\ Found(c)
  /\ IF CanFinalize(Record(c))
     THEN Update(c, Finalized(Record(c), call[c].now))
     ELSE SweepOnly(c)

UpdateProfile(c, profile) ==
  Found(c) /\ Update(c, Reprofiled(Record(c), profile, call[c].now))

UpdateGlossary(c, version) ==
  Found(c) /\ Update(c, Reversioned(Record(c), version, call[c].now))

\* Every operation on an id the store does not hold: SessionNotFoundError.
SessionNotFound(c) == Locked(c) /\ ~Found(c) /\ SweepOnly(c)

Operation(c) ==
  \/ \E s \in SessionIds, p \in Profiles : CreateSession(c, s, p)
  \/ TouchSession(c)
  \/ ReadOrExpire(c)
  \/ \E token \in SessionIds : AuthenticateSession(c, token)
  \/ \E requested \in SessionState : TransitionState(c, requested)
  \/ RequestStop(c)
  \/ RequestFinalize(c)
  \/ \E p \in Profiles : UpdateProfile(c, p)
  \/ \E v \in Versions \cup {Stamped} : UpdateGlossary(c, v)
  \/ SessionNotFound(c)

Next ==
  \/ Tick
  \/ \E c \in Callers, id \in SessionIds \cup {NewId} : Enter(c, id)
  \/ \E c \in Callers : Operation(c)

Spec == Init /\ [][Next]_vars

-----------------------------------------------------------------------------
(* Properties.                                                             *)

\* The variables have their types, and the store holds only ids that
\* create_session has returned (sessions.py:127, 138-152).
TypeOK ==
  /\ clock \in 0..MaxTime
  /\ issued \subseteq SessionIds
  /\ DOMAIN sessions \subseteq issued
  /\ sessions \in [DOMAIN sessions -> SessionRecord]
  /\ call \in [Callers -> {NoCall} \cup [id : SessionIds \cup {NewId}, now : 0..MaxTime]]
  /\ used \in [SessionIds -> 0..MaxTime]

\* While the clock is not set back, no record says that a session was last
\* active before it was created, or in the future, however long the callers
\* that read the clock first wait for the lock (sessions.py:137-150, 184-188).
ActivityOrder ==
  \A s \in DOMAIN sessions :
    /\ sessions[s].created_at <= sessions[s].last_activity_at
    /\ sessions[s].last_activity_at <= clock

\* With one caller and a clock that is not set back, a session is deleted
\* only when every call that should have refreshed it is more than StaleAfter
\* old: each operation that succeeds keeps its session alive (sessions.py:
\* 204-208, 247-251, 277-281, 286-290 against 306-314).
KeepAlive ==
  [][\A s \in DOMAIN sessions \ DOMAIN sessions' :
       clock - used[s] > StaleAfter]_vars

PhaseOf(state) == IF state \in Active THEN "active"
                  ELSE IF state \in Ending THEN "ending" ELSE "ended"

PhaseMap == [s \in SessionIds |-> IF s \in DOMAIN sessions THEN PhaseOf(sessions[s].state)
                                 ELSE IF s \in issued THEN "gone" ELSE "unborn"]

Lifecycle == INSTANCE SessionLifecycle WITH phase <- PhaseMap

\* The manager implements the life cycle: a session that has begun to stop
\* never records again, an ended one stays ended, and an expired id is never
\* alive again, whatever the interleaving of callers and even if the clock is
\* set back (sessions.py:17-73, 260-314).
LifecycleSpec == Lifecycle!Spec

=============================================================================
