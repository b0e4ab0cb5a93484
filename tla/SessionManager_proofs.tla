------------------------ MODULE SessionManager_proofs ------------------------
(***************************************************************************)
(* Theorems about SessionManager, for every set of sessions and callers,   *)
(* every StaleAfter and every bound on the clock.                          *)
(*                                                                         *)
(* The argument.  Whatever operation runs under the lock, it either leaves *)
(* the swept store, or adds one new record, or writes back one live record *)
(* that it refreshed: OperationEffect states this once, and every other    *)
(* proof reasons about these three effects instead of ten operations.      *)
(***************************************************************************)
EXTENDS SessionManager, TLAPS

\* Under the lock, caller c stored record r for session s; the call is over.
Leaves(c, s, r) ==
  /\ sessions' = Stored(Live(c), s, r)
  /\ used' = [used EXCEPT ![s] = IF @ < call[c].now THEN call[c].now ELSE @]
  /\ r.last_activity_at = call[c].now

Created(c, s, r) ==
  /\ Leaves(c, s, r)
  /\ s \notin issued
  /\ issued' = issued \cup {s}
  /\ r.created_at = call[c].now
  /\ r.state = "idle"

Refreshed(c, s, r) ==
  /\ Leaves(c, s, r)
  /\ s = call[c].id
  /\ s \in DOMAIN Live(c)
  /\ UNCHANGED issued
  /\ r.created_at = sessions[s].created_at
  /\ CanMove(sessions[s], r.state)

Swept(c) == sessions' = Live(c) /\ UNCHANGED <<issued, used>>

-----------------------------------------------------------------------------
\* The swept store holds some of the sessions, each with its record.
LEMMA LiveStore ==
  ASSUME TypeOK, NEW c \in Callers, Locked(c)
  PROVE  /\ call[c] \in [id : SessionIds \cup {NewId}, now : 0..MaxTime]
         /\ call[c].now \in Int
         /\ Live(c) \in [DOMAIN Live(c) -> SessionRecord]
         /\ DOMAIN Live(c) \subseteq DOMAIN sessions
         /\ DOMAIN Live(c) =
              {s \in DOMAIN sessions :
                 call[c].now - sessions[s].last_activity_at <= StaleAfter}
         /\ \A s \in DOMAIN Live(c) : Live(c)[s] = sessions[s]
<1>1. call[c] \in [id : SessionIds \cup {NewId}, now : 0..MaxTime]
  BY DEF TypeOK, Locked
<1>2. call[c].now \in Int
  BY <1>1, SessionManagerAssumption
<1>3. QED
  BY <1>1, <1>2 DEF TypeOK, Live, Unexpired

\* The record an operation on an existing session starts from.
LEMMA FoundRecord ==
  ASSUME TypeOK, NEW c \in Callers, Found(c)
  PROVE  /\ call[c].id \in SessionIds
         /\ call[c].id \in DOMAIN Live(c)
         /\ call[c].now \in 0..MaxTime
         /\ Record(c) \in SessionRecord
         /\ Record(c) = sessions[call[c].id]
BY LiveStore DEF Found, TypeOK, Record

\* An update that keeps the creation time, refreshes the record and makes an
\* allowed state change is a Refreshed step.
LEMMA UpdateEffect ==
  ASSUME TypeOK, NEW c \in Callers, Found(c),
         NEW r \in SessionRecord, Update(c, r),
         r.last_activity_at = call[c].now,
         r.created_at = Record(c).created_at,
         CanMove(Record(c), r.state)
  PROVE  \E s \in SessionIds, q \in SessionRecord : Refreshed(c, s, q)
<1>1. Refreshed(c, call[c].id, r)
  BY FoundRecord DEF Refreshed, Leaves, Update, WriteBack
<1>2. QED
  BY <1>1, FoundRecord

\* What the operations do to a record, field by field.
LEMMA MovedRecord ==
  ASSUME NEW r \in SessionRecord, NEW t \in Int, NEW state \in SessionState
  PROVE  /\ Moved(r, state, t) \in SessionRecord
         /\ Moved(r, state, t).last_activity_at = t
         /\ Moved(r, state, t).created_at = r.created_at
         /\ Moved(r, state, t).state = state
BY DEF Moved, SessionRecord

LEMMA ReprofiledRecord ==
  ASSUME NEW r \in SessionRecord, NEW t \in Int, NEW p \in Profiles
  PROVE  /\ Reprofiled(r, p, t) \in SessionRecord
         /\ Reprofiled(r, p, t).last_activity_at = t
         /\ Reprofiled(r, p, t).created_at = r.created_at
         /\ Reprofiled(r, p, t).state = r.state
BY DEF Reprofiled, SessionRecord

LEMMA ReversionedRecord ==
  ASSUME NEW r \in SessionRecord, NEW t \in Int, NEW v \in Versions \cup {Stamped}
  PROVE  /\ Reversioned(r, v, t) \in SessionRecord
         /\ Reversioned(r, v, t).last_activity_at = t
         /\ Reversioned(r, v, t).created_at = r.created_at
         /\ Reversioned(r, v, t).state = r.state
BY DEF Reversioned, SessionRecord

LEMMA OperationEffect ==
  ASSUME TypeOK, NEW c \in Callers, Operation(c)
  PROVE  /\ Locked(c)
         /\ call' = [call EXCEPT ![c] = NoCall]
         /\ clock' = clock
         /\ \/ Swept(c)
            \/ \E s \in SessionIds, r \in SessionRecord : Created(c, s, r)
            \/ \E s \in SessionIds, r \in SessionRecord : Refreshed(c, s, r)
<1> DEFINE now == call[c].now
<1> DEFINE Effect ==
      /\ Locked(c)
      /\ call' = [call EXCEPT ![c] = NoCall]
      /\ clock' = clock
      /\ \/ Swept(c)
         \/ \E s \in SessionIds, r \in SessionRecord : Created(c, s, r)
         \/ \E s \in SessionIds, r \in SessionRecord : Refreshed(c, s, r)
<1>1. ASSUME Locked(c), SweepOnly(c) PROVE Effect
  BY <1>1 DEF SweepOnly, Swept
<1>2. ASSUME Found(c), NEW r \in SessionRecord, Update(c, r),
             r.last_activity_at = now,
             r.created_at = Record(c).created_at,
             CanMove(Record(c), r.state)
      PROVE  Effect
  <2>1. \E s \in SessionIds, q \in SessionRecord : Refreshed(c, s, q)
    BY <1>2, UpdateEffect
  <2>2. QED
    BY <1>2, <2>1 DEF Found, Update, WriteBack
<1>3. ASSUME NEW s \in SessionIds, NEW p \in Profiles, CreateSession(c, s, p)
      PROVE  Effect
  <2>1. now \in 0..MaxTime
    <3>1. Locked(c)
      BY <1>3 DEF CreateSession
    <3>2. QED
      BY <3>1, LiveStore
  <2>2. NewRecord(s, p, now) \in SessionRecord
    BY <2>1 DEF NewRecord, SessionRecord, SessionState, Active
  <2>3. Created(c, s, NewRecord(s, p, now))
    BY <1>3 DEF CreateSession, WriteBack, Created, Leaves, NewRecord
  <2>4. QED
    BY <1>3, <2>2, <2>3 DEF CreateSession, WriteBack
<1>4. ASSUME Found(c), Update(c, Touched(Record(c), now)) PROVE Effect
  <2>1. /\ Touched(Record(c), now) \in SessionRecord
        /\ Touched(Record(c), now).last_activity_at = now
        /\ Touched(Record(c), now).created_at = Record(c).created_at
        /\ Touched(Record(c), now).state = Record(c).state
    BY <1>4, FoundRecord DEF Touched, SessionRecord
  <2>2. QED
    BY <1>2, <1>4, <2>1 DEF CanMove
<1>5. ASSUME Found(c), NEW requested \in SessionState,
             CanMove(Record(c), requested),
             Update(c, Moved(Record(c), requested, now))
      PROVE  Effect
  <2>1. /\ Moved(Record(c), requested, now) \in SessionRecord
        /\ Moved(Record(c), requested, now).last_activity_at = now
        /\ Moved(Record(c), requested, now).created_at = Record(c).created_at
        /\ Moved(Record(c), requested, now).state = requested
    BY <1>5, FoundRecord, MovedRecord
  <2>2. QED
    BY <1>2, <1>5, <2>1
<1>6. CASE TouchSession(c)
  BY <1>4, <1>6 DEF TouchSession
<1>7. CASE ReadOrExpire(c)
  BY <1>1, <1>7 DEF ReadOrExpire
<1>8. ASSUME NEW token \in SessionIds, AuthenticateSession(c, token)
      PROVE  Effect
  BY <1>1, <1>4, <1>8 DEF AuthenticateSession, Found
<1>9. ASSUME NEW requested \in SessionState, TransitionState(c, requested)
      PROVE  Effect
  BY <1>1, <1>5, <1>9 DEF TransitionState, Found
<1>10. CASE RequestStop(c)
  <2>1. CASE ~CanStop(Record(c))
    BY <1>1, <1>10, <2>1 DEF RequestStop, Found
  <2>2. CASE CanStop(Record(c)) /\ Record(c).state \in StopIdempotentStates
    BY <1>4, <1>10, <2>2 DEF RequestStop, Stopped
  <2>3. CASE CanStop(Record(c)) /\ Record(c).state \notin StopIdempotentStates
    <3>1. CanMove(Record(c), "stopping")
      BY <2>3 DEF CanStop, StoppableStates, CanMove, AllowedTransitions
    <3>2. QED
      BY <1>5, <1>10, <2>3, <3>1 DEF RequestStop, Stopped, SessionState, Ending
  <2>4. QED
    BY <2>1, <2>2, <2>3
<1>11. CASE RequestFinalize(c)
  <2>1. CASE ~CanFinalize(Record(c))
    BY <1>1, <1>11, <2>1 DEF RequestFinalize, Found
  <2>2. CASE CanFinalize(Record(c)) /\ Record(c).state \in {"finalizing", "complete"}
    BY <1>4, <1>11, <2>2 DEF RequestFinalize, Finalized
  <2>3. CASE CanFinalize(Record(c)) /\ Record(c).state \notin {"finalizing", "complete"}
    <3>1. CanMove(Record(c), "finalizing")
      BY <2>3 DEF CanFinalize, CanMove, AllowedTransitions
    <3>2. QED
      BY <1>5, <1>11, <2>3, <3>1 DEF RequestFinalize, Finalized, SessionState, Ending
  <2>4. QED
    BY <2>1, <2>2, <2>3
<1>12. ASSUME NEW p \in Profiles, UpdateProfile(c, p) PROVE Effect
  <2> DEFINE r == Reprofiled(Record(c), p, now)
  <2>1. Found(c) /\ Update(c, r)
    BY <1>12 DEF UpdateProfile
  <2>2. /\ r \in SessionRecord
        /\ r.last_activity_at = now
        /\ r.created_at = Record(c).created_at
        /\ r.state = Record(c).state
    BY <2>1, FoundRecord, ReprofiledRecord
  <2>3. QED
    BY <1>2, <2>1, <2>2 DEF CanMove
<1>13. ASSUME NEW v \in Versions \cup {Stamped}, UpdateGlossary(c, v) PROVE Effect
  <2> DEFINE r == Reversioned(Record(c), v, now)
  <2>1. Found(c) /\ Update(c, r)
    BY <1>13 DEF UpdateGlossary
  <2>2. /\ r \in SessionRecord
        /\ r.last_activity_at = now
        /\ r.created_at = Record(c).created_at
        /\ r.state = Record(c).state
    BY <2>1, FoundRecord, ReversionedRecord
  <2>3. QED
    BY <1>2, <2>1, <2>2 DEF CanMove
<1>14. CASE SessionNotFound(c)
  BY <1>1, <1>14 DEF SessionNotFound
<1>15. QED
  BY <1>3, <1>6, <1>7, <1>8, <1>9, <1>10, <1>11, <1>12, <1>13, <1>14 DEF Operation

-----------------------------------------------------------------------------
\* What a Leaves step makes of the store: one record changes, the swept ones go.
LEMMA LeavesStore ==
  ASSUME TypeOK, NEW c \in Callers, Locked(c),
         NEW s \in SessionIds, NEW r \in SessionRecord, Leaves(c, s, r)
  PROVE  /\ DOMAIN sessions' = DOMAIN Live(c) \cup {s}
         /\ sessions' \in [DOMAIN sessions' -> SessionRecord]
         /\ sessions'[s] = r
         /\ \A x \in DOMAIN sessions' \ {s} :
              x \in DOMAIN sessions /\ sessions'[x] = sessions[x]
         /\ used' \in [SessionIds -> 0..MaxTime]
         /\ \A x \in SessionIds \ {s} : used'[x] = used[x]
         /\ used'[s] >= used[s] /\ used'[s] >= call[c].now
         /\ used'[s] = used[s] \/ used'[s] = call[c].now
<1>1. sessions' = [x \in DOMAIN Live(c) \cup {s} |-> IF x = s THEN r ELSE Live(c)[x]]
  BY DEF Leaves, Stored
<1>2. /\ DOMAIN sessions' = DOMAIN Live(c) \cup {s}
      /\ sessions' \in [DOMAIN sessions' -> SessionRecord]
      /\ sessions'[s] = r
      /\ \A x \in DOMAIN sessions' \ {s} :
              x \in DOMAIN sessions /\ sessions'[x] = sessions[x]
  BY <1>1, LiveStore
<1>3. call[c].now \in 0..MaxTime
  BY LiveStore
<1>4. QED
  BY <1>2, <1>3, SessionManagerAssumption DEF Leaves, TypeOK

LEMMA TypeInitial == Init => TypeOK
BY SessionManagerAssumption DEF Init, TypeOK

LEMMA TypeStep == TypeOK /\ [Next]_vars => TypeOK'
<1> SUFFICES ASSUME TypeOK, [Next]_vars PROVE TypeOK'
  OBVIOUS
<1>1. CASE Tick
  BY <1>1 DEF Tick, TypeOK
<1>2. ASSUME NEW c \in Callers, NEW id \in SessionIds \cup {NewId}, Enter(c, id)
      PROVE  TypeOK'
  BY <1>2 DEF Enter, TypeOK
<1>3. ASSUME NEW c \in Callers, Operation(c) PROVE TypeOK'
  <2>1. /\ Locked(c)
        /\ clock' \in 0..MaxTime
        /\ call' \in [Callers -> {NoCall} \cup [id : SessionIds \cup {NewId}, now : 0..MaxTime]]
    BY <1>3, OperationEffect DEF TypeOK
  <2>2. CASE Swept(c)
    BY <2>1, <2>2, LiveStore DEF Swept, TypeOK
  <2>3. ASSUME NEW s \in SessionIds, NEW r \in SessionRecord, Created(c, s, r)
        PROVE  TypeOK'
    <3>1. Leaves(c, s, r) /\ issued' = issued \cup {s}
      BY <2>3 DEF Created
    <3>2. QED
      BY <2>1, <3>1, LeavesStore, LiveStore DEF TypeOK
  <2>4. ASSUME NEW s \in SessionIds, NEW r \in SessionRecord, Refreshed(c, s, r)
        PROVE  TypeOK'
    <3>1. Leaves(c, s, r) /\ issued' = issued /\ s \in DOMAIN Live(c)
      BY <2>4 DEF Refreshed
    <3>2. DOMAIN Live(c) \subseteq issued
      BY <2>1, LiveStore DEF TypeOK
    <3>3. /\ DOMAIN sessions' = DOMAIN Live(c) \cup {s}
          /\ sessions' \in [DOMAIN sessions' -> SessionRecord]
          /\ used' \in [SessionIds -> 0..MaxTime]
      BY <2>1, <3>1, LeavesStore
    <3>4. QED
      BY <2>1, <3>1, <3>2, <3>3 DEF TypeOK
  <2>5. QED
    BY <1>3, <2>2, <2>3, <2>4, OperationEffect
<1>4. CASE UNCHANGED vars
  BY <1>4 DEF vars, TypeOK
<1>5. QED
  BY <1>1, <1>2, <1>3, <1>4 DEF Next

\* The types of the variables, and that the store holds only ids that
\* create_session returned, hold for every number of sessions and callers and
\* for a clock that may be set back.
THEOREM TypeCorrect == Spec => []TypeOK
BY TypeInitial, TypeStep, PTL DEF Spec

-----------------------------------------------------------------------------
\* Why ActivityOrder holds.  A call waiting for the lock carries a reading of
\* the clock that may be older than the record it will write to, so the
\* invariant also has to bound what the waiting calls carry: a caller names a
\* session only after it was created, hence its reading is no older than the
\* session.  This needs the clock not to be set back.
ReadingsInOrder ==
  \A c \in Callers :
    Locked(c) =>
      /\ call[c].now <= clock
      /\ call[c].id \in issued \cup {NewId}
      /\ \A s \in DOMAIN sessions :
           call[c].id = s => sessions[s].created_at <= call[c].now

OrderInv == TypeOK /\ ActivityOrder /\ ReadingsInOrder

LEMMA OrderInitial == Init => OrderInv
BY TypeInitial DEF Init, OrderInv, ActivityOrder, ReadingsInOrder, Locked

\* The calls that wait while c's operation runs keep their place and reading.
LEMMA OtherCalls ==
  ASSUME TypeOK, NEW c \in Callers, call' = [call EXCEPT ![c] = NoCall],
         NEW d \in Callers, Locked(d)'
  PROVE  d # c /\ Locked(d) /\ call'[d] = call[d]
BY DEF TypeOK, Locked

LEMMA OrderStep ==
  ASSUME ClockJumps \subseteq Nat
  PROVE  OrderInv /\ [Next]_vars => OrderInv'
<1> SUFFICES ASSUME OrderInv, [Next]_vars PROVE OrderInv'
  OBVIOUS
<1> USE DEF OrderInv
<1>1. TypeOK'
  BY TypeStep
<1>2. CASE Tick
  <2>1. clock' >= clock /\ clock \in Int /\ clock' \in Int
    BY <1>2 DEF Tick, TypeOK
  <2>2. sessions' = sessions /\ call' = call /\ issued' = issued
    BY <1>2 DEF Tick
  <2>3. ActivityOrder'
    BY <2>1, <2>2 DEF ActivityOrder, TypeOK, SessionRecord
  <2>4. ReadingsInOrder'
    <3>1. \A c \in Callers : Locked(c) => call[c].now \in Int
      BY LiveStore
    <3>2. QED
      BY <2>1, <2>2, <3>1 DEF ReadingsInOrder, Locked
  <2>5. QED
    BY <1>1, <2>3, <2>4
<1>3. ASSUME NEW c \in Callers, NEW id \in SessionIds \cup {NewId}, Enter(c, id)
      PROVE  OrderInv'
  <2>1. ActivityOrder'
    BY <1>3 DEF Enter, ActivityOrder
  <2>2. ASSUME NEW d \in Callers, Locked(d)'
        PROVE  /\ call'[d].now <= clock'
               /\ call'[d].id \in issued' \cup {NewId}
               /\ \A s \in DOMAIN sessions' :
                    call'[d].id = s => sessions'[s].created_at <= call'[d].now
    <3>1. CASE d = c
      <4>1. /\ call'[d].now = clock /\ call'[d].id \in issued' \cup {NewId}
            /\ clock' = clock /\ sessions' = sessions
        BY <1>3, <3>1 DEF Enter, TypeOK
      <4>2. \A s \in DOMAIN sessions : sessions[s].created_at <= clock
        BY DEF ActivityOrder, TypeOK, SessionRecord
      <4>3. QED
        BY <4>1, <4>2 DEF TypeOK
    <3>2. CASE d # c
      <4>1. /\ Locked(d) /\ call'[d] = call[d] /\ clock' = clock
            /\ sessions' = sessions /\ issued' = issued
        BY <1>3, <2>2, <3>2 DEF Enter, TypeOK, Locked
      <4>2. QED
        BY <4>1 DEF ReadingsInOrder
    <3>3. QED
      BY <3>1, <3>2
  <2>3. QED
    BY <1>1, <2>1, <2>2 DEF ReadingsInOrder
<1>4. ASSUME NEW c \in Callers, Operation(c) PROVE OrderInv'
  <2>1. /\ Locked(c)
        /\ call' = [call EXCEPT ![c] = NoCall]
        /\ clock' = clock
    BY <1>4, OperationEffect
  <2>2. call[c].now \in Int /\ call[c].now <= clock /\ clock \in Int
    <3>1. call[c].now \in Int
      BY <2>1, LiveStore
    <3>2. QED
      BY <2>1, <3>1, SessionManagerAssumption DEF ReadingsInOrder, TypeOK
  <2>3. CASE Swept(c)
    <3>1. \A s \in DOMAIN sessions' : s \in DOMAIN sessions /\ sessions'[s] = sessions[s]
      BY <2>1, <2>3, LiveStore DEF Swept
    <3>2. ActivityOrder'
      BY <2>1, <3>1 DEF ActivityOrder
    <3>3. ReadingsInOrder'
      BY <2>1, <2>3, <3>1, OtherCalls DEF ReadingsInOrder, Swept
    <3>4. QED
      BY <1>1, <3>2, <3>3
  <2>4. ASSUME NEW s \in SessionIds, NEW r \in SessionRecord, Leaves(c, s, r),
               r.created_at <= call[c].now,
               issued \subseteq issued',
               \A d \in Callers \ {c} : Locked(d) /\ call[d].id = s => r.created_at <= call[d].now
        PROVE  OrderInv'
    <3>1. /\ sessions'[s] = r
          /\ \A x \in DOMAIN sessions' \ {s} :
              x \in DOMAIN sessions /\ sessions'[x] = sessions[x]
      BY ZenonT(40), <2>1, <2>4, LeavesStore
    <3>2. r.last_activity_at = call[c].now
      BY <2>4 DEF Leaves
    <3>3. ActivityOrder'
      BY <2>1, <2>2, <2>4, <3>1, <3>2 DEF ActivityOrder
    <3>4. ReadingsInOrder'
      BY <2>1, <2>4, <3>1, OtherCalls DEF ReadingsInOrder
    <3>5. QED
      BY <1>1, <3>3, <3>4
  <2>5. ASSUME NEW s \in SessionIds, NEW r \in SessionRecord, Created(c, s, r)
        PROVE  OrderInv'
    <3>1. /\ r.created_at = call[c].now /\ Leaves(c, s, r)
          /\ s \notin issued /\ issued' = issued \cup {s}
      BY <2>5 DEF Created
    <3>2. \A d \in Callers \ {c} : Locked(d) => call[d].id # s
      BY <3>1, SessionManagerAssumption DEF ReadingsInOrder
    <3>3. QED
      BY <2>2, <2>4, <3>1, <3>2
  <2>6. ASSUME NEW s \in SessionIds, NEW r \in SessionRecord, Refreshed(c, s, r)
        PROVE  OrderInv'
    <3>1. /\ r.created_at = sessions[s].created_at
          /\ Leaves(c, s, r) /\ issued' = issued
          /\ s = call[c].id
          /\ s \in DOMAIN sessions
      BY <2>1, <2>6, LiveStore DEF Refreshed
    <3>2. QED
      BY <2>1, <2>4, <3>1 DEF ReadingsInOrder
  <2>7. QED
    BY <1>4, <2>3, <2>5, <2>6, OperationEffect
<1>5. CASE UNCHANGED vars
  BY <1>1, <1>5 DEF vars, ActivityOrder, ReadingsInOrder, Locked
<1>6. QED
  BY <1>2, <1>3, <1>4, <1>5 DEF Next

\* With a clock that is not set back, no record is ever last active before it
\* was created or in the future, for any number of callers contending for the
\* lock with readings taken before it.
THEOREM ActivityOrdered ==
  ASSUME ClockJumps \subseteq Nat
  PROVE  Spec => []ActivityOrder
<1>1. Init => OrderInv
  BY OrderInitial
<1>2. OrderInv /\ [Next]_vars => OrderInv'
  BY OrderStep
<1>3. OrderInv => ActivityOrder
  BY DEF OrderInv
<1>4. QED
  BY <1>1, <1>2, <1>3, PTL DEF Spec

-----------------------------------------------------------------------------
\* Why KeepAlive holds.  The record of every live session must be at least as
\* recent as the last refresh that succeeded.  A call could undo a refresh by
\* writing an older reading over it, unless no call carries a reading older
\* than a record: with one caller, no other call ran since the reading.
UseRecorded ==
  \A s \in DOMAIN sessions : used[s] <= sessions[s].last_activity_at

ReadingsRecent ==
  \A c \in Callers :
    Locked(c) => /\ call[c].now <= clock
                 /\ \A s \in SessionIds : used[s] <= call[c].now

UsedInPast == \A s \in SessionIds : used[s] <= clock

AliveInv == TypeOK /\ UseRecorded /\ ReadingsRecent /\ UsedInPast

SingleCaller == \A c, d \in Callers : c = d

LEMMA AliveInitial == Init => AliveInv
<1> SUFFICES ASSUME Init PROVE AliveInv
  OBVIOUS
<1>1. TypeOK
  BY TypeInitial
<1>2. UseRecorded /\ UsedInPast
  BY DEF Init, UseRecorded, UsedInPast
<1>3. ReadingsRecent
  BY DEF Init, ReadingsRecent, Locked
<1>4. QED
  BY <1>1, <1>2, <1>3 DEF AliveInv

LEMMA AliveStep ==
  ASSUME ClockJumps \subseteq Nat, SingleCaller
  PROVE  AliveInv /\ [Next]_vars => AliveInv'
<1> SUFFICES ASSUME AliveInv, [Next]_vars PROVE AliveInv'
  OBVIOUS
<1> USE DEF AliveInv
<1>1. TypeOK'
  BY TypeStep
<1>2. \A s \in SessionIds : used[s] \in Int
  BY SessionManagerAssumption DEF TypeOK
<1>3. CASE Tick
  <2>1. clock' >= clock /\ clock \in Int /\ clock' \in Int
    BY <1>3, SessionManagerAssumption DEF Tick, TypeOK
  <2>2. sessions' = sessions /\ call' = call /\ used' = used
    BY <1>3 DEF Tick
  <2>3. UseRecorded'
    BY <2>2 DEF UseRecorded
  <2>4. UsedInPast'
    BY <1>2, <2>1, <2>2 DEF UsedInPast
  <2>5. \A c \in Callers : Locked(c) => call[c].now \in Int
    BY LiveStore
  <2>6. ReadingsRecent'
    BY <2>1, <2>2, <2>5 DEF ReadingsRecent, Locked
  <2>7. QED
    BY <1>1, <2>3, <2>4, <2>6
<1>4. ASSUME NEW c \in Callers, NEW id \in SessionIds \cup {NewId}, Enter(c, id)
      PROVE  AliveInv'
  <2>1. /\ clock' = clock /\ sessions' = sessions /\ used' = used
        /\ call' = [call EXCEPT ![c] = [id |-> id, now |-> clock]]
    BY <1>4 DEF Enter
  <2>2. UseRecorded' /\ UsedInPast'
    BY <2>1 DEF UseRecorded, UsedInPast
  <2>3. \A d \in Callers : call'[d].now = clock
    BY <2>1 DEF SingleCaller, TypeOK
  <2>4. ReadingsRecent'
    BY <2>1, <2>3, SessionManagerAssumption DEF ReadingsRecent, UsedInPast, TypeOK
  <2>5. QED
    BY <1>1, <2>2, <2>4
<1>5. ASSUME NEW c \in Callers, Operation(c) PROVE AliveInv'
  <2>1. /\ Locked(c)
        /\ call' = [call EXCEPT ![c] = NoCall]
        /\ clock' = clock
    BY <1>5, OperationEffect
  <2>2. ReadingsRecent'
    BY <2>1, OtherCalls DEF ReadingsRecent, SingleCaller
  <2>3. /\ call[c].now \in Int /\ clock \in Int /\ call[c].now <= clock
        /\ \A s \in SessionIds : used[s] <= call[c].now
    <3>1. call[c].now \in Int
      BY <2>1, LiveStore
    <3>2. QED
      BY <2>1, <3>1, SessionManagerAssumption DEF ReadingsRecent, TypeOK
  <2>4. CASE Swept(c)
    <3>1. \A s \in DOMAIN sessions' : s \in DOMAIN sessions /\ sessions'[s] = sessions[s]
      BY <2>1, <2>4, LiveStore DEF Swept
    <3>2. UseRecorded' /\ UsedInPast'
      BY <2>1, <2>4, <3>1 DEF UseRecorded, UsedInPast, Swept
    <3>3. QED
      BY <1>1, <2>2, <3>2
  <2>5. ASSUME NEW s \in SessionIds, NEW r \in SessionRecord, Leaves(c, s, r)
        PROVE  AliveInv'
    <3>1. /\ sessions'[s] = r
          /\ \A x \in DOMAIN sessions' \ {s} :
              x \in DOMAIN sessions /\ sessions'[x] = sessions[x]
          /\ \A x \in SessionIds \ {s} : used'[x] = used[x]
          /\ used'[s] = used[s] \/ used'[s] = call[c].now
      BY ZenonT(40), <2>1, <2>5, LeavesStore
    <3>2. r.last_activity_at = call[c].now
      BY <2>5 DEF Leaves
    <3>3. used'[s] <= call[c].now
      BY <2>3, <3>1
    <3>4. UseRecorded'
      <4>1. DOMAIN sessions' \subseteq SessionIds
        BY <1>1 DEF TypeOK
      <4>2. QED
        BY <3>1, <3>2, <3>3, <4>1 DEF UseRecorded
    <3>5. UsedInPast'
      BY <1>2, <2>1, <2>3, <3>1 DEF UsedInPast
    <3>6. QED
      BY <1>1, <2>2, <3>4, <3>5
  <2>6. QED
    BY <1>5, <2>4, <2>5, OperationEffect DEF Created, Refreshed
<1>6. CASE UNCHANGED vars
  BY <1>1, <1>6 DEF vars, UseRecorded, ReadingsRecent, UsedInPast, Locked
<1>7. QED
  BY <1>3, <1>4, <1>5, <1>6 DEF Next

\* A session that leaves the store was swept by a call whose reading of the
\* clock is more than StaleAfter past the last refresh.
LEMMA SweptIsStale ==
  ASSUME AliveInv, [Next]_vars, NEW s \in DOMAIN sessions \ DOMAIN sessions'
  PROVE  clock - used[s] > StaleAfter
<1>1. ASSUME NEW c \in Callers, Operation(c), s \notin DOMAIN Live(c)
      PROVE  clock - used[s] > StaleAfter
  <2>1. Locked(c)
    BY <1>1, OperationEffect DEF AliveInv
  <2>2. /\ call[c].now \in Int /\ sessions[s].last_activity_at \in Int
        /\ used[s] \in Int /\ clock \in Int /\ s \in SessionIds
    <3>1. call[c].now \in Int
      BY <2>1, LiveStore DEF AliveInv
    <3>2. QED
      BY <3>1, SessionManagerAssumption DEF AliveInv, TypeOK, SessionRecord
  <2>3. call[c].now - sessions[s].last_activity_at > StaleAfter
    <3>1. ~(call[c].now - sessions[s].last_activity_at <= StaleAfter)
      BY <1>1, <2>1, LiveStore DEF AliveInv
    <3>2. QED
      BY <2>2, <3>1, StaleAfterAssumption
  <2>4. used[s] <= sessions[s].last_activity_at /\ call[c].now <= clock
    BY <2>1 DEF AliveInv, UseRecorded, ReadingsRecent
  <2>5. QED
    BY <2>2, <2>3, <2>4, StaleAfterAssumption
<1>2. ASSUME NEW c \in Callers, Operation(c)
      PROVE  s \notin DOMAIN Live(c)
  <2>1. Locked(c) /\ TypeOK
    BY <1>2, OperationEffect DEF AliveInv
  <2>2. DOMAIN Live(c) \subseteq DOMAIN sessions'
    <3>1. CASE Swept(c)
      BY <3>1 DEF Swept
    <3>2. ASSUME NEW t \in SessionIds, NEW r \in SessionRecord, Leaves(c, t, r)
          PROVE  DOMAIN Live(c) \subseteq DOMAIN sessions'
      BY ZenonT(40), <2>1, <3>2, LeavesStore
    <3>3. QED
      BY <1>2, <2>1, <3>1, <3>2, OperationEffect DEF Created, Refreshed
  <2>3. QED
    BY <2>2
<1>3. QED
  BY <1>1, <1>2 DEF Next, Tick, Enter, vars

\* With one caller and a clock that is not set back, no session is deleted
\* while a refresh within the last StaleAfter seconds succeeded.
THEOREM KeepsAlive ==
  ASSUME ClockJumps \subseteq Nat, SingleCaller
  PROVE  Spec => KeepAlive
<1>1. Init => AliveInv
  BY AliveInitial
<1>2. AliveInv /\ [Next]_vars => AliveInv'
  BY AliveStep
<1>3. AliveInv /\ [Next]_vars
        => [\A s \in DOMAIN sessions \ DOMAIN sessions' : clock - used[s] > StaleAfter]_vars
  BY SweptIsStale
<1>4. QED
  BY <1>1, <1>2, <1>3, PTL DEF Spec, KeepAlive

-----------------------------------------------------------------------------
\* The table of state changes only ever carries a session forward.
LEMMA MovesForward ==
  ASSUME NEW r \in SessionRecord, NEW q \in SessionRecord, CanMove(r, q.state)
  PROVE  \/ PhaseOf(q.state) = PhaseOf(r.state)
         \/ PhaseOf(q.state) \in Lifecycle!Onward(PhaseOf(r.state))
<1>1. r.state \in SessionState /\ q.state \in SessionState
  BY DEF SessionRecord
<1>2. QED
  BY <1>1 DEF CanMove, AllowedTransitions, SessionState, Active, Ending, Ended,
              PhaseOf, Lifecycle!Onward

LEMMA PhaseIsPhase ==
  ASSUME NEW state \in SessionState
  PROVE  PhaseOf(state) \in {"active", "ending", "ended"}
BY DEF PhaseOf

\* A sweep of the store is a sweep of the abstract sessions.
Expired == {s \in DOMAIN sessions : s \notin DOMAIN sessions'}

LEMMA ExpiredForgettable == TypeOK => Expired \in SUBSET Lifecycle!Forgettable
<1> SUFFICES ASSUME TypeOK, NEW s \in Expired
             PROVE  s \in SessionIds /\ PhaseMap[s] \in {"active", "ending", "ended"}
  BY DEF Lifecycle!Forgettable
<1>1. s \in SessionIds /\ s \in DOMAIN sessions /\ sessions[s].state \in SessionState
  BY DEF Expired, TypeOK, SessionRecord
<1>2. QED
  BY <1>1, PhaseIsPhase DEF PhaseMap

LEMMA LifecycleStep ==
  ASSUME TypeOK, TypeOK', [Next]_vars
  PROVE  [Lifecycle!Next]_PhaseMap
<1> DEFINE Goal == [Lifecycle!Next]_PhaseMap
<1>1. ASSUME Lifecycle!Sweep(Expired) PROVE Goal
  BY <1>1, ExpiredForgettable DEF Lifecycle!Next
<1>2. ASSUME NEW s \in SessionIds, NEW p \in Lifecycle!Phases,
             Lifecycle!SweepAndCarry(Expired, s, p)
      PROVE  Goal
  BY <1>2, ExpiredForgettable DEF Lifecycle!Next
<1>3. ASSUME UNCHANGED <<sessions, issued>> PROVE Goal
  BY <1>3 DEF PhaseMap
<1>4. ASSUME NEW c \in Callers, Operation(c) PROVE Goal
  <2>1. Locked(c)
    BY <1>4, OperationEffect
  <2>2. CASE Swept(c)
    <3>1. /\ issued' = issued
          /\ \A x \in DOMAIN sessions' : x \in DOMAIN sessions /\ sessions'[x] = sessions[x]
      BY <2>1, <2>2, LiveStore DEF Swept
    <3>2. PhaseMap' = [x \in SessionIds |-> IF x \in Expired THEN "gone" ELSE PhaseMap[x]]
      BY <3>1 DEF PhaseMap, Expired, TypeOK
    <3>3. QED
      BY <1>1, <3>2 DEF Lifecycle!Sweep
  <2>3. ASSUME NEW s \in SessionIds, NEW r \in SessionRecord, Created(c, s, r)
        PROVE  Goal
    <3>1. /\ s \in DOMAIN sessions' /\ sessions'[s] = r
          /\ \A x \in DOMAIN sessions' \ {s} :
               x \in DOMAIN sessions /\ sessions'[x] = sessions[x]
      <4>1. Leaves(c, s, r)
        BY <2>3 DEF Created
      <4>2. DOMAIN sessions' = DOMAIN Live(c) \cup {s}
        BY <2>1, <4>1, LeavesStore
      <4>3. QED
        BY <2>1, <4>1, <4>2, LeavesStore
    <3>2. s \notin issued /\ issued' = issued \cup {s} /\ r.state = "idle"
      BY <2>3 DEF Created
    <3>3. s \notin DOMAIN sessions /\ s \notin Expired
      BY <3>1, <3>2 DEF TypeOK, Expired
    <3>4. PhaseMap[s] = "unborn" /\ PhaseMap'[s] = "active"
      BY <3>1, <3>2, <3>3 DEF PhaseMap, PhaseOf, Active
    <3>5. \A x \in SessionIds \ {s} :
            PhaseMap'[x] = IF x \in Expired THEN "gone" ELSE PhaseMap[x]
      BY <3>1, <3>2 DEF PhaseMap, Expired, TypeOK
    <3>6. PhaseMap' = [x \in SessionIds |-> IF x \in Expired THEN "gone"
                                           ELSE IF x = s THEN "active" ELSE PhaseMap[x]]
      <4>1. PhaseMap' = [x \in SessionIds |-> PhaseMap'[x]]
        BY DEF PhaseMap
      <4>2. QED
        BY <3>3, <3>4, <3>5, <4>1
    <3>7. Lifecycle!SweepAndCarry(Expired, s, "active")
      BY <3>3, <3>4, <3>6 DEF Lifecycle!SweepAndCarry, Lifecycle!Onward
    <3>8. QED
      BY <1>2, <3>7 DEF Lifecycle!Phases
  <2>4. ASSUME NEW s \in SessionIds, NEW r \in SessionRecord, Refreshed(c, s, r)
        PROVE  Goal
    <3> DEFINE old == PhaseOf(sessions[s].state)
               new == PhaseOf(r.state)
    <3>1. /\ s \in DOMAIN sessions' /\ sessions'[s] = r
          /\ \A x \in DOMAIN sessions' \ {s} :
               x \in DOMAIN sessions /\ sessions'[x] = sessions[x]
      <4>1. Leaves(c, s, r)
        BY <2>4 DEF Refreshed
      <4>2. DOMAIN sessions' = DOMAIN Live(c) \cup {s}
        BY <2>1, <4>1, LeavesStore
      <4>3. QED
        BY <2>1, <4>1, <4>2, LeavesStore
    <3>2. issued' = issued /\ s \in DOMAIN sessions /\ CanMove(sessions[s], r.state)
      BY <2>1, <2>4, LiveStore DEF Refreshed
    <3>3. new = old \/ new \in Lifecycle!Onward(old)
      BY <3>2, MovesForward DEF TypeOK
    <3>4. PhaseMap[s] = old /\ PhaseMap'[s] = new /\ s \notin Expired
      BY <3>1, <3>2 DEF PhaseMap, Expired
    <3>5. \A x \in SessionIds \ {s} :
            PhaseMap'[x] = IF x \in Expired THEN "gone" ELSE PhaseMap[x]
      BY <3>1, <3>2 DEF PhaseMap, Expired, TypeOK
    <3>6. PhaseMap' = [x \in SessionIds |-> IF x \in Expired THEN "gone"
                                           ELSE IF x = s THEN new ELSE PhaseMap[x]]
      <4>1. PhaseMap' = [x \in SessionIds |-> PhaseMap'[x]]
        BY DEF PhaseMap
      <4>2. QED
        BY <3>4, <3>5, <4>1
    <3>7. CASE new = old
      <4>1. Lifecycle!Sweep(Expired)
        BY <3>4, <3>6, <3>7 DEF Lifecycle!Sweep
      <4>2. QED
        BY <1>1, <4>1
    <3>8. CASE new \in Lifecycle!Onward(old)
      <4>1. Lifecycle!SweepAndCarry(Expired, s, new)
        BY <3>4, <3>6, <3>8 DEF Lifecycle!SweepAndCarry
      <4>2. new \in Lifecycle!Phases
        BY PhaseIsPhase DEF Lifecycle!Phases, SessionRecord
      <4>3. QED
        BY <1>2, <4>1, <4>2
    <3>9. QED
      BY <3>3, <3>7, <3>8
  <2>5. QED
    BY <1>4, <2>2, <2>3, <2>4, OperationEffect
<1>5. QED
  BY <1>3, <1>4 DEF Next, Tick, Enter, vars

LEMMA LifecycleInitial == Init => Lifecycle!Init
BY DEF Init, Lifecycle!Init, PhaseMap

\* The session manager implements the life cycle, for any number of callers
\* and even when the clock is set back: no interleaving lets a stopping session
\* record again or an expired id come back.
THEOREM LifecycleImplemented == Spec => LifecycleSpec
<1>1. Init => Lifecycle!Init
  BY LifecycleInitial
<1>2. TypeOK /\ TypeOK' /\ [Next]_vars => [Lifecycle!Next]_PhaseMap
  BY LifecycleStep
<1>3. Spec => []TypeOK
  BY TypeCorrect
<1>4. QED
  BY <1>1, <1>2, <1>3, PTL DEF Spec, LifecycleSpec, Lifecycle!Spec

=============================================================================
