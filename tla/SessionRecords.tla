--------------------------- MODULE SessionRecords ---------------------------
(***************************************************************************)
(* The data of backend/app/sessions.py: the session record, the table of   *)
(* allowed state changes, and what each operation of SessionManager        *)
(* computes from the store and one reading of the clock.  The store is a   *)
(* partial function from session ids to records (the dict _sessions): an   *)
(* id outside its domain is unknown to the manager.                        *)
(*                                                                         *)
(* Abstractions.  A token is named by the session it was issued to, since  *)
(* tokens are only compared for equality.  Profiles and glossary versions  *)
(* are model values; Stamped stands for the version the manager makes from *)
(* its clock when the caller gives none.  Times are whole seconds.         *)
(***************************************************************************)
EXTENDS Integers

CONSTANTS
  SessionIds,    \* ids that uuid4 may hand out; no id is handed out twice
  Profiles,      \* SchedulerProfile
  Versions,      \* glossary versions a caller may name
  NoVersion,     \* glossary_version = None
  Stamped,       \* a glossary version made from the clock
  StaleAfter     \* stale_after_seconds

ASSUME StaleAfterAssumption == StaleAfter \in Nat \ {0}

Active == {"idle", "starting", "recording", "paused"}
Ending == {"stopping", "finalizing"}
Ended  == {"complete", "error"}
SessionState == Active \cup Ending \cup Ended

AllowedTransitions ==
  [idle       |-> {"starting", "recording", "stopping", "error"},
   starting   |-> {"recording", "stopping", "error"},
   recording  |-> {"paused", "stopping", "error"},
   paused     |-> {"recording", "stopping", "error"},
   stopping   |-> {"finalizing", "complete", "error"},
   finalizing |-> {"complete", "error"},
   complete   |-> {},
   error      |-> {}]

StoppableStates == {"idle", "starting", "recording", "paused"}
StopIdempotentStates == {"stopping", "finalizing", "complete"}

SessionRecord ==
  [token            : SessionIds,
   profile          : Profiles,
   state            : SessionState,
   created_at       : Int,
   last_activity_at : Int,
   glossary_version : Versions \cup {NoVersion, Stamped}]

NewRecord(s, profile, now) ==
  [token |-> s, profile |-> profile, state |-> "idle", created_at |-> now,
   last_activity_at |-> now, glossary_version |-> NoVersion]

-----------------------------------------------------------------------------
(* The steps every operation is made of.                                   *)

\* The store once every session idle for more than StaleAfter is deleted.
Unexpired(store, now) ==
  [s \in {x \in DOMAIN store :
            now - store[x].last_activity_at <= StaleAfter} |-> store[s]]

\* The store with record r under id s, whether or not s was there.
Stored(store, s, r) ==
  [x \in DOMAIN store \cup {s} |-> IF x = s THEN r ELSE store[x]]

Touched(r, now) == [r EXCEPT !.last_activity_at = now]

\* Mutant of CanMove: the table of allowed changes is not consulted.
CanMoveAnywhere(r, requested) == r.state \in SessionState /\ requested \in SessionState

\* Asking for the state a session is in already is allowed, and touches it.
CanMove(r, requested) ==
  \/ requested = r.state
  \/ requested \in AllowedTransitions[r.state]

Moved(r, requested, now) ==
  [r EXCEPT !.state = requested, !.last_activity_at = now]

CanStop(r) == r.state \in StopIdempotentStates \cup StoppableStates

Stopped(r, now) ==
  IF r.state \in StopIdempotentStates
  THEN Touched(r, now)
  ELSE Moved(r, "stopping", now)

CanFinalize(r) == r.state \in {"stopping", "finalizing", "complete"}

Finalized(r, now) ==
  IF r.state \in {"finalizing", "complete"}
  THEN Touched(r, now)
  ELSE Moved(r, "finalizing", now)

Reprofiled(r, profile, now) ==
  [r EXCEPT !.profile = profile, !.last_activity_at = now]

\* Mutants of Reversioned: the update does not count as activity; the version
\* made from the clock is the bare reading.
ReversionedQuietly(r, version, now) == [r EXCEPT !.glossary_version = version]
ReversionedByReading(r, version, now) ==
  [r EXCEPT !.glossary_version = now, !.last_activity_at = now]

Reversioned(r, version, now) ==
  [r EXCEPT !.glossary_version = version, !.last_activity_at = now]

=============================================================================
