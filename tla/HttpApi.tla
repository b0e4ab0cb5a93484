------------------------------ MODULE HttpApi ------------------------------
(***************************************************************************)
(* The HTTP operations of create_app (backend/app/main.py) and what their  *)
(* clients are answered, with the handlers of backend/app/errors.py that   *)
(* turn each exception into an answer.  Handlers of HTTP requests wait for *)
(* nothing, so a request is one step, and a client whose answer is lost    *)
(* and that asks again is another request like the first.                  *)
(***************************************************************************)
EXTENDS SessionRecords

CONSTANTS
  DefaultProfile,    \* default_profile of the settings
  MaxTime            \* bound on the clock

ASSUME HttpApiAssumption ==
  /\ DefaultProfile \in Profiles /\ MaxTime \in Nat
  /\ "" \notin SessionIds /\ "invalid" \notin Versions

VARIABLES
  clock, sessions,   \* as in SessionManager
  issued,            \* ids handed out
  request, answer,   \* history: the last request and what it was answered
  latest,            \* history: latest[s]: what was last done to session s
  missed             \* history: ids handed out that were answered 404 since

vars == <<clock, sessions, issued, request, answer, latest, missed>>

\* A request names an operation; the other members are "" where it has none.
Get(s)          == [op |-> "get",      id |-> s,  body |-> ""]
Stop(s)         == [op |-> "stop",     id |-> s,  body |-> ""]
Glossary(s, v)  == [op |-> "glossary", id |-> s,  body |-> v]
Create(profile) == [op |-> "create",   id |-> "", body |-> profile]
Other(op)       == [op |-> op,         id |-> "", body |-> ""]

\* Bodies that validation lets through; NoVersion and NoProfile are left out
\* members, or no body at all.
NoProfile == "no profile"

Answer(status, code) == [status |-> status, code |-> code]

\* What a handler, the validation of a request or the routing raises.
Error(exception) ==
  CASE exception = "SessionNotFoundError"          -> Answer(404, "not_found")
    [] exception = "InvalidSessionTransitionError" -> Answer(409, "invalid_session_transition")
    [] exception = "RequestValidationError"        -> Answer(422, "invalid_request")
    [] exception = "no route"                      -> Answer(404, "not_found")
    [] exception = "no method"                     -> Answer(405, "invalid_request")

Init ==
  /\ clock = 0 /\ sessions = <<>> /\ issued = {}
  /\ request = Other("none") /\ answer = Answer(200, "")
  /\ latest = [s \in SessionIds |-> Other("none")] /\ missed = {}

Tick == clock < MaxTime /\ clock' = clock + 1
        /\ UNCHANGED <<sessions, issued, request, answer, latest, missed>>

Live == Unexpired(sessions, clock)

\* Audio and control clients move a session on.
MovedElsewhere(s) ==
  /\ s \in DOMAIN Live
  /\ \E to \in {"recording", "paused"} :
       /\ CanMove(sessions[s], to)
       /\ sessions' = Stored(Live, s, Moved(sessions[s], to, clock))
  /\ latest' = [latest EXCEPT ![s] = Other("none")]
  /\ UNCHANGED <<clock, issued, request, answer, missed>>

-----------------------------------------------------------------------------
\* Request q is answered a; a get is not counted as something done to a session.
Answered(q, a) ==
  /\ request' = q /\ answer' = a
  /\ latest' = [s \in SessionIds |-> IF a.status = 200 /\ q.op \in {"stop", "glossary"} /\ q.id = s
                                     THEN q ELSE latest[s]]
  /\ missed' = missed \cup {s \in issued : q.id = s /\ a.status = 404}
  /\ UNCHANGED clock

\* Succeeds with record r of session s.
Succeeds(q, s, r) ==
  sessions' = Stored(Live, s, r) /\ Answered(q, Answer(200, ""))

\* Mutant of CreateSession: an id may be that of a session deleted before.
CreateSessionAnywhere(s, profile) ==
  /\ s \notin DOMAIN Live /\ issued' = issued \cup {s}
  /\ Succeeds(Create(profile), s,
              NewRecord(s, IF profile = NoProfile THEN DefaultProfile ELSE profile, clock))

CreateSession(s, profile) ==
  /\ s \notin issued /\ issued' = issued \cup {s}
  /\ Succeeds(Create(profile), s,
              NewRecord(s, IF profile = NoProfile THEN DefaultProfile ELSE profile, clock))

GetSession(s) ==
  /\ s \in DOMAIN Live
  /\ Succeeds(Get(s), s, Touched(sessions[s], clock)) /\ UNCHANGED issued

StopSession(s) ==
  /\ s \in DOMAIN Live /\ UNCHANGED issued
  /\ \/ CanStop(sessions[s]) /\ Succeeds(Stop(s), s, Stopped(sessions[s], clock))
     \/ /\ ~CanStop(sessions[s])
        /\ sessions' = Live /\ Answered(Stop(s), Error("InvalidSessionTransitionError"))

UpdateGlossary(s, v) ==
  /\ s \in DOMAIN Live
  /\ LET version == IF v = NoVersion THEN Stamped ELSE v IN
       Succeeds(Glossary(s, v), s, Reversioned(sessions[s], version, clock))
  /\ UNCHANGED issued

\* Any of the three for an id the manager has not.
NotFound(s) ==
  /\ s \notin DOMAIN Live /\ sessions' = Live
  /\ \E q \in {Get(s), Stop(s)} \cup {Glossary(s, v) : v \in Versions \cup {NoVersion}} :
       Answered(q, Error("SessionNotFoundError"))
  /\ UNCHANGED issued

\* Mutant of Unserved: the session is looked up before the body is validated.
UnservedTouching ==
  \E s \in SessionIds :
    /\ s \in DOMAIN Live
    /\ sessions' = Stored(Live, s, Touched(sessions[s], clock))
    /\ Answered(Glossary(s, "invalid"), Error("RequestValidationError"))
    /\ UNCHANGED issued

\* Requests no handler gets: the manager is not called.
Unserved ==
  /\ \/ \E q \in {Create("invalid")} \cup {Glossary(s, "invalid") : s \in SessionIds} :
          Answered(q, Error("RequestValidationError"))
     \/ \E e \in {"no route", "no method"} : Answered(Other(e), Error(e))
  /\ UNCHANGED <<sessions, issued>>

Health == Answered(Other("health"), Answer(200, "")) /\ UNCHANGED <<sessions, issued>>

Serve ==
  \/ Unserved \/ Health
  \/ \E s \in SessionIds :
       \/ \E p \in Profiles \cup {NoProfile} : CreateSession(s, p)
       \/ GetSession(s) \/ StopSession(s) \/ NotFound(s)
       \/ \E v \in Versions \cup {NoVersion} : UpdateGlossary(s, v)

Next == Tick \/ (\E s \in SessionIds : MovedElsewhere(s)) \/ Serve

Spec == Init /\ [][Next]_vars

-----------------------------------------------------------------------------
(* Properties.                                                             *)

\* A stop or an explicit glossary version whose answer was lost can be asked for
\* again: if nothing else was done to the session since, it succeeds and changes
\* nothing but the time of the last activity.  In particular no stop is ever
\* refused with 409 (main.py:129-160; sessions.py:62-73, 212-253).
RepeatsAreSafe ==
  [][/\ \A s \in DOMAIN Live :
          request'.id = s /\ request' = latest[s] /\ request'.body # NoVersion /\ Serve
            => answer'.status = 200 /\ sessions'[s] = Touched(sessions[s], clock)
     /\ answer'.status # 409]_vars

=============================================================================
