------------------------- MODULE ControlLink_proofs -------------------------
(***************************************************************************)
(* Theorems about ControlLink, for every set of links and messages and     *)
(* every bound on the messages and the clock.                              *)
(*                                                                         *)
(* The argument.  A command that was obeyed leaves its mark on the session *)
(* (Marked): the state it asked for, a state from which stop does nothing, *)
(* or the profile.  Every other step either keeps the mark or has          *)
(* something else to remember.  The table of allowed changes lets a        *)
(* session stay where it is, so a command that finds its own mark is       *)
(* obeyed, and moves nothing.                                              *)
(***************************************************************************)
EXTENDS ControlLink, SequenceTheorems, TLAPS

\* The record of the one session there is.
Record ==
  [token : {Session}, profile : Profiles, state : SessionState, created_at : Int,
   last_activity_at : Int, glossary_version : {NoVersion}]

TypeOK ==
  /\ clock \in Nat
  /\ DOMAIN sessions \subseteq {Session} /\ sessions \in [DOMAIN sessions -> Record]
  /\ inbox \in [Links -> Seq(Messages)] /\ gone \subseteq Links
  /\ arrived \in [Links -> Nat] /\ answered \in [Links -> Nat]
  /\ latest \in Understood \cup {NoMessage}

\* What obeying m leaves in the record of the session.
Marked(r, m) ==
  LET name == Parser!CommandValue(m) IN
    \/ name \in DOMAIN Requested /\ r.state = Requested[name]
    \/ name = "stop" /\ r.state \in StopIdempotentStates
    \/ name = "set_profile" /\ r.profile = Parser!ProfileValue(m)

LatestMarked ==
  latest # NoMessage /\ Session \in DOMAIN sessions => Marked(sessions[Session], latest)

LinkInv == TypeOK /\ LatestMarked

-----------------------------------------------------------------------------
(* Commands.                                                               *)

LEMMA RequestedStates ==
  /\ DOMAIN Requested = {"pause", "resume"}
  /\ Requested["pause"] = "paused" /\ Requested["resume"] = "recording"
BY DEF Requested

LEMMA UnderstoodCommand ==
  ASSUME NEW m \in Understood
  PROVE  /\ m \in Messages
         /\ Parser!CommandValue(m) \in {"pause", "resume", "stop", "set_profile", "ping"}
         /\ Parser!CommandValue(m) = "set_profile" => Parser!ProfileValue(m) \in Profiles
<1> DEFINE profile == Parser!CommandValue(m) = "set_profile"
<1>1. m \in Messages /\ Parser!Understood(m)
  BY DEF Understood
<1>2. \A i \in DOMAIN Parser!Checks(m) : Parser!Checks(m)[i].holds
  BY <1>1 DEF Parser!Understood
<1>3. 6 \in DOMAIN Parser!Checks(m) /\ 8 \in DOMAIN Parser!Checks(m)
  BY DEF Parser!Checks
<1>4. Parser!CommandValue(m) \in Parser!ControlCommandName
  <2>1. Parser!Checks(m)[6].holds
    BY <1>2, <1>3
  <2>2. Parser!Checks(m)[6].holds = (Parser!CommandValue(m) \in Parser!ControlCommandName)
    BY DEF Parser!Checks
  <2>3. QED
    BY <2>1, <2>2
<1>5. profile => Parser!ProfileValue(m) \in Profiles
  <2>1. Parser!Checks(m)[8].holds
    BY <1>2, <1>3
  <2>2. Parser!Checks(m)[8].holds = (profile => Parser!ProfileValue(m) \in Profiles)
    BY DEF Parser!Checks
  <2>3. QED
    BY <2>1, <2>2
<1>6. QED
  BY <1>1, <1>4, <1>5 DEF Parser!ControlCommandName

\* A command that is obeyed leaves a record of the session, with its mark.
LEMMA ObeyedMarks ==
  ASSUME NEW r \in Record, NEW m \in Understood, Obeys(r, m), clock \in Int
  PROVE  /\ Obeyed(r, m) \in Record
         /\ Parser!CommandValue(m) # "ping" => Marked(Obeyed(r, m), m)
         /\ Parser!CommandValue(m) = "ping" => Obeyed(r, m) = Touched(r, clock)
<1> DEFINE name == Parser!CommandValue(m)
<1>1. CASE name \in {"pause", "resume"}
  <2>1. Obeyed(r, m) = Moved(r, Requested[name], clock) /\ name # "ping"
    BY <1>1, RequestedStates DEF Obeyed
  <2>2. Requested[name] \in SessionState
    BY <1>1, RequestedStates DEF SessionState, Active
  <2>3. /\ Moved(r, Requested[name], clock) \in Record
        /\ Moved(r, Requested[name], clock).state = Requested[name]
    BY <2>2 DEF Moved, Record
  <2>4. QED
    BY <1>1, <2>1, <2>3, RequestedStates DEF Marked
<1>2. CASE name = "stop"
  <2>1. Obeyed(r, m) = Stopped(r, clock)
    BY <1>2, RequestedStates DEF Obeyed
  <2>2. Stopped(r, clock) \in Record /\ Stopped(r, clock).state \in StopIdempotentStates
    BY DEF Stopped, Touched, Moved, Record, StopIdempotentStates, SessionState, Ending
  <2>3. QED
    BY <1>2, <2>1, <2>2 DEF Marked
<1>3. CASE name = "set_profile"
  <2> DEFINE p == Parser!ProfileValue(m)
  <2>1. Obeyed(r, m) = Reprofiled(r, p, clock) /\ p \in Profiles
    BY <1>3, RequestedStates, UnderstoodCommand DEF Obeyed
  <2> HIDE DEF p
  <2>2. Reprofiled(r, p, clock) \in Record /\ Reprofiled(r, p, clock).profile = p
    BY <2>1 DEF Reprofiled, Record
  <2>3. QED
    BY <1>3, <2>1, <2>2 DEF Marked, p
<1>4. CASE name = "ping"
  <2>1. Obeyed(r, m) = Touched(r, clock)
    BY <1>4, RequestedStates DEF Obeyed
  <2>2. Touched(r, clock) \in Record
    BY DEF Touched, Record
  <2>3. QED
    BY <1>4, <2>1, <2>2
<1>5. QED
  BY <1>1, <1>2, <1>3, <1>4, UnderstoodCommand

\* A command that finds its own mark is obeyed, and only touches the session.
LEMMA MarkedAgain ==
  ASSUME NEW r \in Record, NEW m \in Understood, Marked(r, m), clock \in Int
  PROVE  Obeys(r, m) /\ Obeyed(r, m) = Touched(r, clock)
<1> DEFINE name == Parser!CommandValue(m)
<1>1. CASE name \in {"pause", "resume"}
  <2>1. r.state = Requested[name]
    BY <1>1 DEF Marked
  <2>2. Obeys(r, m)
    BY <1>1, <2>1 DEF Obeys, CanMove
  <2>3. Obeyed(r, m) = Moved(r, r.state, clock)
    BY <1>1, <2>1, RequestedStates DEF Obeyed
  <2>4. Moved(r, r.state, clock) = Touched(r, clock)
    BY DEF Moved, Touched, Record
  <2>5. QED
    BY <2>2, <2>3, <2>4
<1>2. CASE name = "stop"
  <2>1. r.state \in StopIdempotentStates
    BY <1>2, RequestedStates DEF Marked
  <2>2. Obeys(r, m)
    BY <1>2, <2>1, RequestedStates DEF Obeys, CanStop
  <2>3. QED
    BY <1>2, <2>1, <2>2, RequestedStates DEF Obeyed, Stopped
<1>3. CASE name = "set_profile"
  <2>1. r.profile = Parser!ProfileValue(m)
    BY <1>3, RequestedStates DEF Marked
  <2>2. Obeys(r, m)
    BY <1>3, RequestedStates DEF Obeys
  <2>3. Obeyed(r, m) = Reprofiled(r, r.profile, clock)
    BY <1>3, <2>1, RequestedStates DEF Obeyed
  <2>4. Reprofiled(r, r.profile, clock) = Touched(r, clock)
    BY DEF Reprofiled, Touched, Record
  <2>5. QED
    BY <2>2, <2>3, <2>4
<1>4. CASE name = "ping"
  BY <1>4, RequestedStates DEF Marked
<1>5. QED
  BY <1>1, <1>2, <1>3, <1>4, UnderstoodCommand

\* Touching the session keeps the marks of earlier commands.
LEMMA TouchedKeepsMarks ==
  ASSUME NEW r \in Record, NEW m, Marked(r, m)
  PROVE  Marked(Touched(r, clock), m)
<1>1. Touched(r, clock).state = r.state /\ Touched(r, clock).profile = r.profile
  BY DEF Touched, Record
<1>2. QED
  BY <1>1 DEF Marked

-----------------------------------------------------------------------------
(* The invariant.                                                          *)

LEMMA LiveStore ==
  ASSUME TypeOK
  PROVE  /\ DOMAIN Live \subseteq DOMAIN sessions
         /\ Live \in [DOMAIN Live -> Record]
         /\ Session \in DOMAIN Live => Live[Session] = sessions[Session]
                                       /\ sessions[Session] \in Record
BY DEF TypeOK, Live, Unexpired

\* A step that leaves the session, if it still is there, with record r.
LEMMA StoredStore ==
  ASSUME TypeOK, NEW r \in Record, sessions' = Stored(Live, Session, r)
  PROVE  /\ DOMAIN sessions' = {Session} /\ sessions'[Session] = r
         /\ sessions' \in [DOMAIN sessions' -> Record]
<1>1. sessions' = [x \in DOMAIN Live \cup {Session} |-> IF x = Session THEN r ELSE Live[x]]
  BY DEF Stored
<1>2. DOMAIN Live \cup {Session} = {Session}
  BY LiveStore DEF TypeOK
<1>3. QED
  BY <1>1, <1>2

\* The first message of the client of c.
LEMMA ReceivedMessage ==
  ASSUME TypeOK, NEW c \in Links, NEW m \in Received(c)
  PROVE  /\ inbox[c] \in Seq(Messages) /\ inbox[c] # <<>> /\ m = inbox[c][1]
         /\ m \in Messages
         /\ Tail(inbox[c]) \in Seq(Messages) /\ Tail(inbox[c]) # inbox[c]
<1>1. inbox[c] \in Seq(Messages) /\ 1 \in DOMAIN inbox[c] /\ m = inbox[c][1]
  BY DEF Received, TypeOK
<1>2. inbox[c] # <<>> /\ m \in Messages
  BY <1>1, ElementOfSeq, EmptySeq, LenProperties
<1>3. Tail(inbox[c]) \in Seq(Messages) /\ Len(Tail(inbox[c])) = Len(inbox[c]) - 1
  BY <1>1, <1>2, HeadTailProperties
<1>4. Tail(inbox[c]) # inbox[c]
  <2>1. Len(inbox[c]) \in Int
    BY <1>1, LenProperties
  <2>2. Len(Tail(inbox[c])) # Len(inbox[c])
    BY <1>3, <2>1
  <2>3. QED
    BY <2>2
<1>5. QED
  BY <1>1, <1>2, <1>3, <1>4

LEMMA TakingTyped ==
  ASSUME TypeOK, NEW c \in Links, NEW m \in Received(c), Takes(c, m)
  PROVE  inbox' \in [Links -> Seq(Messages)]
BY ReceivedMessage DEF Takes, TypeOK

\* A step that only deletes the session, if that, and remembers what it did.
LEMMA SweptKeeps ==
  ASSUME LinkInv, sessions' = Live \/ UNCHANGED sessions, UNCHANGED latest
  PROVE  /\ DOMAIN sessions' \subseteq {Session} /\ sessions' \in [DOMAIN sessions' -> Record]
         /\ LatestMarked'
BY LiveStore DEF LinkInv, TypeOK, LatestMarked

LEMMA InitLink == Init => LinkInv
<1> SUFFICES ASSUME Init PROVE LinkInv
  OBVIOUS
<1>1. PICK p \in Profiles : sessions = [s \in {Session} |-> NewRecord(s, p, 0)]
  BY DEF Init
<1>2. NewRecord(Session, p, 0) \in Record
  BY DEF NewRecord, Record, SessionState, Active
<1>3. QED
  BY <1>1, <1>2, EmptySeq DEF Init, LinkInv, TypeOK, LatestMarked

LEMMA ObeyKeeps ==
  ASSUME LinkInv, NEW c \in Links, NEW m \in Received(c), Obey(c, m)
  PROVE  LinkInv'
<1>1. TypeOK /\ LatestMarked /\ clock \in Int
  BY DEF LinkInv, TypeOK
<1> DEFINE r == sessions[Session]
<1>2. /\ Takes(c, m) /\ m \in Understood /\ Session \in DOMAIN Live /\ Obeys(r, m)
      /\ sessions' = Stored(Live, Session, Obeyed(r, m))
      /\ latest' = IF Parser!CommandValue(m) = "ping" THEN latest ELSE m
  BY DEF Obey
<1>3. r \in Record /\ Session \in DOMAIN sessions
  BY <1>1, <1>2, LiveStore
<1> HIDE DEF r
<1>4. /\ Obeyed(r, m) \in Record
      /\ Parser!CommandValue(m) # "ping" => Marked(Obeyed(r, m), m)
      /\ Parser!CommandValue(m) = "ping" => Obeyed(r, m) = Touched(r, clock)
  BY <1>1, <1>2, <1>3, ObeyedMarks
<1>5. /\ DOMAIN sessions' = {Session} /\ sessions'[Session] = Obeyed(r, m)
      /\ sessions' \in [DOMAIN sessions' -> Record]
  BY <1>1, <1>2, <1>4, StoredStore
<1>6. LatestMarked'
  <2>1. CASE Parser!CommandValue(m) = "ping"
    <3>1. SUFFICES ASSUME latest # NoMessage PROVE Marked(Obeyed(r, m), latest)
      BY <1>2, <1>5, <2>1 DEF LatestMarked
    <3>2. Marked(r, latest)
      BY <1>1, <1>3, <3>1 DEF LatestMarked, r
    <3>3. QED
      BY <1>3, <1>4, <2>1, <3>2, TouchedKeepsMarks
  <2>2. CASE Parser!CommandValue(m) # "ping"
    BY <1>2, <1>4, <1>5, <2>2 DEF LatestMarked
  <2>3. QED
    BY <2>1, <2>2
<1>7. TypeOK'
  <2>1. latest' \in Understood \cup {NoMessage}
    BY <1>1, <1>2 DEF TypeOK
  <2>2. inbox' \in [Links -> Seq(Messages)] /\ UNCHANGED <<clock, gone, arrived, answered>>
    BY <1>1, <1>2, TakingTyped DEF Takes
  <2>3. QED
    BY <1>1, <1>5, <2>1, <2>2 DEF TypeOK, Understood
<1>8. QED
  BY <1>6, <1>7 DEF LinkInv

LEMMA ElsewhereKeeps ==
  ASSUME LinkInv, ChangedElsewhere
  PROVE  LinkInv'
<1> DEFINE r == sessions[Session]
<1>1. TypeOK /\ clock \in Int /\ Session \in DOMAIN Live
  BY DEF LinkInv, TypeOK, ChangedElsewhere
<1>2. r \in Record
  BY <1>1, LiveStore
<1>3. Moved(r, "recording", clock) \in Record /\ Stopped(r, clock) \in Record
  BY <1>1, <1>2 DEF Moved, Stopped, Touched, Record, SessionState, Active, Ending
<1>4. PICK n \in Record : sessions' = Stored(Live, Session, n)
  BY <1>3 DEF ChangedElsewhere
<1>5. DOMAIN sessions' = {Session} /\ sessions' \in [DOMAIN sessions' -> Record]
  BY <1>1, <1>4, StoredStore
<1>6. latest' = NoMessage /\ UNCHANGED <<clock, inbox, gone, arrived, answered>>
  BY DEF ChangedElsewhere, conn
<1>7. QED
  BY <1>1, <1>5, <1>6 DEF LinkInv, TypeOK, LatestMarked, Understood

LEMMA InvStep == LinkInv /\ [Next]_vars => LinkInv'
<1> SUFFICES ASSUME LinkInv, [Next]_vars PROVE LinkInv'
  OBVIOUS
<1> USE DEF store, conn
<1>0. TypeOK
  BY DEF LinkInv
<1>1. ASSUME inbox' \in [Links -> Seq(Messages)], gone' \subseteq Links,
             arrived' \in [Links -> Nat], answered' \in [Links -> Nat], clock' \in Nat,
             sessions' = Live \/ UNCHANGED sessions, UNCHANGED latest
      PROVE  LinkInv'
  BY <1>0, <1>1, SweptKeeps DEF LinkInv, TypeOK, Understood
<1>2. CASE UNCHANGED vars
  BY <1>0, <1>1, <1>2 DEF vars, TypeOK
<1>3. CASE Tick
  BY <1>0, <1>1, <1>3 DEF Tick, TypeOK
<1>4. CASE ChangedElsewhere
  BY <1>4, ElsewhereKeeps
<1>5. ASSUME NEW c \in Links, NEW m \in Messages, ClientSends(c, m) PROVE LinkInv'
  <2>1. inbox[c] \in Seq(Messages)
    BY <1>0 DEF TypeOK
  <2>2. Append(inbox[c], m) \in Seq(Messages)
    BY <2>1, AppendProperties
  <2>3. inbox' \in [Links -> Seq(Messages)] /\ arrived' \in [Links -> Nat]
    BY <1>0, <1>5, <2>2 DEF ClientSends, TypeOK
  <2>4. QED
    BY <1>0, <1>1, <1>5, <2>3 DEF ClientSends, TypeOK
<1>6. ASSUME NEW c \in Links, ClientGoes(c) PROVE LinkInv'
  BY <1>0, <1>1, <1>6 DEF ClientGoes, TypeOK
<1>7. ASSUME NEW c \in Links, HandlerStep(c) PROVE LinkInv'
  <2>1. ASSUME NEW m \in Received(c), Obey(c, m) PROVE LinkInv'
    BY <2>1, ObeyKeeps
  <2>2. ASSUME NEW m \in Received(c),
               RefuseTransition(c, m) \/ UnknownSession(c, m) \/ RefuseMessage(c, m)
        PROVE  LinkInv'
    <3>1. /\ Takes(c, m) /\ UNCHANGED latest
          /\ sessions' = Live \/ UNCHANGED sessions
      BY <2>2 DEF RefuseTransition, UnknownSession, RefuseMessage
    <3>2. inbox' \in [Links -> Seq(Messages)] /\ UNCHANGED <<clock, gone, arrived, answered>>
      BY <1>0, <3>1, TakingTyped DEF Takes
    <3>3. QED
      BY <1>0, <1>1, <3>1, <3>2 DEF TypeOK
  <2>3. CASE Disconnected(c) \/ Closed(c)
    BY <1>0, <1>1, <2>3 DEF Disconnected, Closed, TypeOK
  <2>4. QED
    BY <1>7, <2>1, <2>2, <2>3 DEF HandlerStep
<1>8. ASSUME NEW c \in Links, SendEnds(c) PROVE LinkInv'
  <2>1. answered' = [answered EXCEPT ![c] = answered[c] + 1] \/ UNCHANGED answered
    BY <1>8 DEF SendEnds, AckSent, AckFails
  <2>2. answered' \in [Links -> Nat]
    <3>1. answered \in [Links -> Nat] /\ answered[c] + 1 \in Nat
      BY <1>0 DEF TypeOK
    <3>2. QED
      BY <2>1, <3>1
  <2>3. UNCHANGED <<store, conn>>
    BY <1>8 DEF SendEnds, AckSent, AckFails
  <2>4. QED
    BY <1>0, <1>1, <2>2, <2>3 DEF TypeOK
<1>9. QED
  BY <1>2, <1>3, <1>4, <1>5, <1>6, <1>7, <1>8 DEF Next

\* The types hold, and the command last obeyed is still to be seen in the
\* session, until something else changes it (main.py:320-420, 777-815).
THEOREM LatestIsMarked == Spec => []LinkInv
BY InitLink, InvStep, PTL DEF Spec

-----------------------------------------------------------------------------
(* Retries.                                                                *)

\* A step that takes a message is the handler's answer to that message.
LEMMA TakingAnswers ==
  ASSUME TypeOK, [Next]_vars, NEW c \in Links, NEW m \in Received(c), Takes(c, m)
  PROVE  Obey(c, m) \/ RefuseTransition(c, m) \/ UnknownSession(c, m) \/ RefuseMessage(c, m)
<1> USE DEF store, conn
<1>1. /\ inbox' = [inbox EXCEPT ![c] = Tail(inbox[c])]
      /\ UNCHANGED <<clock, gone, arrived, answered>>
  BY DEF Takes
<1>2. inbox'[c] # inbox[c]
  BY <1>1, ReceivedMessage DEF TypeOK
<1>3. ~(UNCHANGED vars \/ ChangedElsewhere)
  BY <1>2 DEF vars, ChangedElsewhere
<1>4. ~Tick
  BY <1>1 DEF Tick, TypeOK
<1>5. ASSUME NEW d \in Links, (\E n \in Messages : ClientSends(d, n)) \/ ClientGoes(d)
      PROVE  FALSE
  <2>1. CASE ClientGoes(d)
    BY <1>1, <2>1 DEF ClientGoes
  <2>2. ASSUME arrived' = [arrived EXCEPT ![d] = arrived[d] + 1] PROVE FALSE
    <3>1. arrived'[d] = arrived[d] + 1 /\ arrived[d] \in Int
      BY <2>2 DEF TypeOK
    <3>2. QED
      BY <1>1, <3>1
  <2>3. QED
    BY <1>5, <2>1, <2>2 DEF ClientSends
<1>6. ASSUME NEW d \in Links, SendEnds(d) PROVE FALSE
  BY <1>2, <1>6 DEF SendEnds, AckSent, AckFails
<1>7. ASSUME NEW d \in Links, Disconnected(d) \/ Closed(d) PROVE FALSE
  BY <1>2, <1>7 DEF Disconnected, Closed
<1>8. ASSUME NEW d \in Links, NEW n \in Received(d), Takes(d, n) PROVE d = c /\ n = m
  <2>1. inbox' = [inbox EXCEPT ![d] = Tail(inbox[d])]
    BY <1>8 DEF Takes
  <2>2. d = c
    BY <1>2, <2>1 DEF TypeOK
  <2>3. QED
    BY <1>8, <2>2, ReceivedMessage
<1>9. PICK d \in Links : \E n \in Received(d) :
        Obey(d, n) \/ RefuseTransition(d, n) \/ UnknownSession(d, n) \/ RefuseMessage(d, n)
  BY <1>3, <1>4, <1>5, <1>6, <1>7 DEF Next, HandlerStep
<1>10. PICK n \in Received(d) :
        Obey(d, n) \/ RefuseTransition(d, n) \/ UnknownSession(d, n) \/ RefuseMessage(d, n)
  BY <1>9
<1>11. d = c /\ n = m
  BY <1>8, <1>10 DEF Obey, RefuseTransition, UnknownSession, RefuseMessage
<1>12. QED
  BY <1>10, <1>11

LEMMA RetryStep ==
  ASSUME LinkInv, [Next]_vars, NEW c \in Links, NEW m \in Received(c),
         Takes(c, m), m = latest, Session \in DOMAIN Live
  PROVE  Obey(c, m) /\ sessions'[Session] = Touched(sessions[Session], clock)
<1> DEFINE r == sessions[Session]
<1>1. TypeOK /\ clock \in Int
  BY DEF LinkInv, TypeOK
<1>2. r \in Record /\ Session \in DOMAIN sessions
  BY <1>1, LiveStore
<1>3. latest # NoMessage
  <2>1. m.kind # "none"
    BY <1>1, ReceivedMessage, ControlLinkAssumption DEF Parser!OtherKinds
  <2>2. NoMessage.kind = "none"
    BY DEF NoMessage, Parser!Other
  <2>3. QED
    BY <2>1, <2>2
<1>4. m \in Understood /\ Marked(r, m)
  BY <1>1, <1>2, <1>3 DEF LinkInv, TypeOK, LatestMarked
<1>5. Obeys(r, m) /\ Obeyed(r, m) = Touched(r, clock)
  BY <1>1, <1>2, <1>4, MarkedAgain
<1>6. Obey(c, m)
  BY <1>1, <1>4, <1>5, TakingAnswers DEF RefuseTransition, UnknownSession, RefuseMessage
<1>7. sessions' = Stored(Live, Session, Touched(r, clock))
  BY <1>5, <1>6 DEF Obey
<1>8. sessions'[Session] = Touched(r, clock)
  BY <1>7 DEF Stored
<1>9. QED
  BY <1>6, <1>8

\* A command that was obeyed and whose answer was lost is obeyed again over any
\* link, and moves nothing, whatever messages the other clients have sent in
\* between that did not change the session (main.py:777-815; sessions.py:195-272).
THEOREM RetriesSafe == Spec => RetriesAreSafe
<1>1. LinkInv /\ [Next]_vars
        => [\A c \in Links : \A m \in Received(c) :
              Takes(c, m) /\ m = latest /\ Session \in DOMAIN Live
                => /\ Obey(c, m)
                   /\ sessions'[Session] = Touched(sessions[Session], clock)]_vars
  BY RetryStep
<1>2. QED
  BY <1>1, LatestIsMarked, PTL DEF Spec, RetriesAreSafe

=============================================================================
