---------------------------- MODULE ControlLink ----------------------------
(***************************************************************************)
(* The handler of /v1/control/{session_id} (control_websocket of           *)
(* backend/app/main.py) from authentication on, for several clients of one *)
(* session.  It takes one message at a time, changes the session, answers, *)
(* and only then takes the next.                                           *)
(*                                                                         *)
(* Backend has what a command does to the audio statistics and the event   *)
(* streams.  Here are the messages of the clients, which wait while an     *)
(* answer is sent, are repeated, or are nothing the server understands.    *)
(* Publishing an acknowledgement waits for no one, so it is not a step.    *)
(***************************************************************************)
EXTENDS SessionRecords, Sequences

CONSTANTS
  Links,                             \* control websockets of the session
  Readers,                           \* clients that go on reading
  Absent, Null, Number, Collection,  \* as in ControlMessage
  Messages,                          \* messages a client may send
  MaxMessages,                       \* bounds on the messages of each client
  MaxTime                            \* bound on the clock

Parser == INSTANCE ControlMessage

ASSUME ControlLinkAssumption ==
  /\ Readers \subseteq Links
  /\ MaxMessages \in [Links -> Nat] /\ MaxTime \in Nat
  /\ Profiles \cap {Absent, Null, Number, Collection} = {}
  /\ \A m \in Messages : m.kind \in {"object"} \cup Parser!OtherKinds

VARIABLES
  clock, sessions,   \* as in SessionManager
  link,              \* link[c]: where the handler of c is suspended
  inbox,             \* inbox[c]: messages of the client not received yet
  gone,              \* clients that have disconnected
  answer,            \* answer[c]: code of the answer being sent
  arrived,           \* history: messages sent by each client
  answered,          \* history: messages answered
  latest             \* history: message last obeyed, if nothing else has
                     \* changed the session since

store == <<clock, sessions, latest>>
conn  == <<inbox, gone, arrived>>
vars  == <<store, conn, link, answer, answered>>

\* The session the links are of, and none.
Session   == CHOOSE s \in SessionIds : TRUE
NoMessage == Parser!Other("none")

Understood == {m \in Messages : Parser!Understood(m)}

Init ==
  /\ clock = 0
  /\ \E p \in Profiles : sessions = [s \in {Session} |-> NewRecord(s, p, 0)]
  /\ link = [c \in Links |-> "loop"]
  /\ inbox = [c \in Links |-> <<>>] /\ gone = {}
  /\ answer = [c \in Links |-> ""]
  /\ arrived = [c \in Links |-> 0] /\ answered = [c \in Links |-> 0]
  /\ latest = NoMessage

Goes(c, from, to) == link[c] = from /\ link' = [link EXCEPT ![c] = to]

-----------------------------------------------------------------------------
(* The clients, and the rest of the application.                           *)

ClientSends(c, m) ==
  /\ link[c] # "done" /\ c \notin gone
  /\ arrived[c] < MaxMessages[c]
  /\ arrived' = [arrived EXCEPT ![c] = @ + 1]
  /\ inbox' = [inbox EXCEPT ![c] = Append(@, m)]
  /\ UNCHANGED <<store, gone, link, answer, answered>>

ClientGoes(c) ==
  /\ link[c] # "done" /\ c \notin gone
  /\ gone' = gone \cup {c}
  /\ UNCHANGED <<store, inbox, arrived, link, answer, answered>>

Tick ==
  /\ clock < MaxTime /\ clock' = clock + 1
  /\ UNCHANGED <<sessions, latest, conn, link, answer, answered>>

Live == Unexpired(sessions, clock)

\* Audio starts the recording, or the session is stopped over HTTP.
ChangedElsewhere ==
  /\ Session \in DOMAIN Live
  /\ LET r == sessions[Session] IN
       \/ /\ r.state \in {"idle", "starting"}
          /\ sessions' = Stored(Live, Session, Moved(r, "recording", clock))
       \/ /\ CanStop(r)
          /\ sessions' = Stored(Live, Session, Stopped(r, clock))
  /\ latest' = NoMessage
  /\ UNCHANGED <<clock, conn, link, answer, answered>>

-----------------------------------------------------------------------------
(* The handler.                                                            *)

Requested == [pause |-> "paused", resume |-> "recording"]

Obeys(r, m) ==
  LET name == Parser!CommandValue(m) IN
    /\ name \in DOMAIN Requested => CanMove(r, Requested[name])
    /\ name = "stop" => CanStop(r)

\* Mutant of Obeyed: a repeated pause is a toggle.
ObeyedToggling(r, m) ==
  LET name == Parser!CommandValue(m) IN
    IF name = "pause" /\ r.state = "paused" THEN Moved(r, "recording", clock)
    ELSE IF name \in DOMAIN Requested THEN Moved(r, Requested[name], clock)
    ELSE IF name = "stop" THEN Stopped(r, clock)
    ELSE IF name = "set_profile" THEN Reprofiled(r, Parser!ProfileValue(m), clock)
    ELSE Touched(r, clock)

\* _apply_control_command.
Obeyed(r, m) ==
  LET name == Parser!CommandValue(m) IN
    CASE name \in DOMAIN Requested -> Moved(r, Requested[name], clock)
      [] name = "stop"             -> Stopped(r, clock)
      [] name = "set_profile"      -> Reprofiled(r, Parser!ProfileValue(m), clock)
      [] name = "ping"             -> Touched(r, clock)

\* The message websocket.receive returns, if there is one.
Received(c) == {inbox[c][i] : i \in DOMAIN inbox[c] \cap {1}}

\* The handler takes message m of its client and has an answer to it.
Takes(c, m) ==
  /\ m \in Received(c)
  /\ inbox' = [inbox EXCEPT ![c] = Tail(@)]
  /\ UNCHANGED <<clock, gone, arrived, answered>>

Answers(c, code, next) == Goes(c, "loop", next) /\ answer' = [answer EXCEPT ![c] = code]

Obey(c, m) ==
  /\ Takes(c, m) /\ m \in Understood
  /\ Session \in DOMAIN Live /\ Obeys(sessions[Session], m)
  /\ sessions' = Stored(Live, Session, Obeyed(sessions[Session], m))
  /\ latest' = IF Parser!CommandValue(m) = "ping" THEN latest ELSE m
  /\ Answers(c, "ok", "acking")

\* Mutant of RefuseTransition: the error is published but not sent.
RefuseTransitionSilently(c, m) ==
  /\ Takes(c, m) /\ m \in Understood
  /\ Session \in DOMAIN Live /\ ~Obeys(sessions[Session], m)
  /\ sessions' = Live
  /\ UNCHANGED <<latest, link, answer>>

RefuseTransition(c, m) ==
  /\ Takes(c, m) /\ m \in Understood
  /\ Session \in DOMAIN Live /\ ~Obeys(sessions[Session], m)
  /\ sessions' = Live
  /\ Answers(c, "invalid_session_transition", "acking")
  /\ UNCHANGED latest

UnknownSession(c, m) ==
  /\ Takes(c, m) /\ m \in Understood
  /\ Session \notin DOMAIN Live
  /\ sessions' = Live
  /\ Answers(c, "unknown_session", "acking, then closing")
  /\ UNCHANGED latest

\* The manager is not called.
RefuseMessage(c, m) ==
  /\ Takes(c, m) /\ m \notin Understood
  /\ Answers(c, Parser!ParseError(m), "acking, then closing")
  /\ UNCHANGED <<sessions, latest>>

\* Mutant of Disconnected: only an exception is taken for the end.
DisconnectedIgnored(c) ==
  /\ c \in gone /\ inbox[c] = <<>>
  /\ Goes(c, "loop", "loop")
  /\ UNCHANGED <<store, conn, answer, answered>>

\* websocket.receive reports the end of the connection after all messages.
Disconnected(c) ==
  /\ c \in gone /\ inbox[c] = <<>>
  /\ Goes(c, "loop", "done")
  /\ UNCHANGED <<store, conn, answer, answered>>

\* send_json returns.
AckSent(c) ==
  /\ \/ Goes(c, "acking", "loop")
     \/ Goes(c, "acking, then closing", "closing")
  /\ answered' = [answered EXCEPT ![c] = @ + 1]
  /\ answer' = [answer EXCEPT ![c] = ""]
  /\ UNCHANGED <<store, conn>>

\* send_json raises, which ends the handler.
AckFails(c) ==
  /\ c \in gone
  /\ \/ Goes(c, "acking", "done")
     \/ Goes(c, "acking, then closing", "done")
  /\ answer' = [answer EXCEPT ![c] = ""]
  /\ UNCHANGED <<store, conn, answered>>

\* _close_websocket returns; what the client has sent since is never looked at.
Closed(c) ==
  /\ Goes(c, "closing", "done")
  /\ UNCHANGED <<store, conn, answer, answered>>

HandlerStep(c) ==
  \/ \E m \in Received(c) :
       Obey(c, m) \/ RefuseTransition(c, m) \/ UnknownSession(c, m) \/ RefuseMessage(c, m)
  \/ Disconnected(c) \/ Closed(c)

SendEnds(c) == AckSent(c) \/ AckFails(c)

Next ==
  \/ Tick \/ ChangedElsewhere
  \/ \E c \in Links :
       \/ \E m \in Messages : ClientSends(c, m)
       \/ ClientGoes(c) \/ HandlerStep(c) \/ SendEnds(c)

\* As in EventStream: ready tasks run; a send ends when the client reads or is
\* gone.
Fairness ==
  \A c \in Links :
    /\ WF_vars(HandlerStep(c))
    /\ WF_vars((c \in Readers \/ c \in gone) /\ SendEnds(c))

Spec == Init /\ [][Next]_vars /\ Fairness

-----------------------------------------------------------------------------
(* Properties.                                                             *)

\* A client whose command was obeyed but whose answer was lost may send it
\* again over another link: unless something else has changed the session
\* since, it is obeyed again and changes nothing but the time of the last
\* activity (sessions.py:195-215, 249-272; main.py:777-815).
RetriesAreSafe ==
  [][\A c \in Links : \A m \in Received(c) :
       Takes(c, m) /\ m = latest /\ Session \in DOMAIN Live
         => /\ Obey(c, m)
            /\ sessions'[Session] = Touched(sessions[Session], clock)]_vars

\* Every message a client sends is answered, in its turn, unless the link has
\* ended first, whatever other clients do and however slowly they read: as long
\* as this one reads, and if it leaves, even during a send, the link does end
\* (main.py:320-420, 883).
EveryMessageDecided ==
  \A c \in Links : \A n \in 1..MaxMessages[c] :
    /\ arrived[c] >= n /\ c \in Readers ~> answered[c] >= n \/ link[c] = "done"
    /\ c \in gone ~> link[c] = "done"

\* What the answer invalid_control_json says, "Control message must be valid
\* JSON" (main.py:360): it is given only to a message that is not.
InvalidJsonIsNotJson ==
  [][\A c \in Links : \A m \in Received(c) :
       RefuseMessage(c, m) /\ answer'[c] = "invalid_control_json" => m.kind = "text"]_vars

=============================================================================
