---------------------------- MODULE EventStream ----------------------------
(***************************************************************************)
(* The handler of /v1/events/{session_id} (events_websocket and            *)
(* _events_send_loop of backend/app/main.py), one per subscription, over   *)
(* the event broker.                                                       *)
(*                                                                         *)
(* The handlers are coroutines of one event loop: a step runs from one     *)
(* point where the coroutine is suspended to the next, and everything else *)
(* may happen between two steps.  In each turn of its loop a handler       *)
(* starts a task that waits for a message of the client and a task that    *)
(* waits for an event, and cancels the one that is not done when the other *)
(* is.  The tasks are created together, so their first steps run one after *)
(* the other before anything else: StartTasks is both.  A cancelled task   *)
(* takes nothing from its queue, and nothing of the handler depends on     *)
(* when the cancellation is delivered: Resume covers it.                   *)
(***************************************************************************)
EXTENDS EventBroker

CONSTANTS
  Readers,       \* clients that go on reading what they are sent
  MaxInbox       \* bound on the messages of a client that wait

ASSUME EventStreamAssumption ==
  Readers \subseteq Subscriptions /\ MaxInbox \in Nat

VARIABLES
  handler,       \* handler[q]: where the handler of q is suspended
  inbox,         \* inbox[q]: messages of the client not received yet
  gone,          \* clients that have disconnected
  message,       \* message[q]: result of receive_task, NoResult while it waits
  event,         \* event[q]: result of event_task, 0 while it waits
  sent,          \* history: number of events sent to the client
  sent_last      \* history: number of the event sent last, 0 for none

conn == <<inbox, gone>>
tasks == <<message, event>>
delivery == <<sent, sent_last>>
streams == <<handler, conn, tasks, delivery>>
allvars == <<vars, streams>>

NoResult == "none"
Message  == {"token", "text", "disconnect"}
Handler  == {"none", "auth", "refusing", "snapshot", "loop", "waiting",
             "sending", "closing", "ending", "done"}

\* Suspended inside the try block that subscribed.
Streaming == {"snapshot", "loop", "waiting", "sending", "closing", "ending"}

StreamInit ==
  /\ Init
  /\ handler = [q \in Subscriptions |-> "none"]
  /\ inbox = [q \in Subscriptions |-> <<>>]
  /\ gone = {}
  /\ message = [q \in Subscriptions |-> NoResult]
  /\ event = Zeros(Subscriptions)
  /\ sent = Zeros(Subscriptions) /\ sent_last = Zeros(Subscriptions)

Goes(q, from, to) == handler[q] = from /\ handler' = [handler EXCEPT ![q] = to]

-----------------------------------------------------------------------------
(* The client.                                                             *)

ClientSends(q, m) ==
  /\ handler[q] \notin {"none", "done"} /\ q \notin gone
  /\ Len(inbox[q]) < MaxInbox
  /\ inbox' = [inbox EXCEPT ![q] = Append(@, m)]
  /\ UNCHANGED <<vars, handler, gone, tasks, delivery>>

\* The server reports the end of the connection as a last message.
ClientGoes(q) ==
  /\ handler[q] \notin {"none", "done"} /\ q \notin gone
  /\ gone' = gone \cup {q}
  /\ inbox' = [inbox EXCEPT ![q] = Append(@, "disconnect")]
  /\ UNCHANGED <<vars, handler, tasks, delivery>>

-----------------------------------------------------------------------------
(* Authentication.  Its outcome is the session manager's: here the token   *)
(* in the header or in a "token" message may be good or not.               *)

\* The session is authenticated and subscribed to in one step: there is no
\* await that suspends between the two, nor before the snapshot is built.
Admit(q, from) ==
  \E s \in SessionIds : Subscribe(q, s) /\ Goes(q, from, "snapshot")

Connect(q) ==
  /\ Admit(q, "none") \/ (Goes(q, "none", "auth") /\ UNCHANGED vars)
  /\ UNCHANGED <<conn, tasks, delivery>>

\* The first message of a client that is not authenticated by its header.
AuthMessage(q) ==
  /\ inbox[q] # <<>>
  /\ inbox' = [inbox EXCEPT ![q] = Tail(@)]
  /\ \/ Head(inbox[q]) = "token" /\ Admit(q, "auth")
     \/ /\ Head(inbox[q]) # "disconnect"
        /\ Goes(q, "auth", "refusing") /\ UNCHANGED vars
     \/ /\ Head(inbox[q]) = "disconnect"
        /\ Goes(q, "auth", "done") /\ UNCHANGED vars
  /\ UNCHANGED <<gone, tasks, delivery>>

\* The timeout of wait_for; a message that has arrived may still lose to it.
AuthTimeout(q) ==
  /\ Goes(q, "auth", "refusing")
  /\ UNCHANGED <<vars, conn, tasks, delivery>>

Refused(q) ==
  /\ Goes(q, "refusing", "done")
  /\ UNCHANGED <<vars, conn, tasks, delivery>>

-----------------------------------------------------------------------------
(* The stream.                                                             *)

\* The two tasks, when there is something for them to take.
TakeMessage(q) ==
  /\ message[q] = NoResult
  /\ inbox[q] # <<>>
  /\ message' = [message EXCEPT ![q] = Head(inbox[q])]
  /\ inbox' = [inbox EXCEPT ![q] = Tail(@)]

TakeEvent(q) ==
  /\ event[q] = 0
  /\ Receive(q)
  /\ event' = [event EXCEPT ![q] = Head(queue[q])]

StartTasks(q) ==
  /\ Goes(q, "loop", "waiting")
  /\ TakeMessage(q) \/ (inbox[q] = <<>> /\ UNCHANGED <<message, inbox>>)
  /\ TakeEvent(q) \/ (queue[q] = <<>> /\ UNCHANGED <<vars, event>>)
  /\ UNCHANGED <<gone, delivery>>

ReceiveStep(q) ==
  /\ handler[q] = "waiting" /\ TakeMessage(q)
  /\ UNCHANGED <<vars, handler, gone, event, delivery>>

EventStep(q) ==
  /\ handler[q] = "waiting" /\ TakeEvent(q)
  /\ UNCHANGED <<handler, conn, message, delivery>>

\* Mutants of Resume: the event of the turn is not given up with the stream; a
\* text message is ignored instead of ending the stream; the event is looked at
\* before the message.
ResumeKeepingEvent(q) ==
  /\ \/ message[q] = "disconnect" /\ Goes(q, "waiting", "ending")
     \/ message[q] \in {"token", "text"} /\ Goes(q, "waiting", "closing")
     \/ /\ message[q] = NoResult /\ event[q] # 0
        /\ Goes(q, "waiting", "sending")
  /\ message' = [message EXCEPT ![q] = NoResult]
  /\ UNCHANGED <<vars, conn, event, delivery>>

ResumeIgnoringText(q) ==
  /\ \/ message[q] = "disconnect" /\ Goes(q, "waiting", "ending")
     \/ message[q] \in {"token", "text"} /\ Goes(q, "waiting", "loop")
     \/ /\ message[q] = NoResult /\ event[q] # 0
        /\ Goes(q, "waiting", "sending")
  /\ message' = [message EXCEPT ![q] = NoResult]
  /\ event' = [event EXCEPT ![q] = IF message[q] = NoResult THEN @ ELSE 0]
  /\ UNCHANGED <<vars, conn, delivery>>

ResumeEventFirst(q) ==
  /\ \/ event[q] # 0 /\ Goes(q, "waiting", "sending")
     \/ event[q] = 0 /\ message[q] = "disconnect" /\ Goes(q, "waiting", "ending")
     \/ /\ event[q] = 0 /\ message[q] \in {"token", "text"}
        /\ Goes(q, "waiting", "closing")
  /\ message' = [message EXCEPT ![q] = NoResult]
  /\ UNCHANGED <<vars, conn, event, delivery>>

\* asyncio.wait returns, pending tasks are cancelled; a message of the client
\* ends the stream, and the event of the same turn with it.
Resume(q) ==
  /\ \/ message[q] = "disconnect" /\ Goes(q, "waiting", "ending")
     \/ message[q] \in {"token", "text"} /\ Goes(q, "waiting", "closing")
     \/ /\ message[q] = NoResult /\ event[q] # 0
        /\ Goes(q, "waiting", "sending")
  /\ message' = [message EXCEPT ![q] = NoResult]
  /\ event' = [event EXCEPT ![q] = IF message[q] = NoResult THEN @ ELSE 0]
  /\ UNCHANGED <<vars, conn, delivery>>

\* send_json of the snapshot, then of an event, returns.
SnapshotSent(q) ==
  /\ Goes(q, "snapshot", "loop")
  /\ UNCHANGED <<vars, conn, tasks, delivery>>

EventSent(q) ==
  /\ Goes(q, "sending", "loop")
  /\ sent' = [sent EXCEPT ![q] = @ + 1]
  /\ sent_last' = [sent_last EXCEPT ![q] = event[q]]
  /\ event' = [event EXCEPT ![q] = 0]
  /\ UNCHANGED <<vars, conn, message>>

\* Mutant of SendFails: the handler is left without its finally clause.
SendFailsLeaking(q) ==
  /\ q \in gone
  /\ Goes(q, "snapshot", "done") \/ Goes(q, "sending", "done")
  /\ event' = [event EXCEPT ![q] = 0]
  /\ UNCHANGED <<vars, conn, message, delivery>>

\* send_json raises WebSocketDisconnect.
SendFails(q) ==
  /\ q \in gone
  /\ Goes(q, "snapshot", "ending") \/ Goes(q, "sending", "ending")
  /\ event' = [event EXCEPT ![q] = 0]
  /\ UNCHANGED <<vars, conn, message, delivery>>

\* _close_websocket returns.
Closed(q) ==
  /\ Goes(q, "closing", "ending")
  /\ UNCHANGED <<vars, conn, tasks, delivery>>

\* The finally clause.
End(q) ==
  /\ Goes(q, "ending", "done")
  /\ Close(q)
  /\ UNCHANGED <<conn, tasks, delivery>>

\* An event published by another handler.
Published(s) == Publish(s) /\ UNCHANGED streams

\* What the event loop runs as soon as it can.
HandlerStep(q) ==
  \/ AuthMessage(q) \/ AuthTimeout(q) \/ Refused(q)
  \/ StartTasks(q) \/ ReceiveStep(q) \/ EventStep(q) \/ Resume(q)
  \/ Closed(q) \/ End(q)

SendEnds(q) == SnapshotSent(q) \/ EventSent(q) \/ SendFails(q)

StreamNext ==
  \/ \E s \in SessionIds : Published(s)
  \/ \E q \in Subscriptions :
       \/ \E m \in {"token", "text"} : ClientSends(q, m)
       \/ ClientGoes(q) \/ Connect(q) \/ HandlerStep(q) \/ SendEnds(q)

\* The event loop runs every task that is ready; sending ends when the client
\* reads or when it is gone.
Fairness ==
  \A q \in Subscriptions :
    /\ WF_allvars(HandlerStep(q))
    /\ WF_allvars((q \in Readers \/ q \in gone) /\ SendEnds(q))

StreamSpec == StreamInit /\ [][StreamNext]_allvars /\ Fairness

-----------------------------------------------------------------------------
(* Properties.                                                             *)

\* The variables have their types; the tasks have results only in the turn
\* they were started in (main.py:699-726).
StreamTypeOK ==
  /\ handler \in [Subscriptions -> Handler]
  /\ inbox \in [Subscriptions -> Seq(Message)]
  /\ gone \subseteq Subscriptions
  /\ message \in [Subscriptions -> Message \cup {NoResult}]
  /\ event \in [Subscriptions -> Nat]
  /\ sent \in [Subscriptions -> Nat] /\ sent_last \in [Subscriptions -> Nat]
  /\ \A q \in Subscriptions :
       /\ message[q] # NoResult => handler[q] = "waiting"
       /\ event[q] # 0 => handler[q] \in {"waiting", "sending"}

\* A subscription is open exactly while its handler is inside the try block
\* that closes it, whatever ends the handler (main.py:286-300).
SubscriptionHeld ==
  \A q \in Subscriptions : q \in Open <=> handler[q] \in Streaming

\* Cancelling the task that waits for an event never costs an event: as long
\* as the stream goes on, what was taken was sent, but for the event at hand;
\* and a stream that ends gives up one event at most (main.py:699-726).
NoEventLost ==
  \A q \in Subscriptions :
    LET unsent == taken[q] - sent[q]
    IN /\ unsent \in {0, 1}
       /\ handler[q] \in {"snapshot", "loop", "waiting", "sending"}
            => unsent = IF event[q] = 0 THEN 0 ELSE 1

\* A client is sent the events of its session in order, none twice, and none
\* that its snapshot was taken after (main.py:286-297, 699-726).
SentInOrder ==
  [][\A q \in Subscriptions :
       sent'[q] # sent[q] =>
         /\ sent_last'[q] > sent_last[q]
         /\ sent_last'[q] > joined[q]]_allvars

\* A client that goes away is unsubscribed, however many events are published
\* meanwhile, and even if a send was waiting for it (main.py:286-300, 699-726).
GoneUnsubscribed ==
  \A q \in Subscriptions : q \in gone ~> handler[q] = "done" /\ q \notin Open

\* As long as its stream is open, a client that reads gets every event or one
\* published later in its place: the newest is never the one left out, however
\* slow the client was (main.py:699-726, events.py:84-101).
NewestDelivered ==
  \A q \in Readers, s \in SessionIds, e \in 1..MaxEvents :
    q \in Open /\ session_id[q] = s /\ joined[q] < e /\ published[s] >= e
      ~> sent_last[q] >= e \/ q \notin Open

=============================================================================
