---------------------------- MODULE EventBroker ----------------------------
(***************************************************************************)
(* EventBroker of backend/telemetry/events.py: one bounded queue per       *)
(* subscription, and a publish that makes room in a full queue by dropping *)
(* its oldest event.  Publish takes the asyncio lock only to copy the set  *)
(* of subscribers and awaits nothing after that, and subscribe and         *)
(* unsubscribe await nothing but the lock, so each is one step.            *)
(*                                                                         *)
(* An event is named by its position among the events published for its    *)
(* session.  The branches of publish for a queue that fills up or empties  *)
(* between two statements are left out: with no await there is no between. *)
(***************************************************************************)
EXTENDS Integers, Sequences, FiniteSets, Functions

CONSTANTS
  SessionIds,
  Subscriptions, \* EventSubscription objects; each is opened at most once
  QueueSize,     \* subscriber_queue_size
  NoSession,     \* session of a subscription that does not exist yet
  MaxEvents      \* bound on the events published for a session

ASSUME EventBrokerAssumption ==
  /\ IsFiniteSet(Subscriptions)
  /\ QueueSize \in Nat \ {0}
  /\ MaxEvents \in Nat
  /\ NoSession \notin SessionIds

VARIABLES
  subscribers,   \* _subscribers: session id -> set of queues, none empty
  queue,         \* queue[q]: numbers of the events waiting in q
  dropped,       \* dropped[s]: _dropped_diagnostic_frames
  session_id,    \* session_id[q], NoSession before q is opened
  closed,        \* subscriptions whose _closed is set
  published,     \* history: events published for each session
  joined,        \* history: published[s] when q was opened on s
  taken,         \* history: events received from q
  lost,          \* history: events dropped from q
  last           \* history: number of the event last received from q

records == <<published, joined, taken, lost, last>>
vars == <<subscribers, queue, dropped, session_id, closed, records>>

Zeros(S) == [x \in S |-> 0]

Init ==
  /\ subscribers = [s \in {} |-> {}]
  /\ queue = [q \in Subscriptions |-> <<>>]
  /\ dropped = Zeros(SessionIds)
  /\ session_id = [q \in Subscriptions |-> NoSession]
  /\ closed = {}
  /\ published = Zeros(SessionIds)
  /\ joined = Zeros(Subscriptions) /\ taken = Zeros(Subscriptions)
  /\ lost = Zeros(Subscriptions) /\ last = Zeros(Subscriptions)

Open == {q \in Subscriptions : session_id[q] # NoSession} \ closed

SubscribersOf(s) == IF s \in DOMAIN subscribers THEN subscribers[s] ELSE {}

With(s, members) ==
  [x \in DOMAIN subscribers \cup {s} |-> IF x = s THEN members ELSE subscribers[x]]

Subscribe(q, s) ==
  /\ session_id[q] = NoSession
  /\ session_id' = [session_id EXCEPT ![q] = s]
  /\ subscribers' = With(s, SubscribersOf(s) \cup {q})
  /\ joined' = [joined EXCEPT ![q] = published[s]]
  /\ UNCHANGED <<queue, dropped, closed, published, taken, lost, last>>

\* Mutants of Unsubscribed: the session's entry goes with its first subscriber;
\* the entry stays when its last one is gone.
UnsubscribedAll(q, s) == [x \in DOMAIN subscribers \ {s} |-> subscribers[x]]
UnsubscribedLeaky(q, s) == With(s, SubscribersOf(s) \ {q})

\* The store of subscribers without q; the last one of a session takes the
\* session's entry with it.
Unsubscribed(q, s) ==
  LET rest == SubscribersOf(s) \ {q}
  IN IF rest = {} THEN [x \in DOMAIN subscribers \ {s} |-> subscribers[x]]
     ELSE With(s, rest)

\* EventSubscription.close; a second close returns at once.
Close(q) ==
  /\ q \in Open
  /\ closed' = closed \cup {q}
  /\ subscribers' = Unsubscribed(q, session_id[q])
  /\ UNCHANGED <<queue, dropped, session_id, records>>

Full(q) == Len(queue[q]) = QueueSize

\* Mutants of Offered: the newest event is dropped instead of the oldest; a
\* full queue is emptied; the event is put before the others.
OfferedKeepingOld(q, e) == IF Full(q) THEN queue[q] ELSE Append(queue[q], e)
OfferedAfresh(q, e) == IF Full(q) THEN <<e>> ELSE Append(queue[q], e)

OfferedAtFront(q, e) == <<e>> \o (IF Full(q) THEN Tail(queue[q]) ELSE queue[q])

Offered(q, e) == Append(IF Full(q) THEN Tail(queue[q]) ELSE queue[q], e)

\* Mutant of Overflowing: only whether anything was dropped is counted.
OverflowingOnce(s) ==
  IF \E q \in SubscribersOf(s) : Full(q)
  THEN {CHOOSE q \in SubscribersOf(s) : Full(q)} ELSE {}

Overflowing(s) == {q \in SubscribersOf(s) : Full(q)}

Publish(s) ==
  LET e == published[s] + 1
  IN /\ published[s] < MaxEvents
     /\ published' = [published EXCEPT ![s] = e]
     /\ queue' = [q \in Subscriptions |->
                    IF q \in SubscribersOf(s) THEN Offered(q, e) ELSE queue[q]]
     /\ dropped' = [dropped EXCEPT ![s] = @ + Cardinality(Overflowing(s))]
     /\ lost' = [q \in Subscriptions |->
                   IF q \in SubscribersOf(s) /\ Full(q) THEN lost[q] + 1 ELSE lost[q]]
     /\ UNCHANGED <<subscribers, session_id, closed, joined, taken, last>>

\* EventSubscription.receive, when its queue has something.
Receive(q) ==
  /\ q \in Open
  /\ queue[q] # <<>>
  /\ queue' = [queue EXCEPT ![q] = Tail(@)]
  /\ taken' = [taken EXCEPT ![q] = @ + 1]
  /\ last' = [last EXCEPT ![q] = Head(queue[q])]
  /\ UNCHANGED <<subscribers, dropped, session_id, closed, published, joined, lost>>

Next ==
  \/ \E s \in SessionIds : Publish(s) \/ \E q \in Subscriptions : Subscribe(q, s)
  \/ \E q \in Subscriptions : Receive(q) \/ Close(q)

Spec == Init /\ [][Next]_vars

-----------------------------------------------------------------------------
(* Properties.                                                             *)

\* The variables have their types; a session nobody listens to has no entry
\* (events.py:75-82).
TypeOK ==
  /\ DOMAIN subscribers \subseteq SessionIds
  /\ \A s \in DOMAIN subscribers : subscribers[s] \in (SUBSET Subscriptions) \ {{}}
  /\ queue \in [Subscriptions -> Seq(Nat)]
  /\ session_id \in [Subscriptions -> SessionIds \cup {NoSession}]
  /\ closed \subseteq Subscriptions
  /\ published \in [SessionIds -> 0..MaxEvents]
  /\ dropped \in [SessionIds -> Nat]
  /\ joined \in [Subscriptions -> Nat] /\ taken \in [Subscriptions -> Nat]
  /\ lost \in [Subscriptions -> Nat] /\ last \in [Subscriptions -> Nat]

\* Whatever subscriptions come and go, publish reaches exactly the open ones of
\* its session (events.py:67-86).
Registered ==
  \A s \in SessionIds : SubscribersOf(s) = {q \in Open : session_id[q] = s}

\* A queue holds the newest events of its session, in order and with no gap,
\* and none from before the subscription (events.py:84-101, 136-143).
NewestInOrder ==
  \A q \in Open :
    LET n == published[session_id[q]] - Len(queue[q])
    IN /\ Len(queue[q]) <= QueueSize
       /\ joined[q] <= n
       /\ \A i \in DOMAIN queue[q] : queue[q][i] = n + i

\* Every event published since a subscription was opened was received, or is
\* waiting, or was dropped to make room (events.py:84-101).
NothingUnaccounted ==
  \A q \in Open :
    published[session_id[q]] - joined[q] = taken[q] + Len(queue[q]) + lost[q]

\* The counter of dropped events of a session counts what each of its
\* subscriptions lost, those closed since included, although it is kept apart
\* from the queues and outlives them (events.py:61, 88-101, 136-143).
DropsAddUp ==
  \A s \in SessionIds :
    dropped[s] = SumFunctionOnSet(lost, {q \in Subscriptions : session_id[q] = s})

\* The log the broker implements: a reader's cursor is how much of the log is
\* no longer waiting for it.
Reading == [q \in Subscriptions |-> IF q \in Open THEN session_id[q] ELSE NoSession]
Cursor  == [q \in Subscriptions |->
              IF q \in Open THEN published[session_id[q]] - Len(queue[q]) ELSE 0]

Log == INSTANCE EventLog
         WITH Readers <- Subscriptions, Size <- QueueSize,
              length <- published, session <- Reading, cursor <- Cursor

\* The broker implements the log: each subscriber sees the events of its
\* session in order, each at most once, from when it joined, and misses one
\* only by being QueueSize events behind (events.py:35-101, 136-143).
LogSpec == Log!Spec

=============================================================================
