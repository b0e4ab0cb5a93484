# A verification of the TabScribe backend in TLA+

The modules in this directory model the backend under `src/backend`: the
FastAPI application, its session store, its audio ingest and its event broker.
TLC checks them on small instances, TLAPS proves what matters most for every
value of the constants. Line numbers refer to the files under `src/`.

## 1. The system

| part | code | state | operations |
|---|---|---|---|
| session manager | `app/sessions.py` | `_sessions`: id -> immutable record (token, profile, state, created_at, last_activity_at, glossary version); a lock; a wall clock | create, get/touch, authenticate, transition, stop, finalize, set profile, set glossary, expire. Each reads the clock, takes the lock, deletes every stale session, then acts |
| audio ring buffer | `audio/ring_buffer.py` | frames, their total duration and size | append (refuses when full); pop_left and clear are never called |
| jitter tracker | `audio/jitter.py` | expected sequence number, a window of recent numbers (deque + set), counters | observe, count dropped events |
| audio ingest | `audio/ingest.py` | one buffer and one tracker per session id | accept_frame, session_snapshot, count dropped events, clear_session (never called) |
| event broker | `telemetry/events.py` | per session id a set of bounded queues; a counter of dropped events | subscribe, unsubscribe, publish (drops the oldest of a full queue), receive |
| authentication of a websocket | `app/main.py` 477-573 | none of its own | try the tokens of the subprotocol header, else wait a limited time for a first message |
| events websocket | `app/main.py` 271-300, 697-726 | one coroutine per client, two tasks per turn | authenticate, subscribe, snapshot, then forward events until the client sends something or leaves |
| audio websocket | `app/main.py` 162-269, 584-655 | one coroutine per client | authenticate; per frame: ingest, record activity, publish health or an error |
| control websocket | `app/main.py` 302-422, 728-883 | one coroutine per client | authenticate; per command: change the session, publish and send an acknowledgement |
| HTTP | `app/main.py` 95-160 | none of its own | health, create, get, stop, glossary |
| frame parsing | `audio/ingest.py` 183-355 | none | checks of a binary message, in order |
| contracts, errors | `app/protocol.py`, `app/errors.py` | none | constants, models of bodies, what an exception is answered |
| configuration | `app/config.py` | none | read a file, override from the environment, validate |

**How they interact.** All handlers are coroutines of one event loop. They call
the manager directly and the ingest and the broker through `asyncio` locks
whose critical sections contain no await; a coroutine therefore gives way only
where it waits for a message, sends, or closes. The components know each other
only through the handlers: nothing ties the ids the ingest and the broker hold
to the sessions the manager has.

**What is hard.** Sessions expire lazily, by a wall clock read before the lock
is taken, inside whatever call comes next; one handler step may read the clock
twice. Audio, control and HTTP clients change the same session in any order.
The event handler races a receive task against an event task and cancels the
loser. Queues, windows and buffers work at their limits. Clients vanish at any
await, and repeat what they lost the answer to. `PROJECT.json` lists these under
`hazards`, each at its line, with the properties that would catch it going wrong.

## 2. The modules

| module | what it is | corresponds to |
|---|---|---|
| `SessionRecords` | records, the table of state changes, what each operation computes | data and pure parts of `sessions.py` |
| `SessionManager` | `Enter` reads the clock; one action per operation is its critical section | `SessionManager`, for any number of threads |
| `SessionLifecycle` | abstract: unborn, active, ending, ended, gone | what the manager promises |
| `AudioRingBuffer`, `JitterTracker` | operators on buffers and trackers | `ring_buffer.py`, `jitter.py` |
| `AudioIngest` | `buffers`, `trackers`; one action per operation and outcome | `AudioIngestService` |
| `AudioFrame` | the checks of a message as a sequence, what it raises, the frame | `parse_audio_frame`, `expected_pcm_payload_length` |
| `AudioIntake` | instantiates `AudioIngest` with the frames the checks of `AudioFrame` let through | `accept_frame` as a whole |
| `EventLog` | abstract: a log, cursors that are carried forward when they fall behind | what the broker promises |
| `EventBroker` | store of subscribers, bounded queues, counters | `events.py` |
| `EventStream` | extends `EventBroker` with the handler of `/v1/events` | `events_websocket`, `_authenticate_websocket`, `_events_send_loop` |
| `HttpApi` | the store as HTTP clients see it: requests, answers, repetitions | routes of `create_app`, `errors.py` |
| `WebsocketAuth` | extends `HttpApi` with websockets that ask to be let in | `_authenticate_websocket` |
| `ControlMessage` | the checks of a control message as a sequence | `_parse_control_command` |
| `ControlLink` | several control clients of a session with their inboxes, answers and disconnects | `control_websocket` |
| `Backend` | composes `SessionRecords`, `AudioIngest` and `EventBroker` with the audio, control and HTTP handlers | `create_app` and the helpers of `main.py` |
| `MC...` | instances for TLC: frames, clocks, symmetry | |
| `Sums_proofs` | facts about sums, for the proofs | |
| `..._proofs` | theorems | |

`SessionManager` and `Backend` share the record operations. They differ in what
is a step: in `SessionManager` a call is two steps, so that threads interleave
between reading the clock and taking the lock; in `Backend` a handler's step is
everything between two suspension points, and may contain several calls with
different readings.

In `EventStream` the control state of a handler is `handler[q]`; `StartTasks`
creates the two tasks and runs their first steps, `ReceiveStep` and `EventStep`
are a task finding something later, `Resume` is the handler going on after
`asyncio.wait`. Both tasks may be done by then. In `Backend` a link's control
state is `link[c]`; its client may send anything at any time, so messages are
inputs of the steps rather than a queue. What clients can tell of a session is
kept in two history variables: `payload[q]` is what the events waiting in
`queue[q]` tell, in their order, and `known[q]` what the client of `q` was told
by its snapshot and the events it has been sent, but for the fields of an event
that was pushed out of its queue, of which it cannot be sure until it is told
them again. An event goes from `payload` to `known` in the step that takes it
from the queue: what `EventStream` shows of the way between, that no event is
lost or overtaken on it, is not repeated.

`Backend` has what a handler does to the other components; three modules look
at one handler closely and leave the others out. `AudioIntake` says which
outcome a binary message leads to. `ControlLink` gives each client a queue of
messages that wait while an answer is sent: a handler takes one, changes the
session, sends the answer (`"acking"`) and only then takes the next.
`WebsocketAuth` tries every list of subprotocols and every first message, with
strings as sequences of parts, and has HTTP requests in between; `request`,
`answer`, `latest` and `missed` record what was asked and answered last.

**Abstractions.** A token is the session it was issued to (tokens are only
compared). Times are whole seconds. A frame is its number, duration and payload
length; a message of an audio client is its length and header fields, a control
message its kind and the four members that are looked at. An event is its
position among the events of its session. Response bodies but for status and
code, close codes, wording and logging are left out.

**History variables.** `used` (when a session was last refreshed), `published`,
`joined`, `taken`, `lost`, `last` (what became of the events of a queue),
`sent`, `sent_last` (what a client was sent), `payload`, `known` (what it will be
and was told),
`message` and `outcome` (what came in last and what became of it), `arrived`,
`answered`, `latest`, `request`, `answer`, `missed`. Events are named by
`published`; `arrived` also carries the bound `MaxMessages`; the others are read
by no action except to be kept up.

## 3. What TLC checks

| run | instance | properties |
|---|---|---|
| `SessionManagerEventLoop` | 2 sessions, 1 caller, clock 0..3, stale after 1 | `TypeOK`, `KeepAlive` |
| `SessionManagerThreads` | 2 sessions, 2 threads, clock 0..2 | `ActivityOrder`, `LifecycleSpec` |
| `AudioIngest` | 1 session, numbers 0..4, durations 1, 2, 9, room for 5 frames or 8 ms, window of 2 | `TypeOK`, `WithinLimits`, `TotalsAddUp`, `WindowsAgree`, `ObservedOnce`, `HonestStatistics` |
| `AudioIngestDefaults` | the shipped limits, scaled by 1/100 | finds `RefusedOnlyWhenFull` violated |
| `AudioIntake` | 1 session, the shipped limits, messages at each limit and one beside it | `SoundExactly`, `NoEscape`, `BytesFollowDepth` |
| `EventBroker` | 2 sessions, 3 subscriptions, queues of 2, 4 events each | `TypeOK`, `Registered`, `NewestInOrder`, `NothingUnaccounted`, `DropsAddUp`, `LogSpec` |
| `EventStream` | 1 stream, 2 sessions, queue of 2, 4 events each, 2 waiting messages | `StreamTypeOK`, `SubscriptionHeld`, `NoEventLost`, `SentInOrder`, `GoneUnsubscribed`, `NewestDelivered` |
| `Backend` | 1 session, 2 profiles, 1 audio and 1 control link, 1 subscription with a queue of 1, 7 events, or 4 when the subscription was opened, clock 0..2 | `TypeOK`, `OnlyKnownSessions`, `DroppedAgree`, `StreamsTellTruth`, `EndingsAreFinal`, `UsedStayAlive`, `PauseHolds`, `GoneGoesQuiet`, `LifecycleSpec` |
| `BackendLateAudio` | as `Backend`, 1 profile, 5 events | finds `NotAccepted` violated |
| `ControlLink` | 1 session, a client that reads and sends 2 messages, one that may stop reading and sends 1, clock 0..2 | `RetriesAreSafe`, `EveryMessageDecided` |
| `ControlMessageForms` | 1 client, 1 message of any form | finds `InvalidJsonIsNotJson` violated |
| `WebsocketAuth` | 1 session, 1 websocket, lists of up to 2 subprotocols of nine kinds, first messages of all kinds, clock 0..2 | `RepeatsAreSafe`, `NotFoundIsFinal`, `RefusalsChangeNothing`, `OfferedTokenAdmits` |

What they show.

* *Sessions.* Although the clock is read before the lock is taken, no record is
  ever active before it was created or after now, however two threads
  interleave (`ActivityOrder`). With the application's single caller a session
  is deleted only when nobody has used it for the stale time (`KeepAlive`);
  with two threads that is not so, since a slow thread writes an old reading
  over a newer one, and it is not claimed. The life cycle is implemented:
  stopping and ended sessions never record again, and a deleted id never lives
  again; the theorem says so even of a clock that is set back.
* *Audio.* Limits hold; totals are those of the frames held; the deque and the
  set of the window agree; buffer and tracker account for the same frames
  although append may raise between them. `HonestStatistics` says what the
  counters mean: `missing` is an upper bound of the numbers not heard, off by
  at most `out_of_order`, and a repetition the window has forgotten is counted
  as out of order. The parser lets through exactly the messages whose payload is
  as long as the header says (`SoundExactly`), so the milliseconds of a buffer
  bound its bytes from both sides although nothing compares them
  (`BytesFollowDepth`), and no limit of the header model is reached that the
  checks before it have not refused (`NoEscape`): it would end the handler.
* *Events.* Publishing reaches exactly the open subscriptions; queues hold the
  newest events without a gap; every event is received, waiting or counted as
  dropped. So each subscriber reads a log and misses an event only by being a
  queue length behind (`LogSpec`). The handler adds to this that no order of
  messages, events and cancellations loses, repeats or reorders an event, or
  leaves a subscription open; a client that leaves is unsubscribed however many
  events are published, because the message of the client is looked at before
  the event; and the newest event always arrives.
* *The whole.* Two counters of dropped events kept by two components agree; the
  ingest and the broker hold nothing for an id that was never handed out; audio
  never resumes a paused session; whatever was answered well keeps the session
  alive, even when it expires between two calls of one step. Snapshot, audio and
  control events, each with its own fields, never leave a client that reads what
  waits for it wrong about its session until that is stopped
  (`StreamsTellTruth`; stopping over HTTP is not published). One that missed no
  event knows all of state, profile and depth; one of which an event was dropped
  is unsure of what that event told, and of no more: later events tell only what
  they change, so an overflow that drops an acknowledgement may leave a client
  not knowing the state until the next frame or command. What a client was told
  of an ending, or has waiting, is not taken back, whatever is still on its way
  over the other sockets (`EndingsAreFinal`). The open streams of an expired
  session hear only of links that are given up.
* *Clients.* A command, a stop or a new glossary version may be sent again when
  its answer was lost, over the same link or another, and changes nothing but
  the activity time (`RetriesAreSafe`, `RepeatsAreSafe`). The run has one profile,
  so there `set_profile` only touches the session; `RetriesSafe` is proved for any
  set of profiles. Over HTTP the answer 409 is never given, which rests on no
  client being able to bring a session to the state `error`
  (`backend/tests/test_sessions_api.py:97` gets it by calling the manager directly). An
  id once unknown stays unknown to requests and to a websocket that was waiting
  when its session expired; whoever is refused has neither kept a session alive
  nor ended it. A token is found wherever in the list it is offered. A client
  that reads gets an answer to every message or the end of its link, even while
  another client of the session does not read.

**Three disagreements** between the code and what it says:

1. The shipped configuration accepts frames of up to 1000 ms
   (`config/default.yml:21`) for buffers of 500 ms (`:16`). A frame in between
   is refused by an empty buffer with "Audio queue is full" (`main.py:236`),
   marked recoverable (`main.py:652`). Run `AudioIngestDefaults`.
2. `main.py:213-214` puts a frame into the queue before asking whether the
   session takes audio. The client is told "Session is not accepting audio
   frames" (`main.py:255`), and the frame stays in the queue and in the
   statistics. Run `BackendLateAudio`.
3. `main.py:742` looks the type of a control message up in a set, which raises a
   `TypeError` if it is a list or an object; `main.py:352` takes that for a fault
   of `json.loads`. The client is told "Control message must be valid JSON"
   (`main.py:360`) of a message that is. Run `ControlMessageForms`.

**Bounds, and why they are enough.** A session has to be unused for two ticks
to expire, so three readings of the clock show expiry before, between and
after calls; two sessions show that a call for one deletes the other. The
clocks of the runs only go forward; a clock that is set back is left to the
theorem `LifecycleImplemented`, which is for any set of jumps. Five sequence
numbers and a window of two show a number that is lost, late, repeated inside
the window and repeated after it was forgotten. Queues of one or two events
with more publications than that overflow repeatedly. Three subscriptions of
the broker show that one does not disturb another; what a handler does
concerns its own queue, so one is run, and the theorems about the safety of
streams are for any number. In `Backend` seven events authenticate two links
and leave five to record, pause, send audio and resume again. States with a
client that hears of the session are many more, so once there is one
(`HeardBound`, `MaxHeard`) four events are followed: they authenticate both
links and leave two, which overflow the queue of one and follow a change over
one socket by one over the other. Two control clients with three messages are
a command, its repetition, and another command in between. The messages of
`AudioIntake` put every field at its limit and beside it, with lengths one
byte off. `MaxEvents`, `MaxHeard`, `MaxTime`, `MaxInbox`, `MaxMessages` and
`MaxDropped` bound counters the code leaves unbounded; at them the models
stop, which is why deadlock is not checked except for `AudioIngest` and
`AudioIntake`, whose operations are always possible.

**Fairness** (`EventStream`, `ControlLink`). `WF` of `HandlerStep(q)`: the event loop
eventually runs a task that stays ready, and a timeout eventually fires. `WF` of
`SendEnds(q)` only for clients that read or are gone: a send to a client that is
neither may never return, and then nothing is claimed. Nothing is assumed of
clients or publishers.

## 4. What is proved

All theorems hold for every number of sessions, threads, subscriptions and
streams, and for every queue size, window and limit, under the named
assumptions on constants in the modules.

* `SessionManager_proofs`: `TypeCorrect`, `ActivityOrdered` (if the clock is not
  set back), `KeepsAlive` (and only one caller), `LifecycleImplemented` (neither
  is needed). The inductive invariant adds to the properties what a call in
  progress knows: its reading is not ahead of the clock, and a caller can name
  only a session issued before its reading. The lemma `OperationEffect`
  reduces the ten operations to three effects (sweep, create, refresh), for which
  each invariant is shown. With one caller, `used` and
  `last_activity_at` are tied together, which is what makes deletion imply disuse.
* `AudioIngest_proofs`: `TypeCorrect`, `BufferBounded`, `WindowCorrect`,
  `AccountedFor`, `CountersHonest`, `TotalsCorrect`, from one invariant over
  buffer and tracker (`PairInv`): the window is an injective sequence behind the
  expected number, the counters explain the distance from the first buffered
  number to the expected one, the totals are the sums over the frames, and the
  counters bound what was heard and skipped. Two facts are needed beside the
  properties: every number in the window was heard, and every number heard is
  behind the expected one. A number in the window then counts as a duplicate
  and is one; any other that is behind may fill a gap or repeat what the window
  forgot, and is counted as out of order, which is the error the bounds allow.
* `AudioIntake_proofs`: `BytesBounded`, `NothingEscapes`, `IngestImplemented`,
  `ParserExact`. For any limits: every accepted frame is in proportion, so the
  sums kept beside the frames are; the header model is reached only after the
  limits; and every behaviour of the intake is one of the ingest, so what is
  proved of that holds. `ParserExact` rests on lemmas about division: the check
  that rate times duration is a multiple of 1000 is what makes the rounded
  division of the length exact.
* `Sums_proofs`: what the theorems need of sums over a function with a finite
  domain. `SumFunction` is a recursive function on sets, and induction over data
  is out of the provers' reach in its usual form, where the claim is a parameter.
  Here the claim is a set: the subsets for which it fails have a smallest member,
  since strict inclusion of finite sets is well-founded. So the sum is the
  number of elements of the area under its summands, and counting gives what
  happens when an index is added or a summand grows.
* `Events_proofs`, first the broker: `TypeCorrect`, `ExactlyRegistered`,
  `QueuesInOrder`, `AllAccounted`, `LogImplemented`, `DropsCounted`. Queues stay
  aligned with the events published only because the store of subscribers is
  exact, so the properties are inductive together, with one more: a
  subscription not opened yet is untouched. The order of a queue then says which
  event `Receive` takes, which is what makes it a read of the log. The count of a
  session is the sum of what its subscriptions lost: a publication adds one to
  both for each queue that is full.
* `Events_proofs`, then the handlers: `StreamsUseBroker` (every behaviour of the
  streams is one of the broker, so all the above holds of them),
  `StreamTypeCorrect`, `SubscriptionsHeld`, `NothingLost`, `OrderKept`. The
  invariant relates what a queue gave away to what the handler holds and has
  sent: an event is taken only into an empty hand, and the hand is emptied only
  by sending or by leaving the loop.
* `Backend_proofs`: `TypeCorrect`, `BackendUsesBroker` (every behaviour of the whole
  is one of the broker), `StoresKnowTheirSessions`, `UsedSessionsLive`,
  `HandlersImplementLifecycle`, `DroppedAlwaysAgree`, `PausesHold`,
  `StreamsAreTruthful`, `EndingsStayFinal`, `GoneSessionsFallSilent`. The lemma
  `StepEffects` reduces the handlers to what a step does to the manager, the
  buffers, the broker with the trackers, and the links; most theorems are about
  these effects. Two invariants are added: a record is at least as young as the
  last use of its session (`UsedInStore`, for `UsedStayAlive`); and `StreamsInv`,
  for the streams: every open subscription is registered under a session that was
  created, one not opened was never closed and has nothing waiting, `payload` is
  as long as `queue`, and no client of an active session is wrong or warned of
  its end. Each step is shown to be quiet (it changes nothing a reader is told)
  or to tell all readers of the one session it changes (`TellingStep`). The rest
  is about sequences: what an appended event tells is true after it
  (`AppendedBelief`), and neither reading the first event (`ReadBelief`) nor losing
  it with all it told (`DroppedBelief`) makes a client believe anything else.
* `ControlLink_proofs`: `RetriesSafe`, and `LatestIsMarked`, the invariant behind
  it: what the last command left is still to be seen in the record, because
  nothing but another command moves that field, so obeying it again moves
  nothing.
* `WebsocketAuth_proofs`: `RepeatsSafe` (the same argument, for requests),
  `NotFoundFinal` (an id answered 404 was handed out and is gone, and ids are
  handed out once), `RefusalsHarmless` (each answer but a success goes with a
  sweep alone), `OfferedAdmits` (by the first token in the list that is good:
  the ones before it are refused and leave it alone, whether tried by prefix or
  as they are).

The assumptions on the constants, where they say more than a type. A queue has
room for an event, and finitely many subscriptions are counted
(`BackendAssumption`; `events.py:52` refuses an unbounded queue). A control message
is an object or one of the other kinds the parser tells apart
(`ControlLinkAssumption`). Session ids are not empty, and what stands for a
glossary version of the wrong type is no version (`HttpApiAssumption`; ids are
those of `uuid4`). The token of a session is one part of a string, none of the
prefixes a subprotocol may carry, not `ctts.v1` and ASCII
(`WebsocketAuthAssumption`; `secrets.token_urlsafe` draws letters, digits, `-` and
`_`, and the others hold a dot or a character that is not ASCII).

Every invariant and every action property that a passing run checks is stated by
a theorem, and so are the refinements. Only model-checked are
`GoneUnsubscribed`, `NewestDelivered` and `EveryMessageDecided`: they say what must
happen under fairness, which the provers cannot reason about; and the three
disagreements, which a behaviour shows and no proof could. `AudioIntake` and
`EventStream` are proved to behave as `AudioIngest` and `EventBroker`; `Backend` is
proved to behave as `EventBroker`, but not as `AudioIngest`, since one step of a
handler may do two of its operations.

## 5. What is not modelled

*Configuration* (`app/config.py`): a function of a file and the environment,
evaluated once before anything else runs; what it yields are the constants of
the modules. *Bodies* of answers and events beyond what clients can tell apart;
the modes and models of `protocol.py` for stages that do not exist yet. *Decoding*:
bodies and messages that are not UTF-8, and the `ValueError`s of `json.loads` that
are no decoding errors (a number of too many digits); no property depends on
either. *Server
shutdown* and cancellation of handlers from outside. `pop_left`
(`ring_buffer.py`) and `update_queue_depth` (`jitter.py`) are called by nothing in
the program; `clear_session` is not either, but is part of `AudioIngest`. That the
audio of expired sessions is never released is so, and no statement of the code
is against it. Nothing is persisted, so there is no restart to recover from.

## 6. Plan

1. A step of `Backend` on buffers and trackers as a sequence of at most two
   operations of `AudioIngest`, so that `WithinLimits` and `ObservedOnce` are proved of
   the whole.
2. What `ControlLink` does with a message, related to the control steps of
   `Backend`, which take the command as given.
3. A second audio link of the same session in `Backend`: the theorems allow it,
   the run has one.
