------------------------------ MODULE Backend ------------------------------
(***************************************************************************)
(* The application of backend/app/main.py: the HTTP operations and the     *)
(* handlers of the audio and control websockets, over the session store,   *)
(* the audio ingest and the event broker they share.                       *)
(*                                                                         *)
(* Everything runs on one event loop.  A step is what a handler does       *)
(* between two points where it is suspended: while it waits for a message, *)
(* while its answer is sent, and while its socket is closed.  A step may   *)
(* call the manager more than once, and each call reads the clock: the     *)
(* second reading of a step may be a second later than the first.          *)
(*                                                                         *)
(* A link is one audio or control websocket.  Its client may send anything *)
(* at any time, so messages are inputs of the steps.  The handler of       *)
(* /v1/events is EventStream; here it is only its use of the broker.       *)
(***************************************************************************)
EXTENDS SessionRecords, AudioRingBuffer, JitterTracker, FiniteSets

CONSTANTS
  AudioLinks, ControlLinks,
  NoSession,     \* session of a link or subscription that does not exist yet
  Subscriptions, QueueSize, MaxEvents,    \* of the event broker
  MaxTime        \* bound on the clock

Links == AudioLinks \cup ControlLinks

ASSUME BackendAssumption ==
  /\ AudioLinks \cap ControlLinks = {}
  /\ NoSession \notin SessionIds
  /\ IsFiniteSet(Subscriptions) /\ QueueSize \in Nat \ {0}
  /\ MaxEvents \in Nat /\ MaxTime \in Nat

VARIABLES
  clock, sessions, issued,     \* as in SessionManager
  buffers, trackers,           \* as in AudioIngest
  subscribers, queue, dropped, session_id, closed,
  published, joined, taken, lost, last,    \* as in EventBroker
  link,          \* link[c]: where the handler of c is suspended
  target,        \* target[c]: the session id in the path of c
  used,          \* history: latest clock reading that refreshed each session
  payload,       \* history: what the events waiting in queue[q] tell
  known          \* history: what the client of each open subscription was told of
                 \* its session, but for what an event it missed may have changed

Ingest == INSTANCE AudioIngest WITH MaxDropped <- MaxEvents * Cardinality(Subscriptions)
Broker == INSTANCE EventBroker

manager == <<clock, sessions, issued, used>>
ingest  == <<buffers, trackers>>
events  == <<subscribers, queue, dropped, session_id, closed,
             published, joined, taken, lost, last>>
links   == <<link, target>>
clients == <<payload, known>>
vars    == <<manager, ingest, events, links, clients>>

\* The fields of an event's payload that say what has become of a session are
\* a record of state, profile and depth_ms, or a part of it.
NothingTold == [field \in {} |-> field]

LinkState == {"none", "auth", "open", "acking", "closing", "done"}

Init ==
  /\ clock = 0 /\ sessions = [s \in {} |-> {}] /\ issued = {}
  /\ used = [s \in SessionIds |-> 0]
  /\ Ingest!Init /\ Broker!Init
  /\ link = [c \in Links |-> "none"]
  /\ target = [c \in Links |-> NoSession]
  /\ payload = [q \in Subscriptions |-> <<>>]
  /\ known = [q \in Subscriptions |-> NothingTold]

Goes(c, from, to) == link[c] = from /\ link' = [link EXCEPT ![c] = to]

Tick ==
  /\ clock < MaxTime /\ clock' = clock + 1
  /\ UNCHANGED <<sessions, issued, used, ingest, events, links, clients>>

-----------------------------------------------------------------------------
(* Calls of the session manager within a step, at clock reading now.       *)

Live(now) == Unexpired(sessions, now)

\* The last call of the step finds s, and leaves record r there.
Served(s, r, now) ==
  /\ sessions' = Stored(Live(now), s, r)
  /\ used' = [used EXCEPT ![s] = now]
  /\ clock' = now
  /\ UNCHANGED issued

\* The last call of the step changes nothing but what has expired.
Swept(now) ==
  /\ sessions' = Live(now)
  /\ clock' = now
  /\ UNCHANGED <<issued, used>>

-----------------------------------------------------------------------------
(* Publishing.                                                             *)

Overlaid(old, new) ==
  [field \in DOMAIN old \cup DOMAIN new |-> IF field \in DOMAIN new THEN new[field] ELSE old[field]]

Without(old, fields) == [field \in DOMAIN old \ fields |-> old[field]]

\* What the acknowledgement of a command tells; a health event and a snapshot
\* tell the depth of the audio queue as well.
Told(r) == [state |-> r.state, profile |-> r.profile]

ToldWithDepth(r, b) == [state |-> r.state, profile |-> r.profile, depth_ms |-> b.depth_ms]

\* The event reaches the queues of the session's subscribers; where it pushes
\* another one out, what that one told is never heard.
Delivered(s, told) ==
  /\ payload' = [q \in Subscriptions |->
                   IF q \in Broker!SubscribersOf(s)
                   THEN Append(IF Broker!Full(q) THEN Tail(payload[q]) ELSE payload[q], told)
                   ELSE payload[q]]
  /\ known' = [q \in Subscriptions |->
                 IF q \in Broker!SubscribersOf(s) /\ Broker!Full(q)
                 THEN Without(known[q], DOMAIN Head(payload[q])) ELSE known[q]]

\* _publish_event: the events dropped on the way are counted in the tracker of
\* the session.  t is the store of trackers the step has made so far, told what
\* the payload says.
PublishEvent(s, t, told) ==
  LET count == Cardinality(Broker!Overflowing(s))
      old   == IF s \in DOMAIN t THEN t[s] ELSE NewTracker
  IN /\ Broker!Publish(s) /\ Delivered(s, told)
     /\ trackers' = IF count = 0 THEN t ELSE Ingest!With(t, s, Dropped(old, count))

\* Mutant of PublishAck: the drops are left to the broker's own counter.
PublishAckUncounted(s, told) ==
  Broker!Publish(s) /\ Delivered(s, told) /\ UNCHANGED trackers

\* _publish_control_ack_event up to its answer.
PublishAck(s, told) ==
  LET count == Cardinality(Broker!Overflowing(s))
  IN /\ Broker!Publish(s) /\ Delivered(s, told)
     /\ trackers' = IF count = 0 THEN trackers
                    ELSE Ingest!With(trackers, s, Dropped(Ingest!TrackerOf(s), count))

-----------------------------------------------------------------------------
(* HTTP.                                                                   *)

CreateSession(s, profile) ==
  /\ s \notin issued
  /\ sessions' = Stored(Live(clock), s, NewRecord(s, profile, clock))
  /\ used' = [used EXCEPT ![s] = clock]
  /\ issued' = issued \cup {s}
  /\ UNCHANGED <<clock, ingest, events, links, clients>>

GetSession(s) ==
  /\ s \in DOMAIN Live(clock)
  /\ Served(s, Touched(sessions[s], clock), clock)
  /\ UNCHANGED <<ingest, events, links, clients>>

StopSession(s) ==
  /\ s \in DOMAIN Live(clock) /\ CanStop(sessions[s])
  /\ Served(s, Stopped(sessions[s], clock), clock)
  /\ UNCHANGED <<ingest, events, links, clients>>

PutGlossary(s, version) ==
  /\ s \in DOMAIN Live(clock)
  /\ Served(s, Reversioned(sessions[s], version, clock), clock)
  /\ UNCHANGED <<ingest, events, links, clients>>

\* Any request for a session the manager has not, or cannot stop.
RequestRefused == Swept(clock) /\ UNCHANGED <<ingest, events, links, clients>>

-----------------------------------------------------------------------------
(* Authentication of a websocket.                                          *)

Admitted(s, token) == s \in DOMAIN Live(clock) /\ token = sessions[s].token

Refreshed(s) ==
  IF s \in DOMAIN Live(clock) THEN Served(s, Touched(sessions[s], clock), clock)
  ELSE Swept(clock)

\* Mutant of Connect: the buffer of the session is made at once.
ConnectEager(c, s) ==
  /\ Goes(c, "none", "auth")
  /\ target' = [target EXCEPT ![c] = s]
  /\ buffers' = Ingest!With(buffers, s, Ingest!BufferOf(s))
  /\ UNCHANGED <<manager, trackers, events, clients>>

Connect(c, s) ==
  /\ Goes(c, "none", "auth")
  /\ target' = [target EXCEPT ![c] = s]
  /\ UNCHANGED <<manager, ingest, events, clients>>

\* Mutant of Authenticate: the store is not asked whether it has the session.
AuthenticateUnchecked(c, token) ==
  /\ token = target[c]
  /\ Goes(c, "auth", "open")
  /\ Refreshed(target[c])
  /\ PublishEvent(target[c], trackers, NothingTold)
  /\ UNCHANGED <<buffers, target>>

\* The token of the header or of the first message is right.
Authenticate(c, token) ==
  /\ Admitted(target[c], token)
  /\ Goes(c, "auth", "open")
  /\ Refreshed(target[c])
  /\ PublishEvent(target[c], trackers, NothingTold)
  /\ UNCHANGED <<buffers, target>>

\* It is wrong, or does not come in time, or the client leaves.
AuthFails(c) ==
  /\ Goes(c, "auth", "closing") \/ Goes(c, "auth", "done")
  /\ Swept(clock) \/ UNCHANGED manager
  /\ UNCHANGED <<ingest, events, target, clients>>

\* The handler of /v1/events, as far as the broker and the manager see it: the
\* snapshot is made in the step that subscribes.
OpenStream(q, s, token) ==
  /\ Admitted(s, token)
  /\ Refreshed(s)
  /\ Broker!Subscribe(q, s)
  /\ known' = [known EXCEPT ![q] = ToldWithDepth(sessions[s], Ingest!BufferOf(s))]
  /\ UNCHANGED <<ingest, links, payload>>

\* The client is sent the oldest event that waits.
Sent(q) ==
  /\ Broker!Receive(q)
  /\ known' = [known EXCEPT ![q] = Overlaid(@, Head(payload[q]))]
  /\ payload' = [payload EXCEPT ![q] = Tail(@)]

Left(q) ==
  /\ Broker!Close(q)
  /\ known' = [known EXCEPT ![q] = NothingTold]
  /\ payload' = [payload EXCEPT ![q] = <<>>]

StreamStep(q) == (Sent(q) \/ Left(q)) /\ UNCHANGED <<manager, ingest, links>>

-----------------------------------------------------------------------------
(* The audio websocket.                                                    *)

TerminalAudioStates == {"stopping", "finalizing", "complete", "error"}

\* Mutants of Heard: a frame counts as activity only when it starts the
\* recording; a frame resumes a paused session.
HeardOnce(r, now) == IF r.state \in {"idle", "starting"} THEN Moved(r, "recording", now) ELSE r
HeardResuming(r, now) == Moved(r, "recording", now)

\* What _record_audio_activity makes of a session that accepts audio.
Heard(r, now) ==
  IF r.state \in {"idle", "starting"} THEN Moved(r, "recording", now) ELSE Touched(r, now)

\* The first call of _record_audio_activity finds a session that accepts audio.
Accepting(s, now) ==
  s \in DOMAIN Live(now) /\ sessions[s].state \notin TerminalAudioStates

Observing(s, f) ==
  Ingest!With(trackers, s,
              Observed(Ingest!TrackerOf(s), f.sequence_number,
                       Appended(Ingest!BufferOf(s), f).depth_ms))

\* accept_frame returns: the frame is in the buffer, whatever comes next.
Buffered(s, f) ==
  /\ HasRoom(Ingest!BufferOf(s), f)
  /\ buffers' = Ingest!With(buffers, s, Appended(Ingest!BufferOf(s), f))

\* The readings of the clock a second call of a step may get.
Readings == {clock, clock + 1} \cap 0..MaxTime

\* Mutant of FrameAccepted: the health event tells the record that was read first.
FrameAcceptedStale(c, f) ==
  LET s == target[c] IN
    /\ link[c] = "open"
    /\ Buffered(s, f)
    /\ Accepting(s, clock)
    /\ \E now \in Readings :
         s \in DOMAIN Live(now) /\ Served(s, Heard(sessions[s], now), now)
    /\ PublishEvent(s, Observing(s, f), ToldWithDepth(sessions[s], buffers'[s]))
    /\ UNCHANGED links

FrameAccepted(c, f) ==
  LET s == target[c] IN
    /\ link[c] = "open"
    /\ Buffered(s, f)
    /\ Accepting(s, clock)
    /\ \E now \in Readings :
         s \in DOMAIN Live(now) /\ Served(s, Heard(sessions[s], now), now)
    /\ PublishEvent(s, Observing(s, f), ToldWithDepth(sessions'[s], buffers'[s]))
    /\ UNCHANGED links

\* session_not_accepting_audio: the session has ended or has expired, perhaps
\* between the two calls.
FrameNotAccepted(c, f) ==
  LET s == target[c] IN
    /\ Goes(c, "open", "closing")
    /\ Buffered(s, f)
    /\ \/ ~Accepting(s, clock) /\ Swept(clock)
       \/ \E now \in Readings :
            Accepting(s, clock) /\ s \notin DOMAIN Live(now) /\ Swept(now)
    /\ PublishEvent(s, Observing(s, f), NothingTold)
    /\ UNCHANGED target

\* audio_buffer_full: the manager is not called.
FrameNotBuffered(c, f) ==
  LET s == target[c] IN
    /\ Goes(c, "open", "closing")
    /\ ~HasRoom(Ingest!BufferOf(s), f)
    /\ buffers' = Ingest!With(buffers, s, Ingest!BufferOf(s))
    /\ PublishEvent(s, trackers, NothingTold)
    /\ UNCHANGED <<manager, target>>

\* A text message, or a frame that parse_audio_frame rejects.
FrameRejected(c) ==
  /\ Goes(c, "open", "closing")
  /\ PublishEvent(target[c], trackers, NothingTold)
  /\ UNCHANGED <<manager, buffers, target>>

-----------------------------------------------------------------------------
(* The control websocket.                                                  *)

\* What _parse_control_command lets through, but for set_profile.
Command == {"pause", "resume", "stop", "ping"}

Requested == [pause |-> "paused", resume |-> "recording"]

Obeyed(r, command, now) ==
  CASE command \in DOMAIN Requested -> Moved(r, Requested[command], now)
    [] command = "stop"             -> Stopped(r, now)
    [] command = "ping"             -> Touched(r, now)

\* Mutant of Obeys: only a stop is checked against the state of the session.
ObeysUnchecked(r, command) == command = "stop" => CanStop(r)

Obeys(r, command) ==
  CASE command \in DOMAIN Requested -> CanMove(r, Requested[command])
    [] command = "stop"             -> CanStop(r)
    [] command = "ping"             -> TRUE

\* The session takes the change, and the acknowledgement is being sent.
Acknowledged(c, r) ==
  /\ Goes(c, "open", "acking")
  /\ Served(target[c], r, clock)
  /\ PublishAck(target[c], Told(r))
  /\ UNCHANGED <<buffers, target>>

CommandObeyed(c, command) ==
  /\ target[c] \in DOMAIN Live(clock)
  /\ Obeys(sessions[target[c]], command)
  /\ Acknowledged(c, Obeyed(sessions[target[c]], command, clock))

SetProfile(c, profile) ==
  /\ target[c] \in DOMAIN Live(clock)
  /\ Acknowledged(c, Reprofiled(sessions[target[c]], profile, clock))

\* Mutant of CommandRefused: the link of an unknown session stays open.
CommandRefusedOpen(c, command) ==
  /\ target[c] \in DOMAIN Live(clock) => ~Obeys(sessions[target[c]], command)
  /\ Goes(c, "open", "acking")
  /\ Swept(clock)
  /\ PublishAck(target[c], NothingTold)
  /\ UNCHANGED <<buffers, target>>

\* invalid_session_transition, which leaves the link open, and
\* unknown_session, which closes it.
CommandRefused(c, command) ==
  /\ IF target[c] \in DOMAIN Live(clock)
     THEN ~Obeys(sessions[target[c]], command) /\ Goes(c, "open", "acking")
     ELSE Goes(c, "open", "closing")
  /\ Swept(clock)
  /\ PublishAck(target[c], NothingTold)
  /\ UNCHANGED <<buffers, target>>

\* A message that is not JSON text, or names no command.
CommandMalformed(c) ==
  /\ Goes(c, "open", "closing")
  /\ PublishAck(target[c], NothingTold)
  /\ UNCHANGED <<manager, buffers, target>>

AckSent(c) == Goes(c, "acking", "open") /\ UNCHANGED <<manager, ingest, events, target, clients>>

\* The handler is done with: its socket is closed, its client is gone while it
\* waits, or sending fails.
LinkEnds(c) ==
  /\ \E from \in {"open", "acking", "closing"} : Goes(c, from, "done")
  /\ UNCHANGED <<manager, ingest, events, target, clients>>

-----------------------------------------------------------------------------
Http ==
  \/ \E s \in SessionIds :
       \/ \E p \in Profiles : CreateSession(s, p)
       \/ GetSession(s) \/ StopSession(s)
       \/ \E v \in Versions \cup {Stamped} : PutGlossary(s, v)
  \/ RequestRefused

AudioStep(c) ==
  \/ \E f \in Frames : FrameAccepted(c, f) \/ FrameNotAccepted(c, f) \/ FrameNotBuffered(c, f)
  \/ FrameRejected(c)

ControlStep(c) ==
  \/ \E command \in Command : CommandObeyed(c, command) \/ CommandRefused(c, command)
  \/ \E p \in Profiles : SetProfile(c, p)
  \/ CommandMalformed(c)
  \/ AckSent(c)

Next ==
  \/ Tick \/ Http
  \/ \E c \in Links :
       \/ \E s \in SessionIds : Connect(c, s)
       \/ \E token \in SessionIds : Authenticate(c, token)
       \/ AuthFails(c) \/ LinkEnds(c)
  \/ \E c \in AudioLinks : AudioStep(c)
  \/ \E c \in ControlLinks : ControlStep(c)
  \/ \E q \in Subscriptions :
       \/ \E s, token \in SessionIds : OpenStream(q, s, token)
       \/ StreamStep(q)

Spec == Init /\ [][Next]_vars

-----------------------------------------------------------------------------
(* Properties.                                                             *)

\* The variables have their types; a link that is past its authentication
\* belongs to a session that was created (main.py:170-177, 310-317).
TypeOK ==
  /\ clock \in 0..MaxTime
  /\ DOMAIN sessions \subseteq issued /\ issued \subseteq SessionIds
  /\ sessions \in [DOMAIN sessions -> SessionRecord]
  /\ used \in [SessionIds -> 0..MaxTime]
  /\ Ingest!TypeOK /\ Broker!TypeOK
  /\ link \in [Links -> LinkState]
  /\ target \in [Links -> SessionIds \cup {NoSession}]
  /\ \A c \in Links : link[c] \in {"open", "acking"} => target[c] \in issued

\* Nothing is kept for an id that was never handed out, although neither the
\* ingest nor the broker asks the manager (main.py:170-177, 279-288, 310-317;
\* ingest.py:165-180, events.py:71-72).
OnlyKnownSessions ==
  DOMAIN buffers \cup DOMAIN trackers \cup DOMAIN subscribers \subseteq issued

\* The dropped events a client reads in the audio statistics are those the
\* broker counted, whichever handler published (main.py:666-673, 880-882;
\* events.py:143).
DroppedAgree ==
  \A s \in SessionIds : Ingest!TrackerOf(s).dropped = dropped[s]

\* A session that is used is not deleted: every request, frame and command
\* that was answered well puts the deletion off by StaleAfter (main.py:95-160,
\* 213-214, 377-408, 584-599; sessions.py:306-314).
UsedStayAlive ==
  [][\A s \in DOMAIN sessions \ DOMAIN sessions' : clock' - used[s] > StaleAfter]_vars

\* A paused session records again only when a control client resumes it,
\* whatever audio goes on arriving (main.py:584-599, 788-791).
PauseHolds ==
  [][\A s \in DOMAIN sessions \cap DOMAIN sessions' :
       sessions[s].state = "paused" /\ sessions'[s].state = "recording"
         => \E c \in ControlLinks : target[c] = s /\ CommandObeyed(c, "resume")]_vars

Phase(state) ==
  IF state \in Active THEN "active" ELSE IF state \in Ending THEN "ending" ELSE "ended"

PhaseMap == [s \in SessionIds |-> IF s \in DOMAIN sessions THEN Phase(sessions[s].state)
                                 ELSE IF s \in issued THEN "gone" ELSE "unborn"]

Lifecycle == INSTANCE SessionLifecycle WITH phase <- PhaseMap

\* The handlers together implement the life cycle of a session: late audio and
\* late commands never bring back a session that is stopping or has expired.
LifecycleSpec == Lifecycle!Spec

\* What a session's streams are told of it.
Truth(s) == ToldWithDepth(sessions[s], Ingest!BufferOf(s))

\* The i-th of the payloads w is the last to tell field.
Newest(w, i, field) ==
  field \in DOMAIN w[i] /\ \A j \in DOMAIN w : j > i => field \notin DOMAIN w[j]

\* Whoever was told k, and has yet to read w, then believes nothing but truth.
Believes(w, k, truth) ==
  \A field \in DOMAIN truth :
    /\ \A i \in DOMAIN w : Newest(w, i, field) => w[i][field] = truth[field]
    /\ field \in DOMAIN k /\ (\A i \in DOMAIN w : field \notin DOMAIN w[i])
         => k[field] = truth[field]

\* The snapshot and the events that wait are enough: as long as a session is not
\* stopped, a client that reads what waits for it and of which no event was
\* dropped knows the state, the profile and the depth of the audio queue,
\* although they are changed over three sockets and told by events of different
\* kinds; one that missed events is wrong at most about what those told, and
\* only until it is told that again.  Stopping over HTTP is the one change that
\* is not told (main.py:134-143, 262-268, 402-420, 602-632, 676-695).
StreamsTellTruth ==
  \A q \in Broker!Open :
    LET s == session_id[q] IN
      s \in DOMAIN sessions /\ sessions[s].state \in Active
        => /\ Believes(payload[q], known[q], Truth(s))
           /\ lost[q] = 0 => DOMAIN known[q] = DOMAIN Truth(s)

TellsEnding(told) == "state" \in DOMAIN told /\ told.state \notin Active

\* A client that has been told that its session is stopping, or has such an
\* event waiting, was told for good: no handler that is still at work on the
\* session, audio, command or request, makes it active again
\* (main.py:134-143, 262-268, 377-420, 584-599).
EndingsAreFinal ==
  \A q \in Broker!Open :
    TellsEnding(known[q]) \/ (\E i \in DOMAIN payload[q] : TellsEnding(payload[q][i]))
      => LET s == session_id[q] IN s \in DOMAIN sessions => sessions[s].state \notin Active

\* A stream that outlives its session falls silent: every event still published
\* for the session costs one of its links, and no new link is let in
\* (main.py:166-173, 215-260, 306-313, 388-400).
GoneGoesQuiet ==
  [][\A s \in issued :
       s \notin DOMAIN sessions' /\ published'[s] # published[s]
         => \E c \in Links : target[c] = s /\ link[c] = "open" /\ link'[c] = "closing"]_vars

\* What the error of a refused frame says, "Session is not accepting audio
\* frames" (main.py:255): the queue of a session that has ended or expired
\* does not grow.
NotAccepted ==
  [][\A s \in DOMAIN buffers' :
       Len(buffers'[s].frames) > Len(Ingest!BufferOf(s).frames)
         => s \in DOMAIN sessions' /\ sessions'[s].state \notin TerminalAudioStates]_vars

=============================================================================
