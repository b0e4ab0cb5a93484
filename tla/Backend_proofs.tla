--------------------------- MODULE Backend_proofs ---------------------------
(***************************************************************************)
(* Theorems about Backend, for every set of sessions, links and            *)
(* subscriptions, every queue size and every bound on clock and events.    *)
(*                                                                         *)
(* The argument.  A step of any handler does four things at most: calls    *)
(* the manager, which sweeps the store and refreshes or adds one record;   *)
(* gives one session a new buffer; publishes one event, subscribes, or     *)
(* reads; and moves one link.  StepEffects states this once, action by     *)
(* action.  The types, the life cycle, the lifetime of a session and the   *)
(* count of dropped events follow from these effects.  What a client is    *)
(* told depends on which handler tells it: TellingStep says by action that *)
(* the event of a step tells all the step changes, and three lemmas on     *)
(* sequences, AppendedBelief, DroppedBelief and ReadBelief, that a client  *)
(* is told no less by a queue that fills, overflows and is read.           *)
(***************************************************************************)
EXTENDS Backend, SequenceTheorems, FiniteSetTheorems, TLAPS

-----------------------------------------------------------------------------
(* The effects.                                                            *)

\* A call at reading now finds session s, and leaves record r there.
Finds(s, r, now) ==
  /\ s \in DOMAIN Live(now)
  /\ r.last_activity_at = now
  /\ CanMove(sessions[s], r.state)
  /\ Served(s, r, now)

Creates(s, r) ==
  /\ s \notin issued /\ issued' = issued \cup {s}
  /\ r.state = "idle" /\ r.last_activity_at = clock
  /\ sessions' = Stored(Live(clock), s, r)
  /\ used' = [used EXCEPT ![s] = clock]
  /\ clock' = clock

ManagerEffect ==
  \/ UNCHANGED <<sessions, issued, used>> /\ clock' \in Readings
  \/ \E now \in Readings : Swept(now)
  \/ \E now \in Readings, s \in SessionIds, r \in SessionRecord : Finds(s, r, now)
  \/ \E s \in SessionIds, r \in SessionRecord : Creates(s, r)

BuffersEffect ==
  \/ UNCHANGED buffers
  \/ \E s \in issued, b \in Buffer : buffers' = Ingest!With(buffers, s, b)

\* The trackers before the event is published: those of the last step, but
\* for a frame that session s has observed since.
Observes(s, t) ==
  \/ t = trackers
  \/ \E o \in Tracker :
       /\ o.dropped = Ingest!TrackerOf(s).dropped
       /\ t = Ingest!With(trackers, s, o)

Publishes(s, t) ==
  LET count == Cardinality(Broker!Overflowing(s))
      old   == IF s \in DOMAIN t THEN t[s] ELSE NewTracker
  IN /\ Broker!Publish(s)
     /\ trackers' = IF count = 0 THEN t ELSE Ingest!With(t, s, Dropped(old, count))

EventsEffect ==
  \/ UNCHANGED <<events, trackers>>
  \/ \E s \in issued : \E t : Observes(s, t) /\ Publishes(s, t)
  \/ \E q \in Subscriptions, s \in issued : Broker!Subscribe(q, s) /\ UNCHANGED trackers
  \/ \E q \in Subscriptions : (Broker!Receive(q) \/ Broker!Close(q)) /\ UNCHANGED trackers

LinksEffect ==
  \/ UNCHANGED links
  \/ \E c \in Links, from, to \in LinkState :
       /\ Goes(c, from, to)
       /\ to \in {"open", "acking"} => target[c] \in issued
       /\ UNCHANGED target
  \/ \E c \in Links, s \in SessionIds :
       /\ Goes(c, "none", "auth")
       /\ target' = [target EXCEPT ![c] = s]

Effects == ManagerEffect /\ BuffersEffect /\ EventsEffect /\ LinksEffect

-----------------------------------------------------------------------------
(* What the operations make of a record.                                   *)

\* q is r after an allowed change of state at reading t.
Follows(r, q, t) ==
  q \in SessionRecord /\ q.last_activity_at = t /\ CanMove(r, q.state)

LEMMA TouchedRecord ==
  ASSUME NEW r \in SessionRecord, NEW t \in Int
  PROVE  /\ Follows(r, Touched(r, t), t)
         /\ Touched(r, t).state = r.state /\ Touched(r, t).profile = r.profile
BY DEF Follows, Touched, SessionRecord, CanMove

LEMMA MovedRecord ==
  ASSUME NEW r \in SessionRecord, NEW t \in Int, NEW state \in SessionState,
         CanMove(r, state)
  PROVE  Follows(r, Moved(r, state, t), t) /\ Moved(r, state, t).state = state
<1>1. /\ Moved(r, state, t) \in SessionRecord
      /\ Moved(r, state, t).last_activity_at = t
      /\ Moved(r, state, t).state = state
  BY DEF Moved, SessionRecord
<1>2. QED
  BY <1>1 DEF Follows

LEMMA StoppedRecord ==
  ASSUME NEW r \in SessionRecord, NEW t \in Int, CanStop(r)
  PROVE  Follows(r, Stopped(r, t), t) /\ Stopped(r, t).state \notin Active
<1>1. CASE r.state \in StopIdempotentStates
  BY <1>1, TouchedRecord DEF Stopped, StopIdempotentStates, Active
<1>2. CASE r.state \notin StopIdempotentStates
  <2>1. CanMove(r, "stopping") /\ "stopping" \in SessionState
    BY <1>2 DEF CanStop, StoppableStates, CanMove, AllowedTransitions, SessionState, Ending
  <2>2. QED
    BY <1>2, <2>1, MovedRecord DEF Stopped, Active
<1>3. QED
  BY <1>1, <1>2

LEMMA ReprofiledRecord ==
  ASSUME NEW r \in SessionRecord, NEW t \in Int, NEW p \in Profiles
  PROVE  Follows(r, Reprofiled(r, p, t), t) /\ Reprofiled(r, p, t).state = r.state
BY DEF Follows, Reprofiled, SessionRecord, CanMove

LEMMA ReversionedRecord ==
  ASSUME NEW r \in SessionRecord, NEW t \in Int, NEW v \in Versions \cup {Stamped}
  PROVE  /\ Follows(r, Reversioned(r, v, t), t)
         /\ Reversioned(r, v, t).state = r.state
         /\ Reversioned(r, v, t).profile = r.profile
BY DEF Follows, Reversioned, SessionRecord, CanMove

\* Audio is heard only by a session that has not begun to end.
LEMMA HeardRecord ==
  ASSUME NEW r \in SessionRecord, NEW t \in Int, r.state \notin TerminalAudioStates
  PROVE  /\ Follows(r, Heard(r, t), t)
         /\ r.state \in Active /\ Heard(r, t).state \in Active
         /\ r.state = "paused" => Heard(r, t).state = "paused"
<1>1. r.state \in Active
  BY DEF SessionRecord, SessionState, Ending, Ended, TerminalAudioStates
<1>2. CASE r.state \in {"idle", "starting"}
  <2>1. CanMove(r, "recording") /\ "recording" \in SessionState
    BY <1>2 DEF CanMove, AllowedTransitions, SessionState, Active
  <2>2. QED
    BY <1>1, <1>2, <2>1, MovedRecord DEF Heard, Active
<1>3. CASE r.state \notin {"idle", "starting"}
  BY <1>1, <1>3, TouchedRecord DEF Heard
<1>4. QED
  BY <1>2, <1>3

LEMMA ObeyedRecord ==
  ASSUME NEW r \in SessionRecord, NEW t \in Int, NEW command \in Command, Obeys(r, command)
  PROVE  Follows(r, Obeyed(r, command, t), t)
<1>1. DOMAIN Requested = {"pause", "resume"}
  BY DEF Requested
<1>2. CASE command \in {"pause", "resume"}
  <2>1. /\ Obeyed(r, command, t) = Moved(r, Requested[command], t)
        /\ CanMove(r, Requested[command])
    BY <1>1, <1>2 DEF Obeyed, Obeys
  <2>2. Requested[command] \in SessionState
    BY <1>2 DEF Requested, SessionState, Active
  <2>3. QED
    BY <2>1, <2>2, MovedRecord
<1>3. CASE command = "stop"
  BY <1>1, <1>3, StoppedRecord DEF Obeyed, Obeys
<1>4. CASE command = "ping"
  BY <1>1, <1>4, TouchedRecord DEF Obeyed
<1>5. QED
  BY <1>2, <1>3, <1>4 DEF Command

-----------------------------------------------------------------------------
\* Observing a frame keeps the type of a tracker and its count of drops.
LEMMA ObservedTracker ==
  ASSUME NEW t \in Tracker, NEW n \in Nat, NEW depth \in Nat
  PROVE  /\ Observed(t, n, depth) \in Tracker
         /\ Observed(t, n, depth).dropped = t.dropped
<1> DEFINE w == IF Duplicate(t, n) THEN t ELSE Remembered(t, n)
           kept == IF Len(t.recent) = Window THEN Tail(t.recent) ELSE t.recent
           recent == IF Duplicate(t, n) THEN t.recent ELSE Append(kept, n)
           seen == IF Len(t.recent) = Window THEN t.lookup \ {Head(t.recent)} ELSE t.lookup
           lookup == IF Duplicate(t, n) THEN t.lookup ELSE seen \cup {n}
<1>1. t.recent \in Seq(Nat) /\ t.lookup \in SUBSET Nat /\ t.expected \in Nat \cup {NoSequence}
      /\ t.missing \in Nat /\ t.duplicates \in Nat /\ t.out_of_order \in Nat /\ t.dropped \in Nat
  BY DEF Tracker
<1>2. kept \in Seq(Nat)
  <2>1. Len(t.recent) = Window => t.recent # <<>>
    BY JitterTrackerAssumption
  <2>2. QED
    BY <1>1, <2>1, HeadTailProperties
<1> HIDE DEF kept
<1>3. recent \in Seq(Nat)
  BY <1>1, <1>2, AppendProperties
<1>4. lookup \in SUBSET Nat
  BY <1>1
<1>5. w.recent = recent /\ w.lookup = lookup
  <2>1. Remembered(t, n).recent = Append(kept, n) /\ Remembered(t, n).lookup = seen \cup {n}
    BY DEF Remembered, Tracker, kept
  <2>2. QED
    BY <2>1
<1>6. Missing(t, n) \in Nat
  <2>1. CASE Ahead(t, n)
    BY <1>1, <2>1 DEF Ahead, Missing
  <2>2. CASE ~Ahead(t, n)
    BY <2>2 DEF Missing
  <2>3. QED
    BY <2>1, <2>2
<1> HIDE DEF w, recent, lookup, seen
<1>7. Observed(t, n, depth) =
        [expected     |-> IF Duplicate(t, n) \/ OutOfOrder(t, n) THEN t.expected ELSE n + 1,
         recent       |-> recent,
         lookup       |-> lookup,
         missing      |-> t.missing + Missing(t, n),
         duplicates   |-> t.duplicates + (IF Duplicate(t, n) THEN 1 ELSE 0),
         out_of_order |-> t.out_of_order + (IF OutOfOrder(t, n) THEN 1 ELSE 0),
         queue_depth  |-> depth,
         dropped      |-> t.dropped]
  BY <1>5 DEF Observed, w
<1>8. QED
  BY SMTT(30), <1>1, <1>3, <1>4, <1>6, <1>7 DEF Tracker

LEMMA DroppedTracker ==
  ASSUME NEW t \in Tracker, NEW count \in Nat
  PROVE  /\ Dropped(t, count) \in Tracker
         /\ Dropped(t, count).dropped = t.dropped + count
BY SMTT(30) DEF Dropped, Tracker

-----------------------------------------------------------------------------
(* The effects of every step.                                              *)

ManagerTyped ==
  /\ clock \in 0..MaxTime
  /\ DOMAIN sessions \subseteq issued /\ issued \subseteq SessionIds
  /\ sessions \in [DOMAIN sessions -> SessionRecord]
  /\ used \in [SessionIds -> 0..MaxTime]

LinksTyped ==
  /\ link \in [Links -> LinkState]
  /\ target \in [Links -> SessionIds \cup {NoSession}]
  /\ \A c \in Links : link[c] \in {"open", "acking"} => target[c] \in issued

LEMMA TypeParts == TypeOK <=> ManagerTyped /\ LinksTyped /\ Ingest!TypeOK /\ Broker!TypeOK
BY DEF TypeOK, ManagerTyped, LinksTyped

\* The swept store holds some of the sessions, each with its record.
LEMMA LiveStore ==
  ASSUME ManagerTyped, NEW now \in Int
  PROVE  /\ Live(now) \in [DOMAIN Live(now) -> SessionRecord]
         /\ DOMAIN Live(now) = {s \in DOMAIN sessions :
                                  now - sessions[s].last_activity_at <= StaleAfter}
         /\ \A s \in DOMAIN Live(now) :
              /\ Live(now)[s] = sessions[s] /\ sessions[s] \in SessionRecord
              /\ s \in SessionIds /\ s \in issued /\ s \in DOMAIN sessions
BY DEF ManagerTyped, Live, Unexpired

LEMMA ReadingsInTime ==
  ASSUME ManagerTyped
  PROVE  /\ clock \in Readings /\ clock \in Int
         /\ \A now \in Readings : now \in 0..MaxTime /\ now \in Int /\ clock <= now
BY BackendAssumption DEF ManagerTyped, Readings

\* A session that is found and served a record that follows its own.
LEMMA Serving ==
  ASSUME ManagerTyped, NEW now \in Readings, NEW s \in DOMAIN Live(now), NEW r,
         Follows(sessions[s], r, now), Served(s, r, now)
  PROVE  ManagerEffect
<1>1. s \in SessionIds
  BY LiveStore, ReadingsInTime
<1>2. r \in SessionRecord /\ Finds(s, r, now)
  BY DEF Finds, Follows
<1>3. QED
  BY <1>1, <1>2 DEF ManagerEffect

\* A step that leaves the manager alone, or only has it sweep.
LEMMA IdleManager ==
  ASSUME ManagerTyped, UNCHANGED manager \/ Swept(clock)
  PROVE  ManagerEffect
BY ReadingsInTime DEF ManagerEffect, manager

LEMMA RefreshedManager ==
  ASSUME ManagerTyped, NEW s, Refreshed(s)
  PROVE  ManagerEffect
<1>1. CASE s \in DOMAIN Live(clock)
  <2>1. Served(s, Touched(sessions[s], clock), clock)
    BY <1>1 DEF Refreshed
  <2>2. Follows(sessions[s], Touched(sessions[s], clock), clock)
    BY <1>1, LiveStore, ReadingsInTime, TouchedRecord
  <2>3. QED
    BY <1>1, <2>1, <2>2, ReadingsInTime, Serving
<1>2. CASE s \notin DOMAIN Live(clock)
  BY <1>2, IdleManager DEF Refreshed
<1>3. QED
  BY <1>1, <1>2

\* Publishing, with the trackers as the last step left them.
LEMMA PublishingEffect ==
  ASSUME NEW s \in issued, NEW t, NEW told, Observes(s, t), PublishEvent(s, t, told)
  PROVE  EventsEffect
BY DEF PublishEvent, Publishes, EventsEffect

\* An acknowledgement is published as any event, after a step of no frame.
LEMMA AckPublishes ==
  ASSUME NEW s, NEW told, PublishAck(s, told)
  PROVE  PublishEvent(s, trackers, told)
BY DEF PublishAck, PublishEvent, Ingest!TrackerOf, Ingest!NewTracker, NewTracker

\* A link that goes from one place to another, its target where it was.
LEMMA MovingLink ==
  ASSUME NEW c \in Links, NEW from \in LinkState, NEW to \in LinkState,
         Goes(c, from, to), UNCHANGED target,
         to \in {"open", "acking"} => target[c] \in issued
  PROVE  LinksEffect
BY DEF LinksEffect

\* The session of a link that is open.
LEMMA OpenLink ==
  ASSUME LinksTyped, ManagerTyped, NEW c \in Links, link[c] = "open"
  PROVE  target[c] \in issued /\ target[c] \in SessionIds
BY DEF LinksTyped, ManagerTyped

\* The ingest's buffers and trackers are those of this module, and start empty.
LEMMA IngestData ==
  /\ Ingest!Buffer = Buffer /\ Ingest!EmptyBuffer = EmptyBuffer
  /\ Ingest!Tracker = Tracker /\ Ingest!NewTracker = NewTracker
  /\ EmptyBuffer \in Buffer /\ NewTracker \in Tracker
BY DEF Ingest!Buffer, Buffer, Ingest!EmptyBuffer, EmptyBuffer,
       Ingest!Tracker, Tracker, Ingest!NewTracker, NewTracker

LEMMA IngestTyped ==
  ASSUME Ingest!TypeOK, NEW s
  PROVE  Ingest!BufferOf(s) \in Buffer /\ Ingest!TrackerOf(s) \in Tracker
BY IngestData DEF Ingest!TypeOK, Ingest!BufferOf, Ingest!TrackerOf

\* A frame that is buffered: what becomes of the session's buffer and tracker.
LEMMA BufferedFrame ==
  ASSUME Ingest!TypeOK, NEW s \in issued, NEW f \in Frames, Buffered(s, f)
  PROVE  /\ BuffersEffect
         /\ Observes(s, Observing(s, f))
<1>1. f.sequence_number \in Nat /\ f.duration_ms \in Nat /\ f.payload \in Nat
  BY AudioRingBufferAssumption
<1>2. Ingest!BufferOf(s) \in Buffer
  BY IngestTyped
<1>3. Appended(Ingest!BufferOf(s), f) \in Buffer
  <2>1. \A b \in Buffer : Appended(b, f) \in Buffer
    BY <1>1, AppendProperties DEF Appended, Buffer
  <2>2. QED
    BY <1>2, <2>1
<1>4. BuffersEffect
  BY <1>3 DEF Buffered, BuffersEffect
<1>5. Ingest!TrackerOf(s) \in Tracker
  BY IngestTyped
<1> DEFINE depth == Appended(Ingest!BufferOf(s), f).depth_ms
           o == Observed(Ingest!TrackerOf(s), f.sequence_number, depth)
<1>6. depth \in Nat
  BY <1>3 DEF Buffer
<1>7. o \in Tracker /\ o.dropped = Ingest!TrackerOf(s).dropped
  BY <1>1, <1>5, <1>6, ObservedTracker
<1>8. Observing(s, f) = Ingest!With(trackers, s, o)
  BY DEF Observing
<1>9. Observes(s, Observing(s, f))
  <2> HIDE DEF o
  <2>1. QED
    BY <1>7, <1>8 DEF Observes
<1>10. QED
  BY <1>4, <1>9

LEMMA UnchangedTrackers ==
  ASSUME NEW s
  PROVE  Observes(s, trackers)
BY DEF Observes

-----------------------------------------------------------------------------
(* The effects of each step.                                               *)

LEMMA OnlyManager ==
  ASSUME ManagerEffect, UNCHANGED <<ingest, events, links>>
  PROVE  Effects
BY DEF Effects, ManagerEffect, BuffersEffect, EventsEffect, LinksEffect, ingest

LEMMA HttpEffects ==
  ASSUME TypeOK, Http
  PROVE  Effects /\ UNCHANGED <<ingest, events, links, clients>>
<1> USE TypeParts
<1>0. clock \in Int /\ clock \in Readings
  BY ReadingsInTime
<1>1. ASSUME NEW s \in SessionIds, NEW p \in Profiles, CreateSession(s, p)
      PROVE  Effects /\ UNCHANGED <<ingest, events, links, clients>>
  <2>1. NewRecord(s, p, clock) \in SessionRecord
    BY <1>0 DEF NewRecord, SessionRecord, SessionState, Active
  <2>2. Creates(s, NewRecord(s, p, clock))
    BY <1>1 DEF CreateSession, Creates, NewRecord
  <2>3. ManagerEffect
    BY <2>1, <2>2 DEF ManagerEffect
  <2>4. QED
    BY <1>1, <2>3, OnlyManager DEF CreateSession
<1>2. ASSUME NEW s \in SessionIds, GetSession(s)
      PROVE  Effects /\ UNCHANGED <<ingest, events, links, clients>>
  <2>1. s \in DOMAIN Live(clock) /\ Served(s, Touched(sessions[s], clock), clock)
    BY <1>2 DEF GetSession
  <2>2. ManagerEffect
    BY <1>0, <2>1, LiveStore, TouchedRecord, Serving
  <2>3. QED
    BY <1>2, <2>2, OnlyManager DEF GetSession
<1>3. ASSUME NEW s \in SessionIds, StopSession(s)
      PROVE  Effects /\ UNCHANGED <<ingest, events, links, clients>>
  <2>1. /\ s \in DOMAIN Live(clock) /\ CanStop(sessions[s])
        /\ Served(s, Stopped(sessions[s], clock), clock)
    BY <1>3 DEF StopSession
  <2>2. ManagerEffect
    BY <1>0, <2>1, LiveStore, StoppedRecord, Serving
  <2>3. QED
    BY <1>3, <2>2, OnlyManager DEF StopSession
<1>4. ASSUME NEW s \in SessionIds, NEW v \in Versions \cup {Stamped}, PutGlossary(s, v)
      PROVE  Effects /\ UNCHANGED <<ingest, events, links, clients>>
  <2>1. /\ s \in DOMAIN Live(clock)
        /\ Served(s, Reversioned(sessions[s], v, clock), clock)
    BY <1>4 DEF PutGlossary
  <2>2. ManagerEffect
    BY <1>0, <2>1, LiveStore, ReversionedRecord, Serving
  <2>3. QED
    BY <1>4, <2>2, OnlyManager DEF PutGlossary
<1>5. CASE RequestRefused
  BY <1>5, IdleManager, OnlyManager DEF RequestRefused
<1>6. QED
  BY <1>1, <1>2, <1>3, <1>4, <1>5 DEF Http

\* The step that admits a client to its audio or control websocket.
LEMMA AuthenticateEffects ==
  ASSUME TypeOK, NEW c \in Links, NEW token \in SessionIds, Authenticate(c, token)
  PROVE  Effects
<1> USE TypeParts
<1>1. /\ Admitted(target[c], token) /\ Goes(c, "auth", "open") /\ Refreshed(target[c])
      /\ PublishEvent(target[c], trackers, NothingTold)
      /\ UNCHANGED <<buffers, target>>
  BY DEF Authenticate
<1>2. target[c] \in issued
  BY <1>1, LiveStore, ReadingsInTime DEF Admitted
<1>3. ManagerEffect
  BY <1>1, RefreshedManager
<1>4. EventsEffect
  BY <1>1, <1>2, PublishingEffect, UnchangedTrackers
<1>5. LinksEffect
  BY <1>1, <1>2, MovingLink DEF LinkState
<1>6. QED
  BY <1>1, <1>3, <1>4, <1>5 DEF Effects, BuffersEffect

\* The steps of a link that publish nothing.
LEMMA SilentLinkEffects ==
  ASSUME TypeOK, NEW c \in Links,
         \/ \E s \in SessionIds : Connect(c, s)
         \/ AuthFails(c) \/ AckSent(c) \/ LinkEnds(c)
  PROVE  Effects /\ UNCHANGED <<ingest, events, clients>>
<1> USE TypeParts
<1>1. ASSUME NEW s \in SessionIds, Connect(c, s)
      PROVE  LinksEffect /\ ManagerEffect /\ UNCHANGED <<ingest, events, clients>>
  BY <1>1, IdleManager DEF Connect, LinksEffect
<1>2. CASE AuthFails(c)
  <2>1. ManagerEffect
    BY <1>2, IdleManager DEF AuthFails
  <2>2. LinksEffect
    <3>1. Goes(c, "auth", "closing") => LinksEffect
      BY <1>2, MovingLink DEF AuthFails, LinkState
    <3>2. Goes(c, "auth", "done") => LinksEffect
      BY <1>2, MovingLink DEF AuthFails, LinkState
    <3>3. QED
      BY <1>2, <3>1, <3>2 DEF AuthFails
  <2>3. QED
    BY <1>2, <2>1, <2>2 DEF AuthFails, Effects, BuffersEffect, EventsEffect, ingest
<1>3. CASE AckSent(c)
  <2>1. target[c] \in issued
    BY <1>3 DEF AckSent, Goes, LinksTyped
  <2>2. LinksEffect
    BY <1>3, <2>1, MovingLink DEF AckSent, LinkState
  <2>3. QED
    BY <1>3, <2>2, IdleManager DEF AckSent, Effects, BuffersEffect, EventsEffect, ingest
<1>4. CASE LinkEnds(c)
  <2>1. PICK from \in {"open", "acking", "closing"} : Goes(c, from, "done")
    BY <1>4 DEF LinkEnds
  <2>2. LinksEffect
    BY <1>4, <2>1, MovingLink DEF LinkEnds, LinkState
  <2>3. QED
    BY <1>4, <2>2, IdleManager DEF LinkEnds, Effects, BuffersEffect, EventsEffect, ingest
<1>5. QED
  BY <1>1, <1>2, <1>3, <1>4 DEF Effects, BuffersEffect, EventsEffect, ingest

\* An error that closes the link, or leaves it open, published by a handler
\* that has done nothing to the buffers.
LEMMA PublishingLink ==
  ASSUME TypeOK, NEW c \in Links, NEW to \in {"closing", "acking"}, NEW told,
         Goes(c, "open", to), UNCHANGED <<buffers, target>>,
         PublishEvent(target[c], trackers, told),
         ManagerEffect
  PROVE  Effects
<1>1. target[c] \in issued
  BY TypeParts, OpenLink DEF Goes
<1>2. EventsEffect
  BY <1>1, PublishingEffect, UnchangedTrackers
<1>3. LinksEffect
  BY <1>1, MovingLink DEF LinkState
<1>4. QED
  BY <1>2, <1>3 DEF Effects, BuffersEffect

LEMMA AudioEffects ==
  ASSUME TypeOK, NEW c \in AudioLinks, AudioStep(c)
  PROVE  Effects
<1> DEFINE s == target[c]
<1> USE TypeParts
<1>0. c \in Links /\ clock \in Readings /\ clock \in Int
  BY ReadingsInTime DEF Links
<1>1. ASSUME NEW f \in Frames, FrameAccepted(c, f) PROVE Effects
  <2>1. /\ link[c] = "open" /\ Buffered(s, f) /\ Accepting(s, clock) /\ UNCHANGED links
        /\ PublishEvent(s, Observing(s, f), ToldWithDepth(sessions'[s], buffers'[s]))
    BY <1>1 DEF FrameAccepted
  <2>2. PICK now \in Readings : s \in DOMAIN Live(now) /\ Served(s, Heard(sessions[s], now), now)
    BY <1>1 DEF FrameAccepted
  <2>3. s \in issued
    BY <1>0, <2>1, OpenLink
  <2>4. BuffersEffect /\ Observes(s, Observing(s, f))
    BY <2>1, <2>3, BufferedFrame
  <2>5. ManagerEffect
    <3>1. sessions[s].state \notin TerminalAudioStates
      BY <2>1 DEF Accepting
    <3>2. now \in Int /\ sessions[s] \in SessionRecord
      BY <2>2, LiveStore, ReadingsInTime
    <3>3. Follows(sessions[s], Heard(sessions[s], now), now)
      BY <3>1, <3>2, HeardRecord
    <3>4. QED
      BY <2>2, <3>3, Serving
  <2>6. EventsEffect
    BY <2>1, <2>3, <2>4, PublishingEffect
  <2>7. QED
    BY <2>1, <2>4, <2>5, <2>6 DEF Effects, LinksEffect
<1>2. ASSUME NEW f \in Frames, FrameNotAccepted(c, f) PROVE Effects
  <2>1. /\ Goes(c, "open", "closing") /\ Buffered(s, f) /\ UNCHANGED target
        /\ PublishEvent(s, Observing(s, f), NothingTold)
    BY <1>2 DEF FrameNotAccepted
  <2>2. ManagerEffect
    BY <1>0, <1>2 DEF FrameNotAccepted, ManagerEffect
  <2>3. s \in issued
    BY <1>0, <2>1, OpenLink DEF Goes
  <2>4. BuffersEffect /\ Observes(s, Observing(s, f))
    BY <2>1, <2>3, BufferedFrame
  <2>5. EventsEffect
    BY <2>1, <2>3, <2>4, PublishingEffect
  <2>6. LinksEffect
    BY <1>0, <2>1, MovingLink DEF LinkState
  <2>7. QED
    BY <2>2, <2>4, <2>5, <2>6 DEF Effects
<1>3. ASSUME NEW f \in Frames, FrameNotBuffered(c, f) PROVE Effects
  <2>1. /\ Goes(c, "open", "closing") /\ UNCHANGED <<manager, target>>
        /\ buffers' = Ingest!With(buffers, s, Ingest!BufferOf(s))
        /\ PublishEvent(s, trackers, NothingTold)
    BY <1>3 DEF FrameNotBuffered
  <2>2. s \in issued
    BY <1>0, <2>1, OpenLink DEF Goes
  <2>3. BuffersEffect
    BY <2>1, <2>2, IngestTyped DEF BuffersEffect
  <2>4. EventsEffect
    BY <2>1, <2>2, PublishingEffect, UnchangedTrackers
  <2>5. LinksEffect
    BY <1>0, <2>1, MovingLink DEF LinkState
  <2>6. QED
    BY <2>1, <2>3, <2>4, <2>5, IdleManager DEF Effects
<1>4. CASE FrameRejected(c)
  BY <1>0, <1>4, IdleManager, PublishingLink DEF FrameRejected
<1>5. QED
  BY <1>1, <1>2, <1>3, <1>4 DEF AudioStep

LEMMA ControlEffects ==
  ASSUME TypeOK, NEW c \in ControlLinks, ControlStep(c)
  PROVE  Effects
<1> DEFINE s == target[c]
<1> USE TypeParts
<1>0. c \in Links /\ clock \in Readings /\ clock \in Int
  BY ReadingsInTime DEF Links
<1>1. ASSUME NEW r, s \in DOMAIN Live(clock), Follows(sessions[s], r, clock), Acknowledged(c, r)
      PROVE  Effects
  <2>1. /\ Goes(c, "open", "acking") /\ Served(s, r, clock) /\ UNCHANGED <<buffers, target>>
        /\ PublishEvent(s, trackers, Told(r))
    BY <1>1, AckPublishes DEF Acknowledged
  <2>2. ManagerEffect
    BY <1>0, <1>1, <2>1, Serving
  <2>3. QED
    BY <1>0, <2>1, <2>2, PublishingLink
<1>2. ASSUME NEW command \in Command, CommandObeyed(c, command) PROVE Effects
  <2>1. /\ s \in DOMAIN Live(clock) /\ Obeys(sessions[s], command)
        /\ Acknowledged(c, Obeyed(sessions[s], command, clock))
    BY <1>2 DEF CommandObeyed
  <2>2. Follows(sessions[s], Obeyed(sessions[s], command, clock), clock)
    BY <1>0, <2>1, LiveStore, ObeyedRecord
  <2>3. QED
    BY <1>1, <2>1, <2>2
<1>3. ASSUME NEW p \in Profiles, SetProfile(c, p) PROVE Effects
  <2>1. /\ s \in DOMAIN Live(clock)
        /\ Acknowledged(c, Reprofiled(sessions[s], p, clock))
    BY <1>3 DEF SetProfile
  <2>2. Follows(sessions[s], Reprofiled(sessions[s], p, clock), clock)
    BY <1>0, <2>1, LiveStore, ReprofiledRecord
  <2>3. QED
    BY <1>1, <2>1, <2>2
<1>4. ASSUME NEW command \in Command, CommandRefused(c, command) PROVE Effects
  <2>1. /\ Goes(c, "open", "acking") \/ Goes(c, "open", "closing")
        /\ Swept(clock) /\ UNCHANGED <<buffers, target>>
        /\ PublishEvent(s, trackers, NothingTold)
    BY <1>4, AckPublishes DEF CommandRefused
  <2>2. ManagerEffect
    BY <2>1, IdleManager
  <2>3. QED
    BY <1>0, <2>1, <2>2, PublishingLink
<1>5. CASE CommandMalformed(c)
  BY <1>0, <1>5, IdleManager, AckPublishes, PublishingLink DEF CommandMalformed
<1>6. CASE AckSent(c)
  BY <1>0, <1>6, SilentLinkEffects
<1>7. QED
  BY <1>2, <1>3, <1>4, <1>5, <1>6 DEF ControlStep

LEMMA StreamEffects ==
  ASSUME TypeOK, NEW q \in Subscriptions,
         \/ \E s, token \in SessionIds : OpenStream(q, s, token)
         \/ StreamStep(q)
  PROVE  Effects
<1> USE TypeParts
<1>1. ASSUME NEW s \in SessionIds, NEW token \in SessionIds, OpenStream(q, s, token)
      PROVE  Effects
  <2>1. /\ Admitted(s, token) /\ Refreshed(s) /\ Broker!Subscribe(q, s)
        /\ UNCHANGED <<ingest, links>>
    BY <1>1 DEF OpenStream
  <2>2. s \in issued
    BY <2>1, LiveStore, ReadingsInTime DEF Admitted
  <2>3. EventsEffect
    BY <2>1, <2>2 DEF EventsEffect, ingest
  <2>4. QED
    BY <2>1, <2>3, RefreshedManager DEF Effects, BuffersEffect, LinksEffect, ingest
<1>2. CASE StreamStep(q)
  BY <1>2, IdleManager DEF StreamStep, Sent, Left, Effects, BuffersEffect, LinksEffect, EventsEffect, ingest
<1>3. QED
  BY <1>1, <1>2

LEMMA StepEffects == TypeOK /\ [Next]_vars => Effects
<1> SUFFICES ASSUME TypeOK, [Next]_vars PROVE Effects
  OBVIOUS
<1>1. CASE UNCHANGED vars
  BY <1>1, TypeParts, IdleManager, OnlyManager DEF vars
<1>2. CASE Tick
  <2>1. ManagerEffect
    BY <1>2, TypeParts, BackendAssumption DEF Tick, ManagerEffect, ManagerTyped, Readings
  <2>2. QED
    BY <1>2, <2>1, OnlyManager DEF Tick
<1>3. CASE Http
  BY <1>3, HttpEffects
<1>4. ASSUME NEW c \in Links,
             \/ \E s \in SessionIds : Connect(c, s)
             \/ \E token \in SessionIds : Authenticate(c, token)
             \/ AuthFails(c) \/ LinkEnds(c)
      PROVE  Effects
  BY <1>4, AuthenticateEffects, SilentLinkEffects
<1>5. QED
  BY <1>1, <1>2, <1>3, <1>4, AudioEffects, ControlEffects, StreamEffects DEF Next

-----------------------------------------------------------------------------
(* The types.                                                              *)

\* What a Stored store holds, once the swept sessions are gone.
LEMMA StoredSession ==
  ASSUME ManagerTyped, NEW now \in Int, NEW s \in SessionIds, NEW r \in SessionRecord,
         sessions' = Stored(Live(now), s, r)
  PROVE  /\ DOMAIN sessions' = DOMAIN Live(now) \cup {s}
         /\ sessions' \in [DOMAIN sessions' -> SessionRecord]
         /\ sessions'[s] = r
         /\ \A x \in DOMAIN sessions' \ {s} :
              /\ x \in DOMAIN Live(now) /\ x \in DOMAIN sessions
              /\ sessions'[x] = sessions[x]
<1>1. sessions' = [x \in DOMAIN Live(now) \cup {s} |-> IF x = s THEN r ELSE Live(now)[x]]
  BY DEF Stored
<1>2. QED
  BY <1>1, LiveStore

LEMMA ManagerTypedStep ==
  ASSUME ManagerTyped, ManagerEffect
  PROVE  ManagerTyped' /\ issued \subseteq issued'
<1>1. CASE UNCHANGED <<sessions, issued, used>> /\ clock' \in Readings
  BY <1>1, ReadingsInTime DEF ManagerTyped
<1>2. ASSUME NEW now \in Readings, Swept(now)
      PROVE  ManagerTyped' /\ issued \subseteq issued'
  BY <1>2, ReadingsInTime, LiveStore DEF ManagerTyped, Swept
<1>3. ASSUME NEW now \in Readings, NEW s \in SessionIds, NEW r \in SessionRecord,
             Finds(s, r, now)
      PROVE  ManagerTyped' /\ issued \subseteq issued'
  <2>1. now \in Int /\ now \in 0..MaxTime
    BY ReadingsInTime
  <2>2. /\ s \in DOMAIN Live(now) /\ sessions' = Stored(Live(now), s, r)
        /\ used' = [used EXCEPT ![s] = now] /\ clock' = now /\ issued' = issued
    BY <1>3 DEF Finds, Served
  <2>3. DOMAIN sessions' \subseteq issued /\ sessions' \in [DOMAIN sessions' -> SessionRecord]
    <3>1. s \in issued /\ \A x \in DOMAIN Live(now) : x \in issued
      BY <2>1, <2>2, LiveStore
    <3>2. QED
      BY <1>3, <2>1, <2>2, <3>1, StoredSession
  <2>4. QED
    BY <2>1, <2>2, <2>3 DEF ManagerTyped
<1>4. ASSUME NEW s \in SessionIds, NEW r \in SessionRecord, Creates(s, r)
      PROVE  ManagerTyped' /\ issued \subseteq issued'
  <2>1. clock \in Int /\ clock \in 0..MaxTime
    BY ReadingsInTime
  <2>2. /\ sessions' = Stored(Live(clock), s, r)
        /\ used' = [used EXCEPT ![s] = clock] /\ clock' = clock /\ issued' = issued \cup {s}
    BY <1>4 DEF Creates
  <2>3. DOMAIN sessions' \subseteq issued' /\ sessions' \in [DOMAIN sessions' -> SessionRecord]
    BY <2>1, <2>2, StoredSession, LiveStore
  <2>4. QED
    BY <2>1, <2>2, <2>3 DEF ManagerTyped
<1>5. QED
  BY <1>1, <1>2, <1>3, <1>4 DEF ManagerEffect

LEMMA LinksTypedStep ==
  ASSUME LinksTyped, LinksEffect, issued \subseteq issued'
  PROVE  LinksTyped'
<1>1. CASE UNCHANGED links
  BY <1>1 DEF links, LinksTyped
<1>2. ASSUME NEW c \in Links, NEW from \in LinkState, NEW to \in LinkState,
             Goes(c, from, to), to \in {"open", "acking"} => target[c] \in issued,
             UNCHANGED target
      PROVE  LinksTyped'
  <2>1. /\ link' \in [Links -> LinkState] /\ link'[c] = to
        /\ \A d \in Links \ {c} : link'[d] = link[d]
    BY <1>2 DEF Goes, LinksTyped
  <2>2. QED
    BY <1>2, <2>1 DEF LinksTyped
<1>3. ASSUME NEW c \in Links, NEW s \in SessionIds, Goes(c, "none", "auth"),
             target' = [target EXCEPT ![c] = s]
      PROVE  LinksTyped'
  <2>1. /\ link' \in [Links -> LinkState] /\ link'[c] = "auth"
        /\ target' \in [Links -> SessionIds \cup {NoSession}]
        /\ \A d \in Links \ {c} : link'[d] = link[d] /\ target'[d] = target[d]
    BY <1>3 DEF Goes, LinksTyped, LinkState
  <2>2. QED
    BY <2>1 DEF LinksTyped
<1>4. QED
  BY <1>1, <1>2, <1>3 DEF LinksEffect

\* Publishing counts a number of drops, the same here as in the broker.
LEMMA DropsCountable ==
  ASSUME Broker!TypeOK, NEW s
  PROVE  /\ Cardinality(Broker!Overflowing(s)) \in Nat
         /\ Broker!Cardinality(Broker!Overflowing(s)) = Cardinality(Broker!Overflowing(s))
<1>1. Broker!Overflowing(s) \subseteq Subscriptions
  BY DEF Broker!Overflowing, Broker!SubscribersOf, Broker!TypeOK
<1>2. Cardinality(Broker!Overflowing(s)) \in Nat
  BY <1>1, BackendAssumption, FS_Subset, FS_CardinalityType
<1>3. Broker!Cardinality(Broker!Overflowing(s)) = Cardinality(Broker!Overflowing(s))
  BY DEF Broker!Cardinality, Cardinality
<1>4. QED
  BY <1>2, <1>3

LEMMA IngestTypedStep ==
  ASSUME Ingest!TypeOK, Broker!TypeOK, issued \subseteq SessionIds,
         BuffersEffect, EventsEffect
  PROVE  Ingest!TypeOK'
<1>1. DOMAIN buffers' \subseteq SessionIds /\ \A s \in DOMAIN buffers' : buffers'[s] \in Buffer
  <2>1. CASE UNCHANGED buffers
    BY <2>1, IngestData DEF Ingest!TypeOK
  <2>2. ASSUME NEW s \in issued, NEW b \in Buffer, buffers' = Ingest!With(buffers, s, b)
        PROVE  /\ DOMAIN buffers' \subseteq SessionIds
               /\ \A x \in DOMAIN buffers' : buffers'[x] \in Buffer
    BY <2>2, IngestData DEF Ingest!TypeOK, Ingest!With
  <2>3. QED
    BY <2>1, <2>2 DEF BuffersEffect
<1> DEFINE Typed(t) == DOMAIN t \subseteq SessionIds /\ \A x \in DOMAIN t : t[x] \in Tracker
<1>2. \A t : \A s \in issued, o \in Tracker : Typed(t) => Typed(Ingest!With(t, s, o))
  BY DEF Ingest!With
<1>3. Typed(trackers)
  BY IngestData DEF Ingest!TypeOK
<1>4. Typed(trackers')
  <2>1. CASE UNCHANGED trackers
    BY <1>3, <2>1
  <2>2. ASSUME NEW s \in issued, NEW t, Observes(s, t), Publishes(s, t)
        PROVE  Typed(trackers')
    <3> DEFINE count == Cardinality(Broker!Overflowing(s))
               old == IF s \in DOMAIN t THEN t[s] ELSE NewTracker
    <3>1. Typed(t)
      BY <1>2, <1>3, <2>2 DEF Observes
    <3>2. old \in Tracker /\ count \in Nat
      BY <3>1, IngestData, DropsCountable
    <3>3. trackers' = IF count = 0 THEN t ELSE Ingest!With(t, s, Dropped(old, count))
      BY <2>2 DEF Publishes
    <3> HIDE DEF count, old
    <3>4. Dropped(old, count) \in Tracker
      BY <3>2, DroppedTracker
    <3>5. QED
      BY <1>2, <3>1, <3>3, <3>4
  <2>3. QED
    BY <2>1, <2>2 DEF EventsEffect, events
<1>5. QED
  BY <1>1, <1>4, IngestData DEF Ingest!TypeOK

-----------------------------------------------------------------------------
(* The broker.                                                             *)

\* Whatever the handlers do, the broker sees one of its operations or none.
LEMMA BrokerStep ==
  ASSUME issued \subseteq SessionIds, EventsEffect
  PROVE  [Broker!Next]_(Broker!vars)
<1>1. CASE UNCHANGED <<events, trackers>>
  BY <1>1 DEF events, Broker!vars, Broker!records
<1>2. ASSUME NEW s \in issued, NEW t, Publishes(s, t)
      PROVE  [Broker!Next]_(Broker!vars)
  BY <1>2 DEF Publishes, Broker!Next
<1>3. QED
  BY <1>1, <1>2 DEF EventsEffect, Broker!Next

LEMMA BrokerTypedStep ==
  ASSUME Broker!TypeOK, [Broker!Next]_(Broker!vars)
  PROVE  Broker!TypeOK'
<1> USE DEF Broker!TypeOK
<1>1. CASE UNCHANGED Broker!vars
  BY <1>1 DEF Broker!vars, Broker!records
<1>2. ASSUME NEW q \in Subscriptions, NEW s \in SessionIds, Broker!Subscribe(q, s)
      PROVE  Broker!TypeOK'
  <2>1. subscribers' = Broker!With(s, Broker!SubscribersOf(s) \cup {q})
    BY <1>2 DEF Broker!Subscribe
  <2>2. Broker!SubscribersOf(s) \subseteq Subscriptions
    BY DEF Broker!SubscribersOf
  <2>3. /\ DOMAIN subscribers' \subseteq SessionIds
        /\ \A x \in DOMAIN subscribers' : subscribers'[x] \in (SUBSET Subscriptions) \ {{}}
    BY <2>1, <2>2 DEF Broker!With
  <2>4. published[s] \in Nat
    BY BackendAssumption
  <2>5. QED
    BY <1>2, <2>3, <2>4 DEF Broker!Subscribe
<1>3. ASSUME NEW q \in Subscriptions, Broker!Close(q)
      PROVE  Broker!TypeOK'
  <2> DEFINE s == session_id[q]
             rest == Broker!SubscribersOf(s) \ {q}
  <2>1. /\ closed' = closed \cup {q} /\ s \in SessionIds
        /\ subscribers' = Broker!Unsubscribed(q, s)
        /\ UNCHANGED <<queue, dropped, session_id, published, joined, taken, lost, last>>
    BY <1>3 DEF Broker!Close, Broker!Open, Broker!records
  <2>2. rest \subseteq Subscriptions
    BY DEF Broker!SubscribersOf
  <2>3. CASE rest = {}
    <3>1. subscribers' = [x \in DOMAIN subscribers \ {s} |-> subscribers[x]]
      BY <2>1, <2>3 DEF Broker!Unsubscribed
    <3> HIDE DEF rest, s
    <3>2. /\ DOMAIN subscribers' \subseteq SessionIds
          /\ \A x \in DOMAIN subscribers' : subscribers'[x] \in (SUBSET Subscriptions) \ {{}}
      BY <3>1
    <3>3. QED
      BY <2>1, <3>2
  <2>4. CASE rest # {}
    <3>1. subscribers' = Broker!With(s, rest)
      BY <2>1, <2>4 DEF Broker!Unsubscribed
    <3> HIDE DEF rest, s
    <3>2. /\ DOMAIN subscribers' \subseteq SessionIds
          /\ \A x \in DOMAIN subscribers' : subscribers'[x] \in (SUBSET Subscriptions) \ {{}}
      BY <2>1, <2>2, <2>4, <3>1 DEF Broker!With
    <3>3. QED
      BY <2>1, <3>2
  <2>5. QED
    BY <2>3, <2>4
<1>4. ASSUME NEW q \in Subscriptions, Broker!Receive(q)
      PROVE  Broker!TypeOK'
  <2>1. /\ queue[q] # <<>> /\ queue' = [queue EXCEPT ![q] = Tail(queue[q])]
        /\ taken' = [taken EXCEPT ![q] = taken[q] + 1]
        /\ last' = [last EXCEPT ![q] = Head(queue[q])]
        /\ UNCHANGED <<subscribers, dropped, session_id, closed, published, joined, lost>>
    BY <1>4 DEF Broker!Receive
  <2>2. Tail(queue[q]) \in Seq(Nat) /\ Head(queue[q]) \in Nat
    BY <2>1, HeadTailProperties
  <2>3. queue' \in [Subscriptions -> Seq(Nat)] /\ last' \in [Subscriptions -> Nat]
    BY <2>1, <2>2
  <2>4. taken' \in [Subscriptions -> Nat]
    BY <2>1
  <2>5. QED
    BY <2>1, <2>3, <2>4
<1>5. ASSUME NEW s \in SessionIds, Broker!Publish(s)
      PROVE  Broker!TypeOK'
  <2> DEFINE e == published[s] + 1
             count == Broker!Cardinality(Broker!Overflowing(s))
  <2>1. /\ published[s] < MaxEvents
        /\ published' = [published EXCEPT ![s] = e]
        /\ queue' = [q \in Subscriptions |->
                       IF q \in Broker!SubscribersOf(s) THEN Broker!Offered(q, e) ELSE queue[q]]
        /\ dropped' = [dropped EXCEPT ![s] = dropped[s] + count]
        /\ lost' = [q \in Subscriptions |->
                      IF q \in Broker!SubscribersOf(s) /\ Broker!Full(q)
                      THEN lost[q] + 1 ELSE lost[q]]
        /\ UNCHANGED <<subscribers, session_id, closed, joined, taken, last>>
    BY <1>5 DEF Broker!Publish
  <2>2. e \in Nat /\ e \in 0..MaxEvents
    BY <2>1, BackendAssumption
  <2>3. count \in Nat
    BY DropsCountable
  <2> HIDE DEF e, count
  <2>4. \A q \in Subscriptions : Broker!Offered(q, e) \in Seq(Nat)
    <3>1. SUFFICES ASSUME NEW q \in Subscriptions PROVE Broker!Offered(q, e) \in Seq(Nat)
      OBVIOUS
    <3>2. CASE Broker!Full(q)
      <4>1. queue[q] # <<>>
        BY <3>2, BackendAssumption DEF Broker!Full
      <4>2. Tail(queue[q]) \in Seq(Nat)
        BY <4>1, HeadTailProperties
      <4>3. QED
        BY <2>2, <3>2, <4>2, AppendProperties DEF Broker!Offered
    <3>3. CASE ~Broker!Full(q)
      BY <2>2, <3>3, AppendProperties DEF Broker!Offered
    <3>4. QED
      BY <3>2, <3>3
  <2>5. /\ queue' \in [Subscriptions -> Seq(Nat)] /\ lost' \in [Subscriptions -> Nat]
    BY <2>1, <2>4
  <2>6. /\ published' \in [SessionIds -> 0..MaxEvents] /\ dropped' \in [SessionIds -> Nat]
    BY <2>1, <2>2, <2>3
  <2>7. QED
    BY <2>1, <2>5, <2>6
<1>6. QED
  BY <1>1, <1>2, <1>3, <1>4, <1>5 DEF Broker!Next

-----------------------------------------------------------------------------
LEMMA InitTyped == Init => TypeOK
<1> SUFFICES ASSUME Init PROVE TypeOK
  OBVIOUS
<1>1. ManagerTyped
  BY BackendAssumption DEF Init, ManagerTyped
<1>2. LinksTyped
  BY DEF Init, LinksTyped, LinkState
<1>3. Ingest!TypeOK
  BY DEF Init, Ingest!Init, Ingest!TypeOK
<1>4. Broker!TypeOK
  BY BackendAssumption, EmptySeq DEF Init, Broker!Init, Broker!TypeOK, Broker!Zeros
<1>5. QED
  BY <1>1, <1>2, <1>3, <1>4, TypeParts

LEMMA TypedStep == TypeOK /\ [Next]_vars => TypeOK'
<1> SUFFICES ASSUME TypeOK, [Next]_vars PROVE TypeOK'
  OBVIOUS
<1>1. ManagerEffect /\ BuffersEffect /\ EventsEffect /\ LinksEffect
  BY StepEffects DEF Effects
<1>2. ManagerTyped /\ LinksTyped /\ Ingest!TypeOK /\ Broker!TypeOK
  BY TypeParts
<1>3. ManagerTyped' /\ issued \subseteq issued'
  BY <1>1, <1>2, ManagerTypedStep
<1>4. issued \subseteq SessionIds
  BY <1>2 DEF ManagerTyped
<1>5. LinksTyped'
  BY <1>1, <1>2, <1>3, LinksTypedStep
<1>6. Ingest!TypeOK'
  BY <1>1, <1>2, <1>4, IngestTypedStep
<1>7. Broker!TypeOK'
  BY <1>1, <1>2, <1>4, BrokerStep, BrokerTypedStep
<1>8. QED
  BY <1>3, <1>5, <1>6, <1>7 DEF TypeOK, ManagerTyped, LinksTyped

\* The types hold, and a link past its authentication is always that of a
\* session that was created, however many links and sessions there are.
THEOREM TypeCorrect == Spec => []TypeOK
BY InitTyped, TypedStep, PTL DEF Spec

\* The handlers use the broker as it is meant to be used: what it promises its
\* subscribers is not upset by the three websockets publishing at once
\* (main.py:262-300, 402-420, 602-695).
THEOREM BackendUsesBroker == Spec => Broker!Spec
<1>1. Init => Broker!Init
  BY DEF Init
<1>2. TypeOK /\ [Next]_vars => [Broker!Next]_(Broker!vars)
  BY StepEffects, BrokerStep DEF Effects, TypeOK
<1>3. QED
  BY <1>1, <1>2, TypeCorrect, PTL DEF Spec, Broker!Spec

-----------------------------------------------------------------------------
(* The sessions.                                                           *)

\* What a step makes of the store: it deletes only what has expired, and a
\* session it leaves there is as it was, or was used in this step.
LEMMA StoreEffect ==
  ASSUME ManagerTyped, ManagerEffect
  PROVE  /\ \A s \in DOMAIN sessions \ DOMAIN sessions' :
              clock' - sessions[s].last_activity_at > StaleAfter
         /\ \A s \in DOMAIN sessions' :
              \/ s \in DOMAIN sessions /\ sessions'[s] = sessions[s] /\ used'[s] = used[s]
              \/ /\ sessions'[s].last_activity_at = clock' /\ used'[s] = clock'
                 /\ s \in DOMAIN sessions \/ s \notin issued
<1> DEFINE Goal ==
      /\ \A s \in DOMAIN sessions \ DOMAIN sessions' :
           clock' - sessions[s].last_activity_at > StaleAfter
      /\ \A s \in DOMAIN sessions' :
           \/ s \in DOMAIN sessions /\ sessions'[s] = sessions[s] /\ used'[s] = used[s]
           \/ /\ sessions'[s].last_activity_at = clock' /\ used'[s] = clock'
              /\ s \in DOMAIN sessions \/ s \notin issued
<1>1. ASSUME NEW now \in Readings, clock' = now, DOMAIN Live(now) \subseteq DOMAIN sessions'
      PROVE  \A s \in DOMAIN sessions \ DOMAIN sessions' :
               clock' - sessions[s].last_activity_at > StaleAfter
  <2>1. SUFFICES ASSUME NEW s \in DOMAIN sessions, s \notin DOMAIN Live(now)
                 PROVE  now - sessions[s].last_activity_at > StaleAfter
    BY <1>1
  <2>2. now \in Int /\ sessions[s].last_activity_at \in Int /\ StaleAfter \in Int
    BY ReadingsInTime, StaleAfterAssumption DEF ManagerTyped, SessionRecord
  <2>3. ~(now - sessions[s].last_activity_at <= StaleAfter)
    BY <2>1, <2>2, LiveStore
  <2>4. QED
    BY <2>2, <2>3
<1>2. CASE UNCHANGED <<sessions, issued, used>> /\ clock' \in Readings
  BY <1>2
<1>3. ASSUME NEW now \in Readings, Swept(now) PROVE Goal
  <2>1. sessions' = Live(now) /\ clock' = now /\ used' = used
    BY <1>3 DEF Swept
  <2>2. QED
    BY <1>1, <2>1, LiveStore, ReadingsInTime
<1>4. ASSUME NEW now \in Readings, NEW s \in SessionIds, NEW r \in SessionRecord,
             Finds(s, r, now)
      PROVE  Goal
  <2>1. /\ s \in DOMAIN Live(now) /\ sessions' = Stored(Live(now), s, r)
        /\ used' = [used EXCEPT ![s] = now] /\ clock' = now /\ r.last_activity_at = now
    BY <1>4 DEF Finds, Served
  <2>2. now \in Int /\ s \in DOMAIN sessions
    BY <2>1, ReadingsInTime, LiveStore
  <2>3. /\ DOMAIN sessions' = DOMAIN Live(now) \cup {s} /\ sessions'[s] = r
        /\ \A x \in DOMAIN sessions' \ {s} : x \in DOMAIN sessions /\ sessions'[x] = sessions[x]
    BY SMTT(30), <2>1, <2>2, StoredSession
  <2>4. used'[s] = now /\ \A x \in DOMAIN sessions' \ {s} : used'[x] = used[x]
    BY <2>1, <2>3 DEF ManagerTyped
  <2>5. QED
    BY <1>1, <2>1, <2>2, <2>3, <2>4
<1>5. ASSUME NEW s \in SessionIds, NEW r \in SessionRecord, Creates(s, r)
      PROVE  Goal
  <2>1. /\ sessions' = Stored(Live(clock), s, r) /\ s \notin issued
        /\ used' = [used EXCEPT ![s] = clock] /\ clock' = clock /\ r.last_activity_at = clock
    BY <1>5 DEF Creates
  <2>2. clock \in Int /\ clock \in Readings
    BY ReadingsInTime
  <2>3. /\ DOMAIN sessions' = DOMAIN Live(clock) \cup {s} /\ sessions'[s] = r
        /\ \A x \in DOMAIN sessions' \ {s} : x \in DOMAIN sessions /\ sessions'[x] = sessions[x]
    BY <2>1, <2>2, StoredSession
  <2>4. used'[s] = clock /\ \A x \in DOMAIN sessions' \ {s} : used'[x] = used[x]
    BY <2>1, <2>3 DEF ManagerTyped
  <2>5. QED
    BY <1>1, <2>1, <2>2, <2>3, <2>4
<1>6. QED
  BY <1>2, <1>3, <1>4, <1>5 DEF ManagerEffect

\* The record of a session is as young as its last use.
UsedInStore == \A s \in DOMAIN sessions : used[s] <= sessions[s].last_activity_at

LEMMA UsedInStoreStep ==
  ASSUME ManagerTyped, ManagerTyped', UsedInStore, ManagerEffect
  PROVE  /\ UsedInStore'
         /\ \A s \in DOMAIN sessions \ DOMAIN sessions' : clock' - used[s] > StaleAfter
<1>1. UsedInStore'
  <2>1. SUFFICES ASSUME NEW s \in DOMAIN sessions'
                 PROVE  used'[s] <= sessions'[s].last_activity_at
    BY DEF UsedInStore
  <2>2. clock' \in Int
    BY BackendAssumption DEF ManagerTyped
  <2>3. QED
    BY <2>2, StoreEffect DEF UsedInStore
<1>2. ASSUME NEW s \in DOMAIN sessions \ DOMAIN sessions'
      PROVE  clock' - used[s] > StaleAfter
  <2>1. clock' - sessions[s].last_activity_at > StaleAfter /\ used[s] <= sessions[s].last_activity_at
    BY <1>2, StoreEffect DEF UsedInStore
  <2>2. clock' \in Int /\ used[s] \in Int /\ sessions[s].last_activity_at \in Int /\ StaleAfter \in Int
    BY BackendAssumption, StaleAfterAssumption DEF ManagerTyped, SessionRecord
  <2>3. QED
    BY <2>1, <2>2
<1>3. QED
  BY <1>1, <1>2

\* A session is deleted only when no request, frame or command was answered
\* for it in the last StaleAfter seconds, although any handler may be the one
\* whose call deletes it (main.py:95-160, 377-408, 584-599; sessions.py:306-314).
THEOREM UsedSessionsLive == Spec => UsedStayAlive
<1>1. Init => UsedInStore
  BY DEF Init, UsedInStore
<1>2. TypeOK /\ TypeOK' /\ UsedInStore /\ [Next]_vars => UsedInStore'
  BY StepEffects, TypeParts, UsedInStoreStep DEF Effects, TypeOK, ManagerTyped
<1>3. TypeOK /\ TypeOK' /\ UsedInStore /\ [Next]_vars
        => [\A s \in DOMAIN sessions \ DOMAIN sessions' : clock' - used[s] > StaleAfter]_vars
  BY StepEffects, TypeParts, UsedInStoreStep DEF Effects, TypeOK, ManagerTyped
<1>4. QED
  BY <1>1, <1>2, <1>3, TypeCorrect, PTL DEF Spec, UsedStayAlive

-----------------------------------------------------------------------------
(* The life cycle.                                                         *)

LEMMA MovesForward ==
  ASSUME NEW r \in SessionRecord, NEW q \in SessionRecord, CanMove(r, q.state)
  PROVE  /\ \/ Phase(q.state) = Phase(r.state)
            \/ Phase(q.state) \in Lifecycle!Onward(Phase(r.state))
         /\ q.state \in Active => r.state \in Active
<1>1. r.state \in SessionState /\ q.state \in SessionState
  BY DEF SessionRecord
<1>2. QED
  BY <1>1 DEF CanMove, AllowedTransitions, SessionState, Active, Ending, Ended,
              Phase, Lifecycle!Onward

LEMMA PhaseIsPhase ==
  ASSUME NEW state \in SessionState
  PROVE  Phase(state) \in {"active", "ending", "ended"}
BY DEF Phase

\* The sessions a step deletes.
Expired == {s \in DOMAIN sessions : s \notin DOMAIN sessions'}

LEMMA ExpiredForgettable == ManagerTyped => Expired \in SUBSET Lifecycle!Forgettable
<1> SUFFICES ASSUME ManagerTyped, NEW s \in Expired
             PROVE  s \in SessionIds /\ PhaseMap[s] \in {"active", "ending", "ended"}
  BY DEF Lifecycle!Forgettable
<1>1. s \in SessionIds /\ s \in DOMAIN sessions /\ sessions[s].state \in SessionState
  BY DEF Expired, ManagerTyped, SessionRecord
<1>2. QED
  BY <1>1, PhaseIsPhase DEF PhaseMap

\* A step that carries at most session s, to phase new, is one of the life cycle.
LEMMA CarriesOne ==
  ASSUME ManagerTyped, NEW s \in SessionIds, NEW new \in Lifecycle!Phases,
         s \notin Expired, PhaseMap'[s] = new,
         new = PhaseMap[s] \/ new \in Lifecycle!Onward(PhaseMap[s]),
         \A x \in SessionIds \ {s} :
           PhaseMap'[x] = IF x \in Expired THEN "gone" ELSE PhaseMap[x]
  PROVE  [Lifecycle!Next]_PhaseMap
<1>1. PhaseMap' = [x \in SessionIds |-> IF x \in Expired THEN "gone"
                                       ELSE IF x = s THEN new ELSE PhaseMap[x]]
  <2>1. PhaseMap' = [x \in SessionIds |-> PhaseMap'[x]]
    BY DEF PhaseMap
  <2>2. QED
    BY <2>1
<1>2. CASE new = PhaseMap[s]
  <2>1. Lifecycle!Sweep(Expired)
    BY <1>1, <1>2 DEF Lifecycle!Sweep
  <2>2. QED
    BY <2>1, ExpiredForgettable DEF Lifecycle!Next
<1>3. CASE new \in Lifecycle!Onward(PhaseMap[s])
  <2>1. Lifecycle!SweepAndCarry(Expired, s, new)
    BY <1>1, <1>3 DEF Lifecycle!SweepAndCarry
  <2>2. QED
    BY <2>1, ExpiredForgettable DEF Lifecycle!Next
<1>4. QED
  BY <1>2, <1>3

LEMMA LifecycleStep ==
  ASSUME ManagerTyped, ManagerEffect
  PROVE  [Lifecycle!Next]_PhaseMap
<1> DEFINE Goal == [Lifecycle!Next]_PhaseMap
<1>1. CASE UNCHANGED <<sessions, issued, used>>
  BY <1>1 DEF PhaseMap
<1>2. ASSUME NEW now \in Readings, Swept(now) PROVE Goal
  <2>1. /\ issued' = issued
        /\ \A x \in DOMAIN sessions' : x \in DOMAIN sessions /\ sessions'[x] = sessions[x]
    BY <1>2, LiveStore, ReadingsInTime DEF Swept
  <2>2. PhaseMap' = [x \in SessionIds |-> IF x \in Expired THEN "gone" ELSE PhaseMap[x]]
    BY <2>1 DEF PhaseMap, Expired, ManagerTyped
  <2>3. QED
    BY <2>2, ExpiredForgettable DEF Lifecycle!Sweep, Lifecycle!Next
<1>3. ASSUME NEW now \in Readings, NEW s \in SessionIds, NEW r \in SessionRecord,
             Finds(s, r, now)
      PROVE  Goal
  <2>1. /\ s \in DOMAIN Live(now) /\ sessions' = Stored(Live(now), s, r)
        /\ issued' = issued /\ CanMove(sessions[s], r.state)
    BY <1>3 DEF Finds, Served
  <2>2. now \in Int /\ s \in DOMAIN sessions /\ sessions[s] \in SessionRecord
    BY <2>1, ReadingsInTime, LiveStore
  <2>3. /\ s \in DOMAIN sessions' /\ sessions'[s] = r
        /\ \A x \in DOMAIN sessions' \ {s} : x \in DOMAIN sessions /\ sessions'[x] = sessions[x]
    <3>1. sessions' = Stored(Live(now), s, r) /\ now \in Int
      BY <2>1, <2>2
    <3>2. /\ DOMAIN sessions' = DOMAIN Live(now) \cup {s} /\ sessions'[s] = r
          /\ \A x \in DOMAIN sessions' \ {s} : x \in DOMAIN sessions /\ sessions'[x] = sessions[x]
      BY SMTT(30), <3>1, StoredSession
    <3>3. QED
      BY <3>2
  <2>4. PhaseMap[s] = Phase(sessions[s].state) /\ PhaseMap'[s] = Phase(r.state) /\ s \notin Expired
    BY <2>2, <2>3 DEF PhaseMap, Expired
  <2>5. \A x \in SessionIds \ {s} :
          PhaseMap'[x] = IF x \in Expired THEN "gone" ELSE PhaseMap[x]
    BY <2>1, <2>2, <2>3 DEF PhaseMap, Expired, ManagerTyped
  <2>6. Phase(r.state) \in Lifecycle!Phases
    BY PhaseIsPhase DEF Lifecycle!Phases, SessionRecord
  <2>7. Phase(r.state) = PhaseMap[s] \/ Phase(r.state) \in Lifecycle!Onward(PhaseMap[s])
    BY <2>1, <2>2, <2>4, MovesForward
  <2>8. QED
    BY <2>4, <2>5, <2>6, <2>7, CarriesOne
<1>4. ASSUME NEW s \in SessionIds, NEW r \in SessionRecord, Creates(s, r)
      PROVE  Goal
  <2>1. /\ sessions' = Stored(Live(clock), s, r) /\ s \notin issued
        /\ issued' = issued \cup {s} /\ r.state = "idle"
    BY <1>4 DEF Creates
  <2>2. /\ DOMAIN sessions' = DOMAIN Live(clock) \cup {s} /\ sessions'[s] = r
        /\ \A x \in DOMAIN sessions' \ {s} : x \in DOMAIN sessions /\ sessions'[x] = sessions[x]
    <3>1. clock \in Int
      BY ReadingsInTime
    <3>2. QED
      BY <2>1, <3>1, StoredSession
  <2>3. s \notin DOMAIN sessions /\ s \notin Expired
    BY <2>1 DEF ManagerTyped, Expired
  <2>4. PhaseMap[s] = "unborn" /\ PhaseMap'[s] = "active"
    BY <2>1, <2>2, <2>3 DEF PhaseMap, Phase, Active
  <2>5. \A x \in SessionIds \ {s} :
          PhaseMap'[x] = IF x \in Expired THEN "gone" ELSE PhaseMap[x]
    BY <2>1, <2>2 DEF PhaseMap, Expired, ManagerTyped
  <2>6. "active" \in Lifecycle!Phases /\ "active" \in Lifecycle!Onward("unborn")
    BY DEF Lifecycle!Phases, Lifecycle!Onward
  <2>7. QED
    BY <2>3, <2>4, <2>5, <2>6, CarriesOne
<1>5. QED
  BY <1>1, <1>2, <1>3, <1>4 DEF ManagerEffect

\* The handlers together implement the life cycle of a session: no late frame,
\* command or request brings back a session that is stopping or was deleted
\* (main.py:134-160, 377-408, 584-599; sessions.py:306-314).
THEOREM HandlersImplementLifecycle == Spec => LifecycleSpec
<1>1. Init => Lifecycle!Init
  BY DEF Init, Lifecycle!Init, PhaseMap
<1>2. TypeOK /\ [Next]_vars => [Lifecycle!Next]_PhaseMap
  BY StepEffects, TypeParts, LifecycleStep DEF Effects
<1>3. QED
  BY <1>1, <1>2, TypeCorrect, PTL DEF Spec, LifecycleSpec, Lifecycle!Spec

-----------------------------------------------------------------------------
(* What is kept for a session.                                             *)

\* Each operation on the broker touches the store of subscribers of one
\* session at most, and only subscribing adds one to it.
LEMMA SubscribersGrow ==
  ASSUME issued \subseteq SessionIds, EventsEffect
  PROVE  DOMAIN subscribers' \subseteq DOMAIN subscribers \cup issued
<1>1. ASSUME NEW q \in Subscriptions, NEW s \in issued, Broker!Subscribe(q, s)
      PROVE  DOMAIN subscribers' \subseteq DOMAIN subscribers \cup issued
  BY <1>1 DEF Broker!Subscribe, Broker!With
<1>2. ASSUME NEW q \in Subscriptions, Broker!Close(q)
      PROVE  DOMAIN subscribers' \subseteq DOMAIN subscribers
  <2> DEFINE s == session_id[q]
             rest == Broker!SubscribersOf(s) \ {q}
  <2>1. subscribers' = Broker!Unsubscribed(q, s)
    BY <1>2 DEF Broker!Close
  <2>2. CASE rest = {}
    <3>1. subscribers' = [x \in DOMAIN subscribers \ {s} |-> subscribers[x]]
      BY <2>1, <2>2 DEF Broker!Unsubscribed
    <3>2. QED
      BY <3>1
  <2>3. CASE rest # {}
    <3>1. subscribers' = Broker!With(s, rest)
      BY <2>1, <2>3 DEF Broker!Unsubscribed
    <3>2. s \in DOMAIN subscribers
      BY <2>3 DEF Broker!SubscribersOf
    <3> HIDE DEF s, rest
    <3>3. QED
      BY <3>1, <3>2 DEF Broker!With
  <2>4. QED
    BY <2>2, <2>3
<1>3. ASSUME NEW q \in Subscriptions, Broker!Receive(q)
      PROVE  DOMAIN subscribers' \subseteq DOMAIN subscribers
  BY <1>3 DEF Broker!Receive
<1>4. ASSUME NEW s, Broker!Publish(s)
      PROVE  DOMAIN subscribers' \subseteq DOMAIN subscribers
  BY <1>4 DEF Broker!Publish
<1>5. QED
  BY <1>1, <1>2, <1>3, <1>4 DEF EventsEffect, Publishes, events

LEMMA KnownStep ==
  ASSUME TypeOK, OnlyKnownSessions, Effects
  PROVE  OnlyKnownSessions'
<1>1. ManagerTyped /\ issued \subseteq SessionIds /\ issued \subseteq issued'
  BY TypeParts, ManagerTypedStep DEF Effects, ManagerTyped
<1>2. DOMAIN buffers' \subseteq issued
  BY DEF Effects, BuffersEffect, OnlyKnownSessions, Ingest!With
<1>3. DOMAIN trackers' \subseteq issued
  <2>1. CASE UNCHANGED trackers
    BY <2>1 DEF OnlyKnownSessions
  <2>2. ASSUME NEW s \in issued, NEW t, Observes(s, t), Publishes(s, t)
        PROVE  DOMAIN trackers' \subseteq issued
    <3>1. DOMAIN t \subseteq issued
      BY <2>2 DEF Observes, Ingest!With, OnlyKnownSessions
    <3>2. trackers' = t \/ \E o : trackers' = Ingest!With(t, s, o)
      BY <2>2 DEF Publishes
    <3>3. QED
      BY <3>1, <3>2 DEF Ingest!With
  <2>3. QED
    BY <2>1, <2>2 DEF Effects, EventsEffect
<1>4. DOMAIN subscribers' \subseteq issued
  BY <1>1, SubscribersGrow DEF Effects, OnlyKnownSessions
<1>5. QED
  BY <1>1, <1>2, <1>3, <1>4 DEF OnlyKnownSessions

LEMMA InitKnown == Init => OnlyKnownSessions
BY DEF Init, Ingest!Init, Broker!Init, OnlyKnownSessions

\* No audio, statistics or subscribers are ever kept for an id that was not
\* handed out, although only the manager knows the ids and no other part asks
\* it (main.py:170-177, 279-288, 310-317; ingest.py:165-180, events.py:71-72).
THEOREM StoresKnowTheirSessions == Spec => []OnlyKnownSessions
<1>1. TypeOK /\ OnlyKnownSessions /\ [Next]_vars => OnlyKnownSessions'
  BY StepEffects, KnownStep
<1>2. QED
  BY <1>1, InitKnown, TypeCorrect, PTL DEF Spec

-----------------------------------------------------------------------------
(* The dropped events.                                                     *)

LEMMA InitAgree == Init => DroppedAgree
<1> SUFFICES ASSUME Init, NEW s \in SessionIds
             PROVE  Ingest!TrackerOf(s).dropped = dropped[s]
  BY DEF DroppedAgree
<1>1. DOMAIN trackers = {} /\ dropped = [x \in SessionIds |-> 0]
  BY DEF Init, Ingest!Init, Broker!Init, Broker!Zeros
<1>2. Ingest!TrackerOf(s) = NewTracker
  BY <1>1, IngestData DEF Ingest!TrackerOf
<1>3. QED
  BY <1>1, <1>2 DEF NewTracker

\* The tracker of session x in a store t of trackers.
TrackerIn(t, x) == IF x \in DOMAIN t THEN t[x] ELSE NewTracker

LEMMA TrackerInStore ==
  /\ \A x : Ingest!TrackerOf(x) = TrackerIn(trackers, x)
  /\ \A x : Ingest!TrackerOf(x)' = TrackerIn(trackers', x)
  /\ \A t, s, o : TrackerIn(Ingest!With(t, s, o), s) = o
  /\ \A t, s, o, x : x # s => TrackerIn(Ingest!With(t, s, o), x) = TrackerIn(t, x)
BY IngestData DEF TrackerIn, Ingest!TrackerOf, Ingest!With

LEMMA DroppedAgreeStep ==
  ASSUME TypeOK, DroppedAgree, Effects
  PROVE  DroppedAgree'
<1>0. Ingest!TypeOK /\ Broker!TypeOK /\ issued \subseteq SessionIds
  BY TypeParts DEF ManagerTyped
<1>1. CASE UNCHANGED <<trackers, dropped>>
  BY <1>1, TrackerInStore DEF DroppedAgree
<1>2. ASSUME NEW s \in issued, NEW t, Observes(s, t), Publishes(s, t)
      PROVE  DroppedAgree'
  <2> DEFINE count == Cardinality(Broker!Overflowing(s))
             old == TrackerIn(t, s)
  <2>1. count \in Nat /\ Broker!Cardinality(Broker!Overflowing(s)) = count
    BY <1>0, DropsCountable
  <2>2. /\ trackers' = IF count = 0 THEN t ELSE Ingest!With(t, s, Dropped(old, count))
        /\ dropped' = [dropped EXCEPT ![s] = dropped[s] + count]
    BY <1>2, <2>1 DEF Publishes, Broker!Publish, TrackerIn
  <2> HIDE DEF count
  <2>3. dropped'[s] = dropped[s] + count /\ \A x \in SessionIds \ {s} : dropped'[x] = dropped[x]
    BY <1>0, <2>2 DEF Broker!TypeOK
  <2>4. /\ old \in Tracker /\ old.dropped = dropped[s]
        /\ \A x \in SessionIds \ {s} : TrackerIn(t, x) = TrackerIn(trackers, x)
    <3>1. /\ TrackerIn(trackers, s) \in Tracker
          /\ TrackerIn(trackers, s).dropped = dropped[s]
      BY <1>0, IngestTyped, TrackerInStore DEF DroppedAgree
    <3>2. QED
      BY <1>2, <3>1, TrackerInStore DEF Observes
  <2> HIDE DEF old
  <2>5. Dropped(old, count).dropped = old.dropped + count
    BY <2>1, <2>4, DroppedTracker
  <2>6. TrackerIn(trackers', s).dropped = dropped'[s]
    <3>1. CASE count = 0
      <4>1. dropped[s] \in Int /\ TrackerIn(trackers', s) = old
        BY <1>0, <2>2, <3>1 DEF Broker!TypeOK, old
      <4>2. QED
        BY <2>3, <2>4, <3>1, <4>1
    <3>2. CASE count # 0
      BY <2>2, <2>3, <2>4, <2>5, <3>2, TrackerInStore
    <3>3. QED
      BY <3>1, <3>2
  <2>7. \A x \in SessionIds \ {s} : TrackerIn(trackers', x) = TrackerIn(trackers, x)
    BY <2>2, <2>4, TrackerInStore
  <2>8. QED
    BY <2>3, <2>6, <2>7, TrackerInStore DEF DroppedAgree
<1>3. EventsEffect
         => UNCHANGED <<trackers, dropped>>
            \/ \E s \in issued : \E t : Observes(s, t) /\ Publishes(s, t)
  BY DEF EventsEffect, events, Broker!Subscribe, Broker!Receive, Broker!Close, Broker!records
<1>4. QED
  BY <1>1, <1>2, <1>3 DEF Effects

\* The count of dropped events a client reads in the audio statistics is the
\* broker's own: no handler publishes without adding what its event pushed
\* out, and none adds it twice (main.py:666-673, 880-882; events.py:143).
THEOREM DroppedAlwaysAgree == Spec => []DroppedAgree
<1>1. TypeOK /\ DroppedAgree /\ [Next]_vars => DroppedAgree'
  BY StepEffects, DroppedAgreeStep
<1>2. QED
  BY <1>1, InitAgree, TypeCorrect, PTL DEF Spec

-----------------------------------------------------------------------------
(* Who is subscribed.                                                      *)

\* A subscription that does not exist yet is not closed.
Unopened == \A q \in Subscriptions : session_id[q] = NoSession => q \notin closed

\* Publishing and reading leave the subscriptions alone.
LEMMA SameSubscriptions ==
  ASSUME EventsEffect,
         ~\E q \in Subscriptions : Broker!Close(q) \/ \E s \in issued : Broker!Subscribe(q, s)
  PROVE  UNCHANGED <<subscribers, session_id, closed>>
BY DEF EventsEffect, Publishes, events, Broker!Publish, Broker!Receive

LEMMA SubscribeOpens ==
  ASSUME Broker!TypeOK, Unopened, NEW q \in Subscriptions, NEW s \in SessionIds,
         Broker!Subscribe(q, s)
  PROVE  /\ q \notin Broker!Open /\ Broker!Open' = Broker!Open \cup {q}
         /\ session_id'[q] = s
         /\ \A p \in Subscriptions \ {q} : session_id'[p] = session_id[p]
         /\ closed' = closed
         /\ \A x \in SessionIds :
              Broker!SubscribersOf(x)'
                = IF x = s THEN Broker!SubscribersOf(s) \cup {q} ELSE Broker!SubscribersOf(x)
<1>1. /\ session_id[q] = NoSession /\ session_id' = [session_id EXCEPT ![q] = s]
      /\ subscribers' = Broker!With(s, Broker!SubscribersOf(s) \cup {q})
      /\ closed' = closed /\ s # NoSession /\ q \notin closed
  BY BackendAssumption DEF Broker!Subscribe, Unopened
<1>2. session_id'[q] = s /\ \A p \in Subscriptions \ {q} : session_id'[p] = session_id[p]
  BY <1>1 DEF Broker!TypeOK
<1>3. \A x \in SessionIds :
        Broker!SubscribersOf(x)'
          = IF x = s THEN Broker!SubscribersOf(s) \cup {q} ELSE Broker!SubscribersOf(x)
  <2> DEFINE members == Broker!SubscribersOf(s) \cup {q}
  <2>1. subscribers' = Broker!With(s, members)
    BY <1>1
  <2> HIDE DEF members
  <2>2. \A x \in SessionIds :
          Broker!SubscribersOf(x)' = IF x = s THEN members ELSE Broker!SubscribersOf(x)
    BY <2>1 DEF Broker!With, Broker!SubscribersOf
  <2>3. QED
    BY <2>2 DEF members
<1>4. q \notin Broker!Open /\ Broker!Open' = Broker!Open \cup {q}
  BY <1>1, <1>2 DEF Broker!Open
<1>5. QED
  BY <1>1, <1>2, <1>3, <1>4

LEMMA CloseLeaves ==
  ASSUME Broker!TypeOK, NEW q \in Subscriptions, Broker!Close(q)
  PROVE  /\ q \in Broker!Open /\ Broker!Open' = Broker!Open \ {q}
         /\ session_id' = session_id /\ closed' = closed \cup {q}
         /\ \A x \in SessionIds :
              Broker!SubscribersOf(x)'
                = IF x = session_id[q] THEN Broker!SubscribersOf(x) \ {q}
                  ELSE Broker!SubscribersOf(x)
<1> DEFINE s == session_id[q]
           rest == Broker!SubscribersOf(s) \ {q}
<1>1. /\ q \in Broker!Open /\ closed' = closed \cup {q} /\ session_id' = session_id
      /\ subscribers' = Broker!Unsubscribed(q, s)
  BY DEF Broker!Close
<1>2. Broker!Open' = Broker!Open \ {q}
  BY <1>1 DEF Broker!Open
<1>3. \A x \in SessionIds :
        Broker!SubscribersOf(x)' = IF x = s THEN rest ELSE Broker!SubscribersOf(x)
  <2>1. CASE rest = {}
    <3>1. subscribers' = [x \in DOMAIN subscribers \ {s} |-> subscribers[x]]
      BY <1>1, <2>1 DEF Broker!Unsubscribed
    <3> HIDE DEF s, rest
    <3>2. QED
      BY <2>1, <3>1 DEF Broker!SubscribersOf
  <2>2. CASE rest # {}
    <3>1. subscribers' = Broker!With(s, rest)
      BY <1>1, <2>2 DEF Broker!Unsubscribed
    <3> HIDE DEF s, rest
    <3>2. QED
      BY <3>1 DEF Broker!With, Broker!SubscribersOf
  <2>3. QED
    BY <2>1, <2>2
<1>4. QED
  BY <1>1, <1>2, <1>3

LEMMA RegisteredStep ==
  ASSUME Broker!TypeOK, Broker!Registered, Unopened, issued \subseteq SessionIds, EventsEffect
  PROVE  Broker!Registered' /\ Unopened'
<1>1. ASSUME NEW q \in Subscriptions, NEW s \in issued, Broker!Subscribe(q, s)
      PROVE  Broker!Registered' /\ Unopened'
  <2>1. s \in SessionIds /\ s # NoSession
    BY BackendAssumption
  <2>2. /\ q \notin Broker!Open /\ Broker!Open' = Broker!Open \cup {q}
        /\ session_id'[q] = s
        /\ \A p \in Subscriptions \ {q} : session_id'[p] = session_id[p]
        /\ closed' = closed
        /\ \A x \in SessionIds :
             Broker!SubscribersOf(x)'
               = IF x = s THEN Broker!SubscribersOf(s) \cup {q} ELSE Broker!SubscribersOf(x)
    BY <1>1, <2>1, SubscribeOpens
  <2>3. Broker!Open \subseteq Subscriptions
    BY DEF Broker!Open
  <2>4. Broker!Registered'
    BY <2>2, <2>3 DEF Broker!Registered
  <2>5. Unopened'
    BY <2>1, <2>2 DEF Unopened
  <2>6. QED
    BY <2>4, <2>5
<1>2. ASSUME NEW q \in Subscriptions, Broker!Close(q)
      PROVE  Broker!Registered' /\ Unopened'
  <2>1. /\ q \in Broker!Open /\ Broker!Open' = Broker!Open \ {q}
        /\ session_id' = session_id /\ closed' = closed \cup {q}
        /\ \A x \in SessionIds :
             Broker!SubscribersOf(x)'
               = IF x = session_id[q] THEN Broker!SubscribersOf(x) \ {q}
                 ELSE Broker!SubscribersOf(x)
    BY <1>2, CloseLeaves
  <2>2. Broker!Registered'
    BY <2>1 DEF Broker!Registered
  <2>3. Unopened'
    BY <2>1 DEF Unopened, Broker!Open
  <2>4. QED
    BY <2>2, <2>3
<1>3. CASE ~\E q \in Subscriptions : Broker!Close(q) \/ \E s \in issued : Broker!Subscribe(q, s)
  <2>1. UNCHANGED <<subscribers, session_id, closed>>
    BY <1>3, SameSubscriptions
  <2>2. QED
    BY <2>1 DEF Broker!Registered, Broker!SubscribersOf, Broker!Open, Unopened
<1>4. QED
  BY <1>1, <1>2, <1>3

-----------------------------------------------------------------------------
(* What the handlers tell.                                                 *)

\* A session that is active after the step was so before, and unchanged for
\* its readers; a session that the step creates has none.
Steady ==
  \A s \in DOMAIN sessions' \cap issued :
    sessions'[s].state \in Active
      => /\ s \in DOMAIN sessions
         /\ sessions'[s].state = sessions[s].state
         /\ sessions'[s].profile = sessions[s].profile
         /\ Ingest!BufferOf(s)'.depth_ms = Ingest!BufferOf(s).depth_ms

\* What an event can tell.
Payloads ==
  {NothingTold} \cup {Told(r) : r \in SessionRecord}
    \cup {ToldWithDepth(r, b) : r \in SessionRecord, b \in Buffer}

Telling(s, told) == Broker!Publish(s) /\ Delivered(s, told)

\* A step that need not be told, and tells nothing new.
Quiet ==
  /\ Steady
  /\ \/ UNCHANGED <<events, clients>>
     \/ \E s : Telling(s, NothingTold)
     \/ \E q \in Subscriptions : Sent(q)

\* A step that changes session s, and tells its readers what they need.
Tells(s, told) ==
  /\ s \in DOMAIN sessions /\ s \in DOMAIN sessions'
  /\ sessions'[s].state \in Active => sessions[s].state \in Active
  /\ Overlaid(Truth(s), told) = Truth(s)'
  /\ \A x \in DOMAIN sessions' \ {s} :
       /\ x \in DOMAIN sessions /\ sessions'[x] = sessions[x]
       /\ Ingest!BufferOf(x)' = Ingest!BufferOf(x)
  /\ told \in Payloads /\ Telling(s, told)

Resumes(s) == \E c \in ControlLinks : target[c] = s /\ CommandObeyed(c, "resume")

\* A paused session does not come to record, but by a command.
Pauses(s) ==
  sessions[s].state = "paused" /\ sessions'[s].state = "recording" => Resumes(s)

LEMMA TellingRecords ==
  ASSUME NEW r, NEW p, NEW b, NEW d
  PROVE  /\ Overlaid(ToldWithDepth(r, b), ToldWithDepth(p, d)) = ToldWithDepth(p, d)
         /\ Overlaid(ToldWithDepth(r, b), Told(p)) = ToldWithDepth(p, b)
         /\ Overlaid(ToldWithDepth(r, b), NothingTold) = ToldWithDepth(r, b)
<1>1. Overlaid(ToldWithDepth(r, b), ToldWithDepth(p, d)) = ToldWithDepth(p, d)
  BY DEF Overlaid, ToldWithDepth
<1>2. Overlaid(ToldWithDepth(r, b), Told(p)) = ToldWithDepth(p, b)
  BY DEF Overlaid, ToldWithDepth, Told
<1>3. Overlaid(ToldWithDepth(r, b), NothingTold) = ToldWithDepth(r, b)
  BY DEF Overlaid, ToldWithDepth, NothingTold
<1>4. QED
  BY <1>1, <1>2, <1>3

\* The store after a call, with the buffers left alone.
LEMMA SweptSteady ==
  ASSUME ManagerTyped, NEW now \in Readings, Swept(now), UNCHANGED buffers
  PROVE  Steady
BY LiveStore, ReadingsInTime DEF Swept, Steady, Ingest!BufferOf

LEMMA IdleSteady ==
  ASSUME UNCHANGED <<sessions, buffers>>
  PROVE  Steady
BY DEF Steady, Ingest!BufferOf

LEMMA ServedStore ==
  ASSUME ManagerTyped, NEW now \in Readings, NEW s \in DOMAIN Live(now),
         NEW r \in SessionRecord, Served(s, r, now)
  PROVE  /\ s \in DOMAIN sessions /\ s \in DOMAIN sessions' /\ s \in SessionIds
         /\ sessions[s] \in SessionRecord /\ sessions'[s] = r
         /\ \A x \in DOMAIN sessions' \ {s} :
              x \in DOMAIN sessions /\ sessions'[x] = sessions[x]
<1>1. now \in Int
  BY ReadingsInTime
<1>2. s \in DOMAIN sessions /\ s \in SessionIds /\ sessions[s] \in SessionRecord
  BY <1>1, LiveStore
<1>3. sessions' = Stored(Live(now), s, r)
  BY DEF Served
<1>4. QED
  BY SMTT(30), <1>1, <1>2, <1>3, StoredSession

\* A call that leaves the record of s as its readers know it, or ends it.
LEMMA ServedSteady ==
  ASSUME ManagerTyped, NEW now \in Readings, NEW s \in DOMAIN Live(now),
         NEW r \in SessionRecord, Served(s, r, now), UNCHANGED buffers,
         \/ r.state \notin Active
         \/ r.state = sessions[s].state /\ r.profile = sessions[s].profile
  PROVE  Steady
BY ServedStore DEF Steady, Ingest!BufferOf

LEMMA RefreshedSteady ==
  ASSUME ManagerTyped, NEW s, Refreshed(s), UNCHANGED buffers
  PROVE  Steady
<1>1. clock \in Readings /\ clock \in Int
  BY ReadingsInTime
<1>2. CASE s \in DOMAIN Live(clock)
  <2>1. Served(s, Touched(sessions[s], clock), clock) /\ sessions[s] \in SessionRecord
    BY <1>1, <1>2, LiveStore DEF Refreshed
  <2>2. QED
    BY <1>1, <1>2, <2>1, TouchedRecord, ServedSteady DEF Follows
<1>3. CASE s \notin DOMAIN Live(clock)
  BY <1>1, <1>3, SweptSteady DEF Refreshed
<1>4. QED
  BY <1>2, <1>3

-----------------------------------------------------------------------------
LEMMA HttpSteady ==
  ASSUME TypeOK, Http
  PROVE  Steady
<1> USE TypeParts
<1>0. clock \in Int /\ clock \in Readings /\ UNCHANGED buffers
  BY ReadingsInTime, HttpEffects DEF ingest
<1>1. ASSUME NEW s \in SessionIds, NEW p \in Profiles, CreateSession(s, p) PROVE Steady
  <2>1. /\ sessions' = Stored(Live(clock), s, NewRecord(s, p, clock)) /\ s \notin issued
        /\ NewRecord(s, p, clock) \in SessionRecord
    BY <1>0, <1>1 DEF CreateSession, NewRecord, SessionRecord, SessionState, Active
  <2>2. \A x \in DOMAIN sessions' \ {s} : x \in DOMAIN sessions /\ sessions'[x] = sessions[x]
    BY <1>0, <2>1, StoredSession
  <2>3. QED
    BY <1>0, <2>1, <2>2 DEF Steady, Ingest!BufferOf
<1>2. ASSUME NEW s \in SessionIds, GetSession(s) PROVE Steady
  <2>1. s \in DOMAIN Live(clock) /\ Served(s, Touched(sessions[s], clock), clock)
    BY <1>2 DEF GetSession
  <2>2. QED
    BY <1>0, <2>1, LiveStore, TouchedRecord, ServedSteady DEF Follows
<1>3. ASSUME NEW s \in SessionIds, StopSession(s) PROVE Steady
  <2>1. /\ s \in DOMAIN Live(clock) /\ CanStop(sessions[s])
        /\ Served(s, Stopped(sessions[s], clock), clock)
    BY <1>3 DEF StopSession
  <2>2. QED
    BY <1>0, <2>1, LiveStore, StoppedRecord, ServedSteady DEF Follows
<1>4. ASSUME NEW s \in SessionIds, NEW v \in Versions \cup {Stamped}, PutGlossary(s, v)
      PROVE  Steady
  <2>1. /\ s \in DOMAIN Live(clock)
        /\ Served(s, Reversioned(sessions[s], v, clock), clock)
    BY <1>4 DEF PutGlossary
  <2>2. QED
    BY <1>0, <2>1, LiveStore, ReversionedRecord, ServedSteady DEF Follows
<1>5. CASE RequestRefused
  BY <1>0, <1>5, SweptSteady DEF RequestRefused
<1>6. QED
  BY <1>1, <1>2, <1>3, <1>4, <1>5 DEF Http

\* An event that says nothing of the session, where there is nothing to say.
LEMMA QuietPublishing ==
  ASSUME Steady, NEW s, NEW t, PublishEvent(s, t, NothingTold)
  PROVE  Quiet
BY DEF PublishEvent, Telling, Quiet

\* A step of a handler that publishes nothing.
LEMMA QuietSilence ==
  ASSUME Steady, UNCHANGED <<events, clients>>
  PROVE  Quiet
BY DEF Quiet

\* The buffers, once session s has been given buffer b.
LEMMA BuffersWith ==
  ASSUME NEW s, NEW b, buffers' = Ingest!With(buffers, s, b)
  PROVE  /\ s \in DOMAIN buffers' /\ buffers'[s] = b /\ Ingest!BufferOf(s)' = b
         /\ \A x : x # s => Ingest!BufferOf(x)' = Ingest!BufferOf(x)
<1>1. s \in DOMAIN buffers' /\ buffers'[s] = b
  BY DEF Ingest!With
<1>2. \A x : x # s => Ingest!BufferOf(x)' = Ingest!BufferOf(x)
  BY DEF Ingest!With, Ingest!BufferOf
<1>3. QED
  BY <1>1, <1>2 DEF Ingest!BufferOf

LEMMA AudioTells ==
  ASSUME TypeOK, NEW c \in AudioLinks, AudioStep(c), NEW s, s = target[c]
  PROVE  Quiet \/ \E told : Tells(s, told) /\ Pauses(s)
<1> USE TypeParts
<1>0. clock \in Readings /\ Ingest!TypeOK'
  <2>1. [Next]_vars
    BY DEF Next
  <2>2. QED
    BY <2>1, ReadingsInTime, TypedStep DEF TypeOK
<1>1. ASSUME NEW f \in Frames, FrameAccepted(c, f)
      PROVE  \E told : Tells(s, told) /\ Pauses(s)
  <2> DEFINE told == ToldWithDepth(sessions'[s], buffers'[s])
             b == Appended(Ingest!BufferOf(s), f)
  <2>1. /\ buffers' = Ingest!With(buffers, s, b) /\ Accepting(s, clock)
        /\ PublishEvent(s, Observing(s, f), told)
    BY <1>1 DEF FrameAccepted, Buffered
  <2>2. PICK now \in Readings : s \in DOMAIN Live(now) /\ Served(s, Heard(sessions[s], now), now)
    BY <1>1 DEF FrameAccepted
  <2>3. now \in Int /\ sessions[s] \in SessionRecord /\ sessions[s].state \notin TerminalAudioStates
    BY <2>1, <2>2, LiveStore, ReadingsInTime DEF Accepting
  <2> DEFINE r == Heard(sessions[s], now)
  <2>4. /\ r \in SessionRecord /\ sessions[s].state \in Active
        /\ sessions[s].state = "paused" => r.state = "paused"
    BY <2>3, HeardRecord DEF Follows
  <2>5. Served(s, r, now)
    BY <2>2
  <2> HIDE DEF r, b
  <2>6. /\ s \in DOMAIN sessions /\ s \in DOMAIN sessions' /\ sessions'[s] = r
        /\ \A x \in DOMAIN sessions' \ {s} :
             x \in DOMAIN sessions /\ sessions'[x] = sessions[x]
    BY <2>2, <2>4, <2>5, ServedStore
  <2>7. /\ Ingest!BufferOf(s)' = buffers'[s]
        /\ \A x : x # s => Ingest!BufferOf(x)' = Ingest!BufferOf(x)
    BY <2>1, BuffersWith
  <2>8. Overlaid(Truth(s), told) = Truth(s)'
    BY <2>7, TellingRecords DEF Truth
  <2>9. told \in Payloads /\ Telling(s, told)
    <3>1. buffers'[s] \in Buffer
      BY <1>0, <2>7, IngestData DEF Ingest!TypeOK, Ingest!BufferOf
    <3>2. QED
      BY <2>1, <2>4, <2>6, <3>1 DEF Payloads, PublishEvent, Telling
  <2>10. Pauses(s)
    BY <2>4, <2>6 DEF Pauses
  <2> HIDE DEF told
  <2>11. QED
    BY <2>4, <2>6, <2>7, <2>8, <2>9, <2>10 DEF Tells
<1>2. ASSUME NEW f \in Frames, FrameNotAccepted(c, f) PROVE Quiet
  <2>1. /\ buffers' = Ingest!With(buffers, s, Appended(Ingest!BufferOf(s), f))
        /\ PublishEvent(s, Observing(s, f), NothingTold)
    BY <1>2 DEF FrameNotAccepted, Buffered
  <2>2. PICK now \in Readings :
          /\ Swept(now)
          /\ s \in DOMAIN Live(now) => sessions[s].state \in TerminalAudioStates
    BY <1>0, <1>2 DEF FrameNotAccepted, Accepting
  <2>3. sessions' = Live(now) /\ now \in Int
    BY <2>2, ReadingsInTime DEF Swept
  <2>4. \A x : x # s => Ingest!BufferOf(x)' = Ingest!BufferOf(x)
    BY <2>1, BuffersWith
  <2>5. \A x \in DOMAIN sessions' : x \in DOMAIN sessions /\ sessions'[x] = sessions[x]
    BY <2>3, LiveStore
  <2>6. s \in DOMAIN sessions' => sessions'[s].state \notin Active
    BY <2>2, <2>3, <2>5 DEF TerminalAudioStates, Active
  <2>7. Steady
    BY <2>4, <2>5, <2>6 DEF Steady
  <2>8. QED
    BY <2>1, <2>7, QuietPublishing
<1>3. ASSUME NEW f \in Frames, FrameNotBuffered(c, f) PROVE Quiet
  <2>1. /\ buffers' = Ingest!With(buffers, s, Ingest!BufferOf(s)) /\ sessions' = sessions
        /\ PublishEvent(s, trackers, NothingTold)
    BY <1>3 DEF FrameNotBuffered, manager
  <2>2. \A x : Ingest!BufferOf(x)' = Ingest!BufferOf(x)
    BY <2>1, BuffersWith
  <2>3. Steady
    BY <2>1, <2>2 DEF Steady
  <2>4. QED
    BY <2>1, <2>3, QuietPublishing
<1>4. CASE FrameRejected(c)
  BY <1>4, IdleSteady, QuietPublishing DEF FrameRejected, manager
<1>5. QED
  BY <1>1, <1>2, <1>3, <1>4 DEF AudioStep

\* Only a command to resume has a session record.
LEMMA ObeyedRecording ==
  ASSUME NEW r \in SessionRecord, NEW t \in Int, NEW command \in Command, Obeys(r, command),
         r.state = "paused", Obeyed(r, command, t).state = "recording"
  PROVE  command = "resume"
<1>1. DOMAIN Requested = {"pause", "resume"} /\ Requested["pause"] = "paused"
  BY DEF Requested
<1>2. command # "ping"
  BY <1>1, TouchedRecord DEF Obeyed
<1>3. command # "stop"
  BY <1>1, StoppedRecord DEF Obeyed, Obeys, Active
<1>4. command # "pause"
  <2>1. SUFFICES ASSUME command = "pause" PROVE FALSE
    OBVIOUS
  <2>2. Obeyed(r, command, t) = Moved(r, "paused", t)
    BY <1>1, <2>1 DEF Obeyed
  <2>3. Moved(r, "paused", t).state = "paused"
    BY DEF Moved, SessionRecord
  <2>4. QED
    BY <2>2, <2>3
<1>5. QED
  BY <1>2, <1>3, <1>4 DEF Command

LEMMA ControlTells ==
  ASSUME TypeOK, NEW c \in ControlLinks, ControlStep(c), NEW s, s = target[c]
  PROVE  Quiet \/ \E told : Tells(s, told) /\ Pauses(s)
<1> USE TypeParts
<1>0. clock \in Readings /\ clock \in Int
  BY ReadingsInTime
<1>1. ASSUME NEW r \in SessionRecord, s \in DOMAIN Live(clock),
             CanMove(sessions[s], r.state), Acknowledged(c, r)
      PROVE  \E told : Tells(s, told) /\ sessions'[s] = r
  <2>1. /\ Served(s, r, clock) /\ UNCHANGED buffers
        /\ PublishEvent(s, trackers, Told(r))
    BY <1>1, AckPublishes DEF Acknowledged
  <2>2. /\ s \in DOMAIN sessions /\ s \in DOMAIN sessions' /\ sessions'[s] = r
        /\ sessions[s] \in SessionRecord
        /\ \A x \in DOMAIN sessions' \ {s} :
             x \in DOMAIN sessions /\ sessions'[x] = sessions[x]
    BY <1>0, <1>1, <2>1, ServedStore
  <2>3. \A x : Ingest!BufferOf(x)' = Ingest!BufferOf(x)
    BY <2>1 DEF Ingest!BufferOf
  <2>4. Overlaid(Truth(s), Told(r)) = Truth(s)'
    BY <2>2, <2>3, TellingRecords DEF Truth
  <2>5. r.state \in Active => sessions[s].state \in Active
    BY <1>1, <2>2, MovesForward
  <2>6. Told(r) \in Payloads /\ Telling(s, Told(r))
    BY <1>1, <2>1 DEF PublishEvent, Payloads, Telling
  <2>7. Tells(s, Told(r))
    BY <2>2, <2>3, <2>4, <2>5, <2>6 DEF Tells
  <2>8. QED
    BY <2>2, <2>7
<1>2. ASSUME NEW command \in Command, CommandObeyed(c, command)
      PROVE  \E told : Tells(s, told) /\ Pauses(s)
  <2> DEFINE r == Obeyed(sessions[s], command, clock)
  <2>1. s \in DOMAIN Live(clock) /\ Obeys(sessions[s], command) /\ Acknowledged(c, r)
    BY <1>2 DEF CommandObeyed
  <2>2. sessions[s] \in SessionRecord
    BY <1>0, <2>1, LiveStore
  <2>3. r \in SessionRecord /\ CanMove(sessions[s], r.state)
    BY <1>0, <2>1, <2>2, ObeyedRecord DEF Follows
  <2>4. sessions[s].state = "paused" /\ r.state = "recording" => command = "resume"
    BY <1>0, <2>1, <2>2, ObeyedRecording
  <2> HIDE DEF r
  <2>5. PICK told : Tells(s, told) /\ sessions'[s] = r
    BY <1>1, <2>1, <2>3
  <2>6. Pauses(s)
    BY <1>2, <2>4, <2>5 DEF Pauses, Resumes
  <2>7. QED
    BY <2>5, <2>6
<1>3. ASSUME NEW p \in Profiles, SetProfile(c, p)
      PROVE  \E told : Tells(s, told) /\ Pauses(s)
  <2> DEFINE r == Reprofiled(sessions[s], p, clock)
  <2>1. s \in DOMAIN Live(clock) /\ Acknowledged(c, r)
    BY <1>3 DEF SetProfile
  <2>2. sessions[s] \in SessionRecord
    BY <1>0, <2>1, LiveStore
  <2>3. r \in SessionRecord /\ CanMove(sessions[s], r.state) /\ r.state = sessions[s].state
    BY <1>0, <2>2, ReprofiledRecord DEF Follows
  <2> HIDE DEF r
  <2>4. PICK told : Tells(s, told) /\ sessions'[s] = r
    BY <1>1, <2>1, <2>3
  <2>5. Pauses(s)
    BY <2>3, <2>4 DEF Pauses
  <2>6. QED
    BY <2>4, <2>5
<1>4. ASSUME NEW command \in Command, CommandRefused(c, command) PROVE Quiet
  BY <1>0, <1>4, SweptSteady, AckPublishes, QuietPublishing DEF CommandRefused
<1>5. CASE CommandMalformed(c)
  BY <1>5, IdleSteady, AckPublishes, QuietPublishing DEF CommandMalformed, manager
<1>6. CASE AckSent(c)
  BY <1>6, IdleSteady, QuietSilence DEF AckSent, manager, ingest
<1>7. QED
  BY <1>2, <1>3, <1>4, <1>5, <1>6 DEF ControlStep

\* The handler of /v1/events: the snapshot, and the end.
Opens(q, s) ==
  /\ Steady /\ Broker!Subscribe(q, s)
  /\ known' = [known EXCEPT ![q] = Truth(s)]
  /\ UNCHANGED payload

Leaves(q) == Steady /\ Left(q)

LEMMA StreamTells ==
  ASSUME TypeOK, NEW q \in Subscriptions,
         \/ \E s, token \in SessionIds : OpenStream(q, s, token)
         \/ StreamStep(q)
  PROVE  \/ Quiet
         \/ \E s \in issued : Opens(q, s)
         \/ Leaves(q)
<1> USE TypeParts
<1>1. ASSUME NEW s \in SessionIds, NEW token \in SessionIds, OpenStream(q, s, token)
      PROVE  s \in issued /\ Opens(q, s)
  <2>1. /\ Admitted(s, token) /\ Refreshed(s) /\ Broker!Subscribe(q, s)
        /\ known' = [known EXCEPT ![q] = Truth(s)]
        /\ UNCHANGED <<buffers, payload>>
    BY <1>1 DEF OpenStream, ingest, Truth
  <2>2. s \in issued
    BY <2>1, LiveStore, ReadingsInTime DEF Admitted
  <2>3. QED
    BY <2>1, <2>2, RefreshedSteady DEF Opens
<1>2. CASE StreamStep(q)
  <2>1. Steady
    BY <1>2, IdleSteady DEF StreamStep, manager, ingest
  <2>2. CASE Sent(q)
    BY <2>1, <2>2 DEF Quiet
  <2>3. CASE Left(q)
    BY <2>1, <2>3 DEF Leaves
  <2>4. QED
    BY <1>2, <2>2, <2>3 DEF StreamStep
<1>3. QED
  BY <1>1, <1>2

LEMMA TellingStep ==
  ASSUME TypeOK, [Next]_vars
  PROVE  \/ Quiet
         \/ \E s, told : Tells(s, told) /\ Pauses(s)
         \/ \E q \in Subscriptions, s \in issued : Opens(q, s)
         \/ \E q \in Subscriptions : Leaves(q)
<1> USE TypeParts
<1>1. CASE UNCHANGED vars
  BY <1>1, IdleSteady, QuietSilence DEF vars, manager, ingest
<1>2. CASE Tick
  BY <1>2, IdleSteady, QuietSilence DEF Tick, ingest
<1>3. CASE Http
  BY <1>3, HttpSteady, HttpEffects, QuietSilence
<1>4. ASSUME NEW c \in Links, NEW token \in SessionIds, Authenticate(c, token) PROVE Quiet
  <2>1. /\ Refreshed(target[c]) /\ UNCHANGED buffers
        /\ PublishEvent(target[c], trackers, NothingTold)
    BY <1>4 DEF Authenticate
  <2>2. QED
    BY <2>1, RefreshedSteady, QuietPublishing
<1>5. ASSUME NEW c \in Links,
             (\E s \in SessionIds : Connect(c, s)) \/ AuthFails(c) \/ LinkEnds(c)
      PROVE  Quiet
  <2>1. UNCHANGED <<buffers, events, clients>>
    BY <1>5, SilentLinkEffects DEF ingest
  <2>2. Steady
    <3>1. Swept(clock) \/ UNCHANGED sessions
      BY <1>5 DEF Connect, AuthFails, LinkEnds, manager
    <3>2. QED
      BY <2>1, <3>1, ReadingsInTime, SweptSteady, IdleSteady
  <2>3. QED
    BY <2>1, <2>2, QuietSilence
<1>6. ASSUME NEW c \in AudioLinks, AudioStep(c)
      PROVE  Quiet \/ \E s, told : Tells(s, told) /\ Pauses(s)
  <2>1. PICK s : s = target[c]
    OBVIOUS
  <2>2. QED
    BY <1>6, <2>1, AudioTells
<1>7. ASSUME NEW c \in ControlLinks, ControlStep(c)
      PROVE  Quiet \/ \E s, told : Tells(s, told) /\ Pauses(s)
  <2>1. PICK s : s = target[c]
    OBVIOUS
  <2>2. QED
    BY <1>7, <2>1, ControlTells
<1>8. QED
  BY <1>1, <1>2, <1>3, <1>4, <1>5, <1>6, <1>7, StreamTells DEF Next

LEMMA PauseStep ==
  ASSUME TypeOK, [Next]_vars
  PROVE  \A s \in DOMAIN sessions \cap DOMAIN sessions' : Pauses(s)
<1> SUFFICES ASSUME NEW s \in DOMAIN sessions \cap DOMAIN sessions' PROVE Pauses(s)
  OBVIOUS
<1>1. ASSUME Steady PROVE Pauses(s)
  <2>1. s \in issued
    BY DEF TypeOK
  <2>2. QED
    BY <1>1, <2>1 DEF Steady, Pauses, Active
<1>2. ASSUME NEW x, NEW told, Tells(x, told), Pauses(x) PROVE Pauses(s)
  BY <1>2 DEF Tells, Pauses
<1>3. QED
  BY <1>1, <1>2, TellingStep DEF Quiet, Opens, Leaves

\* A paused session records again in the step of a control client that resumes
\* it, and in no other, whatever frames the audio links go on sending
\* (main.py:584-599, 788-791).
THEOREM PausesHold == Spec => PauseHolds
<1>1. TypeOK /\ [Next]_vars
        => [\A s \in DOMAIN sessions \cap DOMAIN sessions' :
              sessions[s].state = "paused" /\ sessions'[s].state = "recording"
                => \E c \in ControlLinks : target[c] = s /\ CommandObeyed(c, "resume")]_vars
  BY PauseStep DEF Pauses, Resumes
<1>2. QED
  BY <1>1, TypeCorrect, PTL DEF Spec, PauseHolds

-----------------------------------------------------------------------------
(* Reading what waits.                                                     *)

\* The client was told of an ending, or will be.
Warned(w, k) == TellsEnding(k) \/ \E i \in DOMAIN w : TellsEnding(w[i])

\* One more event: what it tells is now the truth, the rest was so before.
LEMMA AppendedBelief ==
  ASSUME NEW S, NEW w \in Seq(S), NEW p \in S, NEW k, NEW T, NEW U,
         Believes(w, k, T), U = Overlaid(T, p), DOMAIN U = DOMAIN T
  PROVE  Believes(Append(w, p), k, U)
<1> DEFINE v == Append(w, p)
           n == Len(w) + 1
<1>1. /\ Len(w) \in Nat /\ DOMAIN w = 1..Len(w) /\ DOMAIN v = 1..n /\ v[n] = p
      /\ \A i \in DOMAIN w : i \in DOMAIN v /\ v[i] = w[i]
  BY AppendProperties
<1> HIDE DEF v
<1>2. SUFFICES ASSUME NEW field \in DOMAIN U
               PROVE  /\ \A i \in DOMAIN v : Newest(v, i, field) => v[i][field] = U[field]
                      /\ field \in DOMAIN k /\ (\A i \in DOMAIN v : field \notin DOMAIN v[i])
                           => k[field] = U[field]
  BY DEF Believes, v
<1>3. field \in DOMAIN T /\ U[field] = IF field \in DOMAIN p THEN p[field] ELSE T[field]
  BY DEF Overlaid
<1>4. n \in DOMAIN v /\ \A i \in DOMAIN v : i # n => i \in DOMAIN w /\ n > i
  BY <1>1
<1>5. CASE field \in DOMAIN p
  <2>1. \A i \in DOMAIN v : Newest(v, i, field) => i = n
    BY <1>1, <1>4, <1>5 DEF Newest
  <2>2. QED
    BY <1>1, <1>3, <1>4, <1>5, <2>1
<1>6. CASE field \notin DOMAIN p
  <2>1. ASSUME NEW i \in DOMAIN v, Newest(v, i, field)
        PROVE  i \in DOMAIN w /\ Newest(w, i, field)
    <3>1. i \in DOMAIN w /\ v[i] = w[i]
      BY <1>1, <1>4, <1>6, <2>1 DEF Newest
    <3>2. QED
      BY <1>1, <2>1, <3>1 DEF Newest
  <2>2. QED
    BY <1>1, <1>3, <1>6, <2>1 DEF Believes
<1>7. QED
  BY <1>5, <1>6

\* The events that wait after the first.
LEMMA LaterEvents ==
  ASSUME NEW S, NEW w \in Seq(S), w # <<>>
  PROVE  /\ Tail(w) \in Seq(S) /\ Len(Tail(w)) = Len(w) - 1
         /\ Head(w) = w[1] /\ Head(w) \in S /\ 1 \in DOMAIN w
         /\ \A i \in DOMAIN Tail(w) :
              i \in Nat /\ i + 1 \in DOMAIN w /\ Tail(w)[i] = w[i + 1]
         /\ \A i \in DOMAIN w : i \in Nat /\ (i # 1 => i - 1 \in DOMAIN Tail(w))
BY HeadTailProperties

\* The newest to tell a field is so without the first event as well.
LEMMA LaterNewest ==
  ASSUME NEW S, NEW w \in Seq(S), w # <<>>, NEW field
  PROVE  /\ \A i \in DOMAIN Tail(w) :
              Newest(Tail(w), i, field)
                => Newest(w, i + 1, field) /\ Tail(w)[i] = w[i + 1] /\ i + 1 \in DOMAIN w
         /\ (\A i \in DOMAIN Tail(w) : field \notin DOMAIN Tail(w)[i])
              => \A i \in DOMAIN w : i # 1 => field \notin DOMAIN w[i]
<1> DEFINE v == Tail(w)
<1>1. /\ \A i \in DOMAIN v : i \in Nat /\ i + 1 \in DOMAIN w /\ v[i] = w[i + 1]
      /\ \A i \in DOMAIN w : i \in Nat /\ (i # 1 => i - 1 \in DOMAIN v)
  BY LaterEvents
<1> HIDE DEF v
<1>2. \A i \in DOMAIN w : i # 1 => w[i] = v[i - 1]
  BY <1>1
<1>3. ASSUME NEW i \in DOMAIN v, Newest(v, i, field) PROVE Newest(w, i + 1, field)
  <2>1. SUFFICES ASSUME NEW j \in DOMAIN w, j > i + 1 PROVE field \notin DOMAIN w[j]
    BY <1>1, <1>3 DEF Newest
  <2>2. j - 1 \in DOMAIN v /\ j - 1 > i /\ w[j] = v[j - 1]
    BY <1>1, <1>2, <2>1
  <2>3. QED
    BY <1>3, <2>2 DEF Newest
<1>4. QED
  BY <1>1, <1>2, <1>3 DEF v

\* The first event is lost: what it told is not believed any more.
LEMMA DroppedBelief ==
  ASSUME NEW S, NEW w \in Seq(S), w # <<>>, NEW k, NEW T, Believes(w, k, T)
  PROVE  Believes(Tail(w), Without(k, DOMAIN Head(w)), T)
<1>1. SUFFICES ASSUME NEW field \in DOMAIN T
               PROVE  /\ \A i \in DOMAIN Tail(w) :
                           Newest(Tail(w), i, field) => Tail(w)[i][field] = T[field]
                      /\ field \in DOMAIN Without(k, DOMAIN Head(w))
                           /\ (\A i \in DOMAIN Tail(w) : field \notin DOMAIN Tail(w)[i])
                           => Without(k, DOMAIN Head(w))[field] = T[field]
  BY DEF Believes
<1>2. \A i \in DOMAIN Tail(w) : Newest(Tail(w), i, field) => Tail(w)[i][field] = T[field]
  BY LaterNewest DEF Believes
<1>3. ASSUME field \in DOMAIN Without(k, DOMAIN Head(w)),
             \A i \in DOMAIN Tail(w) : field \notin DOMAIN Tail(w)[i]
      PROVE  Without(k, DOMAIN Head(w))[field] = T[field]
  <2>1. /\ field \in DOMAIN k /\ field \notin DOMAIN Head(w)
        /\ Without(k, DOMAIN Head(w))[field] = k[field]
    BY <1>3 DEF Without
  <2>2. \A i \in DOMAIN w : field \notin DOMAIN w[i]
    <3>1. \A i \in DOMAIN w : i # 1 => field \notin DOMAIN w[i]
      BY <1>3, LaterNewest
    <3>2. Head(w) = w[1]
      BY LaterEvents
    <3>3. QED
      BY <2>1, <3>1, <3>2
  <2>3. QED
    BY <2>1, <2>2 DEF Believes
<1>4. QED
  BY <1>2, <1>3

\* The first event is read.
LEMMA ReadBelief ==
  ASSUME NEW S, NEW w \in Seq(S), w # <<>>, NEW k, NEW T, Believes(w, k, T)
  PROVE  Believes(Tail(w), Overlaid(k, Head(w)), T)
<1>1. SUFFICES ASSUME NEW field \in DOMAIN T
               PROVE  /\ \A i \in DOMAIN Tail(w) :
                           Newest(Tail(w), i, field) => Tail(w)[i][field] = T[field]
                      /\ field \in DOMAIN Overlaid(k, Head(w))
                           /\ (\A i \in DOMAIN Tail(w) : field \notin DOMAIN Tail(w)[i])
                           => Overlaid(k, Head(w))[field] = T[field]
  BY DEF Believes
<1>2. \A i \in DOMAIN Tail(w) : Newest(Tail(w), i, field) => Tail(w)[i][field] = T[field]
  BY LaterNewest DEF Believes
<1>3. ASSUME field \in DOMAIN Overlaid(k, Head(w)),
             \A i \in DOMAIN Tail(w) : field \notin DOMAIN Tail(w)[i]
      PROVE  Overlaid(k, Head(w))[field] = T[field]
  <2>1. \A i \in DOMAIN w : i # 1 => field \notin DOMAIN w[i]
    BY <1>3, LaterNewest
  <2>2. 1 \in DOMAIN w /\ Head(w) = w[1] /\ \A i \in DOMAIN w : i \in Nat
    BY LaterEvents
  <2>3. CASE field \in DOMAIN Head(w)
    <3>1. Newest(w, 1, field)
      BY <2>1, <2>2, <2>3 DEF Newest
    <3>2. QED
      BY <1>3, <2>2, <2>3, <3>1 DEF Overlaid, Believes
  <2>4. CASE field \notin DOMAIN Head(w)
    BY <1>3, <2>1, <2>2, <2>4 DEF Overlaid, Believes
  <2>5. QED
    BY <2>3, <2>4
<1>4. QED
  BY <1>2, <1>3

LEMMA AppendedWarning ==
  ASSUME NEW S, NEW w \in Seq(S), NEW p \in S, NEW k, Warned(Append(w, p), k)
  PROVE  Warned(w, k) \/ TellsEnding(p)
<1>1. /\ DOMAIN Append(w, p) = 1..(Len(w) + 1) /\ DOMAIN w = 1..Len(w) /\ Len(w) \in Nat
      /\ Append(w, p)[Len(w) + 1] = p
      /\ \A i \in DOMAIN w : Append(w, p)[i] = w[i]
  BY AppendProperties
<1>2. \A i \in DOMAIN Append(w, p) : i = Len(w) + 1 \/ i \in DOMAIN w
  BY <1>1
<1>3. QED
  BY <1>1, <1>2 DEF Warned

LEMMA LaterWarning ==
  ASSUME NEW S, NEW w \in Seq(S), w # <<>>, NEW k
  PROVE  /\ Warned(Tail(w), Without(k, DOMAIN Head(w))) => Warned(w, k)
         /\ Warned(Tail(w), Overlaid(k, Head(w))) => Warned(w, k)
<1>1. (\E i \in DOMAIN Tail(w) : TellsEnding(Tail(w)[i])) => \E i \in DOMAIN w : TellsEnding(w[i])
  BY LaterEvents
<1>2. TellsEnding(Without(k, DOMAIN Head(w))) => TellsEnding(k)
  BY DEF TellsEnding, Without
<1>3. TellsEnding(Overlaid(k, Head(w))) => TellsEnding(k) \/ TellsEnding(w[1])
  BY LaterEvents DEF TellsEnding, Overlaid
<1>4. 1 \in DOMAIN w
  BY LaterEvents
<1>5. QED
  BY <1>1, <1>2, <1>3, <1>4 DEF Warned

-----------------------------------------------------------------------------
(* What the clients know.                                                  *)

Fields == {"state", "profile", "depth_ms"}

\* payload and known are those of the queue of subscription q.
Aligned(q) ==
  /\ payload[q] \in Seq(Payloads) /\ Len(payload[q]) = Len(queue[q])
  /\ lost[q] = 0 => DOMAIN known[q] = Fields

\* What the properties say of one subscription: the client is not wrong, and
\* has no ending to hear of, where there is none.
Informed(q, s) ==
  s \in DOMAIN sessions /\ sessions[s].state \in Active
    => Believes(payload[q], known[q], Truth(s)) /\ ~Warned(payload[q], known[q])

\* Nothing waits for a subscription that does not exist yet.
Fresh ==
  \A q \in Subscriptions :
    session_id[q] = NoSession => payload[q] = <<>> /\ queue[q] = <<>>

ClientsInv ==
  /\ DOMAIN payload = Subscriptions /\ DOMAIN known = Subscriptions /\ Fresh
  /\ \A q \in Broker!Open : Aligned(q) /\ Informed(q, session_id[q])

\* Every open subscription is that of a session that was created and is in the
\* store of subscribers, and its client can work out what it need know.
StreamsInv == OnlyKnownSessions /\ Broker!Registered /\ Unopened /\ ClientsInv

\* What a step does to the client of q, whose session s it changes by what told
\* tells.
Hears(q, s, told) ==
  /\ Aligned(q)'
  /\ Warned(payload[q], known[q])' => Warned(payload[q], known[q]) \/ TellsEnding(told)
  /\ Believes(payload[q], known[q], Truth(s)) /\ Overlaid(Truth(s), told) = Truth(s)'
       => Believes(payload[q], known[q], Truth(s))'

\* What told has to say of the step, for s to be known still where it is active.
Suffices(s, told) ==
  s \in DOMAIN sessions' /\ sessions'[s].state \in Active
    => /\ s \in DOMAIN sessions /\ sessions[s].state \in Active
       /\ Overlaid(Truth(s), told) = Truth(s)' /\ ~TellsEnding(told)

LEMMA HearsInformed ==
  ASSUME NEW q, NEW s, NEW told, Informed(q, s), Hears(q, s, told), Suffices(s, told)
  PROVE  Aligned(q)' /\ Informed(q, s)'
BY DEF Informed, Hears, Suffices

LEMMA PayloadFields ==
  /\ NothingTold \in Payloads /\ ~TellsEnding(NothingTold)
  /\ \A told \in Payloads : DOMAIN told \subseteq Fields
  /\ \A s : DOMAIN Truth(s) = Fields /\ DOMAIN Truth(s)' = Fields
<1>1. NothingTold \in Payloads /\ ~TellsEnding(NothingTold) /\ DOMAIN NothingTold = {}
  BY DEF Payloads, TellsEnding, NothingTold
<1>2. \A r, b : DOMAIN Told(r) \subseteq Fields /\ DOMAIN ToldWithDepth(r, b) = Fields
  BY DEF Told, ToldWithDepth, Fields
<1>3. QED
  BY <1>1, <1>2 DEF Payloads, Truth

\* The session of an open subscription, and that it is the one publish finds.
LEMMA OpenSession ==
  ASSUME TypeOK, StreamsInv, NEW q \in Broker!Open
  PROVE  /\ q \in Subscriptions /\ session_id[q] \in issued /\ session_id[q] \in SessionIds
         /\ \A s : q \in Broker!SubscribersOf(s) <=> s = session_id[q]
<1>1. q \in Subscriptions /\ session_id[q] \in SessionIds
  BY TypeParts DEF Broker!Open, Broker!TypeOK
<1>2. q \in Broker!SubscribersOf(session_id[q])
  BY <1>1 DEF StreamsInv, Broker!Registered
<1>3. session_id[q] \in issued
  BY <1>2 DEF Broker!SubscribersOf, StreamsInv, OnlyKnownSessions
<1>4. ASSUME NEW s, q \in Broker!SubscribersOf(s)
      PROVE  s = session_id[q]
  <2>1. s \in SessionIds
    BY <1>4, TypeParts DEF Broker!SubscribersOf, Broker!TypeOK
  <2>2. QED
    BY <1>4, <2>1 DEF StreamsInv, Broker!Registered
<1>5. QED
  BY <1>1, <1>2, <1>3, <1>4

\* A subscription that does not exist yet is reached by no event.
LEMMA UnopenedUnreached ==
  ASSUME TypeOK, StreamsInv, NEW q \in Subscriptions, session_id[q] = NoSession, NEW s
  PROVE  q \notin Broker!SubscribersOf(s)
<1>1. SUFFICES ASSUME q \in Broker!SubscribersOf(s) PROVE FALSE
  OBVIOUS
<1>2. s \in SessionIds
  BY <1>1, TypeParts DEF Broker!SubscribersOf, Broker!TypeOK
<1>3. q \in Broker!Open
  BY <1>1, <1>2 DEF StreamsInv, Broker!Registered
<1>4. QED
  BY <1>3 DEF Broker!Open

-----------------------------------------------------------------------------
\* The client of a queue that the step does not touch.
LEMMA LeftAlone ==
  ASSUME NEW q, NEW s, Aligned(q),
         payload'[q] = payload[q], known'[q] = known[q],
         queue'[q] = queue[q], lost'[q] = lost[q]
  PROVE  Hears(q, s, NothingTold)
<1>1. Aligned(q)'
  BY DEF Aligned
<1>2. Overlaid(Truth(s), NothingTold) = Truth(s)
  BY TellingRecords DEF Truth
<1>3. QED
  BY <1>1, <1>2 DEF Hears

\* The client that has an event put in its queue.
LEMMA DeliveredTo ==
  ASSUME TypeOK, ClientsInv, NEW q \in Subscriptions, NEW s, NEW told \in Payloads,
         Aligned(q), q \in Broker!SubscribersOf(s), Telling(s, told)
  PROVE  Hears(q, s, told)
<1> DEFINE e == published[s] + 1
<1>1. CASE Broker!Full(q)
  <2> DEFINE w == Tail(payload[q])
             k == Without(known[q], DOMAIN Head(payload[q]))
  <2>1. /\ payload'[q] = Append(w, told) /\ known'[q] = k
        /\ queue'[q] = Append(Tail(queue[q]), e) /\ lost'[q] = lost[q] + 1
    BY <1>1 DEF Telling, Delivered, Broker!Publish, Broker!Offered
  <2>2. /\ payload[q] \in Seq(Payloads) /\ Len(payload[q]) = Len(queue[q])
        /\ queue[q] \in Seq(Nat) /\ lost[q] \in Nat /\ Len(queue[q]) > 0
    BY <1>1, TypeParts, BackendAssumption DEF Aligned, Broker!TypeOK, Broker!Full
  <2>3. payload[q] # <<>> /\ queue[q] # <<>>
    BY <2>2, EmptySeq
  <2>4. /\ w \in Seq(Payloads) /\ Len(w) = Len(payload[q]) - 1
        /\ Tail(queue[q]) \in Seq(Nat) /\ Len(Tail(queue[q])) = Len(queue[q]) - 1
    BY <2>2, <2>3, LaterEvents
  <2>5. Believes(payload[q], known[q], Truth(s)) => Believes(w, k, Truth(s))
    BY <2>2, <2>3, DroppedBelief
  <2>6. Warned(w, k) => Warned(payload[q], known[q])
    BY <2>2, <2>3, LaterWarning
  <2> HIDE DEF w, k, e
  <2>7. Aligned(q)'
    <3>1. /\ Append(w, told) \in Seq(Payloads) /\ Len(Append(w, told)) = Len(w) + 1
          /\ Len(Append(Tail(queue[q]), e)) = Len(Tail(queue[q])) + 1
      BY <2>4, AppendProperties
    <3>2. lost'[q] # 0
      BY <2>1, <2>2
    <3>3. QED
      BY <2>1, <2>2, <2>4, <3>1, <3>2 DEF Aligned
  <2>8. Overlaid(Truth(s), told) = Truth(s)' /\ Believes(w, k, Truth(s))
          => Believes(Append(w, told), k, Truth(s)')
    BY <2>4, AppendedBelief, PayloadFields
  <2>9. Warned(Append(w, told), k) => Warned(w, k) \/ TellsEnding(told)
    BY <2>4, AppendedWarning
  <2>10. QED
    BY <2>1, <2>5, <2>6, <2>7, <2>8, <2>9 DEF Hears
<1>2. CASE ~Broker!Full(q)
  <2>1. /\ payload'[q] = Append(payload[q], told) /\ known'[q] = known[q]
        /\ queue'[q] = Append(queue[q], e) /\ lost'[q] = lost[q]
    BY <1>2 DEF Telling, Delivered, Broker!Publish, Broker!Offered
  <2>2. /\ payload[q] \in Seq(Payloads) /\ Len(payload[q]) = Len(queue[q])
        /\ queue[q] \in Seq(Nat)
    BY TypeParts DEF Aligned, Broker!TypeOK
  <2> HIDE DEF e
  <2>3. Aligned(q)'
    <3>1. /\ Append(payload[q], told) \in Seq(Payloads)
          /\ Len(Append(payload[q], told)) = Len(payload[q]) + 1
          /\ Len(Append(queue[q], e)) = Len(queue[q]) + 1
      BY <2>2, AppendProperties
    <3>2. QED
      BY <2>1, <2>2, <3>1 DEF Aligned
  <2>4. Overlaid(Truth(s), told) = Truth(s)' /\ Believes(payload[q], known[q], Truth(s))
          => Believes(Append(payload[q], told), known[q], Truth(s)')
    BY <2>2, AppendedBelief, PayloadFields
  <2>5. Warned(Append(payload[q], told), known[q])
          => Warned(payload[q], known[q]) \/ TellsEnding(told)
    BY <2>2, AppendedWarning
  <2>6. QED
    BY <2>1, <2>3, <2>4, <2>5 DEF Hears
<1>3. QED
  BY <1>1, <1>2

\* The client that is sent its oldest event.
LEMMA SentTo ==
  ASSUME TypeOK, ClientsInv, NEW q \in Subscriptions, NEW s, Aligned(q), Sent(q)
  PROVE  Hears(q, s, NothingTold)
<1> DEFINE w == Tail(payload[q])
           k == Overlaid(known[q], Head(payload[q]))
<1>1. /\ payload'[q] = w /\ known'[q] = k
      /\ queue[q] # <<>> /\ queue'[q] = Tail(queue[q]) /\ lost'[q] = lost[q]
  BY TypeParts DEF Sent, Broker!Receive, ClientsInv, Broker!TypeOK
<1>2. /\ payload[q] \in Seq(Payloads) /\ Len(payload[q]) = Len(queue[q])
      /\ queue[q] \in Seq(Nat)
  BY TypeParts DEF Aligned, Broker!TypeOK
<1>3. payload[q] # <<>>
  BY <1>1, <1>2, EmptySeq
<1>4. /\ w \in Seq(Payloads) /\ Len(w) = Len(payload[q]) - 1 /\ Head(payload[q]) \in Payloads
      /\ Len(Tail(queue[q])) = Len(queue[q]) - 1
  BY <1>1, <1>2, <1>3, LaterEvents
<1>5. Believes(payload[q], known[q], Truth(s)) => Believes(w, k, Truth(s))
  BY <1>2, <1>3, ReadBelief
<1>6. Warned(w, k) => Warned(payload[q], known[q])
  BY <1>2, <1>3, LaterWarning
<1>7. DOMAIN known[q] = Fields => DOMAIN k = Fields
  <2>1. DOMAIN Head(payload[q]) \subseteq Fields
    BY <1>4, PayloadFields
  <2>2. DOMAIN k = DOMAIN known[q] \cup DOMAIN Head(payload[q])
    BY DEF Overlaid
  <2>3. QED
    BY <2>1, <2>2
<1> HIDE DEF w, k
<1>8. Aligned(q)'
  BY <1>1, <1>2, <1>4, <1>7 DEF Aligned
<1>9. Overlaid(Truth(s), NothingTold) = Truth(s)
  BY TellingRecords DEF Truth
<1>10. QED
  BY <1>1, <1>5, <1>6, <1>8, <1>9 DEF Hears

-----------------------------------------------------------------------------
\* Where nothing a reader knows of s changes, nothing need be said.
LEMMA SteadySuffices ==
  ASSUME Steady, NEW s \in issued
  PROVE  Suffices(s, NothingTold)
<1>1. Overlaid(Truth(s), NothingTold) = Truth(s)
  BY TellingRecords DEF Truth
<1>2. ASSUME s \in DOMAIN sessions', sessions'[s].state \in Active
      PROVE  s \in DOMAIN sessions /\ sessions[s].state \in Active /\ Truth(s)' = Truth(s)
  BY <1>2 DEF Steady, Truth, ToldWithDepth
<1>3. QED
  BY <1>1, <1>2, PayloadFields DEF Suffices

\* Of the session that changes the event says enough, and of no other is
\* there anything to say.
LEMMA TellsSuffices ==
  ASSUME NEW x, NEW told, Tells(x, told)
  PROVE  Suffices(x, told) /\ \A s : s # x => Suffices(s, NothingTold)
<1>1. Suffices(x, told)
  <2>1. SUFFICES ASSUME sessions'[x].state \in Active PROVE ~TellsEnding(told)
    BY DEF Suffices, Tells
  <2>2. Overlaid(Truth(x), told) = Truth(x)' /\ Truth(x)'.state = sessions'[x].state
    BY DEF Tells, Truth, ToldWithDepth
  <2>3. "state" \in DOMAIN told => Overlaid(Truth(x), told).state = told.state
    BY DEF Overlaid
  <2>4. QED
    BY <2>1, <2>2, <2>3 DEF TellsEnding
<1>2. ASSUME NEW s, s # x PROVE Suffices(s, NothingTold)
  <2>1. Overlaid(Truth(s), NothingTold) = Truth(s)
    BY TellingRecords DEF Truth
  <2>2. s \in DOMAIN sessions' => s \in DOMAIN sessions /\ sessions'[s] = sessions[s]
                                  /\ Ingest!BufferOf(s)' = Ingest!BufferOf(s)
    BY <1>2 DEF Tells
  <2>3. QED
    BY <2>1, <2>2, PayloadFields DEF Suffices, Truth
<1>3. QED
  BY <1>1, <1>2

\* An event reaches the clients of its session, and no other.
LEMMA TellingClients ==
  ASSUME TypeOK, StreamsInv, NEW x, NEW told \in Payloads, Telling(x, told)
  PROVE  /\ DOMAIN payload' = Subscriptions /\ DOMAIN known' = Subscriptions /\ Fresh'
         /\ Broker!Open' = Broker!Open /\ session_id' = session_id
         /\ \A q \in Broker!Open :
              Hears(q, session_id[q], IF session_id[q] = x THEN told ELSE NothingTold)
<1>1. session_id' = session_id /\ closed' = closed
  BY DEF Telling, Broker!Publish
<1>2. DOMAIN payload' = Subscriptions /\ DOMAIN known' = Subscriptions
  BY DEF Telling, Delivered
<1>3. \A q \in Subscriptions : q \notin Broker!SubscribersOf(x)
        => /\ payload'[q] = payload[q] /\ known'[q] = known[q]
           /\ queue'[q] = queue[q] /\ lost'[q] = lost[q]
  BY DEF Telling, Delivered, Broker!Publish
<1>4. Fresh'
  BY <1>1, <1>3, UnopenedUnreached DEF StreamsInv, ClientsInv, Fresh
<1>5. ASSUME NEW q \in Broker!Open
      PROVE  Hears(q, session_id[q], IF session_id[q] = x THEN told ELSE NothingTold)
  <2>1. /\ q \in Subscriptions /\ Aligned(q) /\ ClientsInv
        /\ q \in Broker!SubscribersOf(x) <=> x = session_id[q]
    BY OpenSession DEF StreamsInv, ClientsInv
  <2>2. CASE session_id[q] = x
    BY <2>1, <2>2, DeliveredTo
  <2>3. CASE session_id[q] # x
    BY <1>3, <2>1, <2>3, LeftAlone
  <2>4. QED
    BY <2>2, <2>3
<1>6. QED
  BY <1>1, <1>2, <1>4, <1>5 DEF Broker!Open

LEMMA ToldClients ==
  ASSUME TypeOK, StreamsInv, NEW x, NEW told, Tells(x, told)
  PROVE  ClientsInv'
<1>1. /\ DOMAIN payload' = Subscriptions /\ DOMAIN known' = Subscriptions /\ Fresh'
      /\ Broker!Open' = Broker!Open /\ session_id' = session_id
      /\ \A q \in Broker!Open :
           Hears(q, session_id[q], IF session_id[q] = x THEN told ELSE NothingTold)
  BY TellingClients DEF Tells
<1>2. ASSUME NEW q \in Broker!Open PROVE Aligned(q)' /\ Informed(q, session_id[q])'
  <2>1. PICK s : s = session_id[q]
    OBVIOUS
  <2>2. Informed(q, s)
    BY <2>1 DEF StreamsInv, ClientsInv
  <2>3. PICK m : Hears(q, s, m) /\ Suffices(s, m)
    BY <1>1, <2>1, TellsSuffices
  <2>4. Aligned(q)' /\ Informed(q, s)'
    BY <2>2, <2>3, HearsInformed
  <2>5. QED
    BY <1>1, <2>1, <2>4 DEF Informed
<1>3. QED
  BY <1>1, <1>2 DEF ClientsInv

LEMMA QuietClients ==
  ASSUME TypeOK, StreamsInv, Quiet
  PROVE  ClientsInv'
<1> DEFINE Goal ==
      /\ DOMAIN payload' = Subscriptions /\ DOMAIN known' = Subscriptions /\ Fresh'
      /\ Broker!Open' = Broker!Open /\ session_id' = session_id
      /\ \A q \in Broker!Open : Hears(q, session_id[q], NothingTold)
<1>0. ClientsInv /\ Steady /\ \A q \in Broker!Open : q \in Subscriptions /\ Aligned(q)
  BY OpenSession DEF StreamsInv, ClientsInv, Quiet
<1>1. ASSUME UNCHANGED <<events, clients>> PROVE Goal
  <2>1. UNCHANGED <<payload, known, queue, lost, session_id, closed>>
    BY <1>1 DEF events, clients
  <2>2. QED
    BY <1>0, <2>1, LeftAlone DEF ClientsInv, Fresh, Broker!Open
<1>2. ASSUME NEW s, Telling(s, NothingTold) PROVE Goal
  <2>1. NothingTold \in Payloads
    BY PayloadFields
  <2>2. QED
    BY <1>2, <2>1, TellingClients
<1>3. ASSUME NEW p \in Subscriptions, Sent(p) PROVE Goal
  <2>1. /\ p \in Broker!Open /\ session_id' = session_id /\ closed' = closed /\ lost' = lost
        /\ queue' = [queue EXCEPT ![p] = Tail(queue[p])]
        /\ known' = [known EXCEPT ![p] = Overlaid(known[p], Head(payload[p]))]
        /\ payload' = [payload EXCEPT ![p] = Tail(payload[p])]
    BY <1>3 DEF Sent, Broker!Receive
  <2>2. DOMAIN queue = Subscriptions
    BY TypeParts DEF Broker!TypeOK
  <2>3. \A q \in Subscriptions \ {p} :
          /\ payload'[q] = payload[q] /\ known'[q] = known[q]
          /\ queue'[q] = queue[q] /\ lost'[q] = lost[q]
    BY <1>0, <2>1, <2>2 DEF ClientsInv
  <2>4. DOMAIN payload' = Subscriptions /\ DOMAIN known' = Subscriptions
    BY <1>0, <2>1 DEF ClientsInv
  <2>5. Fresh'
    BY <1>0, <2>1, <2>3 DEF ClientsInv, Fresh, Broker!Open
  <2>6. \A q \in Broker!Open : Hears(q, session_id[q], NothingTold)
    BY <1>0, <1>3, <2>3, LeftAlone, SentTo
  <2>7. QED
    BY <2>1, <2>4, <2>5, <2>6 DEF Broker!Open
<1>4. Goal
  BY <1>1, <1>2, <1>3 DEF Quiet
<1>5. ASSUME NEW q \in Broker!Open PROVE Aligned(q)' /\ Informed(q, session_id[q])'
  <2>1. PICK s : s = session_id[q]
    OBVIOUS
  <2>2. Informed(q, s) /\ s \in issued
    BY <1>0, <2>1, OpenSession DEF ClientsInv
  <2>3. Hears(q, s, NothingTold) /\ Suffices(s, NothingTold)
    BY <1>0, <1>4, <2>1, <2>2, SteadySuffices
  <2>4. Aligned(q)' /\ Informed(q, s)'
    BY <2>2, <2>3, HearsInformed
  <2>5. QED
    BY <1>4, <2>1, <2>4 DEF Informed
<1>6. QED
  BY <1>4, <1>5 DEF ClientsInv

\* A client that the step does not touch, where the sessions are steady.
LEMMA SteadyClient ==
  ASSUME TypeOK, StreamsInv, Steady, NEW q \in Broker!Open,
         payload'[q] = payload[q], known'[q] = known[q],
         queue'[q] = queue[q], lost'[q] = lost[q], session_id'[q] = session_id[q]
  PROVE  Aligned(q)' /\ Informed(q, session_id[q])'
<1>1. PICK s : s = session_id[q]
  OBVIOUS
<1>2. Aligned(q) /\ Informed(q, s) /\ s \in issued
  BY <1>1, OpenSession DEF StreamsInv, ClientsInv
<1>3. Aligned(q)' /\ Informed(q, s)'
  BY <1>2, LeftAlone, SteadySuffices, HearsInformed
<1>4. QED
  BY <1>1, <1>3 DEF Informed

LEMMA OpenedClients ==
  ASSUME TypeOK, StreamsInv, NEW p \in Subscriptions, NEW x \in issued, Opens(p, x)
  PROVE  ClientsInv'
<1>0. x \in SessionIds /\ x # NoSession /\ Broker!TypeOK /\ Unopened /\ ClientsInv
  BY TypeParts, BackendAssumption DEF StreamsInv, ManagerTyped
<1>1. /\ Steady /\ Broker!Open' = Broker!Open \cup {p}
      /\ p \notin Broker!Open /\ session_id'[p] = x
      /\ \A q \in Subscriptions \ {p} : session_id'[q] = session_id[q]
  BY <1>0, SubscribeOpens DEF Opens
<1>2. /\ session_id[p] = NoSession /\ queue' = queue /\ lost' = lost /\ payload' = payload
      /\ known' = [known EXCEPT ![p] = Truth(x)]
  BY DEF Opens, Broker!Subscribe
<1>3. known'[p] = Truth(x) /\ \A q \in Subscriptions \ {p} : known'[q] = known[q]
  BY <1>0, <1>2 DEF ClientsInv
<1>4. payload[p] = <<>> /\ queue[p] = <<>>
  BY <1>0, <1>2 DEF ClientsInv, Fresh
<1>5. Aligned(p)'
  <2>1. <<>> \in Seq(Payloads)
    BY EmptySeq
  <2>2. QED
    BY <1>2, <1>3, <1>4, <2>1, PayloadFields DEF Aligned
<1>6. Informed(p, x)'
  <2>1. SUFFICES ASSUME x \in DOMAIN sessions', sessions'[x].state \in Active
                 PROVE  Believes(<<>>, Truth(x), Truth(x)') /\ ~Warned(<<>>, Truth(x))
    BY <1>2, <1>3, <1>4 DEF Informed
  <2>2. Truth(x)' = Truth(x) /\ sessions[x].state \in Active
    BY <1>1, <2>1 DEF Steady, Truth, ToldWithDepth
  <2>3. DOMAIN <<>> = {}
    BY EmptySeq
  <2>4. ~TellsEnding(Truth(x))
    BY <2>2 DEF TellsEnding, Truth, ToldWithDepth
  <2>5. QED
    BY <2>2, <2>3, <2>4 DEF Believes, Warned
<1>7. ASSUME NEW q \in Broker!Open
      PROVE  Aligned(q)' /\ Informed(q, session_id[q])' /\ session_id'[q] = session_id[q]
  <2>1. q \in Subscriptions \ {p}
    BY <1>1, OpenSession
  <2>2. QED
    BY <1>1, <1>2, <1>3, <2>1, SteadyClient
<1>8. Fresh'
  BY <1>0, <1>1, <1>2 DEF ClientsInv, Fresh
<1>9. DOMAIN payload' = Subscriptions /\ DOMAIN known' = Subscriptions
  BY <1>0, <1>2 DEF ClientsInv
<1>10. \A q \in Broker!Open' : Aligned(q)' /\ Informed(q, session_id[q])'
  BY <1>1, <1>5, <1>6, <1>7 DEF Informed
<1>11. QED
  BY <1>8, <1>9, <1>10 DEF ClientsInv

LEMMA LeftClients ==
  ASSUME TypeOK, StreamsInv, NEW p \in Subscriptions, Leaves(p)
  PROVE  ClientsInv'
<1>0. ClientsInv /\ Broker!TypeOK
  BY TypeParts DEF StreamsInv
<1>1. Steady /\ Broker!Open' = Broker!Open \ {p} /\ session_id' = session_id /\ p \in Broker!Open
  BY <1>0, CloseLeaves DEF Leaves, Left
<1>2. /\ queue' = queue /\ lost' = lost
      /\ known' = [known EXCEPT ![p] = NothingTold]
      /\ payload' = [payload EXCEPT ![p] = <<>>]
  BY DEF Leaves, Left, Broker!Close, Broker!records
<1>3. /\ DOMAIN payload' = Subscriptions /\ DOMAIN known' = Subscriptions
      /\ \A q \in Subscriptions \ {p} : payload'[q] = payload[q] /\ known'[q] = known[q]
  BY <1>0, <1>2 DEF ClientsInv
<1>4. Fresh'
  BY <1>0, <1>1, <1>2, <1>3 DEF ClientsInv, Fresh, Broker!Open
<1>5. ASSUME NEW q \in Broker!Open \ {p}
      PROVE  Aligned(q)' /\ Informed(q, session_id[q])'
  <2>1. q \in Subscriptions \ {p} /\ q \in Broker!Open
    BY <1>5, OpenSession
  <2>2. QED
    BY <1>1, <1>2, <1>3, <2>1, SteadyClient
<1>6. QED
  BY <1>1, <1>3, <1>4, <1>5 DEF ClientsInv

-----------------------------------------------------------------------------
LEMMA InitStreams == Init => StreamsInv
<1> SUFFICES ASSUME Init PROVE StreamsInv
  OBVIOUS
<1>1. Broker!Open = {}
  BY DEF Init, Broker!Init, Broker!Open
<1>2. \A s : Broker!SubscribersOf(s) = {}
  BY DEF Init, Broker!Init, Broker!SubscribersOf
<1>3. Broker!Registered
  BY <1>1, <1>2 DEF Broker!Registered
<1>4. Unopened /\ Fresh /\ DOMAIN payload = Subscriptions /\ DOMAIN known = Subscriptions
  BY DEF Init, Broker!Init, Unopened, Fresh
<1>5. QED
  BY <1>1, <1>3, <1>4, InitKnown DEF StreamsInv, ClientsInv

LEMMA StreamsStep == TypeOK /\ StreamsInv /\ [Next]_vars => StreamsInv'
<1> SUFFICES ASSUME TypeOK, StreamsInv, [Next]_vars PROVE StreamsInv'
  OBVIOUS
<1>1. Effects
  BY StepEffects
<1>2. OnlyKnownSessions'
  BY <1>1, KnownStep DEF StreamsInv
<1>3. Broker!Registered' /\ Unopened'
  BY <1>1, TypeParts, RegisteredStep DEF StreamsInv, Effects, ManagerTyped
<1>4. ClientsInv'
  BY TellingStep, QuietClients, ToldClients, OpenedClients, LeftClients
<1>5. QED
  BY <1>2, <1>3, <1>4 DEF StreamsInv

LEMMA StreamsAlways == Spec => []StreamsInv
BY InitStreams, StreamsStep, TypeCorrect, PTL DEF Spec

\* As long as a session is not stopped, a client that reads what waits for it
\* believes nothing false of the session's state, profile and audio queue; and
\* it knows all three unless an event was dropped from its queue, which leaves
\* it unsure of no more than that event told.  So for any number of clients,
\* links and sessions (main.py:262-268, 402-420, 602-632, 676-695).
THEOREM StreamsAreTruthful == Spec => []StreamsTellTruth
<1>1. TypeOK /\ StreamsInv => StreamsTellTruth
  BY PayloadFields DEF StreamsInv, ClientsInv, Aligned, Informed, StreamsTellTruth
<1>2. QED
  BY <1>1, StreamsAlways, TypeCorrect, PTL

\* Whoever was told that a session is stopping, or will be by an event that
\* waits, is never contradicted: the audio, the commands and the requests still
\* on their way do not make the session active again (main.py:134-143, 262-268,
\* 377-420, 584-599).
THEOREM EndingsStayFinal == Spec => []EndingsAreFinal
<1>1. StreamsInv => EndingsAreFinal
  BY DEF StreamsInv, ClientsInv, Informed, Warned, EndingsAreFinal
<1>2. QED
  BY <1>1, StreamsAlways, PTL

-----------------------------------------------------------------------------
(* Sessions that are gone.                                                 *)

\* A link of session s gives up in this step.
Quits(s) == \E c \in Links : target[c] = s /\ link[c] = "open" /\ link'[c] = "closing"

LEMMA QuittingLink ==
  ASSUME LinksTyped, NEW c \in Links, Goes(c, "open", "closing")
  PROVE  Quits(target[c])
BY DEF LinksTyped, Goes, Quits

\* A step that publishes for a session keeps the session, or loses a link of it.
LEMMA PublishingKeepsOrQuits ==
  ASSUME TypeOK, [Next]_vars, NEW s \in SessionIds, published'[s] # published[s]
  PROVE  s \in DOMAIN sessions' \/ Quits(s)
<1> USE TypeParts
<1>0. clock \in Readings /\ clock \in Int /\ published \in [SessionIds -> 0..MaxEvents]
  BY ReadingsInTime DEF Broker!TypeOK
<1>1. ASSUME NEW x, NEW t, NEW told, PublishEvent(x, t, told) PROVE x = s
  BY <1>0, <1>1 DEF PublishEvent, Broker!Publish
<1>2. ASSUME NEW c \in Links, NEW t, NEW told, PublishEvent(target[c], t, told),
             Goes(c, "open", "closing")
      PROVE  Quits(s)
  BY <1>1, <1>2, QuittingLink
<1>3. ~(UNCHANGED vars \/ Tick)
  BY DEF vars, events, Tick
<1>4. ~Http
  BY HttpEffects DEF events
<1>5. ASSUME NEW c \in Links, (\E x \in SessionIds : Connect(c, x)) \/ AuthFails(c)
                              \/ AckSent(c) \/ LinkEnds(c)
      PROVE  FALSE
  BY <1>5, SilentLinkEffects DEF events
<1>6. ASSUME NEW c \in Links, NEW token \in SessionIds, Authenticate(c, token)
      PROVE  s \in DOMAIN sessions'
  <2>1. /\ target[c] \in DOMAIN Live(clock) /\ Refreshed(target[c])
        /\ PublishEvent(target[c], trackers, NothingTold)
    BY <1>6 DEF Authenticate, Admitted
  <2>2. s = target[c] /\ Served(s, Touched(sessions[s], clock), clock)
    BY <1>1, <2>1 DEF Refreshed
  <2>3. QED
    BY <2>2 DEF Served, Stored
<1>7. ASSUME NEW c \in AudioLinks, AudioStep(c) PROVE s \in DOMAIN sessions' \/ Quits(s)
  <2>1. c \in Links
    BY DEF Links
  <2>2. ASSUME NEW f \in Frames, FrameAccepted(c, f) PROVE s \in DOMAIN sessions'
    <3>1. s = target[c]
      BY <1>1, <2>2 DEF FrameAccepted
    <3>2. PICK now \in Readings : Served(s, Heard(sessions[s], now), now)
      BY <2>2, <3>1 DEF FrameAccepted
    <3>3. QED
      BY <3>2 DEF Served, Stored
  <2>3. ASSUME NEW f \in Frames, FrameNotAccepted(c, f) PROVE Quits(s)
    BY <1>2, <2>1, <2>3 DEF FrameNotAccepted
  <2>4. ASSUME NEW f \in Frames, FrameNotBuffered(c, f) PROVE Quits(s)
    BY <1>2, <2>1, <2>4 DEF FrameNotBuffered
  <2>5. CASE FrameRejected(c)
    BY <1>2, <2>1, <2>5 DEF FrameRejected
  <2>6. QED
    BY <1>7, <2>2, <2>3, <2>4, <2>5 DEF AudioStep
<1>8. ASSUME NEW c \in ControlLinks, ControlStep(c) PROVE s \in DOMAIN sessions' \/ Quits(s)
  <2>1. c \in Links
    BY DEF Links
  <2>2. ASSUME NEW r, Acknowledged(c, r) PROVE s \in DOMAIN sessions'
    <3>1. s = target[c] /\ Served(target[c], r, clock)
      BY <1>1, <2>2, AckPublishes DEF Acknowledged
    <3>2. QED
      BY <3>1 DEF Served, Stored
  <2>3. ASSUME NEW command \in Command, CommandRefused(c, command)
        PROVE  s \in DOMAIN sessions' \/ Quits(s)
    <3>1. s = target[c] /\ Swept(clock)
      BY <1>1, <2>3, AckPublishes DEF CommandRefused
    <3>2. CASE s \in DOMAIN Live(clock)
      BY <3>1, <3>2 DEF Swept
    <3>3. CASE s \notin DOMAIN Live(clock)
      BY <1>2, <2>1, <2>3, <3>1, <3>3, AckPublishes DEF CommandRefused
    <3>4. QED
      BY <3>2, <3>3
  <2>4. CASE CommandMalformed(c)
    BY <1>2, <2>1, <2>4, AckPublishes DEF CommandMalformed
  <2>5. QED
    BY <1>5, <1>8, <2>1, <2>2, <2>3, <2>4 DEF ControlStep, CommandObeyed, SetProfile
<1>9. ASSUME NEW q \in Subscriptions,
             (\E x, token \in SessionIds : OpenStream(q, x, token)) \/ StreamStep(q)
      PROVE  FALSE
  BY <1>9 DEF OpenStream, StreamStep, Sent, Left, Broker!Subscribe, Broker!Receive, Broker!Close, Broker!records
<1>10. QED
  BY <1>3, <1>4, <1>5, <1>6, <1>7, <1>8, <1>9 DEF Next

\* Once a session is deleted, each event still published under its id closes
\* one of the links that were open when it was deleted (main.py:166-173,
\* 215-260, 306-313, 388-400).
THEOREM GoneSessionsFallSilent == Spec => GoneGoesQuiet
<1>1. TypeOK /\ [Next]_vars
        => [\A s \in issued :
              s \notin DOMAIN sessions' /\ published'[s] # published[s]
                => \E c \in Links : target[c] = s /\ link[c] = "open" /\ link'[c] = "closing"]_vars
  BY PublishingKeepsOrQuits DEF Quits, TypeOK
<1>2. QED
  BY <1>1, TypeCorrect, PTL DEF Spec, GoneGoesQuiet

=============================================================================
