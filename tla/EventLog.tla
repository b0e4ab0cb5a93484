------------------------------ MODULE EventLog ------------------------------
(***************************************************************************)
(* What the event broker promises its subscribers, without its queues: the *)
(* events of a session are a log, a reader joins at its end and then reads *)
(* it event by event, and a reader that falls more than Size events behind *)
(* is carried forward over the oldest ones.  So a reader sees events in    *)
(* the order they were published, each at most once, only events published *)
(* after it joined, and misses one only by being Size behind.              *)
(***************************************************************************)
EXTENDS Integers

CONSTANTS SessionIds, Readers, Size, NoSession

VARIABLES
  length,        \* length[s]: events published for session s
  session,       \* session[r]: the session r reads, NoSession when it does not
  cursor,        \* cursor[r]: events of that session r has read or missed
  last           \* last[r]: number of the event r read last, 0 for none

vars == <<length, session, cursor, last>>

Init ==
  /\ length = [s \in SessionIds |-> 0]
  /\ session = [r \in Readers |-> NoSession]
  /\ cursor = [r \in Readers |-> 0]
  /\ last = [r \in Readers |-> 0]

Join(r, s) ==
  /\ session[r] = NoSession
  /\ session' = [session EXCEPT ![r] = s]
  /\ cursor' = [cursor EXCEPT ![r] = length[s]]
  /\ last' = [last EXCEPT ![r] = 0]
  /\ UNCHANGED length

Leave(r) ==
  /\ session[r] # NoSession
  /\ session' = [session EXCEPT ![r] = NoSession]
  /\ cursor' = [cursor EXCEPT ![r] = 0]
  /\ UNCHANGED <<length, last>>

Log(s) ==
  /\ length' = [length EXCEPT ![s] = @ + 1]
  /\ cursor' = [r \in Readers |->
                  IF session[r] = s /\ (length[s] + 1) - cursor[r] > Size
                  THEN (length[s] + 1) - Size ELSE cursor[r]]
  /\ UNCHANGED <<session, last>>

Read(r) ==
  /\ session[r] # NoSession
  /\ cursor[r] < length[session[r]]
  /\ cursor' = [cursor EXCEPT ![r] = @ + 1]
  /\ last' = [last EXCEPT ![r] = cursor[r] + 1]
  /\ UNCHANGED <<length, session>>

Next ==
  \/ \E s \in SessionIds : Log(s) \/ \E r \in Readers : Join(r, s)
  \/ \E r \in Readers : Leave(r) \/ Read(r)

Spec == Init /\ [][Next]_vars

=============================================================================
