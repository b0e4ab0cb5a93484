--------------------------- MODULE Events_proofs ---------------------------
(***************************************************************************)
(* Theorems about EventBroker, for every set of sessions and subscriptions *)
(* and every queue size, and about EventStream, which uses the broker, for *)
(* every set of streams.                                                   *)
(*                                                                         *)
(* The argument for the broker.  Publish reaches q exactly when q is       *)
(* registered, so the queues stay aligned with the events published only   *)
(* because the store of subscribers is exact: Registered and NewestInOrder *)
(* are inductive together, with the fact that a subscription not opened    *)
(* yet is untouched.  NewestInOrder then says which event is at the head   *)
(* of a queue, which is what makes Receive a Read of the log at its        *)
(* cursor.  The same exactness makes the counter of a session move with    *)
(* the losses of just its subscriptions.                                   *)
(*                                                                         *)
(* The argument for the streams.  Every step of a stream is a step of the  *)
(* broker or none, so what is proved of the broker holds of the streams.   *)
(* What the broker says of a queue is then related to what the handler     *)
(* sent: an event is taken only into an empty hand, and the hand is        *)
(* emptied only by sending or by leaving the loop for good.                *)
(***************************************************************************)
EXTENDS EventStream, Sums_proofs, SequenceTheorems, FiniteSetTheorems, TLAPS

\* A subscription that does not exist yet has received and lost nothing.
Untouched ==
  \A q \in Subscriptions :
    session_id[q] = NoSession => queue[q] = <<>> /\ q \notin closed
                                 /\ taken[q] = 0 /\ lost[q] = 0 /\ last[q] = 0

BrokerInv ==
  TypeOK /\ Untouched /\ Registered /\ NewestInOrder /\ NothingUnaccounted

-----------------------------------------------------------------------------
\* The store of subscribers, seen through the lookup publish does.
LEMMA SubscribersInStore ==
  ASSUME TypeOK, NEW s \in SessionIds
  PROVE  SubscribersOf(s) \subseteq Subscriptions
BY DEF TypeOK, SubscribersOf

\* Writing the members of one session leaves those of the others.
LEMMA StoreWith ==
  ASSUME NEW s \in SessionIds, NEW members, subscribers' = With(s, members)
  PROVE  /\ DOMAIN subscribers' = DOMAIN subscribers \cup {s}
         /\ subscribers'[s] = members
         /\ \A x \in DOMAIN subscribers : x # s => subscribers'[x] = subscribers[x]
         /\ SubscribersOf(s)' = members
         /\ \A x \in SessionIds : x # s => SubscribersOf(x)' = SubscribersOf(x)
<1>1. /\ DOMAIN subscribers' = DOMAIN subscribers \cup {s}
      /\ subscribers'[s] = members
      /\ \A x \in DOMAIN subscribers : x # s => subscribers'[x] = subscribers[x]
  BY DEF With
<1>2. SubscribersOf(s)' = members
  BY <1>1 DEF SubscribersOf
<1>3. \A x \in SessionIds : x # s => SubscribersOf(x)' = SubscribersOf(x)
  BY <1>1 DEF SubscribersOf
<1>4. QED
  BY <1>1, <1>2, <1>3

\* What unsubscribe leaves, whether or not the entry goes.
LEMMA StoreWithout ==
  ASSUME TypeOK, NEW s \in SessionIds, NEW q \in Subscriptions,
         subscribers' = Unsubscribed(q, s)
  PROVE  /\ DOMAIN subscribers' \subseteq SessionIds
         /\ \A x \in DOMAIN subscribers' :
              subscribers'[x] \in (SUBSET Subscriptions) \ {{}}
         /\ SubscribersOf(s)' = SubscribersOf(s) \ {q}
         /\ \A x \in SessionIds : x # s => SubscribersOf(x)' = SubscribersOf(x)
<1> DEFINE rest == SubscribersOf(s) \ {q}
<1>1. CASE rest = {}
  <2>1. subscribers' = [x \in DOMAIN subscribers \ {s} |-> subscribers[x]]
    BY <1>1 DEF Unsubscribed
  <2>2. SubscribersOf(s)' = {}
    BY <2>1 DEF SubscribersOf
  <2>3. \A x \in SessionIds : x # s => SubscribersOf(x)' = SubscribersOf(x)
    BY <2>1 DEF SubscribersOf
  <2>4. QED
    BY <1>1, <2>1, <2>2, <2>3 DEF TypeOK
<1>2. CASE rest # {}
  <2>1. subscribers' = With(s, rest)
    BY <1>2 DEF Unsubscribed
  <2>2. rest \in (SUBSET Subscriptions) \ {{}}
    BY <1>2, SubscribersInStore
  <2> HIDE DEF rest
  <2>3. /\ DOMAIN subscribers' = DOMAIN subscribers \cup {s}
        /\ subscribers'[s] = rest
        /\ \A x \in DOMAIN subscribers : x # s => subscribers'[x] = subscribers[x]
        /\ SubscribersOf(s)' = rest
        /\ \A x \in SessionIds : x # s => SubscribersOf(x)' = SubscribersOf(x)
    BY <2>1, StoreWith
  <2>4. \A x \in DOMAIN subscribers' :
          subscribers'[x] \in (SUBSET Subscriptions) \ {{}}
    BY <2>2, <2>3 DEF TypeOK
  <2>5. QED
    BY <2>3, <2>4 DEF TypeOK, rest
<1>3. QED
  BY <1>1, <1>2

\* The sequence w holds the numbers after m, in order.
Consecutive(w, m) == \A i \in DOMAIN w : w[i] = m + i

\* Consecutive numbers stay consecutive when the next one is appended.
LEMMA AppendConsecutive ==
  ASSUME NEW w \in Seq(Nat), NEW m \in Int, Consecutive(w, m),
         NEW e \in Nat, e = m + Len(w) + 1
  PROVE  /\ Append(w, e) \in Seq(Nat)
         /\ Len(Append(w, e)) = Len(w) + 1
         /\ Consecutive(Append(w, e), m)
<1> DEFINE a == Append(w, e)
<1>1. /\ a \in Seq(Nat)
      /\ Len(a) = Len(w) + 1
      /\ \A i \in 1..Len(w) : a[i] = w[i]
      /\ a[Len(w) + 1] = e
  BY AppendProperties
<1>2. Len(w) \in Nat /\ DOMAIN w = 1..Len(w)
  BY LenProperties
<1> HIDE DEF a
<1>3. DOMAIN a = 1..(Len(w) + 1)
  BY <1>1, <1>2, LenProperties
<1>4. ASSUME NEW i \in 1..(Len(w) + 1)
      PROVE  a[i] = m + i
  <2>1. i = Len(w) + 1 \/ i \in 1..Len(w)
    BY <1>2
  <2>2. CASE i = Len(w) + 1
    BY <1>1, <1>2, <2>2
  <2>3. CASE i \in 1..Len(w)
    BY <1>1, <1>2, <2>3 DEF Consecutive
  <2>4. QED
    BY <2>1, <2>2, <2>3
<1>5. QED
  BY <1>1, <1>3, <1>4 DEF a, Consecutive

\* Without its first number, a consecutive sequence starts one later.
LEMMA TailConsecutive ==
  ASSUME NEW w \in Seq(Nat), w # <<>>, NEW m \in Int, Consecutive(w, m)
  PROVE  /\ Head(w) = m + 1
         /\ Tail(w) \in Seq(Nat)
         /\ Len(Tail(w)) = Len(w) - 1
         /\ Len(w) \in Nat \ {0}
         /\ Consecutive(Tail(w), m + 1)
<1> DEFINE t == Tail(w)
<1>1. /\ Head(w) = w[1]
      /\ t \in Seq(Nat)
      /\ Len(t) = Len(w) - 1
      /\ \A i \in 1..Len(t) : t[i] = w[i + 1]
  BY HeadTailProperties
<1>2. Len(w) \in Nat \ {0} /\ DOMAIN w = 1..Len(w)
  BY LenProperties, EmptySeq
<1>3. DOMAIN t = 1..Len(t)
  BY <1>1, LenProperties
<1> HIDE DEF t
<1>4. ASSUME NEW i \in 1..Len(t)
      PROVE  t[i] = (m + 1) + i
  <2>1. t[i] = w[i + 1] /\ i + 1 \in DOMAIN w
    BY <1>1, <1>2
  <2>2. w[i + 1] = m + (i + 1)
    BY <2>1 DEF Consecutive
  <2>3. QED
    BY <2>1, <2>2
<1>5. Consecutive(t, m + 1)
  BY <1>3, <1>4 DEF Consecutive
<1>6. Head(w) = m + 1
  <2>1. 1 \in DOMAIN w
    BY <1>2
  <2>2. QED
    BY <1>1, <2>1 DEF Consecutive
<1>7. QED
  BY <1>1, <1>2, <1>5, <1>6 DEF t

\* A queue that holds the newest events up to n + Len(queue[q]) holds the
\* newest up to the one offered next; it grows until it is full.
LEMMA OfferedNewest ==
  ASSUME NEW q \in Subscriptions, queue[q] \in Seq(Nat),
         Len(queue[q]) <= QueueSize,
         NEW n \in Int, Consecutive(queue[q], n),
         NEW e \in Nat, e = n + Len(queue[q]) + 1
  PROVE  /\ Offered(q, e) \in Seq(Nat)
         /\ Full(q) => Len(Offered(q, e)) = QueueSize
         /\ ~Full(q) => Len(Offered(q, e)) = Len(queue[q]) + 1
         /\ Len(Offered(q, e)) <= QueueSize
         /\ Consecutive(Offered(q, e), e - Len(Offered(q, e)))
<1>0. QueueSize \in Nat \ {0} /\ Len(queue[q]) \in Nat
  BY EventBrokerAssumption, LenProperties
<1>1. CASE Full(q)
  <2>1. Len(queue[q]) = QueueSize /\ queue[q] # <<>>
    BY <1>0, <1>1 DEF Full
  <2> DEFINE t == Tail(queue[q])
  <2>2. /\ t \in Seq(Nat)
        /\ Len(t) = Len(queue[q]) - 1
        /\ Consecutive(t, n + 1)
    BY <2>1, TailConsecutive
  <2>3. Offered(q, e) = Append(t, e)
    BY <1>1 DEF Offered
  <2> HIDE DEF t
  <2>4. n + 1 \in Int /\ e = (n + 1) + Len(t) + 1
    BY <1>0, <2>1, <2>2
  <2>5. /\ Offered(q, e) \in Seq(Nat)
        /\ Len(Offered(q, e)) = Len(t) + 1
        /\ Consecutive(Offered(q, e), n + 1)
    BY <2>2, <2>3, <2>4, AppendConsecutive
  <2> DEFINE k == e - Len(Offered(q, e))
  <2>6. Len(Offered(q, e)) = QueueSize
    BY <1>0, <2>1, <2>2, <2>5
  <2>7. k = n + 1
    BY <1>0, <2>1, <2>6
    <2> HIDE DEF k
  <2>8. Consecutive(Offered(q, e), k)
    BY <2>5, <2>7
  <2>9. Consecutive(Offered(q, e), e - Len(Offered(q, e)))
    BY <2>8, Zenon DEF k
  <2>10. Full(q) /\ Len(Offered(q, e)) <= QueueSize
    BY <1>0, <1>1, <2>6
  <2>11. QED
    BY <2>5, <2>6, <2>9, <2>10, Zenon
<1>2. CASE ~Full(q)
  <2>1. Len(queue[q]) < QueueSize
    BY <1>0, <1>2 DEF Full
  <2>2. Offered(q, e) = Append(queue[q], e)
    BY <1>2 DEF Offered
  <2>3. /\ Offered(q, e) \in Seq(Nat)
        /\ Len(Offered(q, e)) = Len(queue[q]) + 1
        /\ Consecutive(Offered(q, e), n)
    BY <2>2, AppendConsecutive
  <2> DEFINE k == e - Len(Offered(q, e))
  <2>4. k = n
    BY <1>0, <2>3
  <2> HIDE DEF k
  <2>5. Consecutive(Offered(q, e), k)
    BY <2>3, <2>4
  <2>6. Consecutive(Offered(q, e), e - Len(Offered(q, e)))
    BY <2>5, Zenon DEF k
  <2>7. Len(Offered(q, e)) <= QueueSize
    BY <1>0, <2>1, <2>3
  <2>8. QED
    BY <1>2, <2>3, <2>6, <2>7, Zenon
<1>3. QED
  BY <1>1, <1>2

-----------------------------------------------------------------------------
\* An open subscription, and the queue and the events behind it.
LEMMA OpenFacts ==
  ASSUME TypeOK, NewestInOrder, NEW q \in Open
  PROVE  /\ q \in Subscriptions
         /\ session_id[q] \in SessionIds
         /\ published[session_id[q]] \in Nat
         /\ queue[q] \in Seq(Nat)
         /\ Len(queue[q]) \in Nat
         /\ Len(queue[q]) <= QueueSize
         /\ joined[q] \in Nat /\ taken[q] \in Nat /\ lost[q] \in Nat
         /\ joined[q] <= published[session_id[q]] - Len(queue[q])
         /\ Consecutive(queue[q], published[session_id[q]] - Len(queue[q]))
<1>1. q \in Subscriptions /\ session_id[q] \in SessionIds
  BY DEF TypeOK, Open
<1>2. published[session_id[q]] \in Nat
  BY <1>1, EventBrokerAssumption DEF TypeOK
<1>3. queue[q] \in Seq(Nat) /\ Len(queue[q]) \in Nat
  BY <1>1, LenProperties DEF TypeOK
<1>4. Consecutive(queue[q], published[session_id[q]] - Len(queue[q]))
  BY DEF NewestInOrder, Consecutive
<1>5. QED
  BY <1>1, <1>2, <1>3, <1>4 DEF TypeOK, NewestInOrder

\* Only the open subscriptions of s are offered an event of s.
LEMMA ReachedOpen ==
  ASSUME Registered, NEW s \in SessionIds, NEW q \in Subscriptions
  PROVE  q \in SubscribersOf(s) <=> q \in Open /\ session_id[q] = s
BY DEF Registered

-----------------------------------------------------------------------------
(* Each operation preserves the invariant.                                 *)

\* What the invariant says of one open subscription.
Aligned(q) ==
  /\ Len(queue[q]) <= QueueSize
  /\ joined[q] <= published[session_id[q]] - Len(queue[q])
  /\ Consecutive(queue[q], published[session_id[q]] - Len(queue[q]))
  /\ published[session_id[q]] - joined[q] = taken[q] + Len(queue[q]) + lost[q]

LEMMA AllAligned ==
  NewestInOrder /\ NothingUnaccounted <=> \A q \in Open : Aligned(q)
BY DEF NewestInOrder, NothingUnaccounted, Aligned, Consecutive

LEMMA InitBroker == Init => BrokerInv
<1> SUFFICES ASSUME Init PROVE BrokerInv
  OBVIOUS
<1>1. Open = {}
  BY DEF Init, Open
<1>2. \A s \in SessionIds : SubscribersOf(s) = {}
  BY DEF Init, SubscribersOf
<1>3. TypeOK
  BY EventBrokerAssumption, EmptySeq DEF Init, TypeOK, Zeros
<1>4. Untouched
  BY DEF Init, Untouched, Zeros
<1>5. Registered
  BY <1>1, <1>2 DEF Registered
<1>6. NewestInOrder /\ NothingUnaccounted
  BY <1>1, AllAligned
<1>7. QED
  BY <1>3, <1>4, <1>5, <1>6 DEF BrokerInv

LEMMA SubscribeKeeps ==
  ASSUME BrokerInv, NEW q \in Subscriptions, NEW s \in SessionIds, Subscribe(q, s)
  PROVE  BrokerInv'
<1>0. TypeOK /\ Untouched /\ Registered /\ NewestInOrder /\ NothingUnaccounted
  BY DEF BrokerInv
<1>1. /\ subscribers' = With(s, SubscribersOf(s) \cup {q})
      /\ session_id[q] = NoSession
      /\ session_id' = [session_id EXCEPT ![q] = s]
      /\ joined' = [joined EXCEPT ![q] = published[s]]
      /\ UNCHANGED <<queue, dropped, closed, published, taken, lost, last>>
  BY DEF Subscribe
<1>2. q \notin Open /\ Open' = Open \cup {q} /\ s # NoSession
  BY <1>0, <1>1, EventBrokerAssumption DEF Open, TypeOK, Untouched
<1>3. \A p \in Open : p # q /\ session_id'[p] = session_id[p] /\ joined'[p] = joined[p]
  BY <1>0, <1>1, <1>2 DEF TypeOK, Open
<1>4. session_id'[q] = s /\ joined'[q] = published[s]
  BY <1>0, <1>1 DEF TypeOK
<1>5. /\ DOMAIN subscribers' = DOMAIN subscribers \cup {s}
      /\ subscribers'[s] = SubscribersOf(s) \cup {q}
      /\ \A x \in DOMAIN subscribers : x # s => subscribers'[x] = subscribers[x]
      /\ SubscribersOf(s)' = SubscribersOf(s) \cup {q}
      /\ \A x \in SessionIds : x # s => SubscribersOf(x)' = SubscribersOf(x)
  BY <1>1, StoreWith
<1>6. TypeOK'
  <2>1. /\ DOMAIN subscribers' \subseteq SessionIds
        /\ \A x \in DOMAIN subscribers' :
             subscribers'[x] \in (SUBSET Subscriptions) \ {{}}
    BY <1>0, <1>5, SubscribersInStore DEF TypeOK
  <2>2. published[s] \in Nat
    BY <1>0, EventBrokerAssumption DEF TypeOK
  <2>3. /\ session_id' \in [Subscriptions -> SessionIds \cup {NoSession}]
        /\ joined' \in [Subscriptions -> Nat]
    BY <1>0, <1>1, <2>2 DEF TypeOK
  <2>4. QED
    BY <1>0, <1>1, <2>1, <2>3 DEF TypeOK
<1>7. Untouched'
  BY <1>0, <1>1, <1>2 DEF Untouched, TypeOK
<1>8. Registered'
  BY <1>0, <1>2, <1>3, <1>4, <1>5 DEF Registered
<1>9. \A p \in Open' : Aligned(p)'
  <2>1. ASSUME NEW p \in Open
        PROVE  Aligned(p)'
    <3>1. Aligned(p)
      BY <1>0, AllAligned
    <3>2. QED
      BY <1>1, <1>3, <3>1 DEF Aligned
  <2>2. Aligned(q)'
    <3>1. queue[q] = <<>> /\ taken[q] = 0 /\ lost[q] = 0
      BY <1>0, <1>1 DEF Untouched
    <3>2. published[s] \in Nat /\ Len(<<>>) = 0 /\ 0 <= QueueSize
      BY <1>0, EventBrokerAssumption DEF TypeOK
    <3>3. Consecutive(<<>>, published[s] - Len(<<>>))
      BY DEF Consecutive
    <3>4. QED
      BY <1>1, <1>4, <3>1, <3>2, <3>3 DEF Aligned
  <2>3. QED
    BY <1>2, <2>1, <2>2
<1>10. (NewestInOrder /\ NothingUnaccounted)'
  BY <1>9 DEF NewestInOrder, NothingUnaccounted, Aligned, Consecutive
<1>11. QED
  BY <1>6, <1>7, <1>8, <1>10 DEF BrokerInv

LEMMA CloseKeeps ==
  ASSUME BrokerInv, NEW q \in Subscriptions, Close(q)
  PROVE  BrokerInv'
<1>0. TypeOK /\ Untouched /\ Registered /\ NewestInOrder /\ NothingUnaccounted
  BY DEF BrokerInv
<1>1. /\ q \in Open
      /\ closed' = closed \cup {q}
      /\ subscribers' = Unsubscribed(q, session_id[q])
      /\ UNCHANGED <<queue, dropped, session_id, published, joined, taken, lost, last>>
  BY DEF Close, records
<1>2. Open' = Open \ {q} /\ session_id[q] \in SessionIds
  BY <1>0, <1>1 DEF Open, TypeOK
<1>3. /\ DOMAIN subscribers' \subseteq SessionIds
      /\ \A x \in DOMAIN subscribers' :
           subscribers'[x] \in (SUBSET Subscriptions) \ {{}}
      /\ SubscribersOf(session_id[q])' = SubscribersOf(session_id[q]) \ {q}
      /\ \A x \in SessionIds :
           x # session_id[q] => SubscribersOf(x)' = SubscribersOf(x)
  BY <1>0, <1>1, <1>2, StoreWithout
<1>4. TypeOK'
  BY <1>0, <1>1, <1>3 DEF TypeOK
<1>5. Untouched'
  BY <1>0, <1>1 DEF Untouched, Open
<1>6. Registered'
  BY <1>0, <1>1, <1>2, <1>3 DEF Registered
<1>7. \A p \in Open' : Aligned(p)'
  BY <1>0, <1>1, <1>2, AllAligned DEF Aligned
<1>8. (NewestInOrder /\ NothingUnaccounted)'
  BY <1>7 DEF NewestInOrder, NothingUnaccounted, Aligned, Consecutive
<1>9. QED
  BY <1>4, <1>5, <1>6, <1>8 DEF BrokerInv

\* The bookkeeping of a queue of k events, of p published since j: t taken and
\* l lost, when it grows, drops its oldest event for a new one, or is read.
LEMMA Bookkeeping ==
  ASSUME NEW p \in Int, NEW j \in Int, NEW t \in Int, NEW k \in Int, NEW l \in Int,
         j <= p - k, p - j = t + k + l
  PROVE  /\ j <= (p + 1) - (k + 1) /\ (p + 1) - j = t + (k + 1) + l
         /\ j <= (p + 1) - k /\ (p + 1) - j = t + k + (l + 1)
         /\ j <= p - (k - 1) /\ p - j = (t + 1) + (k - 1) + l
OBVIOUS

\* A publish counts a number of drops.
LEMMA DropsCountable ==
  ASSUME TypeOK, NEW s \in SessionIds
  PROVE  Cardinality(Overflowing(s)) \in Nat
<1>1. Overflowing(s) \subseteq Subscriptions
  BY SubscribersInStore DEF Overflowing
<1>2. QED
  BY <1>1, FS_Subset, FS_CardinalityType, EventBrokerAssumption

LEMMA PublishKeeps ==
  ASSUME BrokerInv, NEW s \in SessionIds, Publish(s)
  PROVE  BrokerInv'
<1> DEFINE e == published[s] + 1
<1>0. TypeOK /\ Untouched /\ Registered /\ NewestInOrder /\ NothingUnaccounted
  BY DEF BrokerInv
<1>1. /\ published[s] < MaxEvents
      /\ published' = [published EXCEPT ![s] = e]
      /\ queue' = [q \in Subscriptions |->
                     IF q \in SubscribersOf(s) THEN Offered(q, e) ELSE queue[q]]
      /\ dropped' = [dropped EXCEPT ![s] = @ + Cardinality(Overflowing(s))]
      /\ lost' = [q \in Subscriptions |->
                    IF q \in SubscribersOf(s) /\ Full(q) THEN lost[q] + 1 ELSE lost[q]]
      /\ UNCHANGED <<subscribers, session_id, closed, joined, taken, last>>
  BY DEF Publish
<1>2. published[s] \in Nat /\ e \in Nat /\ e <= MaxEvents
  BY <1>0, <1>1, EventBrokerAssumption DEF TypeOK
<1> HIDE DEF e
<1>3. Open' = Open /\ \A x \in SessionIds : SubscribersOf(x)' = SubscribersOf(x)
  BY <1>1 DEF Open, SubscribersOf
<1>4. published'[s] = e /\ \A x \in SessionIds : x # s => published'[x] = published[x]
  BY <1>0, <1>1 DEF TypeOK
\* A queue the event reaches is aligned with one event more.
<1>5. ASSUME NEW q \in Open, session_id[q] = s
      PROVE  queue'[q] \in Seq(Nat) /\ Aligned(q)'
  <2>1. /\ q \in Subscriptions /\ q \in SubscribersOf(s)
        /\ queue[q] \in Seq(Nat) /\ Len(queue[q]) \in Nat
        /\ Len(queue[q]) <= QueueSize
        /\ joined[q] \in Nat /\ taken[q] \in Nat /\ lost[q] \in Nat
        /\ joined[q] <= published[s] - Len(queue[q])
        /\ Consecutive(queue[q], published[s] - Len(queue[q]))
    BY <1>0, <1>5, OpenFacts, ReachedOpen
  <2>2. published[s] - joined[q] = taken[q] + Len(queue[q]) + lost[q]
    BY <1>0, <1>5 DEF NothingUnaccounted
  <2> DEFINE p == published[s]
             j == joined[q]
             t == taken[q]
             k == Len(queue[q])
             l == lost[q]
  <2>3. /\ p \in Int /\ j \in Int /\ t \in Int /\ k \in Int /\ l \in Int
        /\ j <= p - k /\ p - j = t + k + l
    BY <1>2, <2>1, <2>2
  <2> HIDE DEF p, j, t, k, l
  <2>4. /\ j <= (p + 1) - (k + 1) /\ (p + 1) - j = t + (k + 1) + l
        /\ j <= (p + 1) - k /\ (p + 1) - j = t + k + (l + 1)
    BY <2>3, Bookkeeping
  <2> DEFINE n == published[s] - Len(queue[q])
  <2>5. n \in Int /\ e = n + Len(queue[q]) + 1
    BY <1>2, <2>1 DEF e
  <2>6. Consecutive(queue[q], n)
    BY <2>1
  <2> HIDE DEF n
  <2>7. /\ Offered(q, e) \in Seq(Nat)
        /\ Full(q) => Len(Offered(q, e)) = QueueSize
        /\ ~Full(q) => Len(Offered(q, e)) = Len(queue[q]) + 1
        /\ Len(Offered(q, e)) <= QueueSize
        /\ Consecutive(Offered(q, e), e - Len(Offered(q, e)))
    BY <1>2, <2>1, <2>5, <2>6, OfferedNewest
  <2>8. /\ queue'[q] = Offered(q, e)
        /\ joined'[q] = joined[q] /\ taken'[q] = taken[q]
        /\ session_id'[q] = s /\ published'[session_id'[q]] = e
    BY <1>1, <1>4, <1>5, <2>1
  <2>9. CASE Full(q)
    <3>1. lost'[q] = lost[q] + 1 /\ Len(queue[q]) = QueueSize
      BY <1>1, <2>1, <2>9 DEF Full
    <3>2. /\ joined[q] <= (published[s] + 1) - Len(queue[q])
          /\ (published[s] + 1) - joined[q] = taken[q] + Len(queue[q]) + (lost[q] + 1)
      BY <2>4 DEF p, j, t, k, l
    <3>3. Len(Offered(q, e)) = Len(queue[q])
      BY <2>7, <2>9, <3>1
    <3>4. joined[q] <= e - Len(Offered(q, e))
      BY <3>2, <3>3 DEF e
    <3>5. e - joined[q] = taken[q] + Len(Offered(q, e)) + lost'[q]
      BY <3>1, <3>2, <3>3 DEF e
    <3>6. QED
      BY <2>7, <2>8, <3>4, <3>5 DEF Aligned
  <2>10. CASE ~Full(q)
    <3>1. lost'[q] = lost[q]
      BY <1>1, <2>1, <2>10
    <3>2. /\ joined[q] <= (published[s] + 1) - (Len(queue[q]) + 1)
          /\ (published[s] + 1) - joined[q] = taken[q] + (Len(queue[q]) + 1) + lost[q]
      BY <2>4 DEF p, j, t, k, l
    <3>3. Len(Offered(q, e)) = Len(queue[q]) + 1
      BY <2>7, <2>10
    <3>4. joined[q] <= e - Len(Offered(q, e))
      BY <3>2, <3>3 DEF e
    <3>5. e - joined[q] = taken[q] + Len(Offered(q, e)) + lost'[q]
      BY <3>1, <3>2, <3>3 DEF e
    <3>6. QED
      BY <2>7, <2>8, <3>4, <3>5 DEF Aligned
  <2>11. QED
    BY <2>9, <2>10
\* The other queues do not change, nor does the log of their session.
<1>6. ASSUME NEW q \in Subscriptions, q \notin SubscribersOf(s)
      PROVE  queue'[q] = queue[q] /\ lost'[q] = lost[q]
  BY <1>1, <1>6
<1>7. \A q \in Open' : Aligned(q)'
  <2>1. ASSUME NEW q \in Open, session_id[q] # s
        PROVE  Aligned(q)'
    <3>1. /\ q \in Subscriptions /\ session_id[q] \in SessionIds
          /\ q \notin SubscribersOf(s) /\ Aligned(q)
      BY <1>0, <2>1, OpenFacts, ReachedOpen, AllAligned
    <3>2. /\ queue'[q] = queue[q] /\ lost'[q] = lost[q]
          /\ joined'[q] = joined[q] /\ taken'[q] = taken[q]
          /\ session_id'[q] = session_id[q]
          /\ published'[session_id[q]] = published[session_id[q]]
      BY <1>1, <1>4, <1>6, <2>1, <3>1
    <3>3. QED
      BY <3>1, <3>2 DEF Aligned
  <2>2. QED
    BY <1>3, <1>5, <2>1
<1>8. TypeOK'
  <2>1. queue' \in [Subscriptions -> Seq(Nat)]
    <3>1. ASSUME NEW q \in Subscriptions
          PROVE  queue'[q] \in Seq(Nat)
      BY <1>0, <1>5, <1>6, ReachedOpen DEF TypeOK
    <3>2. QED
      BY <1>1, <3>1
  <2>2. lost' \in [Subscriptions -> Nat]
    BY <1>0, <1>1 DEF TypeOK
  <2>3. published' \in [SessionIds -> 0..MaxEvents]
    BY <1>0, <1>1, <1>2, EventBrokerAssumption DEF TypeOK
  <2>4. dropped' \in [SessionIds -> Nat]
    BY <1>0, <1>1, DropsCountable DEF TypeOK
  <2>5. QED
    BY <1>0, <1>1, <2>1, <2>2, <2>3, <2>4 DEF TypeOK
<1>9. Untouched'
  <2>1. ASSUME NEW q \in Subscriptions, session_id[q] = NoSession
        PROVE  q \notin SubscribersOf(s)
    BY <1>0, <2>1, ReachedOpen DEF Open
  <2>2. QED
    BY <1>0, <1>1, <1>6, <2>1 DEF Untouched
<1>10. Registered'
  BY <1>0, <1>1, <1>3 DEF Registered
<1>11. (NewestInOrder /\ NothingUnaccounted)'
  BY <1>7 DEF NewestInOrder, NothingUnaccounted, Aligned, Consecutive
<1>12. QED
  BY <1>8, <1>9, <1>10, <1>11 DEF BrokerInv

LEMMA ReceiveKeeps ==
  ASSUME BrokerInv, NEW q \in Subscriptions, Receive(q)
  PROVE  BrokerInv'
<1>0. TypeOK /\ Untouched /\ Registered /\ NewestInOrder /\ NothingUnaccounted
  BY DEF BrokerInv
<1>1. /\ q \in Open /\ queue[q] # <<>>
      /\ queue' = [queue EXCEPT ![q] = Tail(@)]
      /\ taken' = [taken EXCEPT ![q] = @ + 1]
      /\ last' = [last EXCEPT ![q] = Head(queue[q])]
      /\ UNCHANGED <<subscribers, dropped, session_id, closed, published, joined, lost>>
  BY DEF Receive
<1> DEFINE n == published[session_id[q]] - Len(queue[q])
           t == Tail(queue[q])
<1>2. /\ session_id[q] \in SessionIds /\ published[session_id[q]] \in Nat
      /\ queue[q] \in Seq(Nat) /\ Len(queue[q]) \in Nat /\ Len(queue[q]) <= QueueSize
      /\ joined[q] \in Nat /\ taken[q] \in Nat /\ lost[q] \in Nat
      /\ joined[q] <= n /\ Consecutive(queue[q], n)
  BY <1>0, <1>1, OpenFacts
<1>3. n \in Int
  BY <1>2
<1>4. published[session_id[q]] - joined[q] = taken[q] + Len(queue[q]) + lost[q]
  BY <1>0, <1>1 DEF NothingUnaccounted
<1> HIDE DEF n
<1>5. /\ Head(queue[q]) = n + 1 /\ t \in Seq(Nat) /\ Len(t) = Len(queue[q]) - 1
      /\ Len(queue[q]) \in Nat \ {0} /\ Consecutive(t, n + 1)
  BY <1>1, <1>2, <1>3, TailConsecutive
<1> HIDE DEF t
<1>6. n + 1 \in Nat /\ n + 1 = published[session_id[q]] - Len(t)
  <2>1. n >= 0
    BY <1>2, <1>3
  <2>2. n + 1 \in Nat
    BY <1>3, <2>1
  <2> DEFINE p == published[session_id[q]]
             k == Len(queue[q])
  <2>3. p \in Int /\ k \in Int /\ n = p - k
    BY <1>2 DEF n
  <2> HIDE DEF p, k
  <2>4. p - (k - 1) = n + 1
    BY <2>3
  <2>5. published[session_id[q]] - (Len(queue[q]) - 1) = n + 1
    BY <2>4 DEF p, k
  <2>6. published[session_id[q]] - Len(t) = n + 1
    BY <1>5, <2>5
  <2>7. QED
    BY <2>2, <2>6
<1>7. queue'[q] = t /\ taken'[q] = taken[q] + 1 /\ last'[q] = Head(queue[q])
  BY <1>0, <1>1 DEF TypeOK, t
<1>8. \A p \in Subscriptions \ {q} :
        queue'[p] = queue[p] /\ taken'[p] = taken[p] /\ last'[p] = last[p]
  BY <1>0, <1>1 DEF TypeOK
<1>9. Open' = Open /\ \A x \in SessionIds : SubscribersOf(x)' = SubscribersOf(x)
  BY <1>1 DEF Open, SubscribersOf
<1>10. TypeOK'
  <2>1. queue' \in [Subscriptions -> Seq(Nat)]
    BY <1>0, <1>1, <1>5 DEF TypeOK, t
  <2>2. taken' \in [Subscriptions -> Nat] /\ last' \in [Subscriptions -> Nat]
    <3>1. Head(queue[q]) \in Nat
      BY <1>5, <1>6
    <3>2. QED
      BY <1>0, <1>1, <3>1 DEF TypeOK
  <2>3. QED
    BY <1>0, <1>1, <2>1, <2>2 DEF TypeOK
<1>11. Untouched'
  BY <1>0, <1>1, <1>8 DEF Untouched, Open
<1>12. Registered'
  BY <1>0, <1>1, <1>9 DEF Registered
<1>13. \A p \in Open' : Aligned(p)'
  <2>1. ASSUME NEW p \in Open, p # q
        PROVE  Aligned(p)'
    BY <1>0, <1>1, <1>8, <2>1, AllAligned, OpenFacts DEF Aligned
  <2>2. Aligned(q)'
    <3> DEFINE p == published[session_id[q]]
               j == joined[q]
               r == taken[q]
               k == Len(queue[q])
               l == lost[q]
    <3>1. /\ p \in Int /\ j \in Int /\ r \in Int /\ k \in Int /\ l \in Int
          /\ j <= p - k /\ p - j = r + k + l /\ k <= QueueSize
      BY <1>2, <1>4 DEF n
    <3> HIDE DEF p, j, r, k, l
    <3>2. /\ j <= p - (k - 1) /\ p - j = (r + 1) + (k - 1) + l
      BY <3>1, Bookkeeping
    <3>3. k - 1 <= QueueSize
      BY <3>1, EventBrokerAssumption
    <3>4. /\ Len(t) <= QueueSize /\ joined[q] <= published[session_id[q]] - Len(t)
          /\ published[session_id[q]] - joined[q] = (taken[q] + 1) + Len(t) + lost[q]
      BY <1>5, <3>2, <3>3 DEF p, j, r, k, l
    <3>5. Consecutive(t, published[session_id[q]] - Len(t))
      BY <1>5, <1>6
    <3>6. QED
      BY <1>1, <1>7, <3>4, <3>5 DEF Aligned
  <2>3. QED
    BY <1>9, <2>1, <2>2
<1>14. (NewestInOrder /\ NothingUnaccounted)'
  BY <1>13 DEF NewestInOrder, NothingUnaccounted, Aligned, Consecutive
<1>15. QED
  BY <1>10, <1>11, <1>12, <1>14 DEF BrokerInv

LEMMA NextBroker == BrokerInv /\ [Next]_vars => BrokerInv'
<1> SUFFICES ASSUME BrokerInv, [Next]_vars PROVE BrokerInv'
  OBVIOUS
<1>1. CASE UNCHANGED vars
  BY ZenonT(40), <1>1 DEF BrokerInv, vars, records, TypeOK, Untouched, Registered, Open,
              SubscribersOf, NewestInOrder, NothingUnaccounted
<1>2. ASSUME NEW s \in SessionIds, Publish(s) PROVE BrokerInv'
  BY <1>2, PublishKeeps
<1>3. ASSUME NEW s \in SessionIds, NEW q \in Subscriptions, Subscribe(q, s)
      PROVE  BrokerInv'
  BY <1>3, SubscribeKeeps
<1>4. ASSUME NEW q \in Subscriptions, Receive(q) PROVE BrokerInv'
  BY <1>4, ReceiveKeeps
<1>5. ASSUME NEW q \in Subscriptions, Close(q) PROVE BrokerInv'
  BY <1>5, CloseKeeps
<1>6. QED
  BY <1>1, <1>2, <1>3, <1>4, <1>5 DEF Next

\* The invariant of the broker holds in every reachable state.
THEOREM BrokerInvariant == Spec => []BrokerInv
<1>1. Init => BrokerInv
  BY InitBroker
<1>2. BrokerInv /\ [Next]_vars => BrokerInv'
  BY NextBroker
<1>3. QED
  BY <1>1, <1>2, PTL DEF Spec

\* The variables of the broker keep their types, and unsubscribe leaves no
\* entry without a subscriber (events.py:75-82).
THEOREM TypeCorrect == Spec => []TypeOK
<1>1. BrokerInv => TypeOK
  BY DEF BrokerInv
<1>2. QED
  BY <1>1, BrokerInvariant, PTL

\* However subscriptions are opened and closed, publish reaches exactly the
\* open subscriptions of its session (events.py:67-86).
THEOREM ExactlyRegistered == Spec => []Registered
<1>1. BrokerInv => Registered
  BY DEF BrokerInv
<1>2. QED
  BY <1>1, BrokerInvariant, PTL

\* Every queue holds the newest events of its session, in order and without
\* a gap, for every queue size (events.py:84-101, 136-143).
THEOREM QueuesInOrder == Spec => []NewestInOrder
<1>1. BrokerInv => NewestInOrder
  BY DEF BrokerInv
<1>2. QED
  BY <1>1, BrokerInvariant, PTL

\* Every event published to an open subscription was received, waits, or was
\* dropped to make room (events.py:84-101).
THEOREM AllAccounted == Spec => []NothingUnaccounted
<1>1. BrokerInv => NothingUnaccounted
  BY DEF BrokerInv
<1>2. QED
  BY <1>1, BrokerInvariant, PTL

-----------------------------------------------------------------------------
(* The broker implements the event log.                                    *)

LEMMA LogInit == Init => Log!Init
<1> SUFFICES ASSUME Init PROVE Log!Init
  OBVIOUS
<1>1. Open = {}
  BY DEF Init, Open
<1>2. QED
  BY <1>1 DEF Init, Log!Init, Reading, Cursor, Zeros

\* What the log sees of a subscription.
LEMMA LogView ==
  ASSUME TypeOK, NewestInOrder, NEW q \in Subscriptions
  PROVE  /\ q \in Open => /\ Reading[q] = session_id[q]
                          /\ Reading[q] # NoSession
                          /\ Cursor[q] = published[session_id[q]] - Len(queue[q])
         /\ q \notin Open => Reading[q] = NoSession /\ Cursor[q] = 0
BY OpenFacts, EventBrokerAssumption DEF Reading, Cursor

LEMMA SubscribeJoins ==
  ASSUME BrokerInv, NEW q \in Subscriptions, NEW s \in SessionIds, Subscribe(q, s)
  PROVE  Log!Join(q, s)
<1>0. TypeOK /\ Untouched /\ Registered /\ NewestInOrder
  BY DEF BrokerInv
<1>1. /\ session_id[q] = NoSession
      /\ session_id' = [session_id EXCEPT ![q] = s]
      /\ UNCHANGED <<queue, closed, published, last>>
  BY DEF Subscribe
<1>2. q \notin Open /\ Open' = Open \cup {q}
  BY <1>0, <1>1, EventBrokerAssumption DEF Open, TypeOK, Untouched
<1>3. queue[q] = <<>> /\ last[q] = 0 /\ session_id'[q] = s /\ published[s] \in Int
  BY <1>0, <1>1, EventBrokerAssumption DEF Untouched, TypeOK
<1>4. \A p \in Open : p # q /\ session_id'[p] = session_id[p]
  BY <1>0, <1>1, <1>2 DEF TypeOK, Open
<1>5. Reading[q] = NoSession
  BY <1>2 DEF Reading
<1>6. Reading' = [Reading EXCEPT ![q] = s]
  BY <1>1, <1>2, <1>3, <1>4 DEF Reading
<1>7. published[s] - Len(queue[q]) = published[s]
  BY <1>3, EmptySeq
<1>8. Cursor' = [Cursor EXCEPT ![q] = published[s]]
  <2> DEFINE C(r) == IF r \in Open THEN published[session_id[r]] - Len(queue[r]) ELSE 0
  <2>1. C(q)' = published[s]
    BY <1>1, <1>2, <1>3, <1>7
  <2>2. \A r \in Subscriptions \ {q} : C(r)' = C(r)
    BY <1>1, <1>2, <1>4
  <2>3. Cursor = [r \in Subscriptions |-> C(r)] /\ Cursor' = [r \in Subscriptions |-> C(r)']
    BY DEF Cursor
  <2> HIDE DEF C
  <2>4. QED
    BY <2>1, <2>2, <2>3
<1>9. last' = [last EXCEPT ![q] = 0]
  BY <1>0, <1>1, <1>3 DEF TypeOK
<1>10. QED
  BY <1>1, <1>5, <1>6, <1>8, <1>9 DEF Log!Join

LEMMA CloseLeaves ==
  ASSUME BrokerInv, NEW q \in Subscriptions, Close(q)
  PROVE  Log!Leave(q)
<1>0. TypeOK /\ NewestInOrder
  BY DEF BrokerInv
<1>1. /\ q \in Open
      /\ closed' = closed \cup {q}
      /\ UNCHANGED <<queue, session_id, published, last>>
  BY DEF Close, records
<1>2. Open' = Open \ {q}
  BY <1>1 DEF Open
<1>3. Reading[q] # NoSession
  BY <1>0, <1>1, LogView
<1>4. Reading' = [Reading EXCEPT ![q] = NoSession]
  BY <1>1, <1>2 DEF Reading
<1>5. Cursor' = [Cursor EXCEPT ![q] = 0]
  BY <1>1, <1>2 DEF Cursor
<1>6. QED
  BY <1>1, <1>3, <1>4, <1>5 DEF Log!Leave

LEMMA ReceiveReads ==
  ASSUME BrokerInv, NEW q \in Subscriptions, Receive(q)
  PROVE  Log!Read(q)
<1>0. TypeOK /\ NewestInOrder
  BY DEF BrokerInv
<1>1. /\ q \in Open /\ queue[q] # <<>>
      /\ queue' = [queue EXCEPT ![q] = Tail(@)]
      /\ last' = [last EXCEPT ![q] = Head(queue[q])]
      /\ UNCHANGED <<session_id, closed, published>>
  BY DEF Receive
<1> DEFINE p == published[session_id[q]]
           k == Len(queue[q])
           n == p - k
<1>2. /\ p \in Int /\ k \in Int /\ n \in Int
      /\ queue[q] \in Seq(Nat) /\ Consecutive(queue[q], n)
  BY <1>0, <1>1, OpenFacts
<1>3. Cursor[q] = n /\ Reading[q] = session_id[q] /\ Reading[q] # NoSession
  BY <1>0, <1>1, LogView
<1> HIDE DEF n
<1>4. Head(queue[q]) = n + 1 /\ Len(Tail(queue[q])) = k - 1 /\ k > 0
  BY <1>1, <1>2, TailConsecutive
<1> HIDE DEF p, k
<1>5. n < p /\ p - (k - 1) = n + 1
  BY <1>2, <1>4 DEF n
<1>6. Cursor[q] < published[Reading[q]]
  BY <1>3, <1>5 DEF p
<1>7. Open' = Open
  BY <1>1 DEF Open
<1>8. Reading' = Reading
  BY <1>1, <1>7 DEF Reading
<1>9. Cursor' = [Cursor EXCEPT ![q] = @ + 1]
  <2>1. queue'[q] = Tail(queue[q])
    BY <1>0, <1>1 DEF TypeOK
  <2>2. published'[session_id'[q]] - Len(queue'[q]) = Cursor[q] + 1
    BY <1>1, <1>3, <1>4, <1>5, <2>1 DEF p
  <2>3. \A r \in Subscriptions \ {q} : queue'[r] = queue[r]
    BY <1>0, <1>1 DEF TypeOK
  <2> DEFINE C(r) == IF r \in Open THEN published[session_id[r]] - Len(queue[r]) ELSE 0
  <2>4. C(q)' = Cursor[q] + 1
    BY <1>1, <1>7, <2>2
  <2>5. \A r \in Subscriptions \ {q} : C(r)' = C(r)
    BY <1>1, <1>7, <2>3
  <2>6. Cursor = [r \in Subscriptions |-> C(r)] /\ Cursor' = [r \in Subscriptions |-> C(r)']
    BY DEF Cursor
  <2> HIDE DEF C
  <2>7. QED
    BY <2>4, <2>5, <2>6
<1>10. last' = [last EXCEPT ![q] = Cursor[q] + 1]
  BY <1>1, <1>3, <1>4
<1>11. QED
  BY <1>1, <1>3, <1>6, <1>8, <1>9, <1>10 DEF Log!Read

LEMMA PublishLogs ==
  ASSUME BrokerInv, NEW s \in SessionIds, Publish(s)
  PROVE  Log!Log(s)
<1> DEFINE e == published[s] + 1
<1>0. TypeOK /\ Registered /\ NewestInOrder
  BY DEF BrokerInv
<1>1. /\ published' = [published EXCEPT ![s] = e]
      /\ queue' = [q \in Subscriptions |->
                     IF q \in SubscribersOf(s) THEN Offered(q, e) ELSE queue[q]]
      /\ UNCHANGED <<session_id, closed, last>>
  BY DEF Publish
<1>2. published[s] \in Nat /\ e \in Nat /\ QueueSize \in Nat \ {0}
  BY <1>0, EventBrokerAssumption DEF TypeOK
<1>3. Open' = Open
  BY <1>1 DEF Open
<1>4. Reading' = Reading
  BY <1>1, <1>3 DEF Reading
<1>5. published'[s] = e /\ \A x \in SessionIds : x # s => published'[x] = published[x]
  BY <1>0, <1>1 DEF TypeOK
<1> DEFINE Moved(q) ==
      IF Reading[q] = s /\ e - Cursor[q] > QueueSize THEN e - QueueSize ELSE Cursor[q]
<1>6. ASSUME NEW q \in Subscriptions, q \in Open, session_id[q] = s
      PROVE  Cursor'[q] = Moved(q)
  <2>1. /\ q \in SubscribersOf(s)
        /\ queue[q] \in Seq(Nat) /\ Len(queue[q]) \in Nat
        /\ Len(queue[q]) <= QueueSize
        /\ Consecutive(queue[q], published[s] - Len(queue[q]))
        /\ Cursor[q] = published[s] - Len(queue[q]) /\ Reading[q] = s
    BY <1>0, <1>6, OpenFacts, ReachedOpen, LogView
  <2> DEFINE p == published[s]
             k == Len(queue[q])
             n == p - k
  <2>2. p \in Int /\ k \in Int /\ n \in Int /\ Consecutive(queue[q], n)
    BY <1>2, <2>1
  <2>3. k <= QueueSize /\ Cursor[q] = n /\ e = p + 1
    BY <2>1
  <2> HIDE DEF p, k
  <2>4. e = n + k + 1
    BY <2>2, <2>3
  <2> HIDE DEF n
  <2> HIDE DEF e
  <2>5. /\ Full(q) => Len(Offered(q, e)) = QueueSize
        /\ ~Full(q) => Len(Offered(q, e)) = k + 1
    BY <1>2, <2>1, <2>2, <2>4, OfferedNewest DEF k
  <2>6. Full(q) <=> k = QueueSize
    BY DEF Full, k
  <2>7. Cursor'[q] = e - Len(Offered(q, e))
    BY <1>1, <1>3, <1>5, <1>6, <2>1 DEF Cursor
  <2>8. CASE k = QueueSize
    <3>1. Cursor'[q] = e - QueueSize
      BY <2>5, <2>6, <2>7, <2>8
    <3>2. e - n > QueueSize
      BY <1>2, <2>2, <2>4, <2>8
    <3>3. QED
      BY <2>1, <2>3, <3>1, <3>2
  <2>9. CASE k # QueueSize
    <3>1. Cursor'[q] = e - (k + 1)
      BY <2>5, <2>6, <2>7, <2>9
    <3>2. e - (k + 1) = n /\ e - n = k + 1
      BY <2>2, <2>4
    <3>3. ~(k + 1 > QueueSize)
      BY <1>2, <2>2, <2>3, <2>9
    <3>4. QED
      BY <2>1, <2>3, <3>1, <3>2, <3>3
  <2>10. QED
    BY <2>8, <2>9
<1>7. ASSUME NEW q \in Subscriptions, ~(q \in Open /\ session_id[q] = s)
      PROVE  Cursor'[q] = Moved(q)
  <2>1. q \notin SubscribersOf(s)
    BY <1>0, <1>7, ReachedOpen
  <2>2. queue'[q] = queue[q]
    BY <1>1, <2>1
  <2>3. Reading[q] # s
    BY <1>0, <1>7, LogView, EventBrokerAssumption
  <2>4. q \in Open => published'[session_id[q]] = published[session_id[q]]
    BY <1>0, <1>5, <1>7, OpenFacts
  <2>5. Cursor'[q] = Cursor[q]
    BY <1>1, <1>3, <2>2, <2>4 DEF Cursor
  <2>6. QED
    BY <2>3, <2>5
<1>8. Cursor' = [q \in Subscriptions |-> Moved(q)]
  <2>1. Cursor' = [q \in Subscriptions |-> Cursor'[q]]
    BY DEF Cursor
  <2> HIDE DEF Moved
  <2>2. \A q \in Subscriptions : Cursor'[q] = Moved(q)
    BY <1>6, <1>7
  <2>3. QED
    BY <2>1, <2>2
<1>9. published' = [published EXCEPT ![s] = @ + 1]
  BY <1>1
<1>10. QED
  BY <1>1, <1>4, <1>8, <1>9, Zenon DEF Log!Log

LEMMA StutterLogs ==
  ASSUME UNCHANGED vars
  PROVE  UNCHANGED Log!vars
BY DEF vars, records, Log!vars, Reading, Cursor, Open

\* The broker with its queues implements the lossy log: for every queue size
\* a subscriber reads the events of its session in order, each at most once,
\* and loses one only by being QueueSize behind (events.py:35-101, 136-143).
THEOREM LogImplemented == Spec => LogSpec
<1>1. Init => Log!Init
  BY LogInit
<1>2. BrokerInv /\ [Next]_vars => [Log!Next]_(Log!vars)
  <2> SUFFICES ASSUME BrokerInv, [Next]_vars
               PROVE  [Log!Next]_(Log!vars)
    OBVIOUS
  <2>1. CASE UNCHANGED vars
    BY <2>1, StutterLogs
  <2>2. ASSUME NEW s \in SessionIds, Publish(s) PROVE Log!Next
    BY <2>2, PublishLogs DEF Log!Next
  <2>3. ASSUME NEW s \in SessionIds, NEW q \in Subscriptions, Subscribe(q, s)
        PROVE  Log!Next
    BY <2>3, SubscribeJoins DEF Log!Next
  <2>4. ASSUME NEW q \in Subscriptions, Receive(q) PROVE Log!Next
    BY <2>4, ReceiveReads DEF Log!Next
  <2>5. ASSUME NEW q \in Subscriptions, Close(q) PROVE Log!Next
    BY <2>5, CloseLeaves DEF Log!Next
  <2>6. QED
    BY <2>1, <2>2, <2>3, <2>4, <2>5 DEF Next
<1>3. QED
  BY <1>1, <1>2, BrokerInvariant, PTL DEF Spec, LogSpec, Log!Spec

-----------------------------------------------------------------------------
(* The counter of dropped events.                                          *)

\* The subscriptions ever opened on s: their losses are what dropped[s] counts.
OpenedOn(s) == {q \in Subscriptions : session_id[q] = s}

LEMMA OpenedFinite == ASSUME NEW s PROVE IsFiniteSet(OpenedOn(s))
BY EventBrokerAssumption, FS_Subset DEF OpenedOn

LEMMA DropsInitial == Init => DropsAddUp
<1> SUFFICES ASSUME Init, NEW s \in SessionIds
             PROVE  dropped[s] = SumFunctionOnSet(lost, OpenedOn(s))
  BY DEF DropsAddUp, OpenedOn
<1>1. OpenedOn(s) = {}
  BY EventBrokerAssumption DEF Init, OpenedOn
<1>2. dropped[s] = 0
  BY DEF Init, Zeros
<1>3. QED
  BY <1>1, <1>2, SumEmpty

LEMMA DropsPublish ==
  ASSUME BrokerInv, DropsAddUp, NEW s \in SessionIds, Publish(s)
  PROVE  DropsAddUp'
<1>1. /\ dropped' = [dropped EXCEPT ![s] = @ + Cardinality(Overflowing(s))]
      /\ lost' = [q \in Subscriptions |->
                    IF q \in SubscribersOf(s) /\ Full(q) THEN lost[q] + 1 ELSE lost[q]]
      /\ session_id' = session_id
  BY DEF Publish
<1>2. dropped \in [SessionIds -> Nat] /\ lost \in [Subscriptions -> Nat]
  BY DEF BrokerInv, TypeOK
<1>3. SubscribersOf(s) \subseteq OpenedOn(s)
  BY DEF BrokerInv, Registered, Open, OpenedOn
<1>4. ASSUME NEW x \in SessionIds
      PROVE  dropped'[x] = SumFunctionOnSet(lost', OpenedOn(x))
  <2>1. dropped[x] = SumFunctionOnSet(lost, OpenedOn(x))
    BY DEF DropsAddUp, OpenedOn
  <2>2. PICK S, f, g : S = OpenedOn(x) /\ f = lost /\ g = lost'
    OBVIOUS
  <2>3. IsFiniteSet(S)
    BY <2>2, OpenedFinite
  <2>4. CASE x = s
    <3>1. PICK A : A = Overflowing(s)
      OBVIOUS
    <3>2. A \in SUBSET S
      BY <1>3, <2>2, <2>4, <3>1 DEF Overflowing
    <3>3. \A q \in S : f[q] \in Nat /\ g[q] = IF q \in A THEN f[q] + 1 ELSE f[q]
      BY <1>1, <1>2, <2>2, <3>1 DEF Overflowing, OpenedOn
    <3>4. SumFunctionOnSet(g, S) = SumFunctionOnSet(f, S) + Cardinality(A)
      BY <2>3, <3>2, <3>3, SumGrown
    <3>5. dropped'[x] = dropped[x] + Cardinality(A)
      BY <1>1, <1>2, <2>4, <3>1
    <3>6. QED
      BY <2>1, <2>2, <3>4, <3>5
  <2>5. CASE x # s
    <3>1. \A q \in S : f[q] \in Nat /\ g[q] = f[q]
      BY <1>1, <1>2, <1>3, <2>2, <2>5 DEF OpenedOn
    <3>2. SumFunctionOnSet(g, S) = SumFunctionOnSet(f, S)
      BY <2>3, <3>1, SumSame
    <3>3. dropped'[x] = dropped[x]
      BY <1>1, <1>2, <2>5
    <3>4. QED
      BY <2>1, <2>2, <3>2, <3>3
  <2>6. QED
    BY <2>4, <2>5
<1>5. QED
  BY <1>1, <1>4 DEF DropsAddUp, OpenedOn

LEMMA DropsSubscribe ==
  ASSUME BrokerInv, DropsAddUp, NEW s \in SessionIds, NEW q \in Subscriptions, Subscribe(q, s)
  PROVE  DropsAddUp'
<1>1. /\ session_id[q] = NoSession
      /\ session_id' = [session_id EXCEPT ![q] = s]
      /\ dropped' = dropped /\ lost' = lost
  BY DEF Subscribe
<1>2. /\ session_id \in [Subscriptions -> SessionIds \cup {NoSession}]
      /\ lost \in [Subscriptions -> Nat] /\ lost[q] = 0
  BY <1>1 DEF BrokerInv, TypeOK, Untouched
<1>3. ASSUME NEW x \in SessionIds
      PROVE  dropped[x] = SumFunctionOnSet(lost, OpenedOn(x)')
  <2>1. dropped[x] = SumFunctionOnSet(lost, OpenedOn(x))
    BY DEF DropsAddUp, OpenedOn
  <2>2. CASE x = s
    <3>1. q \notin OpenedOn(x) /\ OpenedOn(x)' = OpenedOn(x) \cup {q}
      BY <1>1, <1>2, <2>2, EventBrokerAssumption DEF OpenedOn
    <3>2. \A y \in OpenedOn(x) \cup {q} : lost[y] \in Nat
      BY <1>2 DEF OpenedOn
    <3>3. /\ SumFunctionOnSet(lost, OpenedOn(x)) \in Nat
          /\ SumFunctionOnSet(lost, OpenedOn(x) \cup {q}) =
               SumFunctionOnSet(lost, OpenedOn(x)) + lost[q]
      BY <3>1, <3>2, OpenedFinite, SumExtended
    <3>4. QED
      BY <1>2, <2>1, <3>1, <3>3
  <2>3. CASE x # s
    <3>1. OpenedOn(x)' = OpenedOn(x)
      BY <1>1, <1>2, <2>3, EventBrokerAssumption DEF OpenedOn
    <3>2. QED
      BY <2>1, <3>1
  <2>4. QED
    BY <2>2, <2>3
<1>4. QED
  BY <1>1, <1>3 DEF DropsAddUp, OpenedOn

\* However many subscriptions a session has had, the counter of what it dropped
\* is the sum of what each of them lost (events.py:61, 88-101, 136-143).
THEOREM DropsCounted == Spec => []DropsAddUp
<1>1. BrokerInv /\ DropsAddUp /\ [Next]_vars => DropsAddUp'
  <2> SUFFICES ASSUME BrokerInv, DropsAddUp, [Next]_vars PROVE DropsAddUp'
    OBVIOUS
  <2>1. ASSUME dropped' = dropped, lost' = lost, session_id' = session_id
        PROVE  DropsAddUp'
    BY <2>1 DEF DropsAddUp
  <2>2. CASE UNCHANGED vars
    BY <2>1, <2>2 DEF vars, records
  <2>3. ASSUME NEW s \in SessionIds, Publish(s) PROVE DropsAddUp'
    BY <2>3, DropsPublish
  <2>4. ASSUME NEW s \in SessionIds, NEW q \in Subscriptions, Subscribe(q, s)
        PROVE  DropsAddUp'
    BY <2>4, DropsSubscribe
  <2>5. ASSUME NEW q \in Subscriptions, Receive(q) \/ Close(q) PROVE DropsAddUp'
    BY <2>1, <2>5 DEF Receive, Close, records
  <2>6. QED
    BY <2>2, <2>3, <2>4, <2>5 DEF Next
<1>2. QED
  BY <1>1, DropsInitial, BrokerInvariant, PTL DEF Spec

-----------------------------------------------------------------------------
(* The streams.                                                            *)

\* A stream is a broker step or leaves the broker alone.
LEMMA StreamStepIsBrokerStep == [StreamNext]_allvars => [Next]_vars
<1> SUFFICES ASSUME [StreamNext]_allvars PROVE [Next]_vars
  OBVIOUS
<1>1. CASE UNCHANGED allvars
  BY <1>1 DEF allvars
<1>2. ASSUME NEW s \in SessionIds, Published(s) PROVE [Next]_vars
  BY <1>2 DEF Published, Next
<1>3. ASSUME NEW q \in Subscriptions, NEW from, Admit(q, from) PROVE [Next]_vars
  BY <1>3 DEF Admit, Next
<1>4. ASSUME NEW q \in Subscriptions, TakeEvent(q) PROVE [Next]_vars
  BY <1>4 DEF TakeEvent, Next
<1>5. ASSUME NEW q \in Subscriptions, NEW m \in {"token", "text"}, ClientSends(q, m)
      PROVE  [Next]_vars
  BY <1>5 DEF ClientSends
<1>6. ASSUME NEW q \in Subscriptions, ClientGoes(q) PROVE [Next]_vars
  BY <1>6 DEF ClientGoes
<1>7. ASSUME NEW q \in Subscriptions, Connect(q) PROVE [Next]_vars
  BY <1>3, <1>7 DEF Connect
<1>8. ASSUME NEW q \in Subscriptions, HandlerStep(q) PROVE [Next]_vars
  <2>1. CASE AuthMessage(q)
    BY <1>3, <2>1 DEF AuthMessage
  <2>2. CASE AuthTimeout(q) \/ Refused(q)
    BY <2>2 DEF AuthTimeout, Refused
  <2>3. CASE StartTasks(q)
    BY <1>4, <2>3 DEF StartTasks
  <2>4. CASE ReceiveStep(q)
    BY <2>4 DEF ReceiveStep
  <2>5. CASE EventStep(q)
    BY <1>4, <2>5 DEF EventStep
  <2>6. CASE Resume(q) \/ Closed(q)
    BY <2>6 DEF Resume, Closed
  <2>7. CASE End(q)
    BY <2>7 DEF End, Next
  <2>8. QED
    BY <1>8, <2>1, <2>2, <2>3, <2>4, <2>5, <2>6, <2>7 DEF HandlerStep
<1>9. ASSUME NEW q \in Subscriptions, SendEnds(q) PROVE [Next]_vars
  BY <1>9 DEF SendEnds, SnapshotSent, EventSent, SendFails
<1>10. QED
  BY <1>1, <1>2, <1>5, <1>6, <1>7, <1>8, <1>9 DEF StreamNext

\* The streams use the broker as it is meant to be used, so that everything
\* proved of it holds of them (main.py:286-300, 699-726; events.py).
THEOREM StreamsUseBroker == StreamSpec => Spec
<1>1. StreamInit => Init
  BY DEF StreamInit
<1>2. [StreamNext]_allvars => [Next]_vars
  BY StreamStepIsBrokerStep
<1>3. QED
  BY <1>1, <1>2, PTL DEF StreamSpec, Spec

-----------------------------------------------------------------------------
(* Types.                                                                  *)

\* A handler moves from one named point to another.
LEMMA HandlerGoes ==
  ASSUME NEW q \in Subscriptions, NEW from \in Handler, NEW to \in Handler,
         handler \in [Subscriptions -> Handler], Goes(q, from, to)
  PROVE  /\ handler' \in [Subscriptions -> Handler]
         /\ handler[q] = from /\ handler'[q] = to
         /\ \A p \in Subscriptions \ {q} : handler'[p] = handler[p]
BY DEF Goes

\* What the two tasks do to the types they touch.
LEMMA TakesTyped ==
  ASSUME TypeOK, StreamTypeOK, NEW q \in Subscriptions
  PROVE  /\ TakeMessage(q) =>
              /\ inbox' \in [Subscriptions -> Seq(Message)]
              /\ message' \in [Subscriptions -> Message \cup {NoResult}]
              /\ \A p \in Subscriptions \ {q} : message'[p] = message[p]
         /\ TakeEvent(q) =>
              /\ event' \in [Subscriptions -> Nat]
              /\ \A p \in Subscriptions \ {q} : event'[p] = event[p]
<1>1. ASSUME TakeMessage(q)
      PROVE  /\ inbox' \in [Subscriptions -> Seq(Message)]
             /\ message' \in [Subscriptions -> Message \cup {NoResult}]
             /\ \A p \in Subscriptions \ {q} : message'[p] = message[p]
  <2>1. inbox[q] \in Seq(Message) /\ inbox[q] # <<>>
    BY <1>1 DEF TakeMessage, StreamTypeOK
  <2>2. Head(inbox[q]) \in Message /\ Tail(inbox[q]) \in Seq(Message)
    BY <2>1, HeadTailProperties
  <2>3. QED
    BY <1>1, <2>2 DEF TakeMessage, StreamTypeOK
<1>2. ASSUME TakeEvent(q)
      PROVE  /\ event' \in [Subscriptions -> Nat]
             /\ \A p \in Subscriptions \ {q} : event'[p] = event[p]
  <2>1. queue[q] \in Seq(Nat) /\ queue[q] # <<>>
    BY <1>2 DEF TakeEvent, Receive, TypeOK
  <2>2. Head(queue[q]) \in Nat
    BY <2>1, HeadTailProperties
  <2>3. QED
    BY <1>2, <2>2 DEF TakeEvent, StreamTypeOK
<1>3. QED
  BY <1>1, <1>2

LEMMA StreamTypeInit == StreamInit => StreamTypeOK
BY EmptySeq DEF StreamInit, StreamTypeOK, Handler, Message, NoResult, Zeros

LEMMA ClientTyped ==
  ASSUME StreamTypeOK, NEW q \in Subscriptions,
         (\E m \in {"token", "text"} : ClientSends(q, m)) \/ ClientGoes(q)
  PROVE  StreamTypeOK'
<1>1. ASSUME NEW m \in Message, inbox' = [inbox EXCEPT ![q] = Append(@, m)]
      PROVE  inbox' \in [Subscriptions -> Seq(Message)]
  <2>1. Append(inbox[q], m) \in Seq(Message)
    BY AppendProperties DEF StreamTypeOK
  <2>2. QED
    BY <1>1, <2>1 DEF StreamTypeOK
<1>2. ASSUME NEW m \in {"token", "text"}, ClientSends(q, m) PROVE StreamTypeOK'
  <2>1. inbox' \in [Subscriptions -> Seq(Message)]
    BY <1>1, <1>2 DEF ClientSends, Message
  <2>2. QED
    BY <1>2, <2>1 DEF ClientSends, StreamTypeOK, tasks, delivery
<1>3. ASSUME ClientGoes(q) PROVE StreamTypeOK'
  <2>1. inbox' \in [Subscriptions -> Seq(Message)]
    BY <1>1, <1>3 DEF ClientGoes, Message
  <2>2. QED
    BY <1>3, <2>1 DEF ClientGoes, StreamTypeOK, tasks, delivery
<1>4. QED
  BY <1>2, <1>3

\* Steps that only move the handler from a point where its tasks have no
\* result, and may take the first message of the inbox.
LEMMA MoveTyped ==
  ASSUME StreamTypeOK, NEW q \in Subscriptions,
         NEW from \in Handler \ {"waiting", "sending"}, NEW to \in Handler,
         Goes(q, from, to),
         UNCHANGED <<gone, tasks, delivery>>,
         \/ UNCHANGED inbox
         \/ inbox[q] # <<>> /\ inbox' = [inbox EXCEPT ![q] = Tail(@)]
  PROVE  StreamTypeOK'
<1>1. inbox' \in [Subscriptions -> Seq(Message)]
  <2>1. ASSUME inbox[q] # <<>> PROVE Tail(inbox[q]) \in Seq(Message)
    BY <2>1, HeadTailProperties DEF StreamTypeOK
  <2>2. QED
    BY <2>1 DEF StreamTypeOK
<1>2. handler' \in [Subscriptions -> Handler] /\ handler[q] = from
      /\ \A p \in Subscriptions \ {q} : handler'[p] = handler[p]
  BY HandlerGoes DEF StreamTypeOK
<1>3. message[q] = NoResult /\ event[q] = 0
  BY <1>2 DEF StreamTypeOK
<1>4. \A p \in Subscriptions :
        /\ message[p] # NoResult => handler'[p] = "waiting"
        /\ event[p] # 0 => handler'[p] \in {"waiting", "sending"}
  BY <1>2, <1>3 DEF StreamTypeOK
<1>5. QED
  BY <1>1, <1>2, <1>4 DEF StreamTypeOK, tasks, delivery

LEMMA AdmissionTyped ==
  ASSUME StreamTypeOK, NEW q \in Subscriptions,
         Connect(q) \/ AuthMessage(q) \/ AuthTimeout(q) \/ Refused(q)
         \/ Closed(q) \/ End(q) \/ SnapshotSent(q)
  PROVE  StreamTypeOK'
<1>1. CASE Connect(q)
  BY <1>1, MoveTyped DEF Connect, Admit, Handler, conn
<1>2. CASE AuthMessage(q)
  BY <1>2, MoveTyped DEF AuthMessage, Admit, Handler
<1>3. CASE AuthTimeout(q) \/ Refused(q)
  BY <1>3, MoveTyped DEF AuthTimeout, Refused, Handler, conn
<1>4. CASE Closed(q) \/ End(q) \/ SnapshotSent(q)
  BY <1>4, MoveTyped DEF Closed, End, SnapshotSent, Handler, conn
<1>5. QED
  BY <1>1, <1>2, <1>3, <1>4

LEMMA LoopTyped ==
  ASSUME TypeOK, StreamTypeOK, NEW q \in Subscriptions,
         \/ StartTasks(q) \/ ReceiveStep(q) \/ EventStep(q)
         \/ Resume(q) \/ EventSent(q) \/ SendFails(q)
  PROVE  StreamTypeOK'
<1>1. CASE StartTasks(q)
  <2>1. /\ handler' \in [Subscriptions -> Handler] /\ handler'[q] = "waiting"
        /\ \A p \in Subscriptions \ {q} : handler'[p] = handler[p]
    BY <1>1, HandlerGoes DEF StartTasks, StreamTypeOK, Handler
  <2>2. /\ inbox' \in [Subscriptions -> Seq(Message)]
        /\ message' \in [Subscriptions -> Message \cup {NoResult}]
        /\ \A p \in Subscriptions \ {q} : message'[p] = message[p]
    BY <1>1, TakesTyped DEF StartTasks, StreamTypeOK
  <2>3. /\ event' \in [Subscriptions -> Nat]
        /\ \A p \in Subscriptions \ {q} : event'[p] = event[p]
    BY <1>1, TakesTyped DEF StartTasks, StreamTypeOK
  <2>4. \A p \in Subscriptions :
          /\ message'[p] # NoResult => handler'[p] = "waiting"
          /\ event'[p] # 0 => handler'[p] \in {"waiting", "sending"}
    BY <2>1, <2>2, <2>3 DEF StreamTypeOK
  <2>5. QED
    BY <1>1, <2>1, <2>2, <2>3, <2>4 DEF StartTasks, StreamTypeOK, delivery
<1>2. CASE ReceiveStep(q)
  BY <1>2, TakesTyped DEF ReceiveStep, StreamTypeOK, delivery
<1>3. CASE EventStep(q)
  BY <1>3, TakesTyped DEF EventStep, StreamTypeOK, conn, delivery
<1>4. CASE Resume(q)
  <2>1. PICK to \in {"ending", "closing", "sending"} :
          Goes(q, "waiting", to) /\ (to = "sending" <=> message[q] = NoResult)
    BY <1>4 DEF Resume, NoResult
  <2>2. /\ handler' \in [Subscriptions -> Handler] /\ handler'[q] = to
        /\ \A p \in Subscriptions \ {q} : handler'[p] = handler[p]
    BY <2>1, HandlerGoes DEF StreamTypeOK, Handler
  <2>3. message' = [message EXCEPT ![q] = NoResult]
        /\ event' = [event EXCEPT ![q] = IF message[q] = NoResult THEN @ ELSE 0]
        /\ UNCHANGED <<inbox, gone, sent, sent_last>>
    BY <1>4 DEF Resume, conn, delivery
  <2>4. \A p \in Subscriptions :
          /\ message'[p] # NoResult => handler'[p] = "waiting"
          /\ event'[p] # 0 => handler'[p] \in {"waiting", "sending"}
    BY <2>1, <2>2, <2>3 DEF StreamTypeOK
  <2>5. QED
    BY <2>2, <2>3, <2>4 DEF StreamTypeOK
<1>5. CASE EventSent(q)
  <2>1. /\ handler' \in [Subscriptions -> Handler] /\ handler[q] = "sending"
        /\ \A p \in Subscriptions \ {q} : handler'[p] = handler[p]
    BY <1>5, HandlerGoes DEF EventSent, StreamTypeOK, Handler
  <2>2. /\ event' = [event EXCEPT ![q] = 0]
        /\ sent' \in [Subscriptions -> Nat] /\ sent_last' \in [Subscriptions -> Nat]
        /\ UNCHANGED <<inbox, gone, message>>
    BY <1>5 DEF EventSent, StreamTypeOK, conn
  <2>3. \A p \in Subscriptions :
          /\ message'[p] # NoResult => handler'[p] = "waiting"
          /\ event'[p] # 0 => handler'[p] \in {"waiting", "sending"}
    BY <2>1, <2>2 DEF StreamTypeOK
  <2>4. QED
    BY <2>1, <2>2, <2>3 DEF StreamTypeOK
<1>6. CASE SendFails(q)
  <2>1. PICK from \in {"snapshot", "sending"} : Goes(q, from, "ending")
    BY <1>6 DEF SendFails
  <2>2. /\ handler' \in [Subscriptions -> Handler] /\ handler[q] = from
        /\ \A p \in Subscriptions \ {q} : handler'[p] = handler[p]
    BY <2>1, HandlerGoes DEF StreamTypeOK, Handler
  <2>3. event' = [event EXCEPT ![q] = 0]
        /\ UNCHANGED <<inbox, gone, message, sent, sent_last>>
    BY <1>6 DEF SendFails, conn, delivery
  <2>4. \A p \in Subscriptions :
          /\ message'[p] # NoResult => handler'[p] = "waiting"
          /\ event'[p] # 0 => handler'[p] \in {"waiting", "sending"}
    BY <2>2, <2>3 DEF StreamTypeOK
  <2>5. QED
    BY <2>2, <2>3, <2>4 DEF StreamTypeOK
<1>7. QED
  BY <1>1, <1>2, <1>3, <1>4, <1>5, <1>6

LEMMA StreamTypeNext == TypeOK /\ StreamTypeOK /\ [StreamNext]_allvars => StreamTypeOK'
<1> SUFFICES ASSUME TypeOK, StreamTypeOK, [StreamNext]_allvars PROVE StreamTypeOK'
  OBVIOUS
<1>1. CASE UNCHANGED allvars
  BY <1>1 DEF allvars, streams, conn, tasks, delivery, StreamTypeOK
<1>2. ASSUME NEW s \in SessionIds, Published(s) PROVE StreamTypeOK'
  BY <1>2 DEF Published, streams, conn, tasks, delivery, StreamTypeOK
<1>3. ASSUME NEW q \in Subscriptions,
             (\E m \in {"token", "text"} : ClientSends(q, m)) \/ ClientGoes(q)
      PROVE  StreamTypeOK'
  BY <1>3, ClientTyped
<1>4. ASSUME NEW q \in Subscriptions, Connect(q) \/ HandlerStep(q) \/ SendEnds(q)
      PROVE  StreamTypeOK'
  BY <1>4, AdmissionTyped, LoopTyped DEF HandlerStep, SendEnds
<1>5. QED
  BY <1>1, <1>2, <1>3, <1>4 DEF StreamNext

\* The broker's invariant holds of the streams.
LEMMA StreamsKeepBroker == StreamSpec => []BrokerInv
BY StreamsUseBroker, BrokerInvariant, PTL

\* The variables of the streams keep their types, and no task of an earlier
\* turn leaves a result behind (main.py:699-726).
THEOREM StreamTypeCorrect == StreamSpec => []StreamTypeOK
<1>1. StreamInit => StreamTypeOK
  BY StreamTypeInit
<1>2. BrokerInv /\ StreamTypeOK /\ [StreamNext]_allvars => StreamTypeOK'
  BY StreamTypeNext DEF BrokerInv
<1>3. QED
  BY <1>1, <1>2, StreamsKeepBroker, PTL DEF StreamSpec

-----------------------------------------------------------------------------
(* What a stream holds, has taken and has sent.                            *)

\* Before it is admitted, a stream has no subscription and has sent nothing.
Outside(q) ==
  handler[q] \in {"none", "auth", "refusing"} => session_id[q] = NoSession /\ sent_last[q] = 0

Held(q) == q \in Open <=> handler[q] \in Streaming

\* What was taken was sent, but for the event at hand.
Balance(q) ==
  /\ taken[q] - sent[q] \in {0, 1}
  /\ handler[q] \in {"snapshot", "loop", "waiting", "sending"}
       => taken[q] - sent[q] = IF event[q] = 0 THEN 0 ELSE 1
  /\ handler[q] = "sending" => event[q] # 0

\* The event at hand is newer than those sent, and not ahead of the log.
Fresh(q) ==
  q \in Open => /\ sent_last[q] <= Cursor[q]
                /\ event[q] # 0 => /\ sent_last[q] < event[q]
                                   /\ joined[q] < event[q]
                                   /\ event[q] <= Cursor[q]

StreamOK(q) == Outside(q) /\ Held(q) /\ Balance(q) /\ Fresh(q)

StreamInv == BrokerInv /\ StreamTypeOK /\ \A q \in Subscriptions : StreamOK(q)

\* The invariant gives the two properties of states.
LEMMA StreamInvStrong == StreamInv => SubscriptionHeld /\ NoEventLost
BY DEF StreamInv, StreamOK, Held, Balance, SubscriptionHeld, NoEventLost

\* Nothing the invariant of stream p looks at changes.
Same(p) ==
  /\ handler'[p] = handler[p] /\ event'[p] = event[p]
  /\ sent'[p] = sent[p] /\ sent_last'[p] = sent_last[p]
  /\ taken'[p] = taken[p] /\ session_id'[p] = session_id[p]
  /\ joined'[p] = joined[p] /\ Cursor'[p] = Cursor[p]
  /\ p \in Open' <=> p \in Open

LEMMA SameStreamOK ==
  ASSUME NEW p \in Subscriptions, StreamOK(p), Same(p)
  PROVE  StreamOK(p)'
BY DEF StreamOK, Outside, Held, Balance, Fresh, Same

\* A broker step of subscription q leaves the other subscriptions alone.
LEMMA BrokerFrame ==
  ASSUME BrokerInv, NEW q \in Subscriptions,
         \/ UNCHANGED vars \/ Receive(q) \/ Close(q)
         \/ \E s \in SessionIds : Subscribe(q, s),
         NEW p \in Subscriptions \ {q}
  PROVE  /\ taken'[p] = taken[p] /\ session_id'[p] = session_id[p]
         /\ joined'[p] = joined[p] /\ Cursor'[p] = Cursor[p]
         /\ p \in Open' <=> p \in Open
<1>1. /\ taken'[p] = taken[p] /\ session_id'[p] = session_id[p]
      /\ joined'[p] = joined[p] /\ queue'[p] = queue[p]
      /\ published' = published
      /\ p \in closed' <=> p \in closed
  BY ZenonT(40) DEF BrokerInv, TypeOK, vars, records, Receive, Close, Subscribe
<1>2. p \in Open' <=> p \in Open
  BY <1>1 DEF Open
<1>3. Cursor'[p] = Cursor[p]
  BY <1>1, <1>2 DEF Cursor
<1>4. QED
  BY <1>1, <1>2, <1>3

\* A step of stream q leaves the other streams alone.
LEMMA StreamFrame ==
  ASSUME BrokerInv, StreamTypeOK, NEW q \in Subscriptions,
         \/ (\E m \in {"token", "text"} : ClientSends(q, m)) \/ ClientGoes(q)
         \/ Connect(q) \/ HandlerStep(q) \/ SendEnds(q),
         NEW p \in Subscriptions \ {q}
  PROVE  Same(p)
<1>1. /\ handler'[p] = handler[p] /\ event'[p] = event[p]
      /\ sent'[p] = sent[p] /\ sent_last'[p] = sent_last[p]
      /\ \/ UNCHANGED vars \/ Receive(q) \/ Close(q)
         \/ \E s \in SessionIds : Subscribe(q, s)
  <2>1. CASE (\E m \in {"token", "text"} : ClientSends(q, m)) \/ ClientGoes(q)
    BY <2>1 DEF ClientSends, ClientGoes, tasks, delivery
  <2>2. CASE Connect(q)
    BY <2>2 DEF Connect, Admit, Goes, StreamTypeOK, conn, tasks, delivery
  <2>3. CASE AuthMessage(q)
    BY <2>3 DEF AuthMessage, Admit, Goes, StreamTypeOK, tasks, delivery
  <2>4. CASE AuthTimeout(q) \/ Refused(q) \/ Closed(q) \/ SnapshotSent(q)
    BY <2>4 DEF AuthTimeout, Refused, Closed, SnapshotSent, Goes, StreamTypeOK,
                conn, tasks, delivery
  <2>5. CASE StartTasks(q)
    BY <2>5 DEF StartTasks, TakeMessage, TakeEvent, Goes, StreamTypeOK, delivery
  <2>6. CASE ReceiveStep(q) \/ EventStep(q)
    BY <2>6 DEF ReceiveStep, EventStep, TakeEvent, StreamTypeOK, delivery
  <2>7. CASE Resume(q)
    BY <2>7 DEF Resume, Goes, StreamTypeOK, conn, delivery
  <2>8. CASE EventSent(q) \/ SendFails(q)
    BY <2>8 DEF EventSent, SendFails, Goes, StreamTypeOK, conn, delivery
  <2>9. CASE End(q)
    BY <2>9 DEF End, Goes, StreamTypeOK, conn, tasks, delivery
  <2>10. QED
    BY <2>1, <2>2, <2>3, <2>4, <2>5, <2>6, <2>7, <2>8, <2>9 DEF HandlerStep, SendEnds
<1>2. /\ taken'[p] = taken[p] /\ session_id'[p] = session_id[p]
      /\ joined'[p] = joined[p] /\ Cursor'[p] = Cursor[p]
      /\ p \in Open' <=> p \in Open
  BY <1>1, BrokerFrame
<1>3. QED
  BY <1>1, <1>2 DEF Same

-----------------------------------------------------------------------------
(* The invariant of a stream is kept by the stream's own steps.            *)

\* The state a stream leaves the broker in when it does not use it.
LEMMA BrokerUnused ==
  ASSUME UNCHANGED vars, NEW q \in Subscriptions
  PROVE  /\ taken'[q] = taken[q] /\ session_id'[q] = session_id[q]
         /\ joined'[q] = joined[q] /\ Cursor'[q] = Cursor[q]
         /\ q \in Open' <=> q \in Open
BY DEF vars, records, Cursor, Open

LEMMA AdmitOK ==
  ASSUME StreamInv, NEW q \in Subscriptions, NEW from \in {"none", "auth"},
         Admit(q, from), UNCHANGED <<tasks, delivery>>
  PROVE  StreamOK(q)'
<1>1. PICK s \in SessionIds : Subscribe(q, s) /\ Goes(q, from, "snapshot")
  BY DEF Admit
<1>2. BrokerInv /\ StreamTypeOK /\ StreamOK(q)
  BY DEF StreamInv
<1>3. Log!Join(q, s)
  BY <1>1, <1>2, SubscribeJoins
<1>4. handler[q] = from /\ handler'[q] = "snapshot"
  BY <1>1, <1>2 DEF Goes, StreamTypeOK
<1>5. /\ session_id[q] = NoSession /\ taken'[q] = taken[q]
      /\ session_id'[q] = s /\ s # NoSession /\ closed' = closed
  BY <1>1, <1>2, EventBrokerAssumption DEF Subscribe, BrokerInv, TypeOK
<1>6. taken[q] = 0 /\ q \notin closed /\ sent_last[q] = 0 /\ event[q] = 0
  BY <1>2, <1>4, <1>5 DEF BrokerInv, Untouched, StreamOK, Outside, StreamTypeOK
<1>7. sent[q] = 0
  <2>1. 0 - sent[q] \in {0, 1} /\ sent[q] \in Nat
    BY <1>2, <1>6 DEF StreamOK, Balance, StreamTypeOK
  <2>2. QED
    BY <2>1
<1>8. q \in Open'
  BY <1>5, <1>6 DEF Open
<1>9. /\ event'[q] = 0 /\ sent'[q] = 0 /\ sent_last'[q] = 0 /\ taken'[q] = 0
  BY <1>5, <1>6, <1>7 DEF tasks, delivery
<1>10. Cursor'[q] = published[s] /\ published[s] \in Nat
  <2>1. Cursor \in [Subscriptions -> Int]
    BY <1>2, LogView, OpenFacts DEF Cursor, BrokerInv
  <2>2. QED
    BY <1>2, <1>3, <2>1, EventBrokerAssumption DEF Log!Join, BrokerInv, TypeOK
<1>11. Fresh(q)'
  BY <1>9, <1>10 DEF Fresh
<1>12. QED
  BY <1>4, <1>8, <1>9, <1>11 DEF StreamOK, Outside, Held, Balance, Streaming

\* Moves that neither admit nor end the stream, nor touch what is in hand.
LEMMA MoveOK ==
  ASSUME StreamInv, NEW q \in Subscriptions,
         NEW from \in Handler, NEW to \in Handler \ {"sending"}, Goes(q, from, to),
         UNCHANGED vars, UNCHANGED <<tasks, delivery>>,
         from \in Streaming <=> to \in Streaming,
         to \in {"auth", "refusing"} => from \in {"none", "auth"},
         to \in {"loop", "waiting"} => from \in {"snapshot", "loop"},
         to \notin {"none", "snapshot"}
  PROVE  StreamOK(q)'
<1>1. StreamTypeOK /\ StreamOK(q)
  BY DEF StreamInv
<1>2. handler[q] = from /\ handler'[q] = to
  BY <1>1 DEF Goes, StreamTypeOK
<1>3. /\ event'[q] = event[q] /\ sent'[q] = sent[q] /\ sent_last'[q] = sent_last[q]
  BY DEF tasks, delivery
<1>4. Outside(q)'
  BY <1>1, <1>2, <1>3, BrokerUnused DEF StreamOK, Outside
<1>5. Held(q)'
  BY <1>1, <1>2, BrokerUnused DEF StreamOK, Held
<1>6. Balance(q)'
  BY <1>1, <1>2, <1>3, BrokerUnused DEF StreamOK, Balance
<1>7. Fresh(q)'
  BY <1>1, <1>3, BrokerUnused DEF StreamOK, Fresh
<1>8. QED
  BY <1>4, <1>5, <1>6, <1>7 DEF StreamOK

LEMMA AdmissionOK ==
  ASSUME StreamInv, NEW q \in Subscriptions,
         Connect(q) \/ AuthMessage(q) \/ AuthTimeout(q) \/ Refused(q)
         \/ Closed(q) \/ SnapshotSent(q)
  PROVE  StreamOK(q)'
<1>1. CASE Connect(q)
  BY <1>1, AdmitOK, MoveOK DEF Connect, Handler, Streaming
<1>2. CASE AuthMessage(q)
  BY <1>2, AdmitOK, MoveOK DEF AuthMessage, Handler, Streaming
<1>3. CASE AuthTimeout(q) \/ Refused(q)
  BY <1>3, MoveOK DEF AuthTimeout, Refused, Handler, Streaming
<1>4. CASE Closed(q) \/ SnapshotSent(q)
  BY <1>4, MoveOK DEF Closed, SnapshotSent, Handler, Streaming
<1>5. QED
  BY <1>1, <1>2, <1>3, <1>4

\* The event a task takes is the one after the cursor.
LEMMA TakenFresh ==
  ASSUME StreamInv, NEW q \in Subscriptions, TakeEvent(q)
  PROVE  /\ q \in Open /\ q \in Open' /\ event[q] = 0
         /\ taken'[q] = taken[q] + 1 /\ joined'[q] = joined[q]
         /\ session_id'[q] = session_id[q]
         /\ Cursor[q] \in Int /\ Cursor[q] >= 0 /\ joined[q] <= Cursor[q]
         /\ Cursor'[q] = Cursor[q] + 1 /\ event'[q] = Cursor[q] + 1
<1>1. BrokerInv /\ StreamTypeOK /\ Receive(q) /\ event[q] = 0
  BY DEF StreamInv, TakeEvent
<1>2. q \in Open /\ q \in Open'
  BY <1>1 DEF Receive, Open
<1>3. /\ taken'[q] = taken[q] + 1 /\ joined'[q] = joined[q]
      /\ session_id'[q] = session_id[q] /\ last'[q] = Head(queue[q])
  BY <1>1 DEF Receive, BrokerInv, TypeOK
<1>4. Log!Read(q)
  BY <1>1, ReceiveReads
<1>5. Cursor'[q] = Cursor[q] + 1 /\ last'[q] = Cursor[q] + 1
  BY <1>1, <1>4 DEF Log!Read, BrokerInv, TypeOK, Cursor
<1>6. event'[q] = Head(queue[q])
  BY <1>1 DEF TakeEvent, StreamTypeOK
<1>7. Cursor[q] \in Int /\ Cursor[q] >= 0 /\ joined[q] <= Cursor[q]
  <2>1. /\ Cursor[q] = published[session_id[q]] - Len(queue[q])
        /\ published[session_id[q]] \in Int /\ Len(queue[q]) \in Int
        /\ joined[q] \in Nat
        /\ joined[q] <= published[session_id[q]] - Len(queue[q])
    BY <1>1, <1>2, LogView, OpenFacts DEF BrokerInv
  <2>2. QED
    BY <2>1
<1>8. QED
  BY <1>1, <1>2, <1>3, <1>5, <1>6, <1>7

\* A task that takes an event while its handler waits.
LEMMA TakeOK ==
  ASSUME StreamInv, NEW q \in Subscriptions, TakeEvent(q), UNCHANGED delivery,
         handler[q] \in {"loop", "waiting"}, handler'[q] = "waiting"
  PROVE  StreamOK(q)'
<1>1. StreamTypeOK /\ StreamOK(q)
  BY DEF StreamInv
<1>2. /\ q \in Open /\ q \in Open' /\ event[q] = 0
      /\ taken'[q] = taken[q] + 1 /\ joined'[q] = joined[q]
      /\ Cursor[q] \in Int /\ Cursor[q] >= 0 /\ joined[q] <= Cursor[q]
      /\ Cursor'[q] = Cursor[q] + 1 /\ event'[q] = Cursor[q] + 1
  BY TakenFresh
<1>3. sent'[q] = sent[q] /\ sent_last'[q] = sent_last[q]
  BY DEF delivery
<1>4. taken[q] - sent[q] = 0 /\ taken[q] \in Int /\ sent[q] \in Int
  BY <1>1, <1>2 DEF StreamOK, Balance, StreamTypeOK, StreamInv, BrokerInv, TypeOK
<1>5. taken'[q] - sent'[q] = 1 /\ event'[q] # 0
  BY <1>2, <1>3, <1>4
<1>6. Balance(q)'
  BY <1>5 DEF Balance
<1>7. Fresh(q)'
  <2>1. sent_last[q] <= Cursor[q] /\ sent_last[q] \in Int /\ joined[q] \in Int
    BY <1>1, <1>2 DEF StreamOK, Fresh, StreamTypeOK, StreamInv, BrokerInv, TypeOK
  <2>2. /\ sent_last[q] <= Cursor[q] + 1 /\ sent_last[q] < Cursor[q] + 1
        /\ joined[q] < Cursor[q] + 1 /\ Cursor[q] + 1 <= Cursor[q] + 1
    BY <1>2, <2>1
  <2>3. QED
    BY <1>2, <1>3, <2>2 DEF Fresh
<1>8. QED
  BY <1>2, <1>6, <1>7 DEF StreamOK, Outside, Held, Streaming

LEMMA LoopOK ==
  ASSUME StreamInv, NEW q \in Subscriptions,
         StartTasks(q) \/ ReceiveStep(q) \/ EventStep(q)
  PROVE  StreamOK(q)'
<1>1. StreamTypeOK /\ StreamOK(q)
  BY DEF StreamInv
<1>2. CASE StartTasks(q)
  <2>1. /\ Goes(q, "loop", "waiting") /\ UNCHANGED delivery
        /\ TakeEvent(q) \/ UNCHANGED <<vars, event>>
    BY <1>2 DEF StartTasks
  <2>2. handler[q] = "loop" /\ handler'[q] = "waiting"
    BY <1>1, <2>1 DEF Goes, StreamTypeOK
  <2>3. CASE TakeEvent(q)
    BY <2>1, <2>2, <2>3, TakeOK
  <2>4. CASE UNCHANGED <<vars, event>>
    <3>1. /\ event'[q] = event[q] /\ sent'[q] = sent[q] /\ sent_last'[q] = sent_last[q]
      BY <2>1, <2>4 DEF delivery
    <3>2. QED
      BY <1>1, <2>2, <2>4, <3>1, BrokerUnused
         DEF StreamOK, Outside, Held, Balance, Fresh, Streaming
  <2>5. QED
    BY <2>1, <2>3, <2>4
<1>3. CASE ReceiveStep(q)
  <2>1. UNCHANGED <<vars, handler, event, sent, sent_last>>
    BY <1>3 DEF ReceiveStep, delivery
  <2>2. QED
    BY <1>1, <2>1, BrokerUnused DEF StreamOK, Outside, Held, Balance, Fresh
<1>4. CASE EventStep(q)
  BY <1>4, TakeOK DEF EventStep
<1>5. QED
  BY <1>2, <1>3, <1>4

LEMMA ResumeOK ==
  ASSUME StreamInv, NEW q \in Subscriptions, Resume(q)
  PROVE  StreamOK(q)'
<1>1. StreamTypeOK /\ StreamOK(q)
  BY DEF StreamInv
<1>2. UNCHANGED vars /\ sent'[q] = sent[q] /\ sent_last'[q] = sent_last[q]
  BY DEF Resume, delivery
<1>3. handler[q] = "waiting"
  BY DEF Resume, Goes
<1>4. CASE message[q] = NoResult
  <2>1. handler'[q] = "sending" /\ event[q] # 0 /\ event'[q] = event[q]
    BY <1>1, <1>4 DEF Resume, Goes, NoResult, StreamTypeOK
  <2>2. QED
    BY <1>1, <1>2, <1>3, <2>1, BrokerUnused
       DEF StreamOK, Outside, Held, Balance, Fresh, Streaming
<1>5. CASE message[q] # NoResult
  <2>1. handler'[q] \in {"ending", "closing"} /\ event'[q] = 0
    BY <1>1, <1>5 DEF Resume, Goes, NoResult, StreamTypeOK
  <2>2. QED
    BY <1>1, <1>2, <1>3, <2>1, BrokerUnused
       DEF StreamOK, Outside, Held, Balance, Fresh, Streaming
<1>6. QED
  BY <1>4, <1>5

LEMMA SendOK ==
  ASSUME StreamInv, NEW q \in Subscriptions, EventSent(q) \/ SendFails(q)
  PROVE  StreamOK(q)'
<1>1. StreamTypeOK /\ StreamOK(q)
  BY DEF StreamInv
<1>2. UNCHANGED vars /\ event'[q] = 0
  BY <1>1 DEF EventSent, SendFails, StreamTypeOK
<1>3. CASE EventSent(q)
  <2>1. /\ handler[q] = "sending" /\ handler'[q] = "loop"
        /\ sent'[q] = sent[q] + 1 /\ sent_last'[q] = event[q]
    BY <1>1, <1>3 DEF EventSent, Goes, StreamTypeOK
  <2>2. /\ event[q] # 0 /\ taken[q] - sent[q] = 1
        /\ taken[q] \in Int /\ sent[q] \in Int /\ q \in Open
    BY <1>1, <2>1 DEF StreamOK, Balance, Held, Streaming, StreamTypeOK, StreamInv,
                      BrokerInv, TypeOK
  <2>3. taken[q] - (sent[q] + 1) = 0
    BY <2>2
  <2>4. Balance(q)'
    BY <1>2, <2>1, <2>3, BrokerUnused DEF Balance
  <2>5. Fresh(q)'
    BY <1>1, <1>2, <2>1, <2>2, BrokerUnused DEF StreamOK, Fresh
  <2>6. QED
    BY <1>2, <2>1, <2>2, <2>4, <2>5, BrokerUnused DEF StreamOK, Outside, Held, Streaming
<1>4. CASE SendFails(q)
  <2>1. /\ handler[q] \in {"snapshot", "sending"} /\ handler'[q] = "ending"
        /\ sent'[q] = sent[q] /\ sent_last'[q] = sent_last[q]
    BY <1>1, <1>4 DEF SendFails, Goes, StreamTypeOK, delivery
  <2>2. QED
    BY <1>1, <1>2, <2>1, BrokerUnused
       DEF StreamOK, Outside, Held, Balance, Fresh, Streaming
<1>5. QED
  BY <1>3, <1>4

LEMMA EndOK ==
  ASSUME StreamInv, NEW q \in Subscriptions, End(q)
  PROVE  StreamOK(q)'
<1>1. StreamTypeOK /\ StreamOK(q)
  BY DEF StreamInv
<1>2. handler'[q] = "done" /\ Close(q) /\ UNCHANGED <<tasks, delivery>>
  BY <1>1 DEF End, Goes, StreamTypeOK
<1>3. q \notin Open' /\ taken'[q] = taken[q] /\ sent'[q] = sent[q]
  BY <1>2 DEF Close, Open, records, delivery
<1>4. QED
  BY <1>1, <1>2, <1>3 DEF StreamOK, Outside, Held, Balance, Fresh, Streaming

LEMMA ClientOK ==
  ASSUME StreamInv, NEW q \in Subscriptions,
         (\E m \in {"token", "text"} : ClientSends(q, m)) \/ ClientGoes(q)
  PROVE  StreamOK(q)'
<1>1. UNCHANGED <<vars, handler, event, sent, sent_last>>
  BY DEF ClientSends, ClientGoes, tasks, delivery
<1>2. Same(q)
  BY <1>1, BrokerUnused DEF Same
<1>3. QED
  BY <1>2, SameStreamOK DEF StreamInv

\* A publish moves nothing of a stream but its cursor, and that forward.
LEMMA PublishOK ==
  ASSUME StreamInv, NEW s \in SessionIds, Published(s), NEW p \in Subscriptions
  PROVE  StreamOK(p)'
<1>1. BrokerInv /\ StreamTypeOK /\ StreamOK(p) /\ TypeOK /\ NewestInOrder
  BY DEF StreamInv, BrokerInv
<1>2. Publish(s) /\ UNCHANGED streams
  BY DEF Published
<1>3. /\ handler'[p] = handler[p] /\ event'[p] = event[p]
      /\ sent'[p] = sent[p] /\ sent_last'[p] = sent_last[p]
  BY <1>2 DEF streams, tasks, delivery
<1>4. /\ taken'[p] = taken[p] /\ session_id'[p] = session_id[p]
      /\ joined'[p] = joined[p]
      /\ p \in Open' <=> p \in Open
  BY <1>2 DEF Publish, Open
<1>5. ASSUME p \in Open
      PROVE  Cursor[p] \in Int /\ Cursor'[p] \in Int /\ Cursor[p] <= Cursor'[p]
  <2>1. Cursor[p] = published[session_id[p]] - Len(queue[p])
        /\ published[session_id[p]] \in Int /\ Len(queue[p]) \in Int
    BY <1>1, <1>5, LogView, OpenFacts
  <2>2. Cursor[p] \in Int
    BY <2>1
  <2>3. Log!Log(s)
    BY <1>1, <1>2, PublishLogs
  <2>4. published[s] \in Int /\ QueueSize \in Int
    BY <1>1, EventBrokerAssumption DEF TypeOK
  <2>5. \/ Cursor'[p] = Cursor[p]
        \/ /\ (published[s] + 1) - Cursor[p] > QueueSize
           /\ Cursor'[p] = (published[s] + 1) - QueueSize
    BY <2>3 DEF Log!Log
  <2>6. QED
    BY <2>2, <2>4, <2>5
<1>6. ASSUME p \in Open
      PROVE  /\ sent_last[p] <= Cursor'[p]
             /\ event[p] # 0 => /\ sent_last[p] < event[p] /\ joined[p] < event[p]
                                /\ event[p] <= Cursor'[p]
  <2>1. /\ sent_last[p] <= Cursor[p]
        /\ event[p] # 0 => /\ sent_last[p] < event[p] /\ joined[p] < event[p]
                           /\ event[p] <= Cursor[p]
    BY <1>1, <1>6 DEF StreamOK, Fresh
  <2>2. sent_last[p] \in Int /\ event[p] \in Int
    BY <1>1 DEF StreamTypeOK
  <2>3. Cursor[p] \in Int /\ Cursor'[p] \in Int /\ Cursor[p] <= Cursor'[p]
    BY <1>5, <1>6
  <2>4. sent_last[p] <= Cursor'[p] /\ (event[p] # 0 => event[p] <= Cursor'[p])
    BY <2>1, <2>2, <2>3
  <2>5. QED
    BY <2>1, <2>4
<1>7. Fresh(p)'
  BY <1>3, <1>4, <1>6 DEF Fresh
<1>8. QED
  BY <1>1, <1>3, <1>4, <1>7 DEF StreamOK, Outside, Held, Balance

-----------------------------------------------------------------------------
(* The theorems.                                                           *)

LEMMA InitStream == StreamInit => StreamInv
<1> SUFFICES ASSUME StreamInit PROVE StreamInv
  OBVIOUS
<1>1. BrokerInv /\ StreamTypeOK
  BY InitBroker, StreamTypeInit DEF StreamInit
<1>2. ASSUME NEW q \in Subscriptions PROVE StreamOK(q)
  <2>1. /\ handler[q] = "none" /\ session_id[q] = NoSession /\ taken[q] = 0
        /\ sent[q] = 0 /\ sent_last[q] = 0 /\ q \notin Open
    BY DEF StreamInit, Init, Zeros, Open
  <2>2. QED
    BY <2>1 DEF StreamOK, Outside, Held, Balance, Fresh, Streaming
<1>3. QED
  BY <1>1, <1>2 DEF StreamInv

LEMMA NextStream == StreamInv /\ [StreamNext]_allvars => StreamInv'
<1> SUFFICES ASSUME StreamInv, [StreamNext]_allvars PROVE StreamInv'
  OBVIOUS
<1>1. BrokerInv /\ StreamTypeOK /\ TypeOK
  BY DEF StreamInv, BrokerInv
<1>2. BrokerInv'
  BY <1>1, StreamStepIsBrokerStep, NextBroker
<1>3. StreamTypeOK'
  BY <1>1, StreamTypeNext
<1>4. ASSUME NEW p \in Subscriptions PROVE StreamOK(p)'
  <2>1. StreamOK(p)
    BY DEF StreamInv
  <2>2. CASE UNCHANGED allvars
    <3>1. Same(p)
      BY <2>2, BrokerUnused DEF allvars, streams, tasks, delivery, Same
    <3>2. QED
      BY <2>1, <3>1, SameStreamOK
  <2>3. CASE \E s \in SessionIds : Published(s)
    BY <2>3, PublishOK
  <2>4. ASSUME NEW q \in Subscriptions,
               \/ (\E m \in {"token", "text"} : ClientSends(q, m)) \/ ClientGoes(q)
               \/ Connect(q) \/ HandlerStep(q) \/ SendEnds(q)
        PROVE  StreamOK(p)'
    <3>1. CASE p = q
      BY <2>4, <3>1, ClientOK, AdmissionOK, LoopOK, ResumeOK, SendOK, EndOK
         DEF HandlerStep, SendEnds
    <3>2. CASE p # q
      <4>1. Same(p)
        BY <1>1, <2>4, <3>2, StreamFrame
      <4>2. QED
        BY <2>1, <4>1, SameStreamOK
    <3>3. QED
      BY <3>1, <3>2
  <2>5. QED
    BY <2>2, <2>3, <2>4 DEF StreamNext
<1>5. QED
  BY <1>2, <1>3, <1>4 DEF StreamInv

\* The inductive invariant of the streams.
THEOREM StreamInvariant == StreamSpec => []StreamInv
<1>1. StreamInit => StreamInv
  BY InitStream
<1>2. StreamInv /\ [StreamNext]_allvars => StreamInv'
  BY NextStream
<1>3. QED
  BY <1>1, <1>2, PTL DEF StreamSpec

\* Whatever ends a handler, its subscription is open exactly while the handler
\* is inside the try block that closes it (main.py:286-300).
THEOREM SubscriptionsHeld == StreamSpec => []SubscriptionHeld
<1>1. StreamInv => SubscriptionHeld
  BY StreamInvStrong
<1>2. QED
  BY <1>1, StreamInvariant, PTL

\* No order of messages, events and cancellations makes a stream that goes on
\* lose an event it took (main.py:699-726).
THEOREM NothingLost == StreamSpec => []NoEventLost
<1>1. StreamInv => NoEventLost
  BY StreamInvStrong
<1>2. QED
  BY <1>1, StreamInvariant, PTL

\* A step that sends an event sends a newer one than those sent before.
LEMMA SendsNewer ==
  ASSUME StreamInv, [StreamNext]_allvars, NEW p \in Subscriptions, sent'[p] # sent[p]
  PROVE  sent_last'[p] > sent_last[p] /\ sent_last'[p] > joined[p]
<1>1. BrokerInv /\ StreamTypeOK /\ StreamOK(p)
  BY DEF StreamInv
<1>2. ~UNCHANGED allvars /\ \A s \in SessionIds : ~Published(s)
  BY DEF allvars, streams, delivery, Published
<1>3. PICK q \in Subscriptions :
        \/ (\E m \in {"token", "text"} : ClientSends(q, m)) \/ ClientGoes(q)
        \/ Connect(q) \/ HandlerStep(q) \/ SendEnds(q)
  BY <1>2 DEF StreamNext
<1>4. p = q
  BY <1>1, <1>3, StreamFrame DEF Same
<1>5. EventSent(q)
  BY <1>3, <1>4 DEF ClientSends, ClientGoes, Connect, HandlerStep, SendEnds,
       AuthMessage, AuthTimeout, Refused, StartTasks, ReceiveStep, EventStep, Resume,
       Closed, End, SnapshotSent, SendFails, delivery
<1>6. handler[p] = "sending" /\ sent_last'[p] = event[p]
  BY <1>1, <1>4, <1>5 DEF EventSent, Goes, StreamTypeOK
<1>7. /\ p \in Open /\ event[p] # 0
      /\ sent_last[p] < event[p] /\ joined[p] < event[p]
  BY <1>1, <1>6 DEF StreamOK, Held, Balance, Fresh, Streaming
<1>8. sent_last[p] \in Int /\ event[p] \in Int /\ joined[p] \in Int
  BY <1>1 DEF StreamTypeOK, BrokerInv, TypeOK
<1>9. QED
  BY <1>6, <1>7, <1>8

\* For every number of streams and every queue size, a client is sent the
\* events of its session in order, none twice, and only those published after
\* its snapshot (main.py:286-297, 699-726).
THEOREM OrderKept == StreamSpec => SentInOrder
<1>1. StreamInv /\ [StreamNext]_allvars =>
        [\A q \in Subscriptions :
           sent'[q] # sent[q] =>
             /\ sent_last'[q] > sent_last[q]
             /\ sent_last'[q] > joined[q]]_allvars
  BY SendsNewer
<1>2. QED
  BY <1>1, StreamInvariant, PTL DEF StreamSpec, SentInOrder

=============================================================================
