\* One stream, whose client reads until it disconnects, and events of its own
\* session and of another.
SPECIFICATION StreamSpec
CONSTANTS
  SessionIds = {s1, s2}
  Subscriptions = {q1}
  Readers = {q1}
  QueueSize = 2
  NoSession = NoSession
  MaxEvents = 4
  MaxInbox = 2
INVARIANTS StreamTypeOK SubscriptionHeld NoEventLost
PROPERTIES SentInOrder GoneUnsubscribed NewestDelivered
CHECK_DEADLOCK FALSE
