SPECIFICATION Spec
CONSTANTS
  Readers = {r1}
  Writers = {w1}
  StreamMaxLen = 2
  MaxPublished = 3
  Scopes = {s1, s2}
  Cancellers = {q1, q2}
INVARIANTS RedisInOrder RedisOnlyKnownLosses CancelReachesScope
PROPERTIES RedisDelivers CancelIsSeen
CHECK_DEADLOCK FALSE
