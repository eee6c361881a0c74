SPECIFICATION DutifulSpec
CONSTANTS
  r1 = r1
  r2 = r2
  r3 = r3
  r4 = r4
  m1 = m1
  m2 = m2
  m3 = m3
  Messages = {m1, m2, m3}
  Artifacts = {}
  Requests = {r1, r2}
  Creates = {r1, r2}
  MsgOf <- MCRival
  AgentRole = {}
  Streams = {r1}
  Blocking = {r2}
  Watchers = {l1}
  Cancels = {}
  Runs = {w1}
  Calls = {"complete", "fail", "request_input"}
  MaxRetries = 1
  MaxFaults = 0
  Tenant = FALSE
  BrokerFails = FALSE
  LateConflict = FALSE
  Redelivery = FALSE
  Listeners = {l1, r1, r2}
INVARIANTS NoOrphanedStream
PROPERTIES StreamsEnd
CHECK_DEADLOCK FALSE
