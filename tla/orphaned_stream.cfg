SPECIFICATION Spec
CONSTANTS
  r1 = r1
  r2 = r2
  r3 = r3
  r4 = r4
  m1 = m1
  m2 = m2
  m3 = m3
  Messages = {m1, m2, m3}
  Artifacts = {}
  Requests = {r1, r3}
  Creates = {r1}
  MsgOf <- MCRival
  AgentRole = {}
  Streams = {r3}
  Blocking = {}
  Watchers = {}
  Cancels = {}
  Runs = {w1, w2}
  Calls = {"complete", "request_input"}
  MaxRetries = 1
  MaxFaults = 0
  Tenant = FALSE
  BrokerFails = FALSE
  LateConflict = FALSE
  Redelivery = FALSE
  Listeners = {r1, r3}
INVARIANTS NoOrphanedStream
CHECK_DEADLOCK FALSE
