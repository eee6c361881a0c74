SPECIFICATION DutifulSpec
CONSTANTS
  r1 = r1
  r2 = r2
  r3 = r3
  r4 = r4
  m1 = m1
  m2 = m2
  m3 = m3
  Messages = {m1, m2, m3}
  Artifacts = {a1}
  Requests = {r1}
  Creates = {r1}
  MsgOf <- MCRival
  AgentRole = {}
  Streams = {}
  Blocking = {}
  Watchers = {}
  Cancels = {c1}
  Runs = {w1}
  Calls = {"complete", "request_input"}
  MaxRetries = 1
  MaxFaults = 0
  Tenant = FALSE
  BrokerFails = TRUE
  LateConflict = FALSE
  Redelivery = FALSE
  Listeners = {r1}
PROPERTIES ArtifactsKept EveryTurnEnds PausedCancelEnds
CHECK_DEADLOCK FALSE
