SPECIFICATION Spec
CONSTANTS
  r1 = r1
  r2 = r2
  r3 = r3
  r4 = r4
  m1 = m1
  m2 = m2
  m3 = m3
  Messages = {m1, m2, m3}
  Artifacts = {a1}
  Requests = {r1, r3}
  Creates = {r1}
  MsgOf <- MCRival
  AgentRole = {m2}
  Streams = {}
  Blocking = {}
  Watchers = {}
  Cancels = {}
  Runs = {w1, w2}
  Calls = {"complete"}
  MaxRetries = 1
  MaxFaults = 0
  Tenant = FALSE
  BrokerFails = FALSE
  LateConflict = TRUE
  Redelivery = FALSE
  Listeners = {r1, r3}
SYMMETRY Symmetry
PROPERTIES ArtifactsKept
CHECK_DEADLOCK FALSE
