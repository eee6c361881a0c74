SPECIFICATION Spec
CONSTANTS
  r1 = r1
  r2 = r2
  r3 = r3
  r4 = r4
  m1 = m1
  m2 = m2
  m3 = m3
  Messages = {m1, m2, m3}
  Artifacts = {}
  Requests = {r1}
  Creates = {r1}
  MsgOf <- MCRival
  AgentRole = {}
  Streams = {}
  Blocking = {}
  Watchers = {}
  Cancels = {c1}
  Runs = {w1}
  Calls = {"reject"}
  MaxRetries = 2
  MaxFaults = 2
  Tenant = FALSE
  BrokerFails = TRUE
  LateConflict = FALSE
  Redelivery = TRUE
  Listeners = {r1}
INVARIANTS FinalEventOnce
PROPERTIES TerminalIsFinal FailedMarkSparesRun
CHECK_DEADLOCK FALSE
