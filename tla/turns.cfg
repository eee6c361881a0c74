SPECIFICATION Spec
CONSTANTS
  r1 = r1
  r2 = r2
  r3 = r3
  r4 = r4
  m1 = m1
  m2 = m2
  m3 = m3
  Messages = {m1, m2, m3}
  Artifacts = {}
  Requests = {r1, r2, r3, r4}
  Creates = {r1, r2}
  MsgOf <- MCRetried
  AgentRole = {}
  Streams = {r2}
  Blocking = {}
  Watchers = {}
  Cancels = {}
  Runs = {w1, w2}
  Calls = {"request_auth", "respond"}
  MaxRetries = 1
  MaxFaults = 0
  Tenant = TRUE
  BrokerFails = FALSE
  LateConflict = FALSE
  Redelivery = FALSE
  Listeners = {r1, r2, r3, r4}
SYMMETRY Symmetry
INVARIANTS TypeOK PauseShowsQuestion HistoryOnce OneOperationPerMessage
PROPERTIES FollowUpResumes ImplementsProtocol
CHECK_DEADLOCK FALSE
