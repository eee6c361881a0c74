SPECIFICATION Spec
CONSTANTS
  Configs = {c1}
  Writers = {run, force}
  Runs = {run}
  FinalVersion = 3
  MaxQueueSize = 2
  MaxAttempts = 2
  Registry <- TwoKeys
INVARIANTS WebhookOrder ClosedAfterWorkers UnwindsInReverse
PROPERTIES NewestSettles
CHECK_DEADLOCK FALSE
