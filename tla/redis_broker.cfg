SPECIFICATION Spec
CONSTANTS
  Nil = Nil
  Consumers = {c1, c2}
  Handles = {h1, h2}
  Ids = {i1, i2, i3}
  Ops = {p1}
  MaxRetries = 2
  AdapterLimits = {2, 3}
  Slots = 1
  MaxFaults = 2
  MaxTrims = 1
  MaxSlow = 1
INVARIANTS OnlyKnownLosses RunsBounded DeadLettersMarked
SYMMETRY Symmetry
CHECK_DEADLOCK FALSE
