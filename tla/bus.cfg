SPECIFICATION Spec
CONSTANTS
  Clients = {c1}
  Publishers = {p1, p2}
  EventBuffer = 1
  ReplayBuffer = 2
  Kinds = {"status", "end"}
  MaxEvents = 4
SYMMETRY Symmetry
INVARIANTS InPublicationOrder OnlyKnownLosses
