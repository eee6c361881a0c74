SPECIFICATION SharedSpec
CONSTANTS
  Tasks = {t1, t2}
  Contexts = {c1}
  Keys = {k1}
  Calls = {o1, o2, o3, o4}
  Nil = Nil
  MaxAttempts = 2
  Kinds = {"blind", "pinned", "create", "delete", "delete_context", "context"}
INVARIANTS AppliedOnce OneTaskPerKey KeyLeadsToTask HiddenOnlyByContextDelete ContextLostOnlyByDelete
PROPERTIES ImplementsVersionedStore
SYMMETRY Symmetry
CHECK_DEADLOCK FALSE
