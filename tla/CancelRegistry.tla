--------------------------- MODULE CancelRegistry ---------------------------
(***************************************************************************)
(* The in-memory cancel registry of one task (broker/memory.py): a dict    *)
(* entry holding an event.  A run that called on_cancel holds the event    *)
(* object itself, so dropping the entry detaches the run from any event    *)
(* created later, while an event already set stays set for its holders.    *)
(***************************************************************************)
CONSTANT Runs   \* the worker slots that process operations

VARIABLES
  cancelled,  \* the task's entry exists and its event is set (is_cancelled)
  attached,   \* runs holding the event that is the current dict entry
  signalled   \* runs whose own event is set

cancelVars == <<cancelled, attached, signalled>>

CancelTypeOK ==
  /\ cancelled \in BOOLEAN
  /\ attached \in SUBSET Runs
  /\ signalled \in SUBSET Runs

CancelInit ==
  /\ cancelled = FALSE
  /\ attached = {}
  /\ signalled = {}

-----------------------------------------------------------------------------
\* request_cancel: setdefault(...).set().
RequestCancel ==
  /\ cancelled' = TRUE
  /\ signalled' = signalled \cup attached
  /\ UNCHANGED attached

\* on_cancel: the run takes the current event, which may already be set.
OnCancel(w) ==
  /\ attached' = attached \cup {w}
  /\ signalled' = IF cancelled THEN signalled \cup {w} ELSE signalled \ {w}
  /\ UNCHANGED cancelled

\* cleanup(release_key=True): the entry is popped.
ReleaseKey ==
  /\ cancelled' = FALSE
  /\ attached' = {}
  /\ UNCHANGED signalled

\* The run is over and its scope object is garbage.
DropScope(w) ==
  /\ attached' = attached \ {w}
  /\ signalled' = signalled \ {w}
  /\ UNCHANGED cancelled
=============================================================================
