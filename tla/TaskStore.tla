----------------------------- MODULE TaskStore -----------------------------
(***************************************************************************)
(* The storage contract of a2akit for one task: what storage/base.py       *)
(* promises and InMemoryStorage does.  A task row holds its state, an      *)
(* optimistic-concurrency version, the message of its current status, the  *)
(* client messages appended to its history and the artifacts persisted so  *)
(* far.  Every storage call is one atomic step of the specification; a     *)
(* process may be interrupted between any two of its storage calls.        *)
(*                                                                         *)
(* Messages that the server itself creates (cancel, failure and progress   *)
(* texts) carry fresh uuids, so they never meet the duplicate check; they  *)
(* appear here only as the message of the status they were written with.   *)
(***************************************************************************)
EXTENDS Naturals, Sequences

CONSTANTS
  Messages,   \* message ids that clients use
  Artifacts   \* artifacts that workers produce

\* TERMINAL_STATES
Terminal == {"completed", "failed", "canceled", "rejected"}

\* The interrupted states, in which a task waits for its client.
Paused == {"input_required", "auth_required"}

\* "absent" stands for a task id that has no row yet.
TaskStates == {"absent", "submitted", "working"} \cup Paused \cup Terminal

\* The argument None of update_task, and a status without a message.
None == "none"

\* Who wrote the message of the current status: a progress update, or the
\* transition into the named state.
StatusMessages == {None, "progress"} \cup Paused \cup Terminal

VARIABLES
  tstate,     \* task.status.state
  version,    \* the OCC version; 0 while the row is absent (get_version: None)
  statusMsg,  \* task.status.message
  history,    \* the client messages in task.history, in order
  artifacts   \* the artifacts in task.artifacts

storeVars == <<tstate, version, statusMsg, history, artifacts>>

StoreTypeOK ==
  /\ tstate \in TaskStates
  /\ version \in Nat
  /\ statusMsg \in StatusMessages
  /\ history \in Seq(Messages)
  /\ artifacts \in SUBSET Artifacts

StoreInit ==
  /\ tstate = "absent"
  /\ version = 0
  /\ statusMsg = None
  /\ history = <<>>
  /\ artifacts = {}

-----------------------------------------------------------------------------
\* The duplicate check of the message id against task.history.
InHistory(m) == \E i \in DOMAIN history : history[i] = m

\* create_task, genuine insert: the row appears in `submitted` at version 1
\* with the initial message as its history.
InsertTask(m) ==
  /\ tstate' = "submitted"
  /\ version' = 1
  /\ statusMsg' = None
  /\ history' = <<m>>
  /\ artifacts' = {}

\* update_task raises ConcurrencyError; checked before the terminal guard.
VersionMismatch(v) == v # version

\* update_task raises TaskTerminalStateError: only a write that names a state
\* is refused on a terminal task.
TerminalGuard(st) == st # None /\ tstate \in Terminal

\* The write itself: state st (None keeps the state), status message sm,
\* messages ms appended, artifacts as upserted, version bumped.
ApplyUpdate(st, sm, ms, as) ==
  /\ tstate' = IF st = None THEN tstate ELSE st
  /\ statusMsg' = IF st = None /\ sm = None THEN statusMsg ELSE sm
  /\ history' = history \o ms
  /\ artifacts' = artifacts \cup as
  /\ version' = version + 1

\* Mutant: a version check that lets the writer past the terminal guard.
PinnedUpdate_Unguarded(v, st, sm, ms, as) ==
  /\ ~VersionMismatch(v)
  /\ ApplyUpdate(st, sm, ms, as)

\* update_task with expected_version = v, when it succeeds.
PinnedUpdate(v, st, sm, ms, as) ==
  /\ ~VersionMismatch(v)
  /\ ~TerminalGuard(st)
  /\ ApplyUpdate(st, sm, ms, as)

\* update_task without expected_version, when it succeeds.
BlindUpdate(st, sm, ms, as) ==
  /\ ~TerminalGuard(st)
  /\ ApplyUpdate(st, sm, ms, as)

\* update_task with expected_version = v raises one of its two errors.
UpdateRefused(v, st) == VersionMismatch(v) \/ TerminalGuard(st)
=============================================================================
