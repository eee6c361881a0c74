--------------------------- MODULE VersionedStore ---------------------------
(***************************************************************************)
(* What a shared storage backend promises for its task rows: every write   *)
(* is one atomic merge on top of the current row, bumps the version by     *)
(* one, and never moves a task out of a terminal state.  TaskStore makes   *)
(* the same assumption for the one task of A2ATask; SqlStorage and         *)
(* RedisStorage are shown to implement it although each of their writes    *)
(* reads, merges in Python and writes back in separate round trips.        *)
(***************************************************************************)
EXTENDS Naturals, Sequences

CONSTANTS
  Tasks,      \* task ids (uuid4: never used twice)
  Contexts,   \* context ids
  Keys,       \* idempotency keys (message ids)
  Calls,      \* storage calls, each made once by some coroutine
  Nil         \* no task, no context, no key, no data

ASSUME NilAssumption == Nil \notin Tasks \cup Contexts \cup Keys \cup Calls

\* One open state a write may repeat, and one terminal state: update_task
\* tells no more apart.
States == {"submitted", "working", "completed"}
Terminal == {"completed"}

\* The argument state=None of update_task.
None == "none"

\* A row: its state, the calls whose merge it holds, in order, its version
\* (0 for a row that does not exist), its context and idempotency key.
Rows == [state : States, log : Seq(Calls), version : Nat,
         ctx : Contexts \cup {Nil}, key : Keys \cup {Nil}]

VARIABLES
  rows,       \* task id -> row
  used        \* the task ids that were ever inserted

storeVars == <<rows, used>>

Live(t) == rows[t].version > 0

AbsentRow == [state |-> "submitted", log |-> <<>>, version |-> 0,
              ctx |-> Nil, key |-> Nil]

\* The row of create_task: submitted, version 1, nothing merged yet.
NewRow(c, k) ==
  [state |-> "submitted", log |-> <<>>, version |-> 1, ctx |-> c, key |-> k]

\* What reading row writes back: the merge of call o, moving to state st.
Merged(row, o, st) ==
  [state |-> IF st = None THEN row.state ELSE st,
   log |-> Append(row.log, o), version |-> row.version + 1,
   ctx |-> row.ctx, key |-> row.key]

\* update_task raises TaskTerminalStateError.
Guarded(row, st) == st # None /\ row.state \in Terminal

Insert(t, c, k) ==
  /\ t \notin used
  /\ rows' = [rows EXCEPT ![t] = NewRow(c, k)]
  /\ used' = used \cup {t}

Remove(ts) ==
  /\ rows' = [t \in Tasks |-> IF t \in ts THEN AbsentRow ELSE rows[t]]
  /\ UNCHANGED used

Merge(t, o, st) ==
  /\ Live(t)
  /\ ~Guarded(rows[t], st)
  /\ rows' = [rows EXCEPT ![t] = Merged(@, o, st)]
  /\ UNCHANGED used

StoreInit ==
  /\ rows = [t \in Tasks |-> AbsentRow]
  /\ used = {}

StoreNext ==
  \/ \E t \in Tasks, c \in Contexts, k \in Keys \cup {Nil} : Insert(t, c, k)
  \/ \E ts \in SUBSET Tasks : Remove(ts)
  \/ \E t \in Tasks, o \in Calls, st \in States \cup {None} : Merge(t, o, st)

StoreSpec == StoreInit /\ [][StoreNext]_storeVars
=============================================================================
