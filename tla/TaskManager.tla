---------------------------- MODULE TaskManager ----------------------------
(***************************************************************************)
(* The request side (task_manager.py): message/send and message/stream     *)
(* submit a message and hand it to the broker, tasks/resubscribe attaches  *)
(* a listener, tasks/cancel signals the cancel registry and starts the     *)
(* force-cancel timer.  Each await on storage, bus, broker or registry is  *)
(* one step.                                                               *)
(*                                                                         *)
(* A request r, after its submission, leaves two things behind: the        *)
(* background coroutine that enqueues the operation, which pc[r] follows,  *)
(* and the listener, whose progress is stream[r].                          *)
(***************************************************************************)
EXTENDS CancelTask

CONSTANTS
  Creates,      \* requests without a task_id: the first send and its retries
  MsgOf,        \* the message id each request carries
  AgentRole,    \* message ids sent with role=agent
  Streams,      \* requests that are message/stream calls
  Blocking,     \* message/send calls with blocking semantics
  Tenant,       \* whether requests carry a tenant
  BrokerFails   \* whether broker.run_task may raise

ASSUME RequestAssumption ==
  /\ Creates \subseteq Requests
  /\ Streams \subseteq Requests
  /\ Blocking \subseteq Requests \ Streams
  /\ MsgOf \in [Requests -> Messages]
  /\ \A r, s \in Creates : MsgOf[r] = MsgOf[s]
  /\ AgentRole \subseteq Messages
  /\ Tenant \in BOOLEAN
  /\ BrokerFails \in BOOLEAN

VARIABLE newState   \* the state a follow-up will write (None keeps it)

ManagerInit ==
  newState = [r \in Requests |-> None]

-----------------------------------------------------------------------------
(* _submit_task for a message without a task_id.                           *)

\* Mutant: the idempotent hit is handed to the broker again.
CreateTask_Reenqueued(r) ==
  /\ pc[r] = "create"
  /\ \/ tstate = "absent" /\ InsertTask(MsgOf[r])
     \/ tstate # "absent" /\ UNCHANGED storeVars
  /\ Goto(r, IF Tenant THEN "tenant" ELSE "subscribe")
  /\ UNCHANGED <<busVars, cancelVars, queued, ver, pending, newState, faults>>

\* storage.create_task with the message id as idempotency key: a genuine
\* insert is enqueued, an idempotent hit is not.
CreateTask(r) ==
  /\ pc[r] = "create"
  /\ \/ /\ tstate = "absent"
        /\ InsertTask(MsgOf[r])
        /\ Goto(r, IF Tenant THEN "tenant" ELSE "subscribe")
     \/ /\ tstate # "absent"
        /\ Goto(r, "duplicate")
        /\ UNCHANGED storeVars
  /\ UNCHANGED <<busVars, cancelVars, queued, ver, pending, newState, faults>>

\* The tenant is persisted with an unpinned metadata write.
WriteTenant(r) ==
  /\ pc[r] = "tenant"
  /\ BlindUpdate(None, None, <<>>, {})
  /\ Goto(r, "subscribe")
  /\ UNCHANGED <<busVars, cancelVars, queued, ver, pending, newState, faults>>

-----------------------------------------------------------------------------
(* _submit_task for a follow-up.  The client learnt the task id from an    *)
(* earlier answer, so the row exists.                                      *)

\* The version is captured before the state is loaded and validated.
GetVersion(r) ==
  /\ pc[r] = "get_version"
  /\ tstate # "absent"
  /\ ver' = [ver EXCEPT ![r] = version]
  /\ Goto(r, "validate")
  /\ UNCHANGED <<storeVars, busVars, cancelVars, queued, pending, newState, faults>>

\* _load_and_validate: which loaded tasks accept message m.
Accepts(m) ==
  /\ tstate \notin Terminal
  /\ tstate \in Paused \/ m \in AgentRole

\* Mutant: only one of the two pauses is resumed.
StateTransition_InputOnly == IF tstate = "input_required" THEN "submitted" ELSE None

\* _compute_state_transition
StateTransition == IF tstate \in Paused THEN "submitted" ELSE None

\* _load_and_validate, the duplicate check and the computed transition, all
\* on one loaded snapshot.
LoadAndValidate(r) ==
  /\ pc[r] = "validate"
  /\ \/ /\ ~Accepts(MsgOf[r])
        /\ Goto(r, "done")
        /\ UNCHANGED newState
     \/ /\ Accepts(MsgOf[r])
        /\ InHistory(MsgOf[r])
        /\ Goto(r, "duplicate")
        /\ UNCHANGED newState
     \/ /\ Accepts(MsgOf[r])
        /\ ~InHistory(MsgOf[r])
        /\ newState' = [newState EXCEPT ![r] = StateTransition]
        /\ Goto(r, "append")
  /\ UNCHANGED <<storeVars, busVars, cancelVars, queued, ver, pending, faults>>

\* Mutant: the message is appended without expected_version.
AppendMessage_Unpinned(r) ==
  /\ pc[r] = "append"
  /\ \/ /\ BlindUpdate(newState[r], None, <<MsgOf[r]>>, {})
        /\ Goto(r, IF newState[r] # None THEN "announce" ELSE "subscribe")
     \/ /\ TerminalGuard(newState[r])
        /\ Goto(r, "done")
        /\ UNCHANGED storeVars
  /\ UNCHANGED <<busVars, cancelVars, queued, ver, pending, newState, faults>>

\* The pinned write of the message and the transition.
AppendMessage(r) ==
  /\ pc[r] = "append"
  /\ \/ /\ PinnedUpdate(ver[r], newState[r], None, <<MsgOf[r]>>, {})
        /\ Goto(r, IF newState[r] # None THEN "announce" ELSE "subscribe")
     \/ /\ UpdateRefused(ver[r], newState[r])
        /\ Goto(r, IF VersionMismatch(ver[r]) THEN "reload" ELSE "done")
        /\ UNCHANGED storeVars
  /\ UNCHANGED <<busVars, cancelVars, queued, ver, pending, newState, faults>>

\* Mutant: a lost race is retried with the fresh version.
ReloadAfterConflict_Retries(r) ==
  /\ pc[r] = "reload"
  /\ ver' = [ver EXCEPT ![r] = version]
  /\ Goto(r, "append")
  /\ UNCHANGED <<storeVars, busVars, cancelVars, queued, pending, newState, faults>>

\* On a lost race: a twin of this request already wrote the message, or the
\* client gets an error.
ReloadAfterConflict(r) ==
  /\ pc[r] = "reload"
  /\ Goto(r, IF InHistory(MsgOf[r]) THEN "duplicate" ELSE "done")
  /\ UNCHANGED <<storeVars, busVars, cancelVars, queued, ver, pending, newState, faults>>

\* The bare `submitted` event of a resumed task.
AnnounceSubmitted(r) ==
  /\ pc[r] = "announce"
  /\ PublishStatus("submitted")
  /\ Goto(r, "subscribe")
  /\ UNCHANGED <<storeVars, cancelVars, queued, ver, pending, newState, faults>>

-----------------------------------------------------------------------------
(* send_message and stream_message after the submission.                   *)

\* Subscribe before the operation is handed to the broker.
SubscribeFirst(r) ==
  /\ pc[r] = "subscribe"
  /\ IF r \in Streams \cup Blocking THEN Subscribe(r) ELSE UNCHANGED busVars
  /\ Goto(r, "enqueue")
  /\ UNCHANGED <<storeVars, cancelVars, queued, ver, pending, newState, faults>>

\* _enqueue_or_fail: broker.run_task returns, or raises before or after the
\* operation took effect.
Enqueue(r) ==
  /\ pc[r] = "enqueue"
  /\ \/ /\ RunTask
        /\ Goto(r, "done")
     \/ /\ BrokerFails
        /\ RunTask \/ UNCHANGED queued
        /\ Goto(r, "fail_version")
  /\ UNCHANGED <<storeVars, busVars, cancelVars, ver, pending, newState, faults>>

EnqueueFailedVersion(r) ==
  /\ pc[r] = "fail_version"
  /\ ver' = [ver EXCEPT ![r] = version]
  /\ Goto(r, "fail_load")
  /\ UNCHANGED <<storeVars, busVars, cancelVars, queued, pending, newState, faults>>

\* Mutant: every task that is not terminal is marked failed.
EnqueueFailedLoad_NonTerminal(r) ==
  /\ pc[r] = "fail_load"
  /\ Goto(r, IF tstate \notin Terminal THEN "fail_write" ELSE "done")
  /\ UNCHANGED <<storeVars, busVars, cancelVars, queued, ver, pending, newState, faults>>

\* Only a task still in `submitted` is marked failed.
EnqueueFailedLoad(r) ==
  /\ pc[r] = "fail_load"
  /\ Goto(r, IF tstate = "submitted" THEN "fail_write" ELSE "done")
  /\ UNCHANGED <<storeVars, busVars, cancelVars, queued, ver, pending, newState, faults>>

EnqueueFailedWrite(r) ==
  /\ pc[r] = "fail_write"
  /\ \/ /\ PinnedUpdate(ver[r], "failed", "failed", <<>>, {})
        /\ Goto(r, "fail_publish")
     \/ /\ UpdateRefused(ver[r], "failed")
        /\ Goto(r, "done")
        /\ UNCHANGED storeVars
  /\ UNCHANGED <<busVars, cancelVars, queued, ver, pending, newState, faults>>

\* The reloaded status, terminal by now, goes out in a TerminalMarker.
EnqueueFailedPublish(r) ==
  /\ pc[r] = "fail_publish"
  /\ PublishMarker(tstate)
  /\ Goto(r, "done")
  /\ UNCHANGED <<storeVars, cancelVars, queued, ver, pending, newState, faults>>

\* A duplicate is answered from storage; a duplicate message/stream call
\* subscribes before it loads the snapshot ...
AnswerDuplicate(r) ==
  /\ pc[r] = "duplicate"
  /\ IF r \in Streams
       THEN Subscribe(r) /\ Goto(r, "dup_load")
       ELSE UNCHANGED busVars /\ Goto(r, "done")
  /\ UNCHANGED <<storeVars, cancelVars, queued, ver, pending, newState, faults>>

\* ... and ends at once when the snapshot is terminal.  The same two steps
\* are subscribe_task (tasks/resubscribe), which refuses a terminal task.
SnapshotLoad(r) ==
  /\ pc[r] \in {"dup_load", "watch_load"}
  /\ Goto(r, "done")
  /\ IF tstate \in Terminal THEN Unsubscribe(r, "snapshot") ELSE UNCHANGED busVars
  /\ UNCHANGED <<storeVars, cancelVars, queued, ver, pending, newState, faults>>

\* subscribe_task: subscribe before loading.
Resubscribe(r) ==
  /\ pc[r] = "watch"
  /\ tstate # "absent"
  /\ Subscribe(r)
  /\ Goto(r, "watch_load")
  /\ UNCHANGED <<storeVars, cancelVars, queued, ver, pending, newState, faults>>

\* default_blocking_timeout_s elapses for a blocking send.
BlockingTimeout(r) ==
  /\ r \in Blocking
  /\ stream[r] \notin Ended \cup {"off"}
  /\ Unsubscribe(r, "timeout")
  /\ UNCHANGED <<storeVars, cancelVars, queued, pc, ver, pending, newState, faults>>

-----------------------------------------------------------------------------
(* cancel_task and _force_cancel_after.                                    *)

CancelTaskLoad(c) ==
  /\ pc[c] = "cancel_load"
  /\ tstate # "absent"
  /\ Goto(c, IF tstate \in Terminal THEN "done" ELSE "cancel_check")
  /\ UNCHANGED <<storeVars, busVars, cancelVars, queued, ver, pending, newState, faults>>

\* A task already being cancelled is not signalled again.
CancelTaskCheck(c) ==
  /\ pc[c] = "cancel_check"
  /\ Goto(c, IF cancelled THEN "done" ELSE "cancel_request")
  /\ UNCHANGED <<storeVars, busVars, cancelVars, queued, ver, pending, newState, faults>>

CancelTaskRequest(c) ==
  /\ pc[c] = "cancel_request"
  /\ RequestCancel
  /\ Goto(c, "force_load")
  /\ UNCHANGED <<storeVars, busVars, queued, ver, pending, newState, faults>>

\* Mutant: the timer leaves a task that no worker took up alone.
ForceCancelLoad_WorkingOnly(c) ==
  /\ pc[c] = "force_load"
  /\ Goto(c, IF tstate = "working" THEN "c_version" ELSE "force_bus")
  /\ UNCHANGED <<storeVars, busVars, cancelVars, queued, ver, pending, newState, faults>>

\* cancel_force_timeout_s elapses and the timer loads the task.
ForceCancelLoad(c) ==
  /\ pc[c] = "force_load"
  /\ Goto(c, IF tstate \in Terminal THEN "force_bus" ELSE "c_version")
  /\ UNCHANGED <<storeVars, busVars, cancelVars, queued, ver, pending, newState, faults>>

ForceCancelInStorage(c) ==
  /\ CancelInStorage(c)
  /\ UNCHANGED <<cancelVars, queued, newState>>

\* The timer cleans up whatever the outcome was.
ForceCancelCleanBus(c) ==
  /\ pc[c] = "force_bus"
  /\ CleanupBus
  /\ Goto(c, "force_key")
  /\ UNCHANGED <<storeVars, cancelVars, queued, ver, pending, newState, faults>>

ForceCancelCleanKey(c) ==
  /\ pc[c] = "force_key"
  /\ ReleaseKey
  /\ Goto(c, "done")
  /\ UNCHANGED <<storeVars, busVars, queued, ver, pending, newState, faults>>

\* A storage call raises in a request (the client gets an error), in the
\* enqueue-failure handler or in a force-cancel timer (both log it): the
\* coroutine ends there.  At "subscribe" it is the reload of the submitted
\* task, at "fail_publish" the reload of the failed one.
RaisingAwaits == {"create", "tenant", "get_version", "validate", "append",
                  "reload", "subscribe", "fail_version", "fail_load",
                  "fail_write", "fail_publish", "cancel_load",
                  "cancel_check", "force_load"} \cup InCancel

CallRaises(p) ==
  /\ pc[p] \in RaisingAwaits
  /\ Fault
  /\ Goto(p, "done")
  /\ UNCHANGED <<storeVars, busVars, cancelVars, queued, ver, pending, newState>>

-----------------------------------------------------------------------------
SubmitStep(r) ==
  \/ CreateTask(r)
  \/ WriteTenant(r)
  \/ GetVersion(r)
  \/ LoadAndValidate(r)
  \/ AppendMessage(r)
  \/ ReloadAfterConflict(r)
  \/ AnnounceSubmitted(r)

DispatchStep(r) ==
  \/ SubscribeFirst(r)
  \/ Enqueue(r)
  \/ EnqueueFailedVersion(r)
  \/ EnqueueFailedLoad(r)
  \/ EnqueueFailedWrite(r)
  \/ EnqueueFailedPublish(r)
  \/ AnswerDuplicate(r)
  \/ SnapshotLoad(r)

CancelCallStep(c) ==
  \/ CancelTaskLoad(c)
  \/ CancelTaskCheck(c)
  \/ CancelTaskRequest(c)

ForceCancelStep(c) ==
  \/ ForceCancelLoad(c)
  \/ ForceCancelInStorage(c)
  \/ ForceCancelCleanBus(c)
  \/ ForceCancelCleanKey(c)
=============================================================================
