------------------------------- MODULE A2ATask -------------------------------
(***************************************************************************)
(* One a2akit task, from the first message to its terminal state: the      *)
(* request handlers and force-cancel timers of the TaskManager and the     *)
(* runs of the WorkerAdapter, interleaved at every await, over one task    *)
(* row, one event bus, one cancel registry and one broker.                 *)
(***************************************************************************)
EXTENDS TaskManager, WorkerAdapter, FiniteSets

\* The first await of every process.
FirstStep(p) ==
  CASE p \in Creates            -> "create"
    [] p \in Requests \ Creates -> "get_version"
    [] p \in Watchers           -> "watch"
    [] p \in Cancels            -> "cancel_load"
    [] p \in Runs               -> "idle"

workerVars == <<contextVars, adapterVars>>

vars == <<storeVars, busVars, cancelVars, queued, pc, ver, pending, faults,
          newState, workerVars>>

Init ==
  /\ StoreInit
  /\ BusInit
  /\ CancelInit
  /\ BrokerInit
  /\ ManagerInit
  /\ ContextInit
  /\ AdapterInit
  /\ pc = [p \in Procs |-> FirstStep(p)]
  /\ ver = [p \in Procs |-> 0]
  /\ pending = [p \in Procs |-> {}]
  /\ faults = 0

Submit(r)      == SubmitStep(r) /\ UNCHANGED workerVars
Dispatch(r)    == DispatchStep(r) /\ UNCHANGED workerVars
TimeOut(r)     == BlockingTimeout(r) /\ UNCHANGED workerVars
Watch(l)       == (Resubscribe(l) \/ SnapshotLoad(l)) /\ UNCHANGED workerVars
CallCancel(c)  == CancelCallStep(c) /\ UNCHANGED workerVars
ForceCancel(c) == ForceCancelStep(c) /\ UNCHANGED workerVars
CallFault(p)   == CallRaises(p) /\ UNCHANGED workerVars
Work(w)        == RunStep(w) /\ UNCHANGED newState
UserCode(w)    == UserStep(w) /\ UNCHANGED newState
Interrupt(w)   == CancelDelivered(w) /\ UNCHANGED newState
RunFault(w)    == (StorageRaises(w) \/ WorkerCrashes(w)) /\ UNCHANGED newState

Next ==
  \/ \E r \in Requests : Submit(r) \/ Dispatch(r) \/ TimeOut(r)
  \/ \E l \in Watchers : Watch(l)
  \/ \E c \in Cancels : CallCancel(c) \/ ForceCancel(c)
  \/ \E p \in Requests \cup Cancels : CallFault(p)
  \/ \E w \in Runs : Work(w) \/ UserCode(w) \/ Interrupt(w) \/ RunFault(w)

Spec == Init /\ [][Next]_vars

-----------------------------------------------------------------------------
(* Fairness: the event loop eventually resumes every coroutine whose await *)
(* has completed, storage and broker eventually answer, timers fire.  The  *)
(* user's handler owes nothing, clients owe nothing (they may never send,  *)
(* retry or cancel), faults owe nothing.                                   *)
ServerFairness ==
  /\ \A r \in Requests : WF_vars(Dispatch(r))
  /\ \A r \in Requests : WF_vars(Submit(r) /\ pc[r] \notin {"create", "get_version"})
  /\ \A l \in Watchers : WF_vars(Watch(l) /\ pc[l] = "watch_load")
  /\ \A c \in Cancels : WF_vars(ForceCancel(c))
  /\ \A c \in Cancels : WF_vars(CallCancel(c) /\ pc[c] # "cancel_load")
  /\ \A w \in Runs : WF_vars(Work(w))

\* In addition every handler eventually returns, and gives way to a cancel.
HandlerFairness ==
  \A w \in Runs : /\ WF_vars(HandlerReturns(w) /\ UNCHANGED newState)
                  /\ WF_vars(Interrupt(w))

FairSpec == Spec /\ ServerFairness
DutifulSpec == Spec /\ ServerFairness /\ HandlerFairness

-----------------------------------------------------------------------------
(* Properties.                                                             *)

RequestAwaits == {"create", "tenant", "get_version", "validate", "append",
                  "reload", "announce", "subscribe", "enqueue",
                  "fail_version", "fail_load", "fail_write", "fail_publish",
                  "duplicate", "dup_load", "done"}
CancelAwaits == {"cancel_load", "cancel_check", "cancel_request", "force_load",
                 "force_bus", "force_key", "done", "c_artifacts", "c_publish"}
                \cup InCancel
RunAwaits == {"idle", "announce_working", "handle", "p_publish", "end_publish",
              "c_artifacts", "c_publish", "m_publish", "fin_load", "fin_bus",
              "fin_key", "settle", "ack"}
             \cup BeforeTry \cup InVersioned \cup InCancel \cup InMarkFailed

Awaits == RequestAwaits \cup CancelAwaits \cup RunAwaits \cup {"watch", "watch_load"}

PcTypeOK ==
  /\ pc \in [Procs -> Awaits]
  /\ \A r \in Requests : pc[r] \in RequestAwaits
  /\ \A l \in Watchers : pc[l] \in {"watch", "watch_load", "done"}
  /\ \A c \in Cancels : pc[c] \in CancelAwaits
  /\ \A w \in Runs : pc[w] \in RunAwaits

LocalTypeOK ==
  /\ faults \in 0 .. MaxFaults
  /\ newState \in [Requests -> {None, "submitted"}]
  /\ ver \in [Procs -> Nat]
  /\ pending \in [Procs -> SUBSET Artifacts]

\* Every variable of the composed system has its type and every process is at
\* one of its own awaits.
TypeOK ==
  /\ StoreTypeOK
  /\ BusTypeOK
  /\ CancelTypeOK
  /\ BrokerTypeOK
  /\ ContextTypeOK
  /\ AdapterTypeOK
  /\ LocalTypeOK
  /\ PcTypeOK

\* A run that publishes the end of its turn does so for a lifecycle call.
EndKindOK ==
  \A w \in Runs : pc[w] = "end_publish" => kind[w] \in LifecycleCalls

\* Once a task is terminal no writer, however late, moves it to another state:
\* the terminal guard of update_task against runs, follow-ups, force-cancel
\* timers and enqueue-failure handlers that still hold older versions.
TerminalIsFinal == [][(tstate \in Terminal) => tstate' = tstate]_vars

\* A client message enters the history at most once, whatever retries of the
\* request run concurrently: the version captured before the duplicate check.
HistoryOnce ==
  \A i, j \in DOMAIN history : history[i] = history[j] => i = j

\* A user message other than the first is only ever appended to a paused task
\* and resumes it: two racing follow-ups never both consume one pause
\* (_submit_task captures the version before it validates).
FollowUpResumes ==
  [][ /\ Len(history) > 0
      /\ Len(history') > Len(history)
      /\ history'[Len(history')] \notin AgentRole
      => tstate \in Paused /\ tstate' = "submitted" ]_vars

\* Requests whose accepted message is on its way to the broker.
Submitting == {r \in Requests : pc[r] \in {"tenant", "announce", "subscribe", "enqueue"}}

\* The operations in the broker, those of one attempt numbered.
Enqueued == UNION {{a} \X (1 .. queued[a]) : a \in Attempts}

Busy == {w \in Runs : pc[w] # "idle"}

\* Every accepted message is worked on by at most one operation: retried
\* requests, lost races, nacks and redeliveries never multiply the operations
\* on their way to, in, or held by the broker and the runs.
OneOperationPerMessage ==
  Cardinality(Submitting) + Cardinality(Enqueued) + Cardinality(Busy) <= Len(history)

\* While the task waits for its client, its status shows the question of the
\* turn that paused it: no progress update of a run slips in behind it.
PauseShowsQuestion == (tstate \in Paused) => statusMsg = tstate

\* The final event is published at most once, never before the terminal state
\* is in storage, and names that state (the call order contract of
\* EventEmitter; publishers: ctx, _mark_failed, cancel_task_in_storage,
\* _enqueue_or_fail).
FinalEventOnce ==
  /\ finals <= 1
  /\ finals > 0 => tstate \in Terminal
  /\ lastEvent \in Terminal => lastEvent = tstate

\* Marking a task failed after a broker error never hits a task that a worker
\* has taken up, even if the failed enqueue had taken effect.
FailedMarkSparesRun ==
  [][\A r \in Requests :
       pc[r] = "fail_write" /\ pc'[r] = "fail_publish" => tstate = "submitted"]_vars

\* A run that has yet to come to its finally block.
InTurn(w) == pc[w] \notin {"idle", "fin_load", "fin_bus", "fin_key", "settle", "ack"}

\* An artifact is in storage, or in the buffer of a run that will write it.
Kept(a) == a \in artifacts \/ \E w \in Runs : InTurn(w) /\ a \in pending[w]

\* An artifact that subscribers have seen is kept by the re-buffering and the
\* artifact-only fallbacks, whoever wins the races for the row.  It is given up
\* only by a run that is to cancel the task and finds that another has ended it,
\* by a cancellation that strikes while it is being published, before it is
\* buffered, or when storage raises or the worker dies.
ArtifactsKept ==
  [][\A a \in streamed' :
       (a \in streamed => Kept(a)) =>
         \/ Kept(a)'
         \/ \E w \in Runs : pc[w] = "c_load" /\ tstate \in Terminal /\ pc'[w] = "fin_load"
         \/ /\ a \notin streamed
            /\ \E w \in Runs : w \in signalled /\ pc[w] = "handle" /\ pc'[w] = "c_version"
         \/ faults' # faults]_vars

\* A subscriber that waits for events and never lacked room for the final one is
\* not dropped from the bus without having seen it (one that is about to load its
\* snapshot may be).
NoOrphanedStream ==
  \A l \in Listeners : stream[l] = "orphaned" => pc[l] \in {"dup_load", "watch_load"}

\* An accepted message leads to a terminal or a paused task, broker failures
\* included.
EveryTurnEnds ==
  tstate \in {"submitted", "working"} ~> tstate \in Terminal \cup Paused

\* A cancel whose timer runs while the task waits for its client and nobody
\* else works on it ends the task: no run and no client owes it anything, the
\* force-cancel timer has to do it.
PausedCancelEnds ==
  /\ tstate \in Paused
  /\ \E c \in Cancels : pc[c] = "force_load"
  /\ \A r \in Requests : pc[r] = "done"
  /\ \A w \in Runs : pc[w] = "idle"
  ~> tstate \in Terminal

\* A stream ends, unless the task waits for its client or the stream was full
\* when the TerminalMarker came, which the bus drops for that subscriber.
StreamsEnd ==
  \A l \in Listeners :
    stream[l] = "open" ~>
      \/ stream[l] \in Ended \/ tstate \in Paused
      \/ stream[l] \in {"missed", "overrun"}

\* The composed system implements the task lifecycle it promises.
Protocol == INSTANCE TaskProtocol WITH state <- tstate, accepted <- history
ImplementsProtocol == Protocol!Spec
=============================================================================
