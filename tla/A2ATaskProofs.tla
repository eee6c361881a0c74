--------------------------- MODULE A2ATaskProofs ---------------------------
(***************************************************************************)
(* Proofs about A2ATask for every set of requests, watchers, cancels and   *)
(* runs, every number of retries and every number of faults.               *)
(***************************************************************************)
EXTENDS A2ATask, TLAPS

USE DEF None

-----------------------------------------------------------------------------
(* Type correctness.                                                       *)

\* A successful update_task keeps the row well-typed.
LEMMA UpdateTypes ==
  ASSUME StoreTypeOK,
         NEW st \in TaskStates \cup {None}, NEW sm \in StatusMessages,
         NEW ms \in Seq(Messages), NEW as \in SUBSET Artifacts,
         ApplyUpdate(st, sm, ms, as)
  PROVE  StoreTypeOK'
  <1>1. tstate' \in TaskStates
    BY DEF StoreTypeOK, ApplyUpdate
  <1>2. statusMsg' \in StatusMessages
    BY DEF StoreTypeOK, ApplyUpdate
  <1>3. version' \in Nat
    BY DEF StoreTypeOK, ApplyUpdate
  <1>4. artifacts' \in SUBSET Artifacts
    BY DEF StoreTypeOK, ApplyUpdate
  <1>5. history' \in Seq(Messages)
    BY DEF StoreTypeOK, ApplyUpdate
  <1> QED BY <1>1, <1>2, <1>3, <1>4, <1>5 DEF StoreTypeOK

\* The constants that callers pass to update_task.
LEMMA UpdateArguments ==
  /\ <<>> \in Seq(Messages) /\ {} \in SUBSET Artifacts
  /\ {None, "progress"} \cup Paused \cup Terminal \subseteq StatusMessages
  /\ {"submitted", "working"} \cup Paused \cup Terminal \subseteq TaskStates
  BY DEF StatusMessages, TaskStates

\* create_task makes a well-typed row.
LEMMA InsertTypes ==
  ASSUME NEW m \in Messages, InsertTask(m)
  PROVE  StoreTypeOK'
  <1>1. <<m>> \in Seq(Messages)
    OBVIOUS
  <1> QED BY <1>1 DEF InsertTask, StoreTypeOK, TaskStates, StatusMessages

\* A request moves among its own awaits.
LEMMA GotoRequest ==
  ASSUME PcTypeOK, NEW r \in Requests, NEW l \in RequestAwaits, Goto(r, l)
  PROVE  PcTypeOK'
  BY ProcsAssumption DEF PcTypeOK, Goto, Procs, Awaits

LEMMA GotoWatcher ==
  ASSUME PcTypeOK, NEW r \in Watchers, NEW l \in {"watch", "watch_load", "done"}, Goto(r, l)
  PROVE  PcTypeOK'
  <1>1. l \in Awaits BY DEF Awaits, RequestAwaits
  <1> QED BY <1>1, ProcsAssumption DEF PcTypeOK, Goto, Procs

LEMMA GotoCancel ==
  ASSUME PcTypeOK, NEW c \in Cancels, NEW l \in CancelAwaits, Goto(c, l)
  PROVE  PcTypeOK'
  BY ProcsAssumption DEF PcTypeOK, Goto, Procs, Awaits

LEMMA GotoRun ==
  ASSUME PcTypeOK, NEW w \in Runs, NEW l \in RunAwaits, Goto(w, l)
  PROVE  PcTypeOK'
  BY ProcsAssumption DEF PcTypeOK, Goto, Procs, Awaits

LEMMA TypeInit == Init => TypeOK
  <1> SUFFICES ASSUME Init PROVE TypeOK
    OBVIOUS
  <1>1. StoreTypeOK
    BY DEF Init, StoreInit, StoreTypeOK, TaskStates, StatusMessages
  <1>2. BusTypeOK /\ CancelTypeOK
    BY DEF Init, BusInit, BusTypeOK, StreamStates, TaskStates, CancelInit, CancelTypeOK
  <1>3. BrokerTypeOK /\ ContextTypeOK /\ AdapterTypeOK
    BY MaxRetriesAssumption DEF Init, BrokerInit, BrokerTypeOK, Attempts, ContextInit,
       ContextTypeOK, WriteKinds, AdapterInit, AdapterTypeOK
  <1>4. LocalTypeOK
    BY ProcsAssumption DEF Init, ManagerInit, LocalTypeOK
  <1>5. PcTypeOK
    <2>1. \A r \in Requests : r \in Procs /\ pc[r] \in {"create", "get_version"}
      BY ProcsAssumption, RequestAssumption DEF Init, FirstStep, Procs
    <2>2. \A l \in Watchers : l \in Procs /\ pc[l] = "watch"
      BY ProcsAssumption, RequestAssumption DEF Init, FirstStep, Procs
    <2>3. \A c \in Cancels : c \in Procs /\ pc[c] = "cancel_load"
      BY ProcsAssumption, RequestAssumption DEF Init, FirstStep, Procs
    <2>4. \A w \in Runs : w \in Procs /\ pc[w] = "idle"
      BY ProcsAssumption, RequestAssumption DEF Init, FirstStep, Procs
    <2>5. pc = [p \in Procs |-> pc[p]] /\ \A p \in Procs : pc[p] \in Awaits
      BY <2>1, <2>2, <2>3, <2>4
         DEF Init, Procs, Awaits, RequestAwaits, CancelAwaits, RunAwaits
    <2> QED BY <2>1, <2>2, <2>3, <2>4, <2>5
          DEF PcTypeOK, RequestAwaits, CancelAwaits, RunAwaits
  <1> QED BY <1>1, <1>2, <1>3, <1>4, <1>5 DEF TypeOK

\* What is left alone keeps its type.
LEMMA UnchangedTypes ==
  /\ StoreTypeOK /\ UNCHANGED storeVars => StoreTypeOK'
  /\ BusTypeOK /\ UNCHANGED busVars => BusTypeOK'
  /\ CancelTypeOK /\ UNCHANGED cancelVars => CancelTypeOK'
  /\ BrokerTypeOK /\ UNCHANGED queued => BrokerTypeOK'
  /\ ContextTypeOK /\ UNCHANGED contextVars => ContextTypeOK'
  /\ AdapterTypeOK /\ UNCHANGED adapterVars => AdapterTypeOK'
  /\ PcTypeOK /\ UNCHANGED pc => PcTypeOK'
  <1>1. StoreTypeOK /\ UNCHANGED storeVars => StoreTypeOK'
    BY DEF StoreTypeOK, storeVars
  <1>2. BusTypeOK /\ UNCHANGED busVars => BusTypeOK'
    BY DEF BusTypeOK, busVars
  <1>3. CancelTypeOK /\ UNCHANGED cancelVars => CancelTypeOK'
    BY DEF CancelTypeOK, cancelVars
  <1>4. BrokerTypeOK /\ UNCHANGED queued => BrokerTypeOK'
    BY DEF BrokerTypeOK
  <1>5. ContextTypeOK /\ UNCHANGED contextVars => ContextTypeOK'
    BY DEF ContextTypeOK, contextVars
  <1>6. AdapterTypeOK /\ UNCHANGED adapterVars => AdapterTypeOK'
    BY DEF AdapterTypeOK, adapterVars
  <1>7. PcTypeOK /\ UNCHANGED pc => PcTypeOK'
    BY DEF PcTypeOK
  <1> QED BY <1>1, <1>2, <1>3, <1>4, <1>5, <1>6, <1>7

\* Every operation of the event bus keeps the bus well-typed.
LEMMA BusTypes ==
  ASSUME BusTypeOK
  PROVE  /\ \A l \in Listeners : Subscribe(l) => BusTypeOK'
         /\ \A l \in Listeners, st \in StreamStates : Unsubscribe(l, st) => BusTypeOK'
         /\ \A st \in TaskStates : PublishStatus(st) \/ PublishMarker(st) => BusTypeOK'
         /\ CleanupBus => BusTypeOK'
  <1>1. stream \in [Listeners -> StreamStates] /\ finals \in Nat /\ finals + 1 \in Nat
    BY DEF BusTypeOK
  <1>2. {"open", "orphaned", "missed", "overrun", "final"} \subseteq StreamStates
    BY DEF StreamStates, Ended
  <1>3. ASSUME NEW st \in TaskStates, PublishMarker(st) PROVE BusTypeOK'
    <2>1. PICK full \in SUBSET Registered :
            stream' = [l \in Listeners |-> IF l \in full THEN "missed"
                                          ELSE IF l \in Registered THEN "final"
                                          ELSE stream[l]]
      BY <1>3 DEF PublishMarker
    <2>2. stream' \in [Listeners -> StreamStates]
      BY <1>1, <1>2, <2>1
    <2> QED BY <1>1, <1>3, <2>2 DEF PublishMarker, BusTypeOK
  <1>4. CleanupBus => BusTypeOK'
    BY <1>1, <1>2 DEF CleanupBus, BusTypeOK
  <1> QED BY <1>1, <1>2, <1>3, <1>4 DEF BusTypeOK, Subscribe, Unsubscribe, PublishStatus

\* The local variables of the processes.
LEMMA LocalTypes ==
  ASSUME LocalTypeOK,
         UNCHANGED newState \/ \E r \in Requests, s \in {None, "submitted"} :
                                  newState' = [newState EXCEPT ![r] = s],
         UNCHANGED ver \/ \E p \in Procs, v \in Nat : ver' = [ver EXCEPT ![p] = v],
         UNCHANGED pending \/ \E p \in Procs, as \in SUBSET Artifacts :
                                 pending' = [pending EXCEPT ![p] = as],
         UNCHANGED faults \/ Fault
  PROVE  LocalTypeOK'
  <1>1. newState' \in [Requests -> {None, "submitted"}]
    BY DEF LocalTypeOK
  <1>2. ver' \in [Procs -> Nat]
    BY DEF LocalTypeOK
  <1>3. pending' \in [Procs -> SUBSET Artifacts]
    BY DEF LocalTypeOK
  <1>4. faults' \in 0 .. MaxFaults
    BY ProcsAssumption DEF LocalTypeOK, Fault
  <1> QED BY <1>1, <1>2, <1>3, <1>4 DEF LocalTypeOK

\* The TaskManager's handling of a message, up to its dispatch.
LEMMA SubmitTypes ==
  ASSUME TypeOK, NEW r \in Requests, Submit(r)
  PROVE  TypeOK'
  <1> USE DEF TypeOK
  <1>0. /\ r \in Procs
        /\ MsgOf[r] \in Messages
        /\ ContextTypeOK' /\ AdapterTypeOK'
        /\ version \in Nat
    BY UnchangedTypes, RequestAssumption DEF Procs, Submit, workerVars, StoreTypeOK
  <1>1. CASE CreateTask(r)
    <2>1. StoreTypeOK'
      BY <1>0, <1>1, UnchangedTypes, InsertTypes DEF CreateTask
    <2>2. PcTypeOK'
      BY <1>1, GotoRequest DEF CreateTask, RequestAwaits
    <2> QED BY <1>0, <1>1, <2>1, <2>2, UnchangedTypes, LocalTypes DEF CreateTask
  <1>2. CASE WriteTenant(r)
    <2>1. StoreTypeOK'
      BY <1>2, UpdateTypes, UpdateArguments DEF WriteTenant, BlindUpdate
    <2>2. PcTypeOK'
      BY <1>2, GotoRequest DEF WriteTenant, RequestAwaits
    <2> QED BY <1>0, <1>2, <2>1, <2>2, UnchangedTypes, LocalTypes DEF WriteTenant
  <1>3. CASE GetVersion(r)
    <2>1. PcTypeOK'
      BY <1>3, GotoRequest DEF GetVersion, RequestAwaits
    <2> QED BY <1>0, <1>3, <2>1, UnchangedTypes, LocalTypes DEF GetVersion
  <1>4. CASE LoadAndValidate(r)
    <2>1. PcTypeOK'
      BY <1>4, GotoRequest DEF LoadAndValidate, RequestAwaits
    <2> QED BY <1>0, <1>4, <2>1, UnchangedTypes, LocalTypes
          DEF LoadAndValidate, StateTransition
  <1>5. CASE AppendMessage(r)
    <2>1. StoreTypeOK'
      <3>1. newState[r] \in TaskStates \cup {None}
        BY DEF LocalTypeOK, TaskStates
      <3>2. <<MsgOf[r]>> \in Seq(Messages)
        BY <1>0
      <3> QED BY <1>5, <3>1, <3>2, UpdateTypes, UpdateArguments, UnchangedTypes
            DEF AppendMessage, PinnedUpdate
    <2>2. PcTypeOK'
      BY <1>5, GotoRequest DEF AppendMessage, RequestAwaits
    <2> QED BY <1>0, <1>5, <2>1, <2>2, UnchangedTypes, LocalTypes DEF AppendMessage
  <1>6. CASE ReloadAfterConflict(r)
    <2>1. PcTypeOK'
      BY <1>6, GotoRequest DEF ReloadAfterConflict, RequestAwaits
    <2> QED BY <1>0, <1>6, <2>1, UnchangedTypes, LocalTypes DEF ReloadAfterConflict
  <1>7. CASE AnnounceSubmitted(r)
    <2>1. PcTypeOK'
      BY <1>7, GotoRequest DEF AnnounceSubmitted, RequestAwaits
    <2>2. BusTypeOK'
      BY <1>7, BusTypes DEF AnnounceSubmitted, TaskStates
    <2> QED BY <1>0, <1>7, <2>1, <2>2, UnchangedTypes, LocalTypes DEF AnnounceSubmitted
  <1> QED BY <1>1, <1>2, <1>3, <1>4, <1>5, <1>6, <1>7 DEF Submit, SubmitStep

\* What a request does once its message is accepted, or known.
LEMMA DispatchTypes ==
  ASSUME TypeOK, NEW r \in Requests, Dispatch(r)
  PROVE  TypeOK'
  <1> USE DEF TypeOK
  <1>0. /\ r \in Procs /\ r \in Listeners
        /\ ContextTypeOK' /\ AdapterTypeOK'
        /\ version \in Nat /\ tstate \in TaskStates
    BY UnchangedTypes, ProcsAssumption DEF Procs, Dispatch, workerVars, StoreTypeOK
  <1>1. CASE SubscribeFirst(r)
    <2>1. BusTypeOK'
      BY <1>0, <1>1, BusTypes, UnchangedTypes DEF SubscribeFirst
    <2>2. PcTypeOK'
      BY <1>1, GotoRequest DEF SubscribeFirst, RequestAwaits
    <2> QED BY <1>0, <1>1, <2>1, <2>2, UnchangedTypes, LocalTypes DEF SubscribeFirst
  <1>2. CASE Enqueue(r)
    <2>1. BrokerTypeOK'
      BY <1>2, MaxRetriesAssumption, UnchangedTypes DEF Enqueue, RunTask, BrokerTypeOK, Attempts
    <2>2. PcTypeOK'
      BY <1>2, GotoRequest DEF Enqueue, RequestAwaits
    <2> QED BY <1>0, <1>2, <2>1, <2>2, UnchangedTypes, LocalTypes DEF Enqueue
  <1>3. CASE EnqueueFailedVersion(r)
    <2>1. PcTypeOK'
      BY <1>3, GotoRequest DEF EnqueueFailedVersion, RequestAwaits
    <2> QED BY <1>0, <1>3, <2>1, UnchangedTypes, LocalTypes DEF EnqueueFailedVersion
  <1>4. CASE EnqueueFailedLoad(r)
    <2>1. PcTypeOK'
      BY <1>4, GotoRequest DEF EnqueueFailedLoad, RequestAwaits
    <2> QED BY <1>0, <1>4, <2>1, UnchangedTypes, LocalTypes DEF EnqueueFailedLoad
  <1>5. CASE EnqueueFailedWrite(r)
    <2>1. StoreTypeOK'
      BY <1>0, <1>5, UpdateTypes, UpdateArguments, UnchangedTypes
         DEF EnqueueFailedWrite, PinnedUpdate, Terminal
    <2>2. PcTypeOK'
      BY <1>5, GotoRequest DEF EnqueueFailedWrite, RequestAwaits
    <2> QED BY <1>0, <1>5, <2>1, <2>2, UnchangedTypes, LocalTypes DEF EnqueueFailedWrite
  <1>6. CASE EnqueueFailedPublish(r)
    <2>1. BusTypeOK'
      BY <1>0, <1>6, BusTypes DEF EnqueueFailedPublish
    <2>2. PcTypeOK'
      BY <1>6, GotoRequest DEF EnqueueFailedPublish, RequestAwaits
    <2> QED BY <1>0, <1>6, <2>1, <2>2, UnchangedTypes, LocalTypes DEF EnqueueFailedPublish
  <1>7. CASE AnswerDuplicate(r)
    <2>1. BusTypeOK'
      BY <1>0, <1>7, BusTypes, UnchangedTypes DEF AnswerDuplicate
    <2>2. PcTypeOK'
      BY <1>7, GotoRequest DEF AnswerDuplicate, RequestAwaits
    <2> QED BY <1>0, <1>7, <2>1, <2>2, UnchangedTypes, LocalTypes DEF AnswerDuplicate
  <1>8. CASE SnapshotLoad(r)
    <2>1. BusTypeOK'
      BY <1>0, <1>8, BusTypes, UnchangedTypes DEF SnapshotLoad, StreamStates, Ended
    <2>2. PcTypeOK'
      BY <1>8, GotoRequest DEF SnapshotLoad, RequestAwaits
    <2> QED BY <1>0, <1>8, <2>1, <2>2, UnchangedTypes, LocalTypes DEF SnapshotLoad
  <1> QED BY <1>1, <1>2, <1>3, <1>4, <1>5, <1>6, <1>7, <1>8 DEF Dispatch, DispatchStep

\* The blocking timeout of a request, and the two steps of a resubscription.
LEMMA ListenerTypes ==
  ASSUME TypeOK, \/ \E r \in Requests : TimeOut(r)
                 \/ \E l \in Watchers : Watch(l)
  PROVE  TypeOK'
  <1> USE DEF TypeOK
  <1>0. ContextTypeOK' /\ AdapterTypeOK'
    BY UnchangedTypes DEF TimeOut, Watch, workerVars
  <1>1. ASSUME NEW r \in Requests, BlockingTimeout(r) PROVE TypeOK'
    <2>1. BusTypeOK'
      BY <1>1, BusTypes, ProcsAssumption DEF BlockingTimeout, StreamStates, Ended
    <2> QED BY <1>0, <1>1, <2>1, UnchangedTypes, LocalTypes DEF BlockingTimeout
  <1>2. ASSUME NEW l \in Watchers, Resubscribe(l) PROVE TypeOK'
    <2>1. BusTypeOK'
      BY <1>2, BusTypes, ProcsAssumption DEF Resubscribe
    <2>2. PcTypeOK'
      BY <1>2, GotoWatcher DEF Resubscribe
    <2> QED BY <1>0, <1>2, <2>1, <2>2, UnchangedTypes, LocalTypes DEF Resubscribe
  <1>3. ASSUME NEW l \in Watchers, SnapshotLoad(l) PROVE TypeOK'
    <2>1. BusTypeOK'
      BY <1>3, BusTypes, UnchangedTypes, ProcsAssumption DEF SnapshotLoad, StreamStates, Ended
    <2>2. PcTypeOK'
      BY <1>3, GotoWatcher DEF SnapshotLoad
    <2> QED BY <1>0, <1>3, <2>1, <2>2, UnchangedTypes, LocalTypes DEF SnapshotLoad
  <1> QED BY <1>1, <1>2, <1>3 DEF TimeOut, Watch

\* cancel_task_in_storage, on behalf of a timer or of a run.
LEMMA CancelHelperTypes ==
  ASSUME TypeOK, NEW p \in Cancels \cup Runs, CancelInStorage(p), UNCHANGED newState
  PROVE  /\ StoreTypeOK' /\ BusTypeOK' /\ LocalTypeOK'
         /\ p \in Cancels => \E l \in CancelAwaits : Goto(p, l)
         /\ p \in Runs => \E l \in RunAwaits : Goto(p, l)
  <1> USE DEF TypeOK
  <1> DEFINE Target == /\ p \in Cancels => \E l \in CancelAwaits : Goto(p, l)
                       /\ p \in Runs => \E l \in RunAwaits : Goto(p, l)
  <1>0. /\ p \in Procs /\ version \in Nat /\ pending[p] \in SUBSET Artifacts
        /\ {} \in SUBSET Artifacts
    BY DEF Procs, StoreTypeOK, LocalTypeOK
  <1>a. /\ p \in Cancels => AfterCancel(p) \in CancelAwaits
        /\ p \in Runs => AfterCancel(p) \in RunAwaits
    BY ProcsAssumption DEF AfterCancel, CancelAwaits, RunAwaits
  <1>b. /\ p \in Cancels => ArtifactsOr(p, AfterCancel(p)) \in CancelAwaits
        /\ p \in Runs => ArtifactsOr(p, AfterCancel(p)) \in RunAwaits
    BY <1>a DEF ArtifactsOr, CancelAwaits, RunAwaits
  <1>c. /\ InCancel \cup {"c_publish"} \subseteq CancelAwaits
        /\ InCancel \cup {"c_publish"} \subseteq RunAwaits
    BY DEF CancelAwaits, RunAwaits
  <1>1. CASE CancelGetVersion(p)
    <2>1. LocalTypeOK'
      BY <1>0, <1>1, LocalTypes DEF CancelGetVersion
    <2>2. Target
      BY <1>1, <1>c DEF CancelGetVersion, InCancel
    <2> QED BY <1>1, <2>1, <2>2, UnchangedTypes DEF CancelGetVersion
  <1>2. CASE CancelLoad(p)
    <2>1. LocalTypeOK'
      BY <1>0, <1>2, LocalTypes DEF CancelLoad
    <2>2. Target
      BY <1>2, <1>a, <1>c DEF CancelLoad, InCancel
    <2> QED BY <1>2, <2>1, <2>2, UnchangedTypes DEF CancelLoad
  <1>3. CASE CancelWrite(p)
    <2>1. LocalTypeOK'
      BY <1>0, <1>3, LocalTypes DEF CancelWrite
    <2>2. Target
      BY <1>3, <1>c DEF CancelWrite, InCancel
    <2>3. StoreTypeOK'
      BY <1>0, <1>3, UpdateTypes, UpdateArguments, UnchangedTypes
         DEF CancelWrite, PinnedUpdate, Terminal
    <2> QED BY <1>3, <2>1, <2>2, <2>3, UnchangedTypes DEF CancelWrite
  <1>4. CASE CancelReload(p)
    <2>1. LocalTypeOK'
      BY <1>0, <1>4, LocalTypes DEF CancelReload
    <2>2. Target
      BY <1>4, <1>b, <1>c DEF CancelReload, InCancel
    <2> QED BY <1>4, <2>1, <2>2, UnchangedTypes DEF CancelReload
  <1>5. CASE CancelRetry(p)
    <2>1. LocalTypeOK'
      BY <1>0, <1>5, LocalTypes DEF CancelRetry
    <2>2. Target
      BY <1>5, <1>b, <1>c DEF CancelRetry, InCancel
    <2>3. StoreTypeOK'
      BY <1>0, <1>5, UpdateTypes, UpdateArguments, UnchangedTypes
         DEF CancelRetry, PinnedUpdate, Terminal
    <2> QED BY <1>5, <2>1, <2>2, <2>3, UnchangedTypes DEF CancelRetry
  <1>6. CASE WriteArtifactsOnly(p)
    <2>1. LocalTypeOK'
      BY <1>0, <1>6, LocalTypes DEF WriteArtifactsOnly
    <2>2. Target
      BY <1>6, <1>a DEF WriteArtifactsOnly
    <2>3. StoreTypeOK'
      BY <1>0, <1>6, UpdateTypes, UpdateArguments DEF WriteArtifactsOnly, BlindUpdate
    <2> QED BY <1>6, <2>1, <2>2, <2>3, UnchangedTypes DEF WriteArtifactsOnly
  <1>7. CASE CancelPublish(p)
    <2>1. LocalTypeOK'
      BY <1>0, <1>7, LocalTypes DEF CancelPublish
    <2>2. Target
      BY <1>7, <1>a DEF CancelPublish
    <2>3. BusTypeOK'
      BY <1>7, BusTypes DEF CancelPublish, TaskStates, Terminal
    <2> QED BY <1>7, <2>1, <2>2, <2>3, UnchangedTypes DEF CancelPublish
  <1> QED BY <1>1, <1>2, <1>3, <1>4, <1>5, <1>6, <1>7 DEF CancelInStorage

\* tasks/cancel and the force-cancel timer.
LEMMA CancelTypes ==
  ASSUME TypeOK, NEW c \in Cancels, CallCancel(c) \/ ForceCancel(c)
  PROVE  TypeOK'
  <1> USE DEF TypeOK
  <1>0. c \in Procs /\ ContextTypeOK' /\ AdapterTypeOK'
    BY UnchangedTypes DEF Procs, CallCancel, ForceCancel, workerVars
  <1>1. CASE CancelTaskLoad(c)
    <2>1. PcTypeOK'
      BY <1>1, GotoCancel DEF CancelTaskLoad, CancelAwaits
    <2> QED BY <1>0, <1>1, <2>1, UnchangedTypes, LocalTypes DEF CancelTaskLoad
  <1>2. CASE CancelTaskCheck(c)
    <2>1. PcTypeOK'
      BY <1>2, GotoCancel DEF CancelTaskCheck, CancelAwaits
    <2> QED BY <1>0, <1>2, <2>1, UnchangedTypes, LocalTypes DEF CancelTaskCheck
  <1>3. CASE CancelTaskRequest(c)
    <2>1. CancelTypeOK'
      BY <1>3 DEF CancelTaskRequest, RequestCancel, CancelTypeOK
    <2>2. PcTypeOK'
      BY <1>3, GotoCancel DEF CancelTaskRequest, CancelAwaits
    <2> QED BY <1>0, <1>3, <2>1, <2>2, UnchangedTypes, LocalTypes DEF CancelTaskRequest
  <1>4. CASE ForceCancelLoad(c)
    <2>1. PcTypeOK'
      BY <1>4, GotoCancel DEF ForceCancelLoad, CancelAwaits, InCancel
    <2> QED BY <1>0, <1>4, <2>1, UnchangedTypes, LocalTypes DEF ForceCancelLoad
  <1>5. CASE ForceCancelInStorage(c)
    <2>1. PcTypeOK'
      BY <1>5, CancelHelperTypes, GotoCancel DEF ForceCancelInStorage
    <2> QED BY <1>0, <1>5, <2>1, CancelHelperTypes, UnchangedTypes DEF ForceCancelInStorage
  <1>6. CASE ForceCancelCleanBus(c)
    <2>1. BusTypeOK'
      BY <1>0, <1>6, BusTypes DEF ForceCancelCleanBus
    <2>2. PcTypeOK'
      BY <1>6, GotoCancel DEF ForceCancelCleanBus, CancelAwaits
    <2> QED BY <1>0, <1>6, <2>1, <2>2, UnchangedTypes, LocalTypes DEF ForceCancelCleanBus
  <1>7. CASE ForceCancelCleanKey(c)
    <2>1. CancelTypeOK'
      BY <1>7 DEF ForceCancelCleanKey, ReleaseKey, CancelTypeOK
    <2>2. PcTypeOK'
      BY <1>7, GotoCancel DEF ForceCancelCleanKey, CancelAwaits
    <2> QED BY <1>0, <1>7, <2>1, <2>2, UnchangedTypes, LocalTypes DEF ForceCancelCleanKey
  <1> QED BY <1>1, <1>2, <1>3, <1>4, <1>5, <1>6, <1>7 DEF CallCancel, CancelCallStep, ForceCancel, ForceCancelStep

\* A storage error in a request or in a timer.
LEMMA CallFaultTypes ==
  ASSUME TypeOK, NEW p \in Requests \cup Cancels, CallFault(p)
  PROVE  TypeOK'
  <1>1. PcTypeOK'
    <2>1. CASE p \in Requests
      BY <2>1, GotoRequest DEF CallFault, CallRaises, RequestAwaits, TypeOK
    <2>2. CASE p \in Cancels
      BY <2>2, GotoCancel DEF CallFault, CallRaises, CancelAwaits, TypeOK
    <2> QED BY <2>1, <2>2
  <1> QED BY <1>1, UnchangedTypes, LocalTypes DEF TypeOK, CallFault, CallRaises, workerVars

\* The arguments of the writes of a TaskContext are states and messages.
LEMMA WriteArguments ==
  ASSUME NEW k \in WriteKinds
  PROVE  /\ WriteState(k) \in TaskStates \cup {None}
         /\ WriteMessage(k) \in StatusMessages
         /\ k \in LifecycleCalls => CallState[k] \in Terminal \cup Paused
  <1>1. k \in LifecycleCalls => CallState[k] \in Terminal \cup Paused
    BY DEF LifecycleCalls, CallState, Terminal, Paused
  <1>2. WriteState(k) \in TaskStates \cup {None}
    BY <1>1 DEF WriteState, TaskStates
  <1>3. WriteMessage(k) \in StatusMessages
    <2>1. CASE k \in LifecycleCalls
      BY <1>1, <2>1 DEF WriteMessage, CallMessage, StatusMessages, LifecycleCalls
    <2>2. CASE k \in {"flush", "status"}
      BY <2>2 DEF WriteMessage, StatusMessages
    <2> QED BY <2>1, <2>2 DEF WriteKinds
  <1> QED BY <1>1, <1>2, <1>3

\* The handler's calls.
LEMMA HandlerCallTypes ==
  ASSUME TypeOK, NEW w \in Runs, HandlerCall(w), UNCHANGED newState
  PROVE  LocalTypeOK' /\ PcTypeOK' /\ ContextTypeOK'
  <1> USE DEF TypeOK
  <1>0. w \in Procs /\ pending[w] \in SUBSET Artifacts
    BY DEF Procs, LocalTypeOK
  <1>1. CASE EmitArtifact(w)
    <2>1. PICK a \in Artifacts \ streamed :
            /\ streamed' = streamed \cup {a}
            /\ pending' = [pending EXCEPT ![w] = pending[w] \cup {a}]
      BY <1>1 DEF EmitArtifact
    <2>2. LocalTypeOK'
      BY <1>0, <1>1, <2>1, LocalTypes DEF EmitArtifact
    <2>3. PcTypeOK'
      BY <1>1, GotoRun, UnchangedTypes DEF EmitArtifact, StartWrite, RunAwaits, InVersioned
    <2>4. ContextTypeOK'
      BY <1>1, <2>1 DEF EmitArtifact, StartWrite, ContextTypeOK, WriteKinds
    <2> QED BY <2>2, <2>3, <2>4
  <1>2. CASE SendStatus(w)
    <2>1. LocalTypeOK'
      BY <1>2, LocalTypes DEF SendStatus
    <2>2. PcTypeOK'
      BY <1>2, GotoRun DEF SendStatus, StartWrite, RunAwaits, InVersioned
    <2>3. ContextTypeOK'
      BY <1>2 DEF SendStatus, StartWrite, ContextTypeOK, WriteKinds
    <2> QED BY <2>1, <2>2, <2>3
  <1>3. CASE CallLifecycle(w)
    <2>1. LocalTypeOK'
      BY <1>3, LocalTypes DEF CallLifecycle
    <2>2. PcTypeOK'
      BY <1>3, GotoRun DEF CallLifecycle, StartWrite, RunAwaits, InVersioned
    <2>3. ContextTypeOK'
      BY <1>3, ContextAssumption DEF CallLifecycle, StartWrite, ContextTypeOK, WriteKinds
    <2> QED BY <2>1, <2>2, <2>3
  <1> QED BY <1>1, <1>2, <1>3 DEF HandlerCall

\* The awaits to which a write of a TaskContext may lead.
LEMMA WriteTargets ==
  ASSUME NEW w \in Runs
  PROVE  /\ {"u_load", "u_version", "u_retry", "u_refresh", "handle", "m_version",
             "p_publish", "end_publish", "fin_load", "c_artifacts"} \subseteq RunAwaits
         /\ TerminalError(w) => \E l \in RunAwaits : Goto(w, l)
  BY DEF RunAwaits, InVersioned, InMarkFailed, TerminalError, ArtifactsOr

\* _versioned_update and the publications that follow it.
LEMMA ContextTypes ==
  ASSUME TypeOK, EndKindOK, NEW w \in Runs, ContextStep(w), UNCHANGED newState
  PROVE  StoreTypeOK' /\ BusTypeOK' /\ LocalTypeOK' /\ PcTypeOK' /\ ContextTypeOK'
  <1> USE DEF TypeOK
  <1>0. /\ w \in Procs /\ pending[w] \in SUBSET Artifacts /\ version \in Nat
        /\ version + 1 \in Nat /\ kind[w] \in WriteKinds
        /\ ReportedVersions \subseteq Nat /\ {} \in SUBSET Artifacts
    BY DEF Procs, LocalTypeOK, StoreTypeOK, ContextTypeOK, ReportedVersions
  <1> DEFINE Write == PinnedUpdate(ver[w], WriteState(kind[w]), WriteMessage(kind[w]),
                                   <<>>, pending[w])
  <1>a. Write => StoreTypeOK'
    BY <1>0, WriteArguments, UpdateTypes, UpdateArguments DEF PinnedUpdate
  <1>b. WriteSucceeded(w) => \E l \in RunAwaits : Goto(w, l)
    BY WriteTargets DEF WriteSucceeded
  <1>c. WriteSucceeded(w) /\ UNCHANGED <<kind, reported, streamed>> => ContextTypeOK'
    BY DEF WriteSucceeded, ContextTypeOK
  <1>1. CASE VersionedWrite(w)
    <2>1. StoreTypeOK'
      BY <1>1, <1>a, UnchangedTypes DEF VersionedWrite
    <2>2. LocalTypeOK'
      BY <1>0, <1>1, LocalTypes DEF VersionedWrite, WriteSucceeded
    <2>3. PcTypeOK'
      BY <1>1, <1>b, GotoRun, WriteTargets DEF VersionedWrite
    <2>4. ContextTypeOK'
      BY <1>1, <1>c, UnchangedTypes DEF VersionedWrite, contextVars
    <2> QED BY <1>1, <2>1, <2>2, <2>3, <2>4, UnchangedTypes DEF VersionedWrite
  <1>2. CASE ReloadOnConflict(w)
    <2>1. LocalTypeOK'
      BY <1>2, LocalTypes DEF ReloadOnConflict
    <2>2. PcTypeOK'
      BY <1>2, GotoRun, WriteTargets DEF ReloadOnConflict
    <2> QED BY <1>2, <2>1, <2>2, UnchangedTypes DEF ReloadOnConflict
  <1>3. CASE FreshVersion(w)
    <2>1. LocalTypeOK'
      BY <1>0, <1>3, LocalTypes DEF FreshVersion
    <2>2. PcTypeOK'
      BY <1>3, GotoRun, WriteTargets DEF FreshVersion
    <2> QED BY <1>3, <2>1, <2>2, UnchangedTypes DEF FreshVersion
  <1>4. CASE RetryWrite(w)
    <2>1. StoreTypeOK'
      BY <1>4, <1>a, UnchangedTypes DEF RetryWrite
    <2>2. LocalTypeOK'
      BY <1>0, <1>4, LocalTypes DEF RetryWrite, WriteSucceeded
    <2>3. PcTypeOK'
      BY <1>4, <1>b, GotoRun, WriteTargets DEF RetryWrite
    <2>4. ContextTypeOK'
      BY <1>4, <1>c, UnchangedTypes DEF RetryWrite, contextVars
    <2> QED BY <1>4, <2>1, <2>2, <2>3, <2>4, UnchangedTypes DEF RetryWrite
  <1>5. CASE RefreshVersion(w)
    <2>1. LocalTypeOK'
      BY <1>0, <1>5, LocalTypes DEF RefreshVersion
    <2>2. PcTypeOK'
      BY <1>5, GotoRun, WriteTargets DEF RefreshVersion
    <2> QED BY <1>5, <2>1, <2>2, UnchangedTypes DEF RefreshVersion
  <1>6. CASE PublishProgress(w)
    <2>1. LocalTypeOK'
      BY <1>6, LocalTypes DEF PublishProgress
    <2>2. PcTypeOK'
      BY <1>6, GotoRun, WriteTargets DEF PublishProgress
    <2>3. BusTypeOK'
      BY <1>6, BusTypes DEF PublishProgress, TaskStates
    <2> QED BY <1>6, <2>1, <2>2, <2>3, UnchangedTypes DEF PublishProgress
  <1>7. CASE PublishEnd(w)
    <2>1. LocalTypeOK'
      BY <1>7, LocalTypes DEF PublishEnd
    <2>2. PcTypeOK'
      BY <1>7, GotoRun, WriteTargets DEF PublishEnd
    <2>3. BusTypeOK'
      <3>1. CallState[kind[w]] \in TaskStates
        BY <1>0, <1>7, WriteArguments, UpdateArguments DEF PublishEnd, EndKindOK
      <3> QED BY <1>7, <3>1, BusTypes DEF PublishEnd
    <2> QED BY <1>7, <2>1, <2>2, <2>3, UnchangedTypes DEF PublishEnd
  <1> QED BY <1>1, <1>2, <1>3, <1>4, <1>5, <1>6, <1>7 DEF ContextStep

\* A nack puts back one operation.
LEMMA NackTypes ==
  ASSUME BrokerTypeOK, NEW a, a + 1 \in Attempts, Nack(a)
  PROVE  BrokerTypeOK'
  BY DEF BrokerTypeOK, Nack

\* A freed slot is well-typed again.
LEMMA ForgetTypes ==
  ASSUME ContextTypeOK, AdapterTypeOK, NEW w \in Runs, Forget(w)
  PROVE  ContextTypeOK' /\ AdapterTypeOK' /\ ver' = [ver EXCEPT ![w] = 0]
  <1>1. ContextTypeOK'
    BY DEF Forget, ContextTypeOK, WriteKinds
  <1>2. AdapterTypeOK'
    BY MaxRetriesAssumption DEF Forget, AdapterTypeOK, Attempts
  <1> QED BY <1>1, <1>2 DEF Forget

\* The framework's steps of a run.
LEMMA RunTypes ==
  ASSUME TypeOK, EndKindOK, NEW w \in Runs, Work(w)
  PROVE  TypeOK'
  <1> USE DEF TypeOK
  <1>0. /\ w \in Procs /\ pending[w] \in SUBSET Artifacts /\ version \in Nat
        /\ version + 1 \in Nat /\ {} \in SUBSET Artifacts
        /\ UNCHANGED newState
    BY DEF Procs, LocalTypeOK, StoreTypeOK, Work
  <1>1. CASE TakeOperation(w)
    <2>1. PICK a \in Attempts :
            /\ Receive(a)
            /\ attempt' = [attempt EXCEPT ![w] = a]
            /\ \/ /\ Goto(w, "m_version")
                  /\ outside' = outside \cup {w}
                  /\ UNCHANGED cancelVars
               \/ /\ Goto(w, "check_cancel")
                  /\ OnCancel(w)
                  /\ UNCHANGED outside
      BY <1>1 DEF TakeOperation
    <2>2. BrokerTypeOK'
      BY <2>1 DEF Receive, BrokerTypeOK
    <2>3. CancelTypeOK'
      BY <2>1, UnchangedTypes DEF OnCancel, CancelTypeOK
    <2>4. PcTypeOK'
      BY <2>1, GotoRun DEF RunAwaits, BeforeTry, InMarkFailed
    <2>5. AdapterTypeOK'
      BY <1>1, <2>1 DEF TakeOperation, AdapterTypeOK
    <2> QED BY <1>0, <1>1, <2>2, <2>3, <2>4, <2>5, UnchangedTypes, LocalTypes DEF TakeOperation
  <1>2. CASE CheckCancelled(w)
    <2>1. PcTypeOK'
      BY <1>2, GotoRun DEF CheckCancelled, RunAwaits, BeforeTry
    <2> QED BY <1>0, <1>2, <2>1, UnchangedTypes, LocalTypes DEF CheckCancelled
  <1>3. CASE CancelBeforeRun(w)
    <2>1. PcTypeOK'
      BY <1>3, GotoRun DEF CancelBeforeRun, RunAwaits, InCancel
    <2> QED BY <1>0, <1>3, <2>1, UnchangedTypes, LocalTypes DEF CancelBeforeRun
  <1>4. CASE SetWorking(w)
    <2>1. StoreTypeOK'
      BY <1>4, UpdateTypes, UpdateArguments, UnchangedTypes DEF SetWorking, BlindUpdate
    <2>2. PcTypeOK'
      BY <1>4, GotoRun DEF SetWorking, RunAwaits
    <2>3. AdapterTypeOK'
      BY <1>4 DEF SetWorking, AdapterTypeOK
    <2> QED BY <1>0, <1>4, <2>1, <2>2, <2>3, UnchangedTypes, LocalTypes DEF SetWorking
  <1>5. CASE AnnounceWorking(w)
    <2>1. BusTypeOK'
      BY <1>0, <1>5, BusTypes DEF AnnounceWorking, TaskStates
    <2>2. PcTypeOK'
      BY <1>5, GotoRun DEF AnnounceWorking, RunAwaits
    <2> QED BY <1>0, <1>5, <2>1, <2>2, UnchangedTypes, LocalTypes DEF AnnounceWorking
  <1>6. CASE RunContext(w)
    BY <1>0, <1>6, ContextTypes, UnchangedTypes DEF RunContext
  <1>7. CASE CancelRun(w)
    <2>1. PcTypeOK'
      BY <1>0, <1>7, CancelHelperTypes, GotoRun DEF CancelRun
    <2> QED BY <1>0, <1>7, <2>1, CancelHelperTypes, UnchangedTypes DEF CancelRun
  <1>8. CASE MarkFailed(w)
    <2>a. AfterMark(w) \in RunAwaits /\ ArtifactsOr(w, AfterMark(w)) \in RunAwaits
      BY DEF AfterMark, ArtifactsOr, RunAwaits
    <2>b. InMarkFailed \cup {"m_publish"} \subseteq RunAwaits
      BY DEF RunAwaits
    <2>c. CancelTypeOK' /\ BrokerTypeOK' /\ ContextTypeOK' /\ AdapterTypeOK'
      BY <1>8, UnchangedTypes DEF MarkFailed
    <2>d. UNCHANGED faults
      BY <1>8 DEF MarkFailed
    <2>1. CASE FailGetVersion(w)
      <3>1. PcTypeOK'
        BY <2>1, <2>b, GotoRun DEF FailGetVersion, InMarkFailed
      <3> QED BY <1>0, <2>c, <2>d, <2>1, <3>1, UnchangedTypes, LocalTypes DEF FailGetVersion
    <2>2. CASE FailWrite(w)
      <3>1. StoreTypeOK'
        BY <1>0, <2>2, UpdateTypes, UpdateArguments, UnchangedTypes
           DEF FailWrite, PinnedUpdate, Terminal
      <3>2. PcTypeOK'
        BY <2>2, <2>a, <2>b, GotoRun DEF FailWrite, InMarkFailed
      <3> QED BY <1>0, <2>c, <2>d, <2>2, <3>1, <3>2, UnchangedTypes, LocalTypes DEF FailWrite
    <2>3. CASE FailReload(w)
      <3>1. PcTypeOK'
        BY <2>3, <2>a, <2>b, GotoRun DEF FailReload, InMarkFailed
      <3> QED BY <1>0, <2>c, <2>d, <2>3, <3>1, UnchangedTypes, LocalTypes DEF FailReload
    <2>4. CASE FailRetry(w)
      <3>1. StoreTypeOK'
        BY <1>0, <2>4, UpdateTypes, UpdateArguments, UnchangedTypes
           DEF FailRetry, PinnedUpdate, Terminal
      <3>2. PcTypeOK'
        BY <2>4, <2>a, <2>b, GotoRun DEF FailRetry
      <3> QED BY <1>0, <2>c, <2>d, <2>4, <3>1, <3>2, UnchangedTypes, LocalTypes DEF FailRetry
    <2>5. CASE FailPublish(w)
      <3>1. BusTypeOK'
        BY <2>5, BusTypes DEF FailPublish, TaskStates, Terminal
      <3>2. PcTypeOK'
        BY <2>5, <2>a, GotoRun DEF FailPublish
      <3> QED BY <1>0, <2>c, <2>d, <2>5, <3>1, <3>2, UnchangedTypes, LocalTypes DEF FailPublish
    <2> QED BY <1>8, <2>1, <2>2, <2>3, <2>4, <2>5 DEF MarkFailed
  <1>9. CASE FinallyLoad(w)
    <2>1. PcTypeOK'
      BY <1>9, GotoRun DEF FinallyLoad, RunAwaits
    <2> QED BY <1>0, <1>9, <2>1, UnchangedTypes, LocalTypes DEF FinallyLoad
  <1>10. CASE FinallyCleanBus(w)
    <2>1. BusTypeOK'
      BY <1>0, <1>10, BusTypes DEF FinallyCleanBus
    <2>2. PcTypeOK'
      BY <1>10, GotoRun DEF FinallyCleanBus, RunAwaits
    <2> QED BY <1>0, <1>10, <2>1, <2>2, UnchangedTypes, LocalTypes DEF FinallyCleanBus
  <1>11. CASE FinallyCleanKey(w)
    <2>1. CancelTypeOK'
      BY <1>11 DEF FinallyCleanKey, ReleaseKey, CancelTypeOK
    <2>2. PcTypeOK'
      BY <1>11, GotoRun DEF FinallyCleanKey, RunAwaits
    <2> QED BY <1>0, <1>11, <2>1, <2>2, UnchangedTypes, LocalTypes DEF FinallyCleanKey
  <1>12. CASE Settle(w)
    <2>1. CancelTypeOK'
      BY <1>12 DEF Settle, DropScope, CancelTypeOK
    <2>2. BrokerTypeOK'
      <3>1. attempt[w] < MaxRetries => attempt[w] + 1 \in Attempts
        BY MaxRetriesAssumption DEF AdapterTypeOK, Attempts
      <3> QED BY <1>12, <3>1, UnchangedTypes, NackTypes DEF Settle
    <2>3. PcTypeOK'
      BY <1>12, GotoRun DEF Settle, Forget, RunAwaits, InMarkFailed
    <2>4. ContextTypeOK' /\ AdapterTypeOK' /\ UNCHANGED <<pending, faults>>
          /\ (UNCHANGED ver \/ ver' = [ver EXCEPT ![w] = 0])
      <3>1. CASE Forget(w)
        BY <1>12, <3>1, ForgetTypes DEF Settle
      <3>2. CASE ~Forget(w)
        BY <1>12, <3>2, UnchangedTypes DEF Settle, AdapterTypeOK
      <3> QED BY <3>1, <3>2
    <2> QED BY <1>0, <1>12, <2>1, <2>2, <2>3, <2>4, UnchangedTypes, LocalTypes DEF Settle
  <1>13. CASE AckAfterMark(w)
    <2>1. PcTypeOK'
      BY <1>13, GotoRun DEF AckAfterMark, Forget, RunAwaits
    <2>2. ContextTypeOK' /\ AdapterTypeOK' /\ ver' = [ver EXCEPT ![w] = 0]
      BY <1>13, ForgetTypes DEF AckAfterMark
    <2> QED BY <1>0, <1>13, <2>1, <2>2, UnchangedTypes, LocalTypes DEF AckAfterMark
  <1> QED BY <1>1, <1>2, <1>3, <1>4, <1>5, <1>6, <1>7, <1>8, <1>9, <1>10, <1>11, <1>12, <1>13 DEF Work, RunStep

\* The handler acts, returns or raises, or is interrupted by a cancel.
LEMMA HandlerTypes ==
  ASSUME TypeOK, NEW w \in Runs, UserCode(w) \/ Interrupt(w)
  PROVE  TypeOK'
  <1> USE DEF TypeOK
  <1>0. w \in Procs /\ UNCHANGED newState
    BY DEF Procs, UserCode, Interrupt
  <1>1. CASE HandlerCalls(w)
    <2>1. StoreTypeOK' /\ BusTypeOK'
      BY <1>1, UnchangedTypes
         DEF HandlerCalls, HandlerCall, EmitArtifact, SendStatus, CallLifecycle
    <2> QED BY <1>0, <1>1, <2>1, HandlerCallTypes, UnchangedTypes DEF HandlerCalls
  <1>2. CASE HandlerReturns(w)
    <2>1. PcTypeOK'
      BY <1>2, GotoRun
         DEF HandlerReturns, StartWrite, RunAwaits, InCancel, InVersioned
    <2>2. ContextTypeOK'
      BY <1>2 DEF HandlerReturns, StartWrite, ContextTypeOK, WriteKinds, LifecycleCalls
    <2> QED BY <1>0, <1>2, <2>1, <2>2, UnchangedTypes, LocalTypes DEF HandlerReturns
  <1>3. CASE HandlerRaises(w)
    <2>1. PcTypeOK'
      BY <1>3, GotoRun DEF HandlerRaises, RunAwaits, InMarkFailed
    <2> QED BY <1>0, <1>3, <2>1, UnchangedTypes, LocalTypes DEF HandlerRaises
  <1>4. CASE CancelDelivered(w)
    <2>1. PcTypeOK'
      BY <1>4, GotoRun DEF CancelDelivered, RunAwaits, InCancel
    <2>2. ContextTypeOK'
      BY <1>0, <1>4 DEF CancelDelivered, ContextTypeOK
    <2> QED BY <1>0, <1>4, <2>1, <2>2, UnchangedTypes, LocalTypes DEF CancelDelivered
  <1> QED BY <1>1, <1>2, <1>3, <1>4 DEF UserCode, UserStep, Interrupt

\* A storage error in a run, or the crash of its process.
LEMMA RunFaultTypes ==
  ASSUME TypeOK, NEW w \in Runs, RunFault(w)
  PROVE  TypeOK'
  <1> USE DEF TypeOK
  <1>0. w \in Procs /\ UNCHANGED newState /\ {} \in SUBSET Artifacts
    BY DEF Procs, RunFault
  <1>1. CASE StorageRaises(w)
    <2>1. PcTypeOK'
      <3>1. UNCHANGED pc \/ \E l \in {"fin_load", "m_version", "ack", "fin_bus"} : Goto(w, l)
        BY <1>1 DEF StorageRaises, Land, Escapes
      <3>2. {"fin_load", "m_version", "ack", "fin_bus"} \subseteq RunAwaits
        BY DEF RunAwaits, InMarkFailed
      <3> QED BY <3>1, <3>2, GotoRun, UnchangedTypes
    <2>2. /\ raised' \in SUBSET Runs /\ UNCHANGED <<outside, attempt, started>>
          /\ UNCHANGED pending \/ pending' = [pending EXCEPT ![w] = {}]
      BY <1>1 DEF StorageRaises, Land, Escapes, AdapterTypeOK
    <2>3. AdapterTypeOK'
      BY <2>2 DEF AdapterTypeOK
    <2> QED BY <1>0, <1>1, <2>1, <2>2, <2>3, UnchangedTypes, LocalTypes DEF StorageRaises
  <1>2. CASE WorkerCrashes(w)
    <2>1. BrokerTypeOK'
      <3>1. attempt[w] + 1 \in Attempts
        BY <1>2, MaxRetriesAssumption DEF WorkerCrashes, AdapterTypeOK, Attempts
      <3> QED BY <1>2, <3>1, NackTypes DEF WorkerCrashes
    <2>2. CancelTypeOK'
      BY <1>2 DEF WorkerCrashes, DropScope, CancelTypeOK
    <2>3. PcTypeOK'
      BY <1>2, GotoRun DEF WorkerCrashes, Forget, RunAwaits
    <2>4. ContextTypeOK' /\ AdapterTypeOK' /\ ver' = [ver EXCEPT ![w] = 0]
      BY <1>2, ForgetTypes DEF WorkerCrashes
    <2> QED BY <1>0, <1>2, <2>1, <2>2, <2>3, <2>4, UnchangedTypes, LocalTypes DEF WorkerCrashes
  <1> QED BY <1>1, <1>2 DEF RunFault

\* The end of a turn is published for a lifecycle call: only WriteSucceeded
\* leads to end_publish, and a run keeps its kind until it is back.
LEMMA EndKindNext ==
  ASSUME TypeOK, EndKindOK, Next
  PROVE  EndKindOK'
  <1> USE DEF TypeOK
  <1>1. ASSUME NEW p \in Procs \ Runs, NEW l, Goto(p, l), UNCHANGED kind PROVE EndKindOK'
    BY <1>1 DEF EndKindOK, Goto, PcTypeOK, Procs
  <1>2. ASSUME NEW w \in Runs, NEW l, Goto(w, l), l # "end_publish",
               \A v \in Runs : v # w => kind'[v] = kind[v]
        PROVE  EndKindOK'
    BY <1>2 DEF EndKindOK, Goto, PcTypeOK, Procs
  <1>3. ASSUME UNCHANGED <<pc, kind>> PROVE EndKindOK'
    BY <1>3 DEF EndKindOK
  <1>4. ASSUME NEW r \in Requests, Submit(r) PROVE EndKindOK'
    <2>1. (\E l : Goto(r, l)) /\ UNCHANGED kind
      BY <1>4 DEF Submit, SubmitStep, workerVars, contextVars, CreateTask, WriteTenant,
         GetVersion, LoadAndValidate, AppendMessage, ReloadAfterConflict, AnnounceSubmitted
    <2> QED BY <1>1, <2>1, ProcsAssumption DEF Procs
  <1>5. ASSUME NEW r \in Requests, Dispatch(r) PROVE EndKindOK'
    <2>1. (\E l : Goto(r, l)) /\ UNCHANGED kind
      BY <1>5 DEF Dispatch, DispatchStep, workerVars, contextVars, SubscribeFirst, Enqueue,
         EnqueueFailedVersion, EnqueueFailedLoad, EnqueueFailedWrite, EnqueueFailedPublish,
         AnswerDuplicate, SnapshotLoad
    <2> QED BY <1>1, <2>1, ProcsAssumption DEF Procs
  <1>6. ASSUME NEW r \in Requests, TimeOut(r) PROVE EndKindOK'
    BY <1>3, <1>6 DEF TimeOut, BlockingTimeout, workerVars, contextVars
  <1>7. ASSUME NEW l \in Watchers, Watch(l) PROVE EndKindOK'
    <2>1. (\E a : Goto(l, a)) /\ UNCHANGED kind
      BY <1>7 DEF Watch, workerVars, contextVars, Resubscribe, SnapshotLoad
    <2> QED BY <1>1, <2>1, ProcsAssumption DEF Procs
  <1>8. ASSUME NEW c \in Cancels, CallCancel(c) \/ ForceCancel(c) PROVE EndKindOK'
    <2>1. (\E l : Goto(c, l)) /\ UNCHANGED kind
      BY <1>8 DEF CallCancel, CancelCallStep, ForceCancel, ForceCancelStep, workerVars,
         contextVars, CancelTaskLoad, CancelTaskCheck, CancelTaskRequest, ForceCancelLoad,
         ForceCancelInStorage, ForceCancelCleanBus, ForceCancelCleanKey, CancelInStorage,
         CancelGetVersion, CancelLoad, CancelWrite, CancelReload, CancelRetry,
         WriteArtifactsOnly, CancelPublish
    <2> QED BY <1>1, <2>1, ProcsAssumption DEF Procs
  <1>9. ASSUME NEW p \in Requests \cup Cancels, CallFault(p) PROVE EndKindOK'
    BY <1>1, <1>9, ProcsAssumption DEF CallFault, CallRaises, workerVars, contextVars, Procs
  <1>10. ASSUME NEW w \in Runs, RunContext(w) PROVE EndKindOK'
    <2>1. CASE \E l : l # "end_publish" /\ Goto(w, l)
      BY <1>2, <1>10, <2>1 DEF RunContext, ContextStep, contextVars, VersionedWrite,
         ReloadOnConflict, FreshVersion, RetryWrite, RefreshVersion, PublishProgress, PublishEnd
    <2>2. CASE ~ \E l : l # "end_publish" /\ Goto(w, l)
      <3>1. WriteSucceeded(w) /\ UNCHANGED kind
        BY <1>10, <2>2 DEF RunContext, ContextStep, VersionedWrite, ReloadOnConflict,
           FreshVersion, RetryWrite, RefreshVersion, PublishProgress, PublishEnd,
           TerminalError, ArtifactsOr
      <3>2. kind[w] \in LifecycleCalls
        BY <2>2, <3>1 DEF WriteSucceeded, ContextTypeOK, WriteKinds
      <3> QED BY <3>1, <3>2 DEF WriteSucceeded, EndKindOK, Goto, PcTypeOK, Procs
    <2> QED BY <2>1, <2>2
  <1>11. ASSUME NEW w \in Runs, CancelRun(w) PROVE EndKindOK'
    <2>1. (\E l : l # "end_publish" /\ Goto(w, l)) /\ UNCHANGED kind
      BY <1>11 DEF CancelRun, contextVars, CancelInStorage, CancelGetVersion, CancelLoad,
         CancelWrite, CancelReload, CancelRetry, WriteArtifactsOnly, CancelPublish,
         ArtifactsOr, AfterCancel
    <2> QED BY <1>2, <2>1
  <1>12. ASSUME NEW w \in Runs, MarkFailed(w) PROVE EndKindOK'
    <2>1. (\E l : l # "end_publish" /\ Goto(w, l)) /\ UNCHANGED kind
      BY <1>12 DEF MarkFailed, contextVars, FailGetVersion, FailWrite, FailReload, FailRetry,
         FailPublish, ArtifactsOr, AfterMark
    <2> QED BY <1>2, <2>1
  <1>13. ASSUME NEW w \in Runs,
                TakeOperation(w) \/ CheckCancelled(w) \/ CancelBeforeRun(w) \/ SetWorking(w)
                \/ AnnounceWorking(w) \/ FinallyLoad(w) \/ FinallyCleanBus(w)
                \/ FinallyCleanKey(w) \/ HandlerRaises(w) \/ CancelDelivered(w)
         PROVE  EndKindOK'
    <2>1. (\E l : l # "end_publish" /\ Goto(w, l)) /\ UNCHANGED kind
      BY <1>13 DEF contextVars, TakeOperation, CheckCancelled, CancelBeforeRun, SetWorking,
         AnnounceWorking, FinallyLoad, FinallyCleanBus, FinallyCleanKey, HandlerRaises,
         CancelDelivered
    <2> QED BY <1>2, <2>1
  <1>14. ASSUME NEW w \in Runs, Settle(w) \/ AckAfterMark(w) \/ WorkerCrashes(w)
         PROVE  EndKindOK'
    <2>1. /\ \E l : l # "end_publish" /\ Goto(w, l)
          /\ UNCHANGED kind \/ kind' = [kind EXCEPT ![w] = "flush"]
      BY <1>14 DEF Settle, AckAfterMark, WorkerCrashes, Forget, contextVars
    <2> QED BY <1>2, <2>1 DEF ContextTypeOK
  <1>15. ASSUME NEW w \in Runs, HandlerCalls(w) \/ HandlerReturns(w) PROVE EndKindOK'
    <2>1. \/ UNCHANGED <<pc, kind>>
          \/ /\ \E l : l # "end_publish" /\ Goto(w, l)
             /\ UNCHANGED kind \/ \E k : kind' = [kind EXCEPT ![w] = k]
      BY <1>15 DEF HandlerCalls, HandlerCall, EmitArtifact, SendStatus, CallLifecycle,
         HandlerReturns, StartWrite
    <2> QED BY <1>2, <1>3, <2>1 DEF ContextTypeOK
  <1>16. ASSUME NEW w \in Runs, StorageRaises(w) PROVE EndKindOK'
    <2>1. /\ UNCHANGED pc \/ \E l : l # "end_publish" /\ Goto(w, l)
          /\ UNCHANGED kind
      BY <1>16 DEF StorageRaises, Land, Escapes, contextVars
    <2> QED BY <1>2, <1>3, <2>1
  <1> QED BY <1>4, <1>5, <1>6, <1>7, <1>8, <1>9, <1>10, <1>11, <1>12, <1>13, <1>14, <1>15,
             <1>16 DEF Next, Work, RunStep, UserCode, UserStep, Interrupt, RunFault

\* The type invariant as TLC checks it, with the fact that makes it inductive.
TypeInv == TypeOK /\ EndKindOK

LEMMA TypeInvInductive ==
  /\ Init => TypeInv
  /\ TypeInv /\ [Next]_vars => TypeInv'
  <1>1. Init => TypeInv
    <2>1. Init => EndKindOK
      BY ProcsAssumption, RequestAssumption DEF Init, EndKindOK, FirstStep, Procs
    <2> QED BY <2>1, TypeInit DEF TypeInv
  <1>2. ASSUME TypeInv, Next PROVE TypeInv'
    <2>1. TypeOK'
      BY <1>2, SubmitTypes, DispatchTypes, ListenerTypes, CancelTypes, CallFaultTypes,
         RunTypes, HandlerTypes, RunFaultTypes DEF Next, TypeInv
    <2> QED BY <1>2, <2>1, EndKindNext DEF TypeInv
  <1>3. ASSUME TypeInv, UNCHANGED vars PROVE TypeInv'
    <2>1. /\ UNCHANGED storeVars /\ UNCHANGED busVars /\ UNCHANGED cancelVars
          /\ UNCHANGED <<queued, pc, ver, pending, faults, newState>>
          /\ UNCHANGED contextVars /\ UNCHANGED adapterVars
      BY <1>3 DEF vars, workerVars
    <2>2. TypeOK'
      BY <1>3, <2>1, UnchangedTypes, LocalTypes DEF TypeInv, TypeOK
    <2> QED BY <1>3, <2>1, <2>2 DEF TypeInv, EndKindOK, contextVars
  <1> QED BY <1>1, <1>2, <1>3

\* Every variable keeps its type and every process stays at an await of its
\* own, for any number of requests, watchers, cancels, runs and faults.
THEOREM TypeCorrect == Spec => []TypeOK
  <1>1. TypeInv => TypeOK
    BY DEF TypeInv
  <1> QED BY <1>1, TypeInvInductive, PTL DEF Spec

-----------------------------------------------------------------------------
(* What a step may do to the task row.                                     *)

\* The states update_task is called with.
RowStates == TaskStates \ {"absent"}

\* A write that is not refused and appends no client message.
QuietUpdate ==
  \E st \in RowStates \cup {None} : \E sm, as :
    ~TerminalGuard(st) /\ ApplyUpdate(st, sm, <<>>, as)

\* The pinned append of a follow-up.
FollowUp(r) ==
  /\ pc[r] = "append"
  /\ PinnedUpdate(ver[r], newState[r], None, <<MsgOf[r]>>, {})

\* Every step leaves the row alone, inserts it, appends a follow-up, or is a
\* quiet update: no other code path touches storage.
LEMMA StoreSteps ==
  ASSUME TypeInv, Next
  PROVE  \/ UNCHANGED storeVars
         \/ tstate = "absent" /\ \E r \in Requests : InsertTask(MsgOf[r])
         \/ \E r \in Requests : FollowUp(r)
         \/ QuietUpdate
  <1> DEFINE Goal == \/ UNCHANGED storeVars
                     \/ tstate = "absent" /\ \E r \in Requests : InsertTask(MsgOf[r])
                     \/ \E r \in Requests : FollowUp(r)
                     \/ QuietUpdate
  <1>a. ASSUME NEW st \in RowStates \cup {None}, NEW sm, NEW as, NEW v,
               PinnedUpdate(v, st, sm, <<>>, as) \/ BlindUpdate(st, sm, <<>>, as)
        PROVE  Goal
    BY <1>a DEF PinnedUpdate, BlindUpdate, QuietUpdate
  <1>b. {None, "working", "failed", "canceled"} \subseteq RowStates \cup {None}
    BY DEF RowStates, TaskStates, Terminal
  <1>1. ASSUME NEW r \in Requests, Submit(r) PROVE Goal
    BY <1>1, <1>a, <1>b DEF Submit, SubmitStep, CreateTask, WriteTenant, GetVersion,
       LoadAndValidate, AppendMessage, FollowUp, ReloadAfterConflict, AnnounceSubmitted
  <1>2. ASSUME NEW r \in Requests, Dispatch(r) \/ TimeOut(r) PROVE Goal
    BY <1>2, <1>a, <1>b DEF Dispatch, DispatchStep, SubscribeFirst, Enqueue, TimeOut,
       EnqueueFailedVersion, EnqueueFailedLoad, EnqueueFailedWrite, EnqueueFailedPublish,
       AnswerDuplicate, SnapshotLoad, BlockingTimeout
  <1>3. ASSUME NEW l \in Watchers, Watch(l) PROVE Goal
    BY <1>3 DEF Watch, Resubscribe, SnapshotLoad
  <1>4. ASSUME NEW p, CancelInStorage(p) PROVE Goal
    BY <1>4, <1>a, <1>b DEF CancelInStorage, CancelGetVersion, CancelLoad, CancelWrite,
       CancelReload, CancelRetry, WriteArtifactsOnly, CancelPublish
  <1>5. ASSUME NEW c \in Cancels, CallCancel(c) \/ ForceCancel(c) PROVE Goal
    BY <1>4, <1>5 DEF CallCancel, CancelCallStep, CancelTaskLoad, CancelTaskCheck,
       CancelTaskRequest, ForceCancel, ForceCancelStep, ForceCancelLoad,
       ForceCancelInStorage, ForceCancelCleanBus, ForceCancelCleanKey
  <1>6. ASSUME NEW p \in Requests \cup Cancels, CallFault(p) PROVE Goal
    BY <1>6 DEF CallFault, CallRaises
  <1>7. ASSUME NEW w \in Runs, RunContext(w) PROVE Goal
    <2>1. WriteState(kind[w]) \in RowStates \cup {None}
      BY WriteArguments
         DEF TypeInv, TypeOK, ContextTypeOK, WriteState, RowStates, TaskStates, Terminal, Paused
    <2> QED BY <1>7, <1>a, <2>1 DEF RunContext, ContextStep, VersionedWrite,
          ReloadOnConflict, FreshVersion, RetryWrite, RefreshVersion, PublishProgress,
          PublishEnd
  <1>8. ASSUME NEW w \in Runs, MarkFailed(w) PROVE Goal
    BY <1>8, <1>a, <1>b DEF MarkFailed, FailGetVersion, FailWrite, FailReload, FailRetry,
       FailPublish
  <1>9. ASSUME NEW w \in Runs, Work(w) PROVE Goal
    BY <1>4, <1>7, <1>8, <1>9, <1>a, <1>b DEF Work, RunStep, TakeOperation, CheckCancelled,
       CancelBeforeRun, SetWorking, AnnounceWorking, CancelRun, FinallyLoad, FinallyCleanBus,
       FinallyCleanKey, Settle, AckAfterMark
  <1>10. ASSUME NEW w \in Runs, UserCode(w) \/ Interrupt(w) \/ RunFault(w) PROVE Goal
    BY <1>10 DEF UserCode, UserStep, HandlerCalls, HandlerCall, EmitArtifact, SendStatus,
       CallLifecycle, HandlerReturns, HandlerRaises, Interrupt, CancelDelivered, RunFault,
       StorageRaises, WorkerCrashes
  <1> QED BY <1>1, <1>2, <1>3, <1>5, <1>6, <1>9, <1>10 DEF Next

\* A terminal state is not left.
LEMMA TerminalStays ==
  ASSUME TypeInv, Next, tstate \in Terminal PROVE tstate' = tstate
  <1>1. CASE UNCHANGED storeVars
    BY <1>1 DEF storeVars
  <1>2. CASE tstate = "absent"
    BY <1>2 DEF Terminal
  <1>3. CASE \E r \in Requests : FollowUp(r)
    BY <1>3 DEF FollowUp, PinnedUpdate, TerminalGuard, ApplyUpdate
  <1>4. CASE QuietUpdate
    BY <1>4 DEF QuietUpdate, TerminalGuard, ApplyUpdate
  <1> QED BY <1>1, <1>2, <1>3, <1>4, StoreSteps

\* No writer, however late, moves a terminal task to another state: the guard
\* of update_task is on every path to the row.
THEOREM TerminalFinality == Spec => TerminalIsFinal
  <1>1. ASSUME TypeInv, [Next]_vars PROVE [(tstate \in Terminal) => tstate' = tstate]_vars
    BY <1>1, TerminalStays
  <1> QED BY <1>1, TypeInvInductive, PTL DEF Spec, TerminalIsFinal

-----------------------------------------------------------------------------
(* A step moves one process.                                               *)

\* Only process q's own await, captured version, planned state and write kind
\* may change.
Moves(q) ==
  /\ UNCHANGED pc \/ \E l : Goto(q, l)
  /\ UNCHANGED ver \/ \E v : ver' = [ver EXCEPT ![q] = v]
  /\ UNCHANGED newState \/ \E st : newState' = [newState EXCEPT ![q] = st]
  /\ UNCHANGED kind \/ \E k : kind' = [kind EXCEPT ![q] = k]

\* What each kind of step moves.
LEMMA StepMoves ==
  /\ \A r \in Requests : Submit(r) \/ Dispatch(r) \/ TimeOut(r) => Moves(r)
  /\ \A l \in Watchers : Watch(l) => Moves(l)
  /\ \A c \in Cancels : CallCancel(c) \/ ForceCancel(c) => Moves(c)
  /\ \A p \in Requests \cup Cancels : CallFault(p) => Moves(p)
  /\ \A w \in Runs : Work(w) \/ UserCode(w) \/ Interrupt(w) \/ RunFault(w) => Moves(w)
  <1>1. ASSUME NEW r \in Requests, Submit(r) PROVE Moves(r)
    BY <1>1 DEF Moves, workerVars, contextVars, Submit, SubmitStep, CreateTask, WriteTenant,
       GetVersion, LoadAndValidate, AppendMessage, ReloadAfterConflict, AnnounceSubmitted
  <1>2. ASSUME NEW r \in Requests, Dispatch(r) PROVE Moves(r)
    BY <1>2 DEF Moves, workerVars, contextVars, Dispatch, DispatchStep, SubscribeFirst,
       Enqueue, EnqueueFailedVersion, EnqueueFailedLoad, EnqueueFailedWrite,
       EnqueueFailedPublish, AnswerDuplicate, SnapshotLoad
  <1>3. ASSUME NEW r \in Requests, TimeOut(r) PROVE Moves(r)
    BY <1>3 DEF Moves, workerVars, contextVars, TimeOut, BlockingTimeout
  <1>4. ASSUME NEW l \in Watchers, Watch(l) PROVE Moves(l)
    BY <1>4 DEF Moves, workerVars, contextVars, Watch, Resubscribe, SnapshotLoad
  <1>5. ASSUME NEW p, CancelInStorage(p), UNCHANGED <<newState, kind>> PROVE Moves(p)
    BY <1>5 DEF Moves, CancelInStorage, CancelGetVersion, CancelLoad, CancelWrite,
       CancelReload, CancelRetry, WriteArtifactsOnly, CancelPublish
  <1>6. ASSUME NEW c \in Cancels, ForceCancel(c) PROVE Moves(c)
    <2>1. CASE ForceCancelInStorage(c)
      BY <1>5, <1>6, <2>1 DEF ForceCancel, ForceCancelInStorage, workerVars, contextVars
    <2>2. CASE ~ForceCancelInStorage(c)
      BY <1>6, <2>2 DEF Moves, workerVars, contextVars, ForceCancel, ForceCancelStep,
         ForceCancelLoad, ForceCancelCleanBus, ForceCancelCleanKey
    <2> QED BY <2>1, <2>2
  <1>7. ASSUME NEW c \in Cancels, CallCancel(c) PROVE Moves(c)
    BY <1>7 DEF Moves, workerVars, contextVars, CallCancel, CancelCallStep, CancelTaskLoad,
       CancelTaskCheck, CancelTaskRequest
  <1>8. ASSUME NEW p \in Requests \cup Cancels, CallFault(p) PROVE Moves(p)
    BY <1>8 DEF Moves, workerVars, contextVars, CallFault, CallRaises
  <1>9. ASSUME NEW w \in Runs, RunContext(w), UNCHANGED newState PROVE Moves(w)
    BY <1>9 DEF Moves, contextVars, RunContext, ContextStep, VersionedWrite, WriteSucceeded,
       TerminalError, ReloadOnConflict, FreshVersion, RetryWrite, RefreshVersion,
       PublishProgress, PublishEnd
  <1>10. ASSUME NEW w \in Runs, MarkFailed(w), UNCHANGED newState PROVE Moves(w)
    BY <1>10 DEF Moves, contextVars, MarkFailed, FailGetVersion, FailWrite, FailReload,
       FailRetry, FailPublish
  <1>11. ASSUME NEW w \in Runs, CancelRun(w), UNCHANGED newState PROVE Moves(w)
    BY <1>5, <1>11 DEF CancelRun, contextVars
  <1>12. ASSUME NEW w \in Runs, UNCHANGED newState,
                TakeOperation(w) \/ CheckCancelled(w) \/ CancelBeforeRun(w) \/ SetWorking(w)
                \/ AnnounceWorking(w) \/ FinallyLoad(w) \/ FinallyCleanBus(w)
                \/ FinallyCleanKey(w) \/ Settle(w) \/ AckAfterMark(w)
         PROVE  Moves(w)
    BY <1>12 DEF Moves, contextVars, TakeOperation, CheckCancelled, CancelBeforeRun,
       SetWorking, AnnounceWorking, FinallyLoad, FinallyCleanBus, FinallyCleanKey, Settle,
       AckAfterMark, Forget
  <1>13. ASSUME NEW w \in Runs, UserCode(w) \/ Interrupt(w) PROVE Moves(w)
    BY <1>13 DEF Moves, contextVars, UserCode, UserStep, HandlerCalls, HandlerCall,
       EmitArtifact, SendStatus, CallLifecycle, StartWrite, HandlerReturns, HandlerRaises,
       Interrupt, CancelDelivered
  <1>14. ASSUME NEW w \in Runs, RunFault(w) PROVE Moves(w)
    BY <1>14 DEF Moves, contextVars, RunFault, StorageRaises, Land, Escapes, WorkerCrashes,
       Forget
  <1>15. ASSUME NEW w \in Runs, Work(w) PROVE Moves(w)
    BY <1>9, <1>10, <1>11, <1>12, <1>15 DEF Work, RunStep
  <1> QED BY <1>1, <1>2, <1>3, <1>4, <1>6, <1>7, <1>8, <1>13, <1>14, <1>15

\* The other processes stay where they are.
LEMMA OthersStay ==
  ASSUME TypeInv, NEW q \in Procs, Moves(q), NEW p \in Procs, p # q
  PROVE  /\ pc'[p] = pc[p] /\ ver'[p] = ver[p]
         /\ p \in Requests => newState'[p] = newState[p]
         /\ p \in Runs => kind'[p] = kind[p]
  BY DEF Moves, Goto, TypeInv, TypeOK, PcTypeOK, LocalTypeOK, ContextTypeOK

-----------------------------------------------------------------------------
(* The history.  A follow-up captures the version, then validates a        *)
(* snapshot, then writes with the captured version.  Whatever the snapshot *)
(* said still holds when the version is unchanged.                         *)

\* A captured version is never ahead of the row.
VersionsBehind ==
  \A r \in Requests :
    pc[r] \in {"validate", "append"} => tstate # "absent" /\ ver[r] <= version

\* As long as the captured version is the current one, the validation that
\* preceded the write is still true of the row.
AppendReady ==
  \A r \in Requests :
    pc[r] = "append" /\ ver[r] = version
    => ~InHistory(MsgOf[r]) /\ Accepts(MsgOf[r]) /\ newState[r] = StateTransition

HistoryInv == TypeInv /\ VersionsBehind /\ AppendReady /\ HistoryOnce

\* How a request comes to be between its version read and its write.
LEMMA RequestSteps ==
  ASSUME TypeInv, Next, NEW r \in Requests, pc'[r] \in {"validate", "append"}
  PROVE  \/ pc'[r] = pc[r] /\ ver'[r] = ver[r] /\ newState'[r] = newState[r]
         \/ /\ UNCHANGED storeVars
            /\ tstate # "absent" /\ pc'[r] = "validate" /\ ver'[r] = version
         \/ /\ UNCHANGED storeVars
            /\ pc[r] = "validate" /\ pc'[r] = "append" /\ ver'[r] = ver[r]
            /\ Accepts(MsgOf[r]) /\ ~InHistory(MsgOf[r]) /\ newState'[r] = StateTransition
  <1> DEFINE Goal ==
         \/ pc'[r] = pc[r] /\ ver'[r] = ver[r] /\ newState'[r] = newState[r]
         \/ /\ UNCHANGED storeVars
            /\ tstate # "absent" /\ pc'[r] = "validate" /\ ver'[r] = version
         \/ /\ UNCHANGED storeVars
            /\ pc[r] = "validate" /\ pc'[r] = "append" /\ ver'[r] = ver[r]
            /\ Accepts(MsgOf[r]) /\ ~InHistory(MsgOf[r]) /\ newState'[r] = StateTransition
  <1>0. r \in Procs /\ pc \in [Procs -> Awaits] /\ ver \in [Procs -> Nat]
        /\ newState \in [Requests -> {None, "submitted"}]
    BY DEF Procs, TypeInv, TypeOK, PcTypeOK, LocalTypeOK
  <1>1. CASE Submit(r)
    BY <1>0, <1>1 DEF Submit, SubmitStep, CreateTask, WriteTenant, GetVersion,
       LoadAndValidate, AppendMessage, ReloadAfterConflict, AnnounceSubmitted, Goto
  <1>2. CASE Dispatch(r)
    BY <1>0, <1>2 DEF Dispatch, DispatchStep, SubscribeFirst, Enqueue,
       EnqueueFailedVersion, EnqueueFailedLoad, EnqueueFailedWrite, EnqueueFailedPublish,
       AnswerDuplicate, SnapshotLoad, Goto
  <1>3. CASE TimeOut(r)
    BY <1>3 DEF TimeOut, BlockingTimeout
  <1>4. CASE CallFault(r)
    BY <1>0, <1>4 DEF CallFault, CallRaises, Goto
  <1>5. ASSUME NEW q \in Procs, q # r, Moves(q) PROVE Goal
    BY <1>0, <1>5, OthersStay
  <1>6. ASSUME NEW q \in Procs, q # r PROVE Moves(q) => Goal
    BY <1>5, <1>6
  <1>7. \A q \in Watchers \cup Cancels \cup Runs : q \in Procs /\ q # r
    BY ProcsAssumption DEF Procs
  <1>8. \A q \in Requests : q \in Procs
    BY DEF Procs
  <1> HIDE DEF Goal
  <1> QED BY <1>1, <1>2, <1>3, <1>4, <1>6, <1>7, <1>8, StepMoves DEF Next, Goal

\* What a step does to version and history.
LEMMA HistorySteps ==
  ASSUME TypeInv, Next
  PROVE  \/ UNCHANGED storeVars
         \/ tstate = "absent" /\ \E m \in Messages : history' = <<m>>
         \/ /\ version' = version + 1
            /\ tstate # "absent" => tstate' # "absent"
            /\ \/ history' = history
               \/ \E r \in Requests : /\ pc[r] = "append" /\ ver[r] = version
                                      /\ history' = Append(history, MsgOf[r])
                                      /\ newState[r] # None => tstate' = newState[r]
  <1>0. history \in Seq(Messages) /\ newState \in [Requests -> {None, "submitted"}]
        /\ MsgOf \in [Requests -> Messages]
    BY RequestAssumption DEF TypeInv, TypeOK, StoreTypeOK, LocalTypeOK
  <1>1. CASE \E r \in Requests : FollowUp(r)
    <2>1. PICK r \in Requests : FollowUp(r)
      BY <1>1
    <2>2. history \o <<MsgOf[r]>> = Append(history, MsgOf[r])
      BY <1>0
    <2> QED BY <1>0, <2>1, <2>2
            DEF FollowUp, PinnedUpdate, ApplyUpdate, VersionMismatch, None
  <1>2. CASE QuietUpdate
    <2>1. history \o <<>> = history
      BY <1>0
    <2> QED BY <2>1, <1>2 DEF QuietUpdate, ApplyUpdate, RowStates, None
  <1>3. CASE tstate = "absent" /\ \E r \in Requests : InsertTask(MsgOf[r])
    BY <1>0, <1>3 DEF InsertTask
  <1> QED BY <1>1, <1>2, <1>3, StoreSteps

LEMMA HistoryInit == ASSUME Init PROVE HistoryInv
  <1>1. TypeInv
    BY TypeInvInductive
  <1>2. \A r \in Requests : pc[r] \notin {"validate", "append"}
    BY ProcsAssumption, RequestAssumption DEF Init, FirstStep, Procs
  <1>3. HistoryOnce
    BY DEF Init, StoreInit, HistoryOnce
  <1> QED BY <1>1, <1>2, <1>3 DEF HistoryInv, VersionsBehind, AppendReady

LEMMA HistoryNext == ASSUME HistoryInv, Next PROVE HistoryInv'
  <1>0. TypeInv /\ TypeInv' /\ version \in Nat /\ ver \in [Procs -> Nat] /\ ver' \in [Procs -> Nat]
        /\ history \in Seq(Messages) /\ MsgOf \in [Requests -> Messages]
    BY TypeInvInductive, RequestAssumption DEF HistoryInv, TypeInv, TypeOK, StoreTypeOK, LocalTypeOK
  <1>1. Requests \subseteq Procs
    BY DEF Procs
  <1>2. VersionsBehind'
    <2> SUFFICES ASSUME NEW r \in Requests, pc'[r] \in {"validate", "append"}
                 PROVE  tstate' # "absent" /\ ver'[r] <= version'
      BY DEF VersionsBehind
    <2>0. ver[r] \in Nat /\ ver'[r] \in Nat
      BY <1>0, <1>1
    <2>1. CASE pc'[r] = pc[r] /\ ver'[r] = ver[r]
      <3>1. tstate # "absent" /\ ver[r] <= version
        BY <2>1 DEF HistoryInv, VersionsBehind
      <3> QED BY <1>0, <2>0, <2>1, <3>1, HistorySteps DEF storeVars
    <2>2. CASE UNCHANGED storeVars /\ tstate # "absent" /\ ver'[r] = version
      BY <1>0, <2>2 DEF storeVars
    <2>3. CASE UNCHANGED storeVars /\ pc[r] = "validate" /\ ver'[r] = ver[r]
      BY <2>3 DEF HistoryInv, VersionsBehind, storeVars
    <2> QED BY <1>0, <2>1, <2>2, <2>3, RequestSteps
  <1>3. AppendReady'
    <2> SUFFICES ASSUME NEW r \in Requests, pc'[r] = "append", ver'[r] = version'
                 PROVE  ~InHistory(MsgOf[r])' /\ Accepts(MsgOf[r])' /\ newState'[r] = StateTransition'
      BY DEF AppendReady
    <2>1. CASE UNCHANGED storeVars
      <3>1. /\ InHistory(MsgOf[r])' = InHistory(MsgOf[r])
            /\ Accepts(MsgOf[r])' = Accepts(MsgOf[r])
            /\ StateTransition' = StateTransition
            /\ version' = version
        BY <2>1 DEF InHistory, Accepts, StateTransition, storeVars
      <3>2. CASE pc'[r] = pc[r] /\ ver'[r] = ver[r] /\ newState'[r] = newState[r]
        BY <3>1, <3>2 DEF HistoryInv, AppendReady
      <3>3. CASE Accepts(MsgOf[r]) /\ ~InHistory(MsgOf[r]) /\ newState'[r] = StateTransition
        BY <3>1, <3>3
      <3> QED BY <1>0, <3>2, <3>3, RequestSteps
    <2>2. CASE ~UNCHANGED storeVars
      <3>1. pc[r] = "append" /\ ver'[r] = ver[r]
        BY <1>0, <2>2, RequestSteps
      <3>2. tstate # "absent" /\ ver[r] <= version
        BY <3>1 DEF HistoryInv, VersionsBehind
      <3>3. version' = version + 1
        BY <1>0, <2>2, <3>2, HistorySteps
      <3>4. ver[r] \in Nat /\ version \in Nat
        BY <1>0, <1>1
      <3>5. ver[r] = version + 1
        BY <3>1, <3>3
      <3> QED BY <3>2, <3>4, <3>5
    <2> QED BY <2>1, <2>2
  <1>4. HistoryOnce'
    <2>1. CASE history' = history
      BY <2>1 DEF HistoryInv, HistoryOnce
    <2>2. ASSUME NEW m \in Messages, history' = <<m>> PROVE HistoryOnce'
      BY <2>2 DEF HistoryOnce
    <2>3. ASSUME NEW r \in Requests, pc[r] = "append", ver[r] = version,
                 history' = Append(history, MsgOf[r])
          PROVE  HistoryOnce'
      <3>1. \A i \in DOMAIN history : history[i] # MsgOf[r]
        BY <2>3 DEF HistoryInv, AppendReady, InHistory
      <3> SUFFICES ASSUME NEW i \in DOMAIN history', NEW j \in DOMAIN history',
                          history'[i] = history'[j]
                   PROVE  i = j
        BY DEF HistoryOnce
      <3>2. \A i2, j2 \in DOMAIN history : history[i2] = history[j2] => i2 = j2
        BY DEF HistoryInv, HistoryOnce
      <3>3. DOMAIN history' = 1 .. (Len(history) + 1) /\ DOMAIN history = 1 .. Len(history)
            /\ Len(history) \in Nat
        BY <1>0, <2>3
      <3>4. \A k \in DOMAIN history' :
              history'[k] = IF k = Len(history) + 1 THEN MsgOf[r] ELSE history[k]
        BY <1>0, <2>3, <3>3
      <3> QED BY <3>1, <3>2, <3>3, <3>4
    <2> QED BY <1>0, <2>1, <2>2, <2>3, HistorySteps DEF storeVars
  <1> QED BY <1>0, <1>2, <1>3, <1>4 DEF HistoryInv

LEMMA HistoryInductive == Spec => []HistoryInv
  <1>1. ASSUME HistoryInv, UNCHANGED vars PROVE HistoryInv'
    <2>1. TypeInv'
      BY <1>1, TypeInvInductive DEF HistoryInv
    <2> QED BY <1>1, <2>1 DEF HistoryInv, VersionsBehind, AppendReady, HistoryOnce, InHistory,
            Accepts, StateTransition, vars, storeVars
  <1> QED BY <1>1, HistoryInit, HistoryNext, PTL DEF Spec

\* A client message is recorded at most once, for any number of concurrent
\* retries: the duplicate check is made on the version that the write is
\* pinned to.
THEOREM HistoryRecordedOnce == Spec => []HistoryOnce
  <1>1. HistoryInv => HistoryOnce
    BY DEF HistoryInv
  <1> QED BY <1>1, HistoryInductive, PTL

\* A user's follow-up only ever resumes a paused task, for any number of
\* rivals: the pause that was validated is the one that is consumed.
THEOREM FollowUpsResume == Spec => FollowUpResumes
  <1> DEFINE Act == /\ Len(history) > 0
                    /\ Len(history') > Len(history)
                    /\ history'[Len(history')] \notin AgentRole
                    => tstate \in Paused /\ tstate' = "submitted"
  <1>1. ASSUME HistoryInv, [Next]_vars PROVE [Act]_vars
    <2> SUFFICES ASSUME Next, Len(history) > 0, Len(history') > Len(history),
                        history'[Len(history')] \notin AgentRole
                 PROVE  tstate \in Paused /\ tstate' = "submitted"
      BY <1>1
    <2>0. history \in Seq(Messages) /\ MsgOf \in [Requests -> Messages] /\ TypeInv
      BY <1>1, RequestAssumption DEF HistoryInv, TypeInv, TypeOK, StoreTypeOK
    <2>1. history' # history /\ \A m \in Messages : history' # <<m>>
      BY <2>0
    <2>2. PICK r \in Requests : /\ pc[r] = "append" /\ ver[r] = version
                                /\ history' = Append(history, MsgOf[r])
                                /\ newState[r] # None => tstate' = newState[r]
      BY <2>0, <2>1, HistorySteps DEF storeVars
    <2>3. MsgOf[r] \notin AgentRole
      BY <2>0, <2>2
    <2>4. Accepts(MsgOf[r]) /\ newState[r] = StateTransition
      BY <1>1, <2>2 DEF HistoryInv, AppendReady
    <2> QED BY <2>2, <2>3, <2>4 DEF Accepts, StateTransition, None
  <1> QED BY <1>1, HistoryInductive, PTL DEF Spec, FollowUpResumes

-----------------------------------------------------------------------------
(* The final event.  The write that makes a task terminal and the          *)
(* announcement of its final event are two steps of one process; no other  *)
(* process ever comes to announce a terminal state.                        *)

PublishAwaits == {"c_publish", "m_publish", "fail_publish", "end_publish"}

\* The state process p is about to announce in a TerminalMarker.
Announces(p) ==
  IF pc[p] = "c_publish" THEN "canceled"
  ELSE IF pc[p] \in {"m_publish", "fail_publish"} THEN "failed"
  ELSE IF pc[p] = "end_publish" THEN CallState[kind[p]]
  ELSE None

\* Whoever is about to announce a terminal state wrote it, and it has not
\* been announced yet.
AnnouncerOwns ==
  \A p \in Procs : Announces(p) \in Terminal => Announces(p) = tstate /\ finals = 0

OneAnnouncer ==
  \A p, q \in Procs : Announces(p) \in Terminal /\ Announces(q) \in Terminal => p = q

FinalInv == TypeInv /\ AnnouncerOwns /\ OneAnnouncer /\ FinalEventOnce

\* What a step of process q does to the final event: nothing, the terminal
\* write, or the announcement.
FinalStep(q) ==
  \/ /\ finals' = finals
     /\ lastEvent' = lastEvent \/ lastEvent' \notin Terminal
     /\ Announces(q)' \in Terminal => Announces(q)' = Announces(q)
  \/ /\ tstate \notin Terminal /\ tstate' \in Terminal
     /\ Announces(q)' = tstate'
     /\ UNCHANGED <<finals, lastEvent>>
  \/ /\ Announces(q) \in Terminal /\ Announces(q)' \notin Terminal
     /\ lastEvent' = Announces(q)
     /\ finals' = finals + 1

\* Going anywhere but to a publication announces nothing.
LEMMA GotoQuiet ==
  ASSUME TypeInv, NEW q \in Procs, NEW l, Goto(q, l), l \notin PublishAwaits
  PROVE  Announces(q)' \notin Terminal
  <1>1. pc'[q] = l
    BY DEF TypeInv, TypeOK, PcTypeOK, Goto
  <1> QED BY <1>1 DEF Announces, PublishAwaits, Terminal, None

\* The terminal write of a process on its way to the announcement.
LEMMA TerminalWrite ==
  ASSUME TypeInv, NEW q \in Procs, NEW st \in Terminal, NEW v, NEW sm, NEW as,
         PinnedUpdate(v, st, sm, <<>>, as), UNCHANGED busVars, Announces(q)' = st
  PROVE  FinalStep(q)
  BY DEF PinnedUpdate, TerminalGuard, ApplyUpdate, FinalStep, busVars, Terminal, None

\* A step that announces nothing and leaves the bus alone, or publishes a
\* state that is not terminal.
LEMMA QuietStep ==
  ASSUME NEW q \in Procs, Announces(q)' \notin Terminal,
         UNCHANGED busVars \/ UNCHANGED <<lastEvent, finals>>
         \/ \E st \in TaskStates \ Terminal : PublishStatus(st)
  PROVE  FinalStep(q)
  BY DEF FinalStep, busVars, PublishStatus

LEMMA GotoAnnounces ==
  ASSUME TypeInv, NEW q \in Procs
  PROVE  /\ Goto(q, "c_publish") => Announces(q)' = "canceled"
         /\ Goto(q, "m_publish") \/ Goto(q, "fail_publish") => Announces(q)' = "failed"
         /\ Goto(q, "end_publish") /\ kind' = kind => Announces(q)' = CallState[kind[q]]
  BY DEF TypeInv, TypeOK, PcTypeOK, Goto, Announces

LEMMA SubmitFinal ==
  ASSUME FinalInv, NEW r \in Requests, Submit(r) PROVE FinalStep(r)
  <1>0. TypeInv /\ r \in Procs
    BY DEF FinalInv, Procs
  <1>1. Announces(r)' \notin Terminal
    BY <1>0, GotoQuiet DEF Submit, SubmitStep, CreateTask, WriteTenant, GetVersion,
       LoadAndValidate, AppendMessage, ReloadAfterConflict, AnnounceSubmitted, PublishAwaits
  <1>2. UNCHANGED busVars \/ PublishStatus("submitted")
    BY DEF Submit, SubmitStep, CreateTask, WriteTenant, GetVersion,
       LoadAndValidate, AppendMessage, ReloadAfterConflict, AnnounceSubmitted
  <1> QED BY <1>0, <1>1, <1>2, QuietStep DEF TaskStates, Terminal

LEMMA DispatchFinal ==
  ASSUME FinalInv, NEW r \in Requests, Dispatch(r) \/ TimeOut(r) PROVE FinalStep(r)
  <1>0. TypeInv /\ r \in Procs /\ pc \in [Procs -> Awaits] /\ finals \in Nat
    BY DEF FinalInv, Procs, TypeInv, TypeOK, PcTypeOK, BusTypeOK
  <1>1. CASE TimeOut(r)
    BY <1>1 DEF TimeOut, BlockingTimeout, Unsubscribe, FinalStep, Announces, workerVars, contextVars
  <1>2. CASE EnqueueFailedWrite(r)
    <2>1. CASE Goto(r, "done")
      BY <1>0, <1>2, <2>1, GotoQuiet, QuietStep DEF EnqueueFailedWrite, PublishAwaits
    <2>2. CASE PinnedUpdate(ver[r], "failed", "failed", <<>>, {}) /\ Goto(r, "fail_publish")
      BY <1>0, <1>2, <2>2, GotoAnnounces, TerminalWrite DEF EnqueueFailedWrite, Terminal
    <2> QED BY <1>2, <2>1, <2>2 DEF EnqueueFailedWrite
  <1>3. CASE EnqueueFailedPublish(r)
    <2>1. Announces(r) = "failed" /\ tstate = "failed"
      BY <1>0, <1>3 DEF EnqueueFailedPublish, FinalInv, AnnouncerOwns, Announces, Terminal
    <2>2. Announces(r)' \notin Terminal
      BY <1>0, <1>3, GotoQuiet DEF EnqueueFailedPublish, PublishAwaits
    <2> QED BY <1>3, <2>1, <2>2 DEF EnqueueFailedPublish, PublishMarker, FinalStep, Terminal
  <1>4. CASE /\ Dispatch(r)
             /\ SubscribeFirst(r) \/ Enqueue(r) \/ EnqueueFailedVersion(r)
                \/ EnqueueFailedLoad(r) \/ AnswerDuplicate(r) \/ SnapshotLoad(r)
    <2>1. UNCHANGED busVars \/ UNCHANGED <<lastEvent, finals>>
      BY <1>4 DEF SubscribeFirst, Enqueue, EnqueueFailedVersion, EnqueueFailedLoad,
         AnswerDuplicate, SnapshotLoad, Subscribe, Unsubscribe
    <2>2. Announces(r)' \notin Terminal \/ UNCHANGED pc
      BY <1>0, <1>4, GotoQuiet DEF SubscribeFirst, Enqueue, EnqueueFailedVersion,
         EnqueueFailedLoad, AnswerDuplicate, SnapshotLoad, PublishAwaits
    <2> QED BY <1>0, <1>4, <2>1, <2>2, QuietStep
            DEF Dispatch, FinalStep, Announces, workerVars, contextVars, busVars
  <1> QED BY <1>1, <1>2, <1>3, <1>4 DEF Dispatch, DispatchStep

LEMMA ListenerFinal ==
  ASSUME FinalInv, NEW l \in Watchers, Watch(l) PROVE FinalStep(l)
  <1>0. TypeInv /\ l \in Procs
    BY DEF FinalInv, Procs
  <1>1. Announces(l)' \notin Terminal
    BY <1>0, GotoQuiet DEF Watch, Resubscribe, SnapshotLoad, PublishAwaits
  <1>2. UNCHANGED busVars \/ UNCHANGED <<lastEvent, finals>>
    BY DEF Watch, Resubscribe, SnapshotLoad, Subscribe, Unsubscribe
  <1> QED BY <1>0, <1>1, <1>2, QuietStep

LEMMA CancelHelperFinal ==
  ASSUME FinalInv, NEW p \in Cancels \cup Runs, CancelInStorage(p) PROVE FinalStep(p)
  <1>0. TypeInv /\ p \in Procs /\ pc \in [Procs -> Awaits] /\ finals \in Nat
    BY DEF FinalInv, Procs, TypeInv, TypeOK, PcTypeOK, BusTypeOK
  <1>1. CASE CancelWrite(p) \/ CancelRetry(p)
    <2>1. CASE /\ PinnedUpdate(ver[p], "canceled", "canceled", <<>>, pending[p])
               /\ Goto(p, "c_publish")
      BY <1>0, <1>1, <2>1, GotoAnnounces, TerminalWrite DEF CancelWrite, CancelRetry, Terminal
    <2>2. CASE \E l \in {"c_version2", "c_artifacts", "fin_load", "force_bus"} : Goto(p, l)
      BY <1>0, <1>1, <2>2, GotoQuiet, QuietStep DEF CancelWrite, CancelRetry, PublishAwaits
    <2> QED BY <1>1, <2>1, <2>2 DEF CancelWrite, CancelRetry, ArtifactsOr, AfterCancel
  <1>2. CASE CancelPublish(p)
    <2>1. Announces(p) = "canceled"
      BY <1>2 DEF CancelPublish, Announces
    <2>2. Announces(p)' \notin Terminal
      BY <1>0, <1>2, GotoQuiet DEF CancelPublish, AfterCancel, PublishAwaits
    <2> QED BY <1>2, <2>1, <2>2 DEF CancelPublish, PublishMarker, FinalStep, Terminal
  <1>3. CASE CancelGetVersion(p) \/ CancelLoad(p) \/ CancelReload(p) \/ WriteArtifactsOnly(p)
    <2>1. Announces(p)' \notin Terminal
      BY <1>0, <1>3, GotoQuiet DEF CancelGetVersion, CancelLoad, CancelReload,
         WriteArtifactsOnly, ArtifactsOr, AfterCancel, PublishAwaits
    <2> QED BY <1>0, <1>3, <2>1, QuietStep DEF CancelGetVersion, CancelLoad, CancelReload,
            WriteArtifactsOnly
  <1> QED BY <1>1, <1>2, <1>3 DEF CancelInStorage

LEMMA CancelCallFinal ==
  ASSUME FinalInv, NEW c \in Cancels, CallCancel(c) \/ ForceCancel(c) PROVE FinalStep(c)
  <1>0. TypeInv /\ c \in Procs
    BY DEF FinalInv, Procs
  <1>1. CASE ForceCancelInStorage(c)
    BY <1>1, CancelHelperFinal DEF ForceCancelInStorage
  <1>2. CASE CancelCallStep(c) \/ ForceCancelLoad(c) \/ ForceCancelCleanBus(c)
             \/ ForceCancelCleanKey(c)
    <2>1. Announces(c)' \notin Terminal
      BY <1>0, <1>2, GotoQuiet DEF CancelCallStep, CancelTaskLoad, CancelTaskCheck,
         CancelTaskRequest, ForceCancelLoad, ForceCancelCleanBus, ForceCancelCleanKey,
         PublishAwaits
    <2> QED BY <1>0, <1>2, <2>1, QuietStep DEF CancelCallStep, CancelTaskLoad,
            CancelTaskCheck, CancelTaskRequest, ForceCancelLoad, ForceCancelCleanBus,
            ForceCancelCleanKey, CleanupBus
  <1> QED BY <1>1, <1>2 DEF CallCancel, ForceCancel, ForceCancelStep

LEMMA CallFaultFinal ==
  ASSUME FinalInv, NEW p \in Requests \cup Cancels, CallFault(p) PROVE FinalStep(p)
  <1>0. TypeInv /\ p \in Procs
    BY DEF FinalInv, Procs
  <1> QED BY <1>0, GotoQuiet, QuietStep DEF CallFault, CallRaises, PublishAwaits

LEMMA ContextFinal ==
  ASSUME FinalInv, NEW w \in Runs, RunContext(w) PROVE FinalStep(w)
  <1> DEFINE Write == PinnedUpdate(ver[w], WriteState(kind[w]), WriteMessage(kind[w]),
                                   <<>>, pending[w])
  <1>0. TypeInv /\ w \in Procs /\ kind[w] \in WriteKinds /\ finals \in Nat
    BY DEF FinalInv, Procs, TypeInv, TypeOK, ContextTypeOK, BusTypeOK
  <1>a. Terminal \cap Paused = {}
    BY DEF Terminal, Paused
  <1>b. ASSUME TerminalError(w) PROVE Announces(w)' \notin Terminal
    BY <1>0, <1>b, GotoQuiet DEF TerminalError, ArtifactsOr, PublishAwaits
  <1>1. ASSUME Write, WriteSucceeded(w), UNCHANGED <<busVars, kind>> PROVE FinalStep(w)
    <2>1. CASE kind[w] \in LifecycleCalls
      <3>1. Announces(w)' = CallState[kind[w]]
        BY <1>0, <1>1, <2>1, GotoAnnounces DEF WriteSucceeded, LifecycleCalls
      <3>2. WriteState(kind[w]) = CallState[kind[w]] /\ CallState[kind[w]] \in Terminal \cup Paused
        BY <1>0, <2>1, WriteArguments DEF WriteState
      <3>3. CASE CallState[kind[w]] \in Terminal
        BY <1>0, <1>1, <3>1, <3>2, <3>3, TerminalWrite
      <3>4. CASE CallState[kind[w]] \in Paused
        BY <1>0, <1>1, <1>a, <3>1, <3>4, QuietStep
      <3> QED BY <3>2, <3>3, <3>4
    <2>2. CASE kind[w] \notin LifecycleCalls
      <3>1. \E l \in {"handle", "p_publish"} : Goto(w, l)
        BY <1>0, <1>1, <2>2 DEF WriteSucceeded, WriteKinds
      <3> QED BY <1>0, <1>1, <3>1, GotoQuiet, QuietStep DEF PublishAwaits
    <2> QED BY <2>1, <2>2
  <1> HIDE DEF Write
  <1>2. CASE VersionedWrite(w)
    <2>1. CASE Write /\ WriteSucceeded(w)
      BY <1>1, <1>2, <2>1 DEF VersionedWrite
    <2>2. CASE Goto(w, "u_load") \/ TerminalError(w)
      BY <1>0, <1>b, <1>2, <2>2, GotoQuiet, QuietStep DEF VersionedWrite, PublishAwaits
    <2> QED BY <1>2, <2>1, <2>2 DEF VersionedWrite, Write
  <1>3. CASE RetryWrite(w)
    <2>1. CASE Write /\ WriteSucceeded(w)
      BY <1>1, <1>3, <2>1 DEF RetryWrite
    <2>2. CASE TerminalError(w) \/ \E l \in {"u_refresh", "handle", "m_version"} : Goto(w, l)
      BY <1>0, <1>b, <1>3, <2>2, GotoQuiet, QuietStep DEF RetryWrite, PublishAwaits
    <2> QED BY <1>3, <2>1, <2>2 DEF RetryWrite, Write
  <1>4. CASE ReloadOnConflict(w) \/ FreshVersion(w) \/ RefreshVersion(w)
    <2>1. Announces(w)' \notin Terminal
      BY <1>0, <1>b, <1>4, GotoQuiet DEF ReloadOnConflict, FreshVersion, RefreshVersion,
         PublishAwaits
    <2> QED BY <1>0, <1>4, <2>1, QuietStep DEF ReloadOnConflict, FreshVersion, RefreshVersion
  <1>5. CASE PublishProgress(w)
    BY <1>0, <1>5, GotoQuiet, QuietStep DEF PublishProgress, PublishAwaits, TaskStates, Terminal
  <1>6. CASE PublishEnd(w)
    <2>1. Announces(w) = CallState[kind[w]] /\ Announces(w) \in Terminal \cup Paused
      BY <1>0, <1>6, WriteArguments DEF PublishEnd, Announces, TypeInv, EndKindOK
    <2>2. Announces(w)' \notin Terminal
      BY <1>0, <1>6, GotoQuiet DEF PublishEnd, PublishAwaits
    <2> QED BY <1>6, <1>a, <2>1, <2>2 DEF PublishEnd, PublishMarker, FinalStep
  <1> QED BY <1>2, <1>3, <1>4, <1>5, <1>6 DEF RunContext, ContextStep

LEMMA MarkFailedFinal ==
  ASSUME FinalInv, NEW w \in Runs, MarkFailed(w) PROVE FinalStep(w)
  <1>0. TypeInv /\ w \in Procs /\ finals \in Nat
    BY DEF FinalInv, Procs, TypeInv, TypeOK, BusTypeOK
  <1>1. CASE FailWrite(w) \/ FailRetry(w)
    <2>1. CASE /\ PinnedUpdate(ver[w], "failed", "failed", <<>>, pending[w])
               /\ Goto(w, "m_publish")
      BY <1>0, <1>1, <2>1, GotoAnnounces, TerminalWrite DEF FailWrite, FailRetry, Terminal
    <2>2. CASE \E l \in {"m_version2", "c_artifacts", "fin_load", "ack"} : Goto(w, l)
      BY <1>0, <1>1, <2>2, GotoQuiet, QuietStep DEF FailWrite, FailRetry, PublishAwaits
    <2> QED BY <1>1, <2>1, <2>2 DEF FailWrite, FailRetry, ArtifactsOr, AfterMark
  <1>2. CASE FailPublish(w)
    <2>1. Announces(w) = "failed"
      BY <1>2 DEF FailPublish, Announces
    <2>2. Announces(w)' \notin Terminal
      BY <1>0, <1>2, GotoQuiet DEF FailPublish, AfterMark, PublishAwaits
    <2> QED BY <1>2, <2>1, <2>2 DEF FailPublish, PublishMarker, FinalStep, Terminal
  <1>3. CASE FailGetVersion(w) \/ FailReload(w)
    <2>1. Announces(w)' \notin Terminal
      BY <1>0, <1>3, GotoQuiet DEF FailGetVersion, FailReload, ArtifactsOr, AfterMark,
         PublishAwaits
    <2> QED BY <1>0, <1>3, <2>1, QuietStep DEF FailGetVersion, FailReload
  <1> QED BY <1>1, <1>2, <1>3 DEF MarkFailed

LEMMA RunFinal ==
  ASSUME FinalInv, NEW w \in Runs, Work(w) PROVE FinalStep(w)
  <1>0. TypeInv /\ w \in Procs
    BY DEF FinalInv, Procs
  <1>1. CASE RunContext(w) \/ CancelRun(w) \/ MarkFailed(w)
    BY <1>1, ContextFinal, CancelHelperFinal, MarkFailedFinal DEF CancelRun
  <1>2. CASE AnnounceWorking(w)
    BY <1>0, <1>2, GotoQuiet, QuietStep DEF AnnounceWorking, PublishAwaits, TaskStates, Terminal
  <1>3. CASE TakeOperation(w) \/ CheckCancelled(w) \/ CancelBeforeRun(w) \/ SetWorking(w)
             \/ FinallyLoad(w) \/ FinallyCleanBus(w) \/ FinallyCleanKey(w)
             \/ Settle(w) \/ AckAfterMark(w)
    <2>1. Announces(w)' \notin Terminal
      BY <1>0, <1>3, GotoQuiet DEF TakeOperation, CheckCancelled, CancelBeforeRun, SetWorking,
         FinallyLoad, FinallyCleanBus, FinallyCleanKey, Settle, AckAfterMark, Forget,
         PublishAwaits
    <2>2. UNCHANGED busVars \/ UNCHANGED <<lastEvent, finals>>
      BY <1>3 DEF TakeOperation, CheckCancelled, CancelBeforeRun, SetWorking, FinallyLoad,
         FinallyCleanBus, CleanupBus, FinallyCleanKey, Settle, AckAfterMark
    <2> QED BY <1>0, <2>1, <2>2, QuietStep
  <1> QED BY <1>1, <1>2, <1>3 DEF Work, RunStep

LEMMA UserFinal ==
  ASSUME FinalInv, NEW w \in Runs, UserCode(w) \/ Interrupt(w) \/ RunFault(w)
  PROVE  FinalStep(w)
  <1>0. TypeInv /\ w \in Procs /\ pc[w] \in RunAwaits
    BY DEF FinalInv, Procs, TypeInv, TypeOK, PcTypeOK
  <1>1. UNCHANGED busVars
    BY DEF UserCode, UserStep, HandlerCalls, HandlerCall, EmitArtifact, SendStatus,
       CallLifecycle, HandlerReturns, HandlerRaises, Interrupt, CancelDelivered, RunFault,
       StorageRaises, WorkerCrashes
  <1>2. \/ \E l \in Awaits \ PublishAwaits : Goto(w, l)
        \/ UNCHANGED pc /\ pc[w] \in {"handle", "settle"}
    <2>1. {"handle", "u_write", "fin_load", "c_version", "m_version", "ack", "fin_bus", "idle"}
          \subseteq Awaits \ PublishAwaits
      BY DEF Awaits, RunAwaits, InVersioned, InCancel, InMarkFailed, PublishAwaits
    <2>2. CASE UserCode(w) \/ Interrupt(w)
      BY <2>1, <2>2 DEF UserCode, UserStep, HandlerCalls, HandlerCall, EmitArtifact, SendStatus,
         CallLifecycle, StartWrite, HandlerReturns, HandlerRaises, Interrupt, CancelDelivered
    <2>3. CASE RunFault(w)
      BY <2>1, <2>3 DEF RunFault, StorageRaises, Land, Escapes, WorkerCrashes, Forget
    <2> QED BY <2>2, <2>3
  <1>3. Announces(w)' \notin Terminal
    <2>1. CASE UNCHANGED pc /\ pc[w] \in {"handle", "settle"}
      BY <2>1 DEF Announces, Terminal, None
    <2> QED BY <1>0, <1>2, <2>1, GotoQuiet
  <1> QED BY <1>0, <1>1, <1>3, QuietStep

\* Every step of the system is one of the three kinds, by one process.
LEMMA FinalSteps ==
  ASSUME FinalInv, Next PROVE \E q \in Procs : Moves(q) /\ FinalStep(q)
  <1>1. Requests \subseteq Procs /\ Watchers \subseteq Procs /\ Cancels \subseteq Procs
        /\ Runs \subseteq Procs
    BY DEF Procs
  <1> QED BY <1>1, StepMoves, SubmitFinal, DispatchFinal, ListenerFinal, CancelCallFinal,
          CallFaultFinal, RunFinal, UserFinal DEF Next

LEMMA FinalNext ==
  ASSUME FinalInv, Next PROVE FinalInv'
  <1>0. TypeInv /\ TypeInv' /\ finals \in Nat
    BY TypeInvInductive DEF FinalInv, TypeInv, TypeOK, BusTypeOK
  <1>1. PICK q \in Procs : Moves(q) /\ FinalStep(q)
    BY FinalSteps
  <1>2. \A p \in Procs : p # q => Announces(p)' = Announces(p)
    <2> SUFFICES ASSUME NEW p \in Procs, p # q PROVE Announces(p)' = Announces(p)
      OBVIOUS
    <2>1. pc'[p] = pc[p] /\ (p \in Runs => kind'[p] = kind[p])
      BY <1>0, <1>1, OthersStay
    <2>2. pc[p] = "end_publish" => p \in Runs
      BY <1>0 DEF TypeInv, TypeOK, PcTypeOK, Procs, RequestAwaits, CancelAwaits, InCancel
    <2> QED BY <2>1, <2>2 DEF Announces
  <1>3. tstate \in Terminal => tstate' = tstate
    BY <1>0, TerminalStays
  <1>4. CASE /\ finals' = finals
             /\ lastEvent' = lastEvent \/ lastEvent' \notin Terminal
             /\ Announces(q)' \in Terminal => Announces(q)' = Announces(q)
    BY <1>0, <1>2, <1>3, <1>4 DEF FinalInv, AnnouncerOwns, OneAnnouncer, FinalEventOnce
  <1>5. CASE /\ tstate \notin Terminal /\ tstate' \in Terminal
             /\ Announces(q)' = tstate'
             /\ UNCHANGED <<finals, lastEvent>>
    <2>1. \A p \in Procs : Announces(p) \notin Terminal
      BY <1>5 DEF FinalInv, AnnouncerOwns
    <2>2. finals = 0
      BY <1>0, <1>5 DEF FinalInv, FinalEventOnce
    <2> QED BY <1>0, <1>2, <1>5, <2>1, <2>2
            DEF FinalInv, AnnouncerOwns, OneAnnouncer, FinalEventOnce
  <1>6. CASE /\ Announces(q) \in Terminal /\ Announces(q)' \notin Terminal
             /\ lastEvent' = Announces(q)
             /\ finals' = finals + 1
    <2>1. Announces(q) = tstate /\ finals = 0
      BY <1>6 DEF FinalInv, AnnouncerOwns
    <2>2. \A p \in Procs : Announces(p)' \notin Terminal
      BY <1>2, <1>6 DEF FinalInv, OneAnnouncer
    <2> QED BY <1>0, <1>3, <1>6, <2>1, <2>2
            DEF FinalInv, AnnouncerOwns, OneAnnouncer, FinalEventOnce
  <1> QED BY <1>1, <1>4, <1>5, <1>6 DEF FinalStep

\* The final event is published at most once, after the terminal write, and
\* names the stored state, for any number of runs, timers and failure
\* handlers: whoever performed the terminal write is the only announcer.
THEOREM FinalAnnouncedOnce == Spec => []FinalEventOnce
  <1>1. Init => FinalInv
    <2> SUFFICES ASSUME Init PROVE FinalInv
      OBVIOUS
    <2>1. \A p \in Procs : pc[p] \in {"create", "get_version", "watch", "cancel_load", "idle"}
      BY RequestAssumption DEF Init, FirstStep, Procs
    <2>2. \A p \in Procs : Announces(p) \notin Terminal
      BY <2>1 DEF Announces, Terminal, None
    <2> QED BY <2>2, TypeInvInductive DEF FinalInv, AnnouncerOwns, OneAnnouncer, FinalEventOnce,
            Init, BusInit, Terminal
  <1>2. ASSUME FinalInv, UNCHANGED vars PROVE FinalInv'
    <2>1. TypeInv'
      BY <1>2, TypeInvInductive DEF FinalInv
    <2>2. UNCHANGED <<pc, kind, finals, lastEvent, tstate>>
      BY <1>2 DEF vars, storeVars, busVars, workerVars, contextVars
    <2> QED BY <1>2, <2>1, <2>2 DEF FinalInv, AnnouncerOwns, OneAnnouncer, FinalEventOnce,
            Announces
  <1>3. FinalInv => FinalEventOnce
    BY DEF FinalInv
  <1> QED BY <1>1, <1>2, <1>3, FinalNext, PTL DEF Spec

-----------------------------------------------------------------------------
(* The failed mark.  _enqueue_or_fail captures the version, loads, and     *)
(* marks with the captured version, like a follow-up.                      *)

\* Where a request is once its message is in the row.
Recorded == {"tenant", "announce", "subscribe", "enqueue", "fail_version", "fail_load", "fail_write"}
Marking == {"fail_load", "fail_write"}

\* The row of a recorded message exists, and a handler that marks it has not
\* captured a version ahead of the row.
RecordedIsThere ==
  \A r \in Requests : /\ pc[r] \in Recorded => tstate # "absent"
                      /\ pc[r] \in Marking => ver[r] <= version

\* While the captured version is the current one, nobody has taken the task up.
MarkReady ==
  \A r \in Requests : pc[r] = "fail_write" /\ ver[r] = version => tstate = "submitted"

MarkInv == HistoryInv /\ RecordedIsThere /\ MarkReady

\* How a request comes to one of these awaits.
LEMMA MarkSteps ==
  ASSUME TypeInv, Next, NEW r \in Requests, pc'[r] \in Recorded
  PROVE  \/ pc'[r] = pc[r] /\ ver'[r] = ver[r]
         \/ pc[r] = "create" /\ pc'[r] \notin Marking /\ InsertTask(MsgOf[r])
         \/ pc[r] = "append" /\ pc'[r] \notin Marking
         \/ /\ pc[r] \in Recorded /\ pc'[r] \notin Marking
         \/ UNCHANGED storeVars /\ pc[r] = "fail_version" /\ pc'[r] = "fail_load" /\ ver'[r] = version
         \/ /\ UNCHANGED storeVars /\ pc[r] = "fail_load" /\ ver'[r] = ver[r]
            /\ pc'[r] = "fail_write" /\ tstate = "submitted"
  <1> DEFINE Goal ==
         \/ pc'[r] = pc[r] /\ ver'[r] = ver[r]
         \/ pc[r] = "create" /\ pc'[r] \notin Marking /\ InsertTask(MsgOf[r])
         \/ pc[r] = "append" /\ pc'[r] \notin Marking
         \/ /\ pc[r] \in Recorded /\ pc'[r] \notin Marking
         \/ UNCHANGED storeVars /\ pc[r] = "fail_version" /\ pc'[r] = "fail_load" /\ ver'[r] = version
         \/ /\ UNCHANGED storeVars /\ pc[r] = "fail_load" /\ ver'[r] = ver[r]
            /\ pc'[r] = "fail_write" /\ tstate = "submitted"
  <1>0. r \in Procs /\ pc \in [Procs -> Awaits] /\ ver \in [Procs -> Nat]
    BY DEF Procs, TypeInv, TypeOK, PcTypeOK, LocalTypeOK
  <1>1. CASE Submit(r)
    BY <1>0, <1>1 DEF Submit, SubmitStep, CreateTask, WriteTenant, GetVersion,
       LoadAndValidate, AppendMessage, ReloadAfterConflict, AnnounceSubmitted, Goto, Recorded, Marking
  <1>2. CASE Dispatch(r)
    BY <1>0, <1>2 DEF Dispatch, DispatchStep, SubscribeFirst, Enqueue,
       EnqueueFailedVersion, EnqueueFailedLoad, EnqueueFailedWrite, EnqueueFailedPublish,
       AnswerDuplicate, SnapshotLoad, Goto, Recorded, Marking
  <1>3. CASE TimeOut(r)
    BY <1>3 DEF TimeOut, BlockingTimeout
  <1>4. CASE CallFault(r)
    BY <1>0, <1>4 DEF CallFault, CallRaises, Goto, Recorded
  <1>5. ASSUME NEW q \in Procs, q # r PROVE Moves(q) => Goal
    BY <1>0, <1>5, OthersStay
  <1>6. \A q \in Watchers \cup Cancels \cup Runs : q \in Procs /\ q # r
    BY ProcsAssumption DEF Procs
  <1>7. \A q \in Requests : q \in Procs
    BY DEF Procs
  <1> HIDE DEF Goal
  <1> QED BY <1>1, <1>2, <1>3, <1>4, <1>5, <1>6, <1>7, StepMoves DEF Next, Goal

LEMMA MarkNext == ASSUME MarkInv, Next PROVE MarkInv'
  <1>0. /\ TypeInv /\ HistoryInv /\ HistoryInv' /\ version \in Nat
        /\ ver \in [Procs -> Nat] /\ ver' \in [Procs -> Nat] /\ Requests \subseteq Procs
    BY HistoryNext DEF MarkInv, HistoryInv, TypeInv, TypeOK, StoreTypeOK, LocalTypeOK, Procs
  <1>1. tstate # "absent" =>
          tstate' # "absent" /\ (UNCHANGED storeVars \/ version' = version + 1)
    BY <1>0, HistorySteps DEF storeVars
  <1>2. RecordedIsThere'
    <2> SUFFICES ASSUME NEW r \in Requests, pc'[r] \in Recorded
                 PROVE  tstate' # "absent" /\ (pc'[r] \in Marking => ver'[r] <= version')
      BY DEF RecordedIsThere, Recorded, Marking
    <2>0. ver[r] \in Nat /\ ver'[r] \in Nat
      BY <1>0
    <2>1. CASE pc[r] = "create" /\ pc'[r] \notin Marking /\ InsertTask(MsgOf[r])
      BY <2>1 DEF InsertTask
    <2>2. CASE pc[r] = "append" /\ pc'[r] \notin Marking
      <3>1. tstate # "absent"
        BY <1>0, <2>2 DEF HistoryInv, VersionsBehind
      <3> QED BY <1>1, <2>2, <3>1
    <2>3. CASE pc[r] \in Recorded /\ pc'[r] \notin Marking
      BY <1>1, <2>3 DEF MarkInv, RecordedIsThere
    <2>4. CASE pc'[r] = pc[r] /\ ver'[r] = ver[r]
      <3>1. tstate # "absent" /\ (pc[r] \in Marking => ver[r] <= version)
        BY <2>4 DEF MarkInv, RecordedIsThere
      <3> QED BY <1>0, <1>1, <2>0, <2>4, <3>1 DEF storeVars
    <2>5. CASE UNCHANGED storeVars /\ pc[r] = "fail_version" /\ ver'[r] = version
      BY <1>0, <2>5 DEF MarkInv, RecordedIsThere, Recorded, storeVars
    <2>6. CASE UNCHANGED storeVars /\ pc[r] = "fail_load" /\ ver'[r] = ver[r]
      BY <2>6 DEF MarkInv, RecordedIsThere, Recorded, Marking, storeVars
    <2> QED BY <1>0, <2>1, <2>2, <2>3, <2>4, <2>5, <2>6, MarkSteps
  <1>3. MarkReady'
    <2> SUFFICES ASSUME NEW r \in Requests, pc'[r] = "fail_write", ver'[r] = version'
                 PROVE  tstate' = "submitted"
      BY DEF MarkReady
    <2>0. pc'[r] \in Recorded /\ pc'[r] \in Marking /\ ver[r] \in Nat
      BY <1>0 DEF Recorded, Marking
    <2>1. CASE UNCHANGED storeVars /\ tstate = "submitted"
      BY <2>1 DEF storeVars
    <2>2. CASE pc'[r] = pc[r] /\ ver'[r] = ver[r]
      <3>1. tstate # "absent" /\ ver[r] <= version
        BY <2>0, <2>2 DEF MarkInv, RecordedIsThere
      <3>2. version' # version + 1
        BY <1>0, <2>0, <2>2, <3>1
      <3> QED BY <1>1, <2>2, <3>1, <3>2 DEF MarkInv, MarkReady, storeVars
    <2> QED BY <1>0, <2>0, <2>1, <2>2, MarkSteps
  <1> QED BY <1>0, <1>2, <1>3 DEF MarkInv

LEMMA MarkInductive == Spec => []MarkInv
  <1>1. ASSUME Init PROVE MarkInv
    <2>1. \A r \in Requests : pc[r] \notin Recorded \cup Marking
      BY <1>1, ProcsAssumption, RequestAssumption DEF Init, FirstStep, Procs, Recorded, Marking
    <2> QED BY <1>1, <2>1, HistoryInit DEF MarkInv, RecordedIsThere, MarkReady, Recorded
  <1>2. ASSUME MarkInv, UNCHANGED vars PROVE RecordedIsThere' /\ MarkReady'
    BY <1>2 DEF MarkInv, RecordedIsThere, MarkReady, vars, storeVars
  <1>3. ASSUME MarkInv, [Next]_vars PROVE HistoryInv' => MarkInv'
    BY <1>2, <1>3, MarkNext DEF MarkInv
  <1> QED BY <1>1, <1>3, HistoryInductive, PTL DEF Spec

\* A task is marked failed after a broker error only while it is still
\* submitted, also when the enqueue had taken effect and a worker, a cancel or a
\* retry acts between the load and the write of _enqueue_or_fail.
THEOREM FailedMarkSpares == Spec => FailedMarkSparesRun
  <1> DEFINE Act == \A r \in Requests :
                      pc[r] = "fail_write" /\ pc'[r] = "fail_publish" => tstate = "submitted"
  <1>1. ASSUME MarkInv, [Next]_vars PROVE [Act]_vars
    <2> SUFFICES ASSUME Next, NEW r \in Requests, pc[r] = "fail_write", pc'[r] = "fail_publish"
                 PROVE  tstate = "submitted"
      BY <1>1
    <2>0. /\ TypeInv /\ r \in Procs /\ pc \in [Procs -> Awaits]
      BY <1>1 DEF Procs, MarkInv, HistoryInv, TypeInv, TypeOK, PcTypeOK
    <2>1. CASE Dispatch(r)
      <3>1. ver[r] = version
        BY <2>0, <2>1 DEF Dispatch, DispatchStep, SubscribeFirst, Enqueue, EnqueueFailedVersion,
           EnqueueFailedLoad, EnqueueFailedWrite, EnqueueFailedPublish, AnswerDuplicate,
           SnapshotLoad, Goto, PinnedUpdate, VersionMismatch
      <3> QED BY <1>1, <3>1 DEF MarkInv, MarkReady
    <2>2. ~Submit(r)
      BY DEF Submit, SubmitStep, CreateTask, WriteTenant, GetVersion,
         LoadAndValidate, AppendMessage, ReloadAfterConflict, AnnounceSubmitted
    <2>3. ~TimeOut(r) /\ ~CallFault(r)
      BY <2>0 DEF TimeOut, BlockingTimeout, CallFault, CallRaises, Goto
    <2>4. ASSUME NEW q \in Procs, q # r PROVE ~Moves(q)
      BY <2>0, <2>4, OthersStay
    <2>5. \A q \in Watchers \cup Cancels \cup Runs : q \in Procs /\ q # r
      BY ProcsAssumption DEF Procs
    <2>6. \A q \in Requests : q \in Procs
      BY DEF Procs
    <2> QED BY <2>1, <2>2, <2>3, <2>4, <2>5, <2>6, StepMoves DEF Next
  <1> QED BY <1>1, MarkInductive, PTL DEF Spec, FailedMarkSparesRun
=============================================================================
