------------------------- MODULE A2ATaskTurnProofs -------------------------
(***************************************************************************)
(* Theorems of the composed system about a whole turn: the operations that *)
(* an accepted message causes, the artifacts that subscribers have seen,   *)
(* the question a paused task shows, and the task lifecycle that the       *)
(* handlers and workers implement together.                                *)
(***************************************************************************)
EXTENDS A2ATaskProofs, FiniteSetTheorems

-----------------------------------------------------------------------------
(* Before the task exists.                                                 *)

\* A task that has no row yet has no messages, artifacts or operations, and
\* nobody but its creators, and callers that failed, has done anything.
Untouched ==
  tstate = "absent" =>
    /\ history = <<>> /\ artifacts = {} /\ streamed = {}
    /\ \A a \in Attempts : queued[a] = 0
    /\ \A r \in Requests : pc[r] \in {"create", "get_version", "done"}
    /\ \A l \in Watchers : pc[l] = "watch"
    /\ \A c \in Cancels : pc[c] \in {"cancel_load", "done"}
    /\ \A w \in Runs : pc[w] = "idle"

\* The sets of processes are disjoint.
LEMMA KindsOfProcess ==
  /\ Requests \subseteq Procs /\ Watchers \subseteq Procs
  /\ Cancels \subseteq Procs /\ Runs \subseteq Procs
  /\ \A p \in Requests : p \notin Watchers /\ p \notin Cancels /\ p \notin Runs
  /\ \A p \in Watchers : p \notin Requests /\ p \notin Cancels /\ p \notin Runs
  /\ \A p \in Cancels : p \notin Requests /\ p \notin Watchers /\ p \notin Runs
  /\ \A p \in Runs : p \notin Requests /\ p \notin Watchers /\ p \notin Cancels
  BY ProcsAssumption DEF Procs

\* An existing row stays.
LEMMA RowStays == ASSUME TypeInv, Next, tstate # "absent" PROVE tstate' # "absent"
  BY HistorySteps DEF storeVars

LEMMA UntouchedNext == ASSUME TypeInv, Untouched, Next PROVE Untouched'
  <1> SUFFICES ASSUME tstate' = "absent" PROVE Untouched'
    BY DEF Untouched
  <1>0. tstate = "absent" /\ pc \in [Procs -> Awaits] /\ queued \in [Attempts -> Nat]
    BY RowStays DEF TypeInv, TypeOK, PcTypeOK, BrokerTypeOK
  <1>1. ASSUME NEW r \in Requests, Submit(r) \/ Dispatch(r) PROVE FALSE
    BY <1>0, <1>1 DEF Untouched, Submit, SubmitStep, CreateTask, WriteTenant, GetVersion,
       LoadAndValidate, AppendMessage, ReloadAfterConflict, AnnounceSubmitted, Dispatch,
       DispatchStep, SubscribeFirst, Enqueue, EnqueueFailedVersion, EnqueueFailedLoad,
       EnqueueFailedWrite, EnqueueFailedPublish, AnswerDuplicate, SnapshotLoad, InsertTask
  <1>2. ASSUME NEW r \in Requests, TimeOut(r) PROVE Untouched'
    BY <1>0, <1>2 DEF Untouched, TimeOut, BlockingTimeout, storeVars, workerVars, contextVars
  <1>3. ASSUME NEW l \in Watchers, Watch(l) PROVE FALSE
    BY <1>0, <1>3 DEF Untouched, Watch, Resubscribe, SnapshotLoad
  <1>4. ASSUME NEW c \in Cancels, CallCancel(c) \/ ForceCancel(c) PROVE FALSE
    BY <1>0, <1>4 DEF Untouched, CallCancel, CancelCallStep, CancelTaskLoad, CancelTaskCheck,
       CancelTaskRequest, ForceCancel, ForceCancelStep, ForceCancelLoad, ForceCancelInStorage,
       ForceCancelCleanBus, ForceCancelCleanKey, CancelInStorage, CancelGetVersion, CancelLoad,
       CancelWrite, CancelReload, CancelRetry, WriteArtifactsOnly, CancelPublish
  <1>5. ASSUME NEW p \in Requests \cup Cancels, CallFault(p) PROVE Untouched'
    <2>1. UNCHANGED <<history, artifacts, streamed, queued>> /\ pc' = [pc EXCEPT ![p] = "done"]
      BY <1>5 DEF CallFault, CallRaises, Goto, storeVars, workerVars, contextVars
    <2>2. \A q \in Procs : pc'[q] = IF q = p THEN "done" ELSE pc[q]
      BY <1>0, <2>1
    <2> QED BY <1>0, <1>5, <2>1, <2>2, KindsOfProcess DEF Untouched
  <1>6. ASSUME NEW w \in Runs, Work(w) PROVE FALSE
    <2>1. ~TakeOperation(w)
      BY <1>0 DEF Untouched, TakeOperation, Receive
    <2>2. ~RunContext(w) /\ ~CancelRun(w) /\ ~MarkFailed(w)
      BY <1>0 DEF Untouched, RunContext, ContextStep, VersionedWrite, ReloadOnConflict,
         FreshVersion, RetryWrite, RefreshVersion, PublishProgress, PublishEnd, CancelRun,
         CancelInStorage, CancelGetVersion, CancelLoad, CancelWrite, CancelReload,
         CancelRetry, WriteArtifactsOnly, CancelPublish, MarkFailed, FailGetVersion,
         FailWrite, FailReload, FailRetry, FailPublish
    <2> QED BY <1>0, <1>6, <2>1, <2>2 DEF Untouched, Work, RunStep, CheckCancelled,
          CancelBeforeRun, SetWorking, AnnounceWorking, FinallyLoad, FinallyCleanBus,
          FinallyCleanKey, Settle, AckAfterMark
  <1>7. ASSUME NEW w \in Runs, UserCode(w) \/ Interrupt(w) \/ RunFault(w) PROVE FALSE
    BY <1>0, <1>7 DEF Untouched, UserCode, UserStep, HandlerCalls, HandlerCall, EmitArtifact,
       SendStatus, CallLifecycle, HandlerReturns, HandlerRaises, Interrupt, CancelDelivered,
       Cancellable, RunFault, StorageRaises, Land, WorkerCrashes, BeforeTry, InCancel,
       InMarkFailed, InVersioned
  <1> QED BY <1>1, <1>2, <1>3, <1>4, <1>5, <1>6, <1>7 DEF Next

LEMMA UntouchedInductive == Spec => [](TypeInv /\ Untouched)
  <1>1. ASSUME Init PROVE Untouched
    <2>1. \A p \in Procs : pc[p] = FirstStep(p)
      BY <1>1 DEF Init
    <2> QED BY <1>1, <2>1, KindsOfProcess, RequestAssumption
            DEF Init, StoreInit, BrokerInit, ContextInit, Untouched, FirstStep
  <1>2. ASSUME TypeInv, Untouched, [Next]_vars PROVE Untouched'
    <2>1. CASE UNCHANGED vars
      BY <1>2, <2>1 DEF Untouched, vars, storeVars, workerVars, contextVars
    <2> QED BY <1>2, <2>1, UntouchedNext
  <1> QED BY <1>1, <1>2, TypeInvInductive, PTL DEF Spec

-----------------------------------------------------------------------------
(* The operations that accepted messages cause.  A message gives its       *)
(* request a place in Submitting, the broker turns that into one operation *)
(* in Enqueued, a run takes it into Busy and gives it back at most once.   *)

LEMMA EnqueuedTokens ==
  \A t : t \in Enqueued <=> \E a \in Attempts : \E n \in 1 .. queued[a] : t = <<a, n>>
  BY DEF Enqueued

\* An operation is added, or taken.
LEMMA TokenAdded ==
  ASSUME queued \in [Attempts -> Nat], NEW a \in Attempts,
         queued' = [queued EXCEPT ![a] = @ + 1]
  PROVE  Enqueued' = Enqueued \cup {<<a, queued[a] + 1>>}
  <1>0. \A t : t \in Enqueued' <=> \E b \in Attempts : \E n \in 1 .. queued'[b] : t = <<b, n>>
    BY DEF Enqueued
  <1>1. ASSUME NEW t, t \in Enqueued' PROVE t \in Enqueued \cup {<<a, queued[a] + 1>>}
    <2>1. PICK b \in Attempts : \E n \in 1 .. queued'[b] : t = <<b, n>>
      BY <1>0, <1>1
    <2>2. PICK n \in 1 .. queued'[b] : t = <<b, n>>
      BY <2>1
    <2>3. queued[b] \in Nat /\ queued'[b] = IF b = a THEN queued[a] + 1 ELSE queued[b]
      OBVIOUS
    <2>4. n \in 1 .. queued[b] \/ (b = a /\ n = queued[a] + 1)
      BY <2>2, <2>3
    <2> QED BY <2>2, <2>4, EnqueuedTokens
  <1>2. ASSUME NEW t, t \in Enqueued PROVE t \in Enqueued'
    <2>1. PICK b \in Attempts : \E n \in 1 .. queued[b] : t = <<b, n>>
      BY <1>2, EnqueuedTokens
    <2>2. PICK n \in 1 .. queued[b] : t = <<b, n>>
      BY <2>1
    <2>3. n \in 1 .. queued'[b]
      BY <2>2
    <2> QED BY <1>0, <2>2, <2>3
  <1>3. queued[a] + 1 \in 1 .. queued'[a]
    OBVIOUS
  <1>4. <<a, queued[a] + 1>> \in Enqueued'
    BY <1>0, <1>3
  <1> QED BY <1>1, <1>2, <1>4

LEMMA TokenTaken ==
  ASSUME queued \in [Attempts -> Nat], NEW a \in Attempts, queued[a] > 0,
         queued' = [queued EXCEPT ![a] = @ - 1]
  PROVE  /\ <<a, queued[a]>> \in Enqueued
         /\ Enqueued' = Enqueued \ {<<a, queued[a]>>}
  <1>0. \A t : t \in Enqueued' <=> \E b \in Attempts : \E n \in 1 .. queued'[b] : t = <<b, n>>
    BY DEF Enqueued
  <1>1. ASSUME NEW t, t \in Enqueued' PROVE t \in Enqueued /\ t # <<a, queued[a]>>
    <2>1. PICK b \in Attempts : \E n \in 1 .. queued'[b] : t = <<b, n>>
      BY <1>0, <1>1
    <2>2. PICK n \in 1 .. queued'[b] : t = <<b, n>>
      BY <2>1
    <2>3. n \in 1 .. queued[b] /\ ~(b = a /\ n = queued[a])
      BY <2>2
    <2> QED BY <2>2, <2>3, EnqueuedTokens
  <1>2. ASSUME NEW t, t \in Enqueued, t # <<a, queued[a]>> PROVE t \in Enqueued'
    <2>1. PICK b \in Attempts : \E n \in 1 .. queued[b] : t = <<b, n>>
      BY <1>2, EnqueuedTokens
    <2>2. PICK n \in 1 .. queued[b] : t = <<b, n>>
      BY <2>1
    <2>3. n \in 1 .. queued'[b]
      BY <1>2, <2>2
    <2> QED BY <1>0, <2>2, <2>3
  <1>3. queued[a] \in 1 .. queued[a]
    OBVIOUS
  <1>4. <<a, queued[a]>> \in Enqueued
    BY <1>3, EnqueuedTokens
  <1> QED BY <1>1, <1>2, <1>4

\* How a step changes the three sets: nothing is multiplied.
Uncounted == UNCHANGED <<Submitting, Enqueued, Busy>>
Accepted ==
  /\ \E r : Submitting' = Submitting \cup {r}
  /\ Len(history') = Len(history) + 1
  /\ UNCHANGED <<Enqueued, Busy>>
GivenUp == (\E r : Submitting' = Submitting \ {r}) /\ UNCHANGED <<Enqueued, Busy>>
Sent ==
  /\ \E r \in Submitting : Submitting' = Submitting \ {r}
  /\ \E t : Enqueued' = Enqueued \cup {t}
  /\ UNCHANGED Busy
Taken ==
  /\ \E t \in Enqueued : Enqueued' = Enqueued \ {t}
  /\ \E w : Busy' = Busy \cup {w}
  /\ UNCHANGED Submitting
Settled ==
  /\ \E w \in Busy : Busy' = Busy \ {w}
  /\ UNCHANGED Enqueued \/ \E t : Enqueued' = Enqueued \cup {t}
  /\ UNCHANGED Submitting

Counted == IsFiniteSet(Submitting) /\ IsFiniteSet(Enqueued) /\ IsFiniteSet(Busy)

LEMMA CountPreserved ==
  ASSUME Counted, OneOperationPerMessage, history \in Seq(Messages), history' \in Seq(Messages),
         Len(history') >= Len(history),
         Uncounted \/ Accepted \/ GivenUp \/ Sent \/ Taken \/ Settled
  PROVE  Counted' /\ OneOperationPerMessage'
  <1> DEFINE s == Cardinality(Submitting)
             e == Cardinality(Enqueued)
             b == Cardinality(Busy)
  <1>0. s \in Nat /\ e \in Nat /\ b \in Nat /\ Len(history) \in Nat /\ Len(history') \in Nat
        /\ s + e + b <= Len(history)
    BY FS_CardinalityType DEF Counted, OneOperationPerMessage
  <1>1. \A S, x : IsFiniteSet(S) =>
          /\ IsFiniteSet(S \cup {x}) /\ Cardinality(S \cup {x}) <= Cardinality(S) + 1
          /\ IsFiniteSet(S \ {x}) /\ Cardinality(S \ {x}) <= Cardinality(S)
          /\ x \in S => Cardinality(S \ {x}) = Cardinality(S) - 1
    <2> SUFFICES ASSUME NEW S, NEW x, IsFiniteSet(S)
                 PROVE  /\ IsFiniteSet(S \cup {x}) /\ Cardinality(S \cup {x}) <= Cardinality(S) + 1
                        /\ IsFiniteSet(S \ {x}) /\ Cardinality(S \ {x}) <= Cardinality(S)
                        /\ x \in S => Cardinality(S \ {x}) = Cardinality(S) - 1
      OBVIOUS
    <2>1. Cardinality(S) \in Nat
      BY FS_CardinalityType
    <2>2. /\ IsFiniteSet(S \cup {x})
          /\ Cardinality(S \cup {x}) = IF x \in S THEN Cardinality(S) ELSE Cardinality(S) + 1
      BY FS_AddElement
    <2>3. /\ IsFiniteSet(S \ {x})
          /\ Cardinality(S \ {x}) = IF x \in S THEN Cardinality(S) - 1 ELSE Cardinality(S)
      BY FS_RemoveElement
    <2> QED BY <2>1, <2>2, <2>3
  <1>2. IsFiniteSet(Submitting) /\ IsFiniteSet(Enqueued) /\ IsFiniteSet(Busy)
    BY DEF Counted
  <1> DEFINE Goal == /\ IsFiniteSet(Submitting') /\ IsFiniteSet(Enqueued') /\ IsFiniteSet(Busy')
                     /\ Cardinality(Submitting') + Cardinality(Enqueued') + Cardinality(Busy')
                        <= Len(history')
  <1>3. CASE Uncounted
    <2>1. Submitting' = Submitting /\ Enqueued' = Enqueued /\ Busy' = Busy
      BY <1>3 DEF Uncounted
    <2>2. Goal
      BY <1>0, <1>2, <2>1
    <2> QED BY <2>2 DEF Counted, OneOperationPerMessage
  <1>4. CASE Accepted
    <2>1. PICK r : Submitting' = Submitting \cup {r}
      BY <1>4 DEF Accepted
    <2>2. Len(history') = Len(history) + 1 /\ Enqueued' = Enqueued /\ Busy' = Busy
      BY <1>4 DEF Accepted
    <2>3. IsFiniteSet(Submitting') /\ Cardinality(Submitting') <= s + 1
          /\ Cardinality(Submitting') \in Nat
      BY <1>1, <1>2, <2>1, FS_CardinalityType
    <2>4. Goal
      BY <1>0, <1>2, <2>2, <2>3
    <2> QED BY <2>4 DEF Counted, OneOperationPerMessage
  <1>5. CASE GivenUp
    <2>1. PICK r : Submitting' = Submitting \ {r}
      BY <1>5 DEF GivenUp
    <2>2. Enqueued' = Enqueued /\ Busy' = Busy
      BY <1>5 DEF GivenUp
    <2>3. IsFiniteSet(Submitting') /\ Cardinality(Submitting') <= s
          /\ Cardinality(Submitting') \in Nat
      BY <1>1, <1>2, <2>1, FS_CardinalityType
    <2>4. Goal
      BY <1>0, <1>2, <2>2, <2>3
    <2> QED BY <2>4 DEF Counted, OneOperationPerMessage
  <1>6. CASE Sent
    <2>1. PICK r \in Submitting : Submitting' = Submitting \ {r}
      BY <1>6 DEF Sent
    <2>2. PICK t : Enqueued' = Enqueued \cup {t}
      BY <1>6 DEF Sent
    <2>3. IsFiniteSet(Submitting') /\ Cardinality(Submitting') = s - 1
      BY <1>1, <1>2, <2>1
    <2>4. IsFiniteSet(Enqueued') /\ Cardinality(Enqueued') <= e + 1
          /\ Cardinality(Enqueued') \in Nat
      BY <1>1, <1>2, <2>2, FS_CardinalityType
    <2>5. Busy' = Busy
      BY <1>6 DEF Sent
    <2>6. Goal
      BY <1>0, <1>2, <2>3, <2>4, <2>5
    <2> QED BY <2>6 DEF Counted, OneOperationPerMessage
  <1>7. CASE Taken
    <2>1. PICK t \in Enqueued : Enqueued' = Enqueued \ {t}
      BY <1>7 DEF Taken
    <2>2. PICK w : Busy' = Busy \cup {w}
      BY <1>7 DEF Taken
    <2>3. IsFiniteSet(Enqueued') /\ Cardinality(Enqueued') = e - 1
      BY <1>1, <1>2, <2>1
    <2>4. IsFiniteSet(Busy') /\ Cardinality(Busy') <= b + 1 /\ Cardinality(Busy') \in Nat
      BY <1>1, <1>2, <2>2, FS_CardinalityType
    <2>5. Submitting' = Submitting
      BY <1>7 DEF Taken
    <2>6. Goal
      BY <1>0, <1>2, <2>3, <2>4, <2>5
    <2> QED BY <2>6 DEF Counted, OneOperationPerMessage
  <1>8. CASE Settled
    <2>1. PICK w \in Busy : Busy' = Busy \ {w}
      BY <1>8 DEF Settled
    <2>2. IsFiniteSet(Busy') /\ Cardinality(Busy') = b - 1
      BY <1>1, <1>2, <2>1
    <2>3. IsFiniteSet(Enqueued') /\ Cardinality(Enqueued') <= e + 1
          /\ Cardinality(Enqueued') \in Nat
      <3>1. CASE UNCHANGED Enqueued
        <4>1. Enqueued' = Enqueued
          BY <3>1
        <4> QED BY <1>0, <1>2, <4>1
      <3>2. CASE \E t : Enqueued' = Enqueued \cup {t}
        BY <1>1, <1>2, <3>2, FS_CardinalityType
      <3> QED BY <1>8, <3>1, <3>2 DEF Settled
    <2>4. Submitting' = Submitting
      BY <1>8 DEF Settled
    <2>5. Goal
      BY <1>0, <1>2, <2>2, <2>3, <2>4
    <2> QED BY <2>5 DEF Counted, OneOperationPerMessage
  <1> QED BY <1>3, <1>4, <1>5, <1>6, <1>7, <1>8

\* The sets after one process has moved.
LEMMA SetsAfter ==
  ASSUME TypeInv, NEW q \in Procs, Moves(q)
  PROVE  /\ q \notin Requests => Submitting' = Submitting
         /\ q \in Requests /\ pc'[q] \in {"tenant", "announce", "subscribe", "enqueue"}
              => Submitting' = Submitting \cup {q}
         /\ pc'[q] \notin {"tenant", "announce", "subscribe", "enqueue"}
              => Submitting' = Submitting \ {q}
         /\ q \notin Runs => Busy' = Busy
         /\ q \in Runs /\ pc'[q] # "idle" => Busy' = Busy \cup {q}
         /\ pc'[q] = "idle" => Busy' = Busy \ {q}
         /\ queued' = queued => Enqueued' = Enqueued
  <1>1. \A p \in Procs : p # q => pc'[p] = pc[p]
    BY OthersStay
  <1>2. \A r \in Requests : r \in Submitting' <=> pc'[r] \in {"tenant", "announce", "subscribe", "enqueue"}
    BY DEF Submitting
  <1>3. \A r \in Requests : r \in Submitting <=> pc[r] \in {"tenant", "announce", "subscribe", "enqueue"}
    BY DEF Submitting
  <1>4. \A w \in Runs : (w \in Busy <=> pc[w] # "idle") /\ (w \in Busy' <=> pc'[w] # "idle")
    BY DEF Busy
  <1>5. Submitting \subseteq Requests /\ Submitting' \subseteq Requests
        /\ Busy \subseteq Runs /\ Busy' \subseteq Runs
    BY DEF Submitting, Busy
  <1>6. queued' = queued => Enqueued' = Enqueued
    BY DEF Enqueued
  <1> QED BY <1>1, <1>2, <1>3, <1>4, <1>5, <1>6, KindsOfProcess

\* What a step of a request means for the operations.
LEMMA RequestCounts ==
  ASSUME TypeInv, Untouched, NEW r \in Requests,
         Submit(r) \/ Dispatch(r) \/ TimeOut(r) \/ CallFault(r)
  PROVE  Uncounted \/ Accepted \/ GivenUp \/ Sent
  <1> DEFINE Sub == {"tenant", "announce", "subscribe", "enqueue"}
  <1>0. /\ r \in Procs /\ pc \in [Procs -> Awaits] /\ history \in Seq(Messages)
        /\ queued \in [Attempts -> Nat] /\ 1 \in Attempts /\ r \notin Runs
        /\ Moves(r) /\ Busy' = Busy
    BY StepMoves, SetsAfter, KindsOfProcess, MaxRetriesAssumption
       DEF TypeInv, TypeOK, PcTypeOK, StoreTypeOK, BrokerTypeOK, Attempts
  <1>1. r \in Submitting <=> pc[r] \in Sub
    BY DEF Submitting
  <1>2. CASE queued' = queued /\ (pc'[r] \in Sub => pc[r] \in Sub)
    <2>1. CASE pc'[r] \in Sub
      <3>1. Submitting' = Submitting \cup {r} /\ Enqueued' = Enqueued
        BY <1>0, <1>2, <2>1, SetsAfter
      <3>2. Submitting' = Submitting
        BY <1>1, <1>2, <2>1, <3>1
      <3> QED BY <1>0, <3>1, <3>2 DEF Uncounted
    <2>2. CASE pc'[r] \notin Sub
      BY <1>0, <1>2, <2>2, SetsAfter DEF GivenUp
    <2> QED BY <2>1, <2>2
  <1>3. CASE queued' = queued /\ pc'[r] \in Sub /\ Len(history') = Len(history) + 1
    BY <1>0, <1>3, SetsAfter DEF Accepted
  <1>4. CASE RunTask /\ pc[r] = "enqueue" /\ pc'[r] \notin Sub
    <2>1. Submitting' = Submitting \ {r} /\ r \in Submitting
      BY <1>0, <1>1, <1>4, SetsAfter
    <2>2. Enqueued' = Enqueued \cup {<<1, queued[1] + 1>>}
      BY <1>0, <1>4, TokenAdded DEF RunTask
    <2> QED BY <1>0, <2>1, <2>2 DEF Sent
  <1>5. CASE CreateTask(r) /\ tstate = "absent"
    <2>1. queued' = queued /\ pc'[r] \in Sub /\ history' = <<MsgOf[r]>>
      BY <1>0, <1>5 DEF CreateTask, InsertTask, Goto
    <2>2. Len(history') = Len(history) + 1
      BY <1>5, <2>1 DEF Untouched
    <2> QED BY <1>3, <2>1, <2>2
  <1>6. CASE FollowUp(r) /\ AppendMessage(r)
    <2>1. MsgOf[r] \in Messages
      BY RequestAssumption
    <2>2. queued' = queued /\ pc'[r] \in Sub /\ history' = history \o <<MsgOf[r]>>
      BY <1>0, <1>6 DEF AppendMessage, FollowUp, PinnedUpdate, ApplyUpdate, UpdateRefused, Goto
    <2>3. Len(history') = Len(history) + 1
      BY <1>0, <2>1, <2>2
    <2> QED BY <1>3, <2>2, <2>3
  <1>7. CASE Submit(r)
    <2>1. ASSUME CreateTask(r), tstate # "absent" PROVE queued' = queued /\ pc'[r] \notin Sub
      BY <1>0, <2>1 DEF CreateTask, Goto
    <2>2. ASSUME AppendMessage(r), ~FollowUp(r) PROVE queued' = queued /\ pc'[r] \notin Sub
      BY <1>0, <2>2 DEF AppendMessage, FollowUp, Goto
    <2>3. ASSUME ~CreateTask(r), ~AppendMessage(r)
          PROVE  queued' = queued /\ (pc'[r] \in Sub => pc[r] \in Sub)
      BY <1>0, <1>7, <2>3 DEF Submit, SubmitStep, WriteTenant, GetVersion, LoadAndValidate,
         ReloadAfterConflict, AnnounceSubmitted, Goto
    <2> QED BY <1>2, <1>5, <1>6, <2>1, <2>2, <2>3
  <1>8. CASE Dispatch(r)
    <2>1. \/ RunTask /\ pc[r] = "enqueue" /\ pc'[r] \notin Sub
          \/ queued' = queued /\ (pc'[r] \in Sub => pc[r] \in Sub)
      BY <1>0, <1>8 DEF Dispatch, DispatchStep, SubscribeFirst, Enqueue,
         EnqueueFailedVersion, EnqueueFailedLoad, EnqueueFailedWrite, EnqueueFailedPublish,
         AnswerDuplicate, SnapshotLoad, Goto
    <2> QED BY <1>2, <1>4, <2>1
  <1>9. CASE TimeOut(r) \/ CallFault(r)
    <2>1. queued' = queued /\ (pc'[r] \in Sub => pc[r] \in Sub)
      BY <1>0, <1>9 DEF TimeOut, BlockingTimeout, CallFault, CallRaises, Goto
    <2> QED BY <1>2, <2>1
  <1> QED BY <1>7, <1>8, <1>9

\* What a step of a run means for them.
LEMMA RunCounts ==
  ASSUME TypeInv, NEW w \in Runs, Work(w) \/ UserCode(w) \/ Interrupt(w) \/ RunFault(w)
  PROVE  Uncounted \/ Taken \/ Settled
  <1>0. /\ w \in Procs /\ pc \in [Procs -> Awaits] /\ queued \in [Attempts -> Nat]
        /\ attempt \in [Runs -> Attempts] /\ w \notin Requests
        /\ Moves(w) /\ Submitting' = Submitting
    BY StepMoves, SetsAfter, KindsOfProcess
       DEF TypeInv, TypeOK, PcTypeOK, BrokerTypeOK, AdapterTypeOK
  <1>1. w \in Busy <=> pc[w] # "idle"
    BY DEF Busy
  <1>2. CASE queued' = queued /\ pc[w] # "idle" /\ pc'[w] # "idle"
    <2>1. Busy' = Busy \cup {w} /\ Enqueued' = Enqueued
      BY <1>0, <1>2, SetsAfter
    <2>2. Busy' = Busy
      BY <1>1, <1>2, <2>1
    <2> QED BY <1>0, <2>1, <2>2 DEF Uncounted
  <1>3. CASE pc[w] # "idle" /\ pc'[w] = "idle" /\ queued' = queued
    <2>1. Busy' = Busy \ {w} /\ Enqueued' = Enqueued
      BY <1>0, <1>3, SetsAfter
    <2> QED BY <1>0, <1>1, <1>3, <2>1 DEF Settled
  <1>4. CASE pc[w] # "idle" /\ pc'[w] = "idle" /\ Nack(attempt[w]) /\ attempt[w] <= MaxRetries
    <2>1. attempt[w] + 1 \in Attempts
      BY <1>0, <1>4, MaxRetriesAssumption DEF Attempts
    <2>2. Enqueued' = Enqueued \cup {<<attempt[w] + 1, queued[attempt[w] + 1] + 1>>}
      BY <1>0, <1>4, <2>1, TokenAdded DEF Nack
    <2>3. Busy' = Busy \ {w}
      BY <1>0, <1>4, SetsAfter
    <2> QED BY <1>0, <1>1, <1>4, <2>2, <2>3 DEF Settled
  <1>5. CASE TakeOperation(w)
    <2>1. PICK a \in Attempts : Receive(a)
      BY <1>5 DEF TakeOperation
    <2>2. <<a, queued[a]>> \in Enqueued /\ Enqueued' = Enqueued \ {<<a, queued[a]>>}
      BY <1>0, <2>1, TokenTaken DEF Receive
    <2>3. pc'[w] # "idle"
      BY <1>0, <1>5 DEF TakeOperation, Goto
    <2>4. Busy' = Busy \cup {w}
      BY <1>0, <2>3, SetsAfter
    <2> QED BY <1>0, <2>2, <2>4 DEF Taken
  <1> DEFINE Stays == queued' = queued /\ pc[w] # "idle" /\ pc'[w] # "idle"
             Frees == pc[w] # "idle" /\ pc'[w] = "idle" /\ queued' = queued
             Returns == pc[w] # "idle" /\ pc'[w] = "idle" /\ Nack(attempt[w]) /\ attempt[w] <= MaxRetries
  <1>6. ASSUME RunContext(w) PROVE Stays
    BY <1>0, <1>6 DEF RunContext, ContextStep, VersionedWrite, WriteSucceeded, TerminalError,
       ArtifactsOr, ReloadOnConflict, FreshVersion, RetryWrite, RefreshVersion,
       PublishProgress, PublishEnd, Goto
  <1>7. ASSUME CancelRun(w) \/ MarkFailed(w) PROVE Stays
    BY <1>0, <1>7 DEF CancelRun, CancelInStorage, CancelGetVersion, CancelLoad, CancelWrite,
       CancelReload, CancelRetry, WriteArtifactsOnly, CancelPublish, MarkFailed,
       FailGetVersion, FailWrite, FailReload, FailRetry, FailPublish, AfterCancel, AfterMark,
       ArtifactsOr, Goto
  <1>8. ASSUME Settle(w) \/ AckAfterMark(w) PROVE Stays \/ Frees \/ Returns
    <2>1. attempt[w] < MaxRetries => attempt[w] <= MaxRetries
      BY <1>0, MaxRetriesAssumption DEF Attempts
    <2> QED BY <1>0, <1>8, <2>1 DEF Settle, AckAfterMark, Forget, Goto
  <1>9. ASSUME Work(w), ~TakeOperation(w), ~RunContext(w), ~CancelRun(w), ~MarkFailed(w),
               ~Settle(w), ~AckAfterMark(w)
        PROVE  Stays
    BY <1>0, <1>9 DEF Work, RunStep, CheckCancelled, CancelBeforeRun, SetWorking,
       AnnounceWorking, FinallyLoad, FinallyCleanBus, FinallyCleanKey, Goto
  <1>10. ASSUME UserCode(w) \/ Interrupt(w) PROVE Stays
    BY <1>0, <1>10 DEF UserCode, UserStep, HandlerCalls, HandlerCall, EmitArtifact, SendStatus,
       CallLifecycle, StartWrite, HandlerReturns, HandlerRaises, Interrupt, CancelDelivered,
       Cancellable, Goto
  <1>11. ASSUME RunFault(w) PROVE Stays \/ Returns
    BY <1>0, <1>11 DEF RunFault, StorageRaises, Land, Escapes, WorkerCrashes, Forget, Goto,
       BeforeTry, InCancel, InMarkFailed, InVersioned
  <1> HIDE DEF Stays, Frees, Returns
  <1>12. Stays \/ Frees \/ Returns \/ TakeOperation(w)
    BY <1>6, <1>7, <1>8, <1>9, <1>10, <1>11
  <1> QED BY <1>2, <1>3, <1>4, <1>5, <1>12 DEF Stays, Frees, Returns

\* Watchers and cancels cause no operation.
LEMMA OtherCounts ==
  ASSUME TypeInv, NEW p \in Watchers \cup Cancels,
         Watch(p) \/ CallCancel(p) \/ ForceCancel(p) \/ CallFault(p)
  PROVE  Uncounted
  <1>0. p \in Procs /\ p \notin Requests /\ p \notin Runs
    BY KindsOfProcess
  <1>1. queued' = queued
    BY DEF Watch, Resubscribe, SnapshotLoad, CallCancel, CancelCallStep, CancelTaskLoad,
       CancelTaskCheck, CancelTaskRequest, ForceCancel, ForceCancelStep, ForceCancelLoad,
       ForceCancelInStorage, ForceCancelCleanBus, ForceCancelCleanKey, CallFault, CallRaises
  <1>2. \E l : pc' = [pc EXCEPT ![p] = l]
    BY DEF Watch, Resubscribe, SnapshotLoad, CallCancel, CancelCallStep, CancelTaskLoad,
       CancelTaskCheck, CancelTaskRequest, ForceCancel, ForceCancelStep, ForceCancelLoad,
       ForceCancelInStorage, ForceCancelCleanBus, ForceCancelCleanKey, CallFault, CallRaises,
       CancelInStorage, CancelGetVersion, CancelLoad, CancelWrite, CancelReload, CancelRetry,
       WriteArtifactsOnly, CancelPublish, Goto
  <1>3. \A q \in Requests \cup Runs : pc'[q] = pc[q]
    BY <1>0, <1>2, KindsOfProcess DEF TypeInv, TypeOK, PcTypeOK
  <1>4. Submitting' = Submitting /\ Busy' = Busy /\ Enqueued' = Enqueued
    BY <1>1, <1>3 DEF Submitting, Busy, Enqueued
  <1> QED BY <1>4 DEF Uncounted

LEMMA CountSteps ==
  ASSUME TypeInv, Untouched, Next
  PROVE  Uncounted \/ Accepted \/ GivenUp \/ Sent \/ Taken \/ Settled
  BY RequestCounts, RunCounts, OtherCounts DEF Next

\* The history never shrinks.
LEMMA HistoryGrows ==
  ASSUME TypeInv, Untouched, Next PROVE Len(history') >= Len(history)
  <1>0. history \in Seq(Messages) /\ MsgOf \in [Requests -> Messages]
    BY RequestAssumption DEF TypeInv, TypeOK, StoreTypeOK
  <1>1. CASE UNCHANGED storeVars \/ history' = history
    BY <1>0, <1>1 DEF storeVars
  <1>2. CASE tstate = "absent" /\ \E m \in Messages : history' = <<m>>
    BY <1>2 DEF Untouched
  <1>3. CASE \E r \in Requests : history' = Append(history, MsgOf[r])
    BY <1>0, <1>3
  <1> QED BY <1>1, <1>2, <1>3, HistorySteps


\* Nothing multiplies the operations of a message: retried requests, lost races,
\* broker errors after the operation took effect, nacks, failing storage and
\* redelivery after a crash.
THEOREM OperationsCounted == Spec => []OneOperationPerMessage
  <1>1. ASSUME Init PROVE Counted /\ OneOperationPerMessage
    <2>1. \A p \in Procs : pc[p] = FirstStep(p)
      BY <1>1 DEF Init
    <2>2. Submitting = {} /\ Busy = {}
      BY <2>1, KindsOfProcess, RequestAssumption DEF Submitting, Busy, FirstStep
    <2>3. \A a \in Attempts : queued[a] = 0
      BY <1>1 DEF Init, BrokerInit
    <2>4. Enqueued = {}
      <3>1. \A a \in Attempts : 1 .. queued[a] = {}
        BY <2>3
      <3> QED BY <3>1, EnqueuedTokens
    <2>5. history = <<>>
      BY <1>1 DEF Init, StoreInit
    <2> QED BY <2>2, <2>4, <2>5, FS_EmptySet DEF Counted, OneOperationPerMessage
  <1>2. ASSUME TypeInv, TypeInv', Untouched, Counted, OneOperationPerMessage, [Next]_vars
        PROVE  Counted' /\ OneOperationPerMessage'
    <2>0. history \in Seq(Messages) /\ history' \in Seq(Messages)
      BY <1>2 DEF TypeInv, TypeOK, StoreTypeOK
    <2>1. CASE Next
      BY <1>2, <2>0, <2>1, CountSteps, HistoryGrows, CountPreserved
    <2>2. CASE UNCHANGED vars
      <3>1. pc' = pc /\ queued' = queued /\ history' = history
        BY <2>2 DEF vars, storeVars
      <3>2. Submitting' = Submitting /\ Enqueued' = Enqueued /\ Busy' = Busy
        BY <3>1 DEF Submitting, Enqueued, Busy
      <3> QED BY <1>2, <3>1, <3>2 DEF Counted, OneOperationPerMessage
    <2> QED BY <1>2, <2>1, <2>2
  <1>3. Spec => [](Counted /\ OneOperationPerMessage)
    BY <1>1, <1>2, UntouchedInductive, PTL DEF Spec
  <1> QED BY <1>3, PTL

-----------------------------------------------------------------------------
(* The artifacts that subscribers have seen.                               *)

\* The awaits of a run at which its buffer may hold artifacts.
Buffering == {"handle", "c_artifacts"} \cup InVersioned \cup InCancel \cup InMarkFailed

\* Only a run in the middle of its turn has artifacts buffered: not one that
\* has written its last batch with the end of the turn, and not one that is
\* back in _handle_op_inner.
BufferHeld ==
  \A p \in Procs : pending[p] # {} =>
    /\ p \in Runs /\ pc[p] \in Buffering
    /\ p \notin turnEnded /\ p \notin outside

\* Process q leaves the buffers and the turns of the others alone.
Separate(q) ==
  /\ pending' = pending \/ \E b : pending' = [pending EXCEPT ![q] = b]
  /\ \A w \in Runs : w # q => (w \in turnEnded' <=> w \in turnEnded)
  /\ \A w \in Runs : w # q => (w \in outside' <=> w \in outside)

\* What q had buffered is written, still buffered, or lost for one of the named
\* reasons.
BufferKept(q) ==
  \/ pending[q] \subseteq pending'[q]
  \/ pending[q] \subseteq artifacts'
  \/ q \in Runs /\ pc[q] = "c_load" /\ tstate \in Terminal /\ pc'[q] = "fin_load"
  \/ faults' # faults

\* The publication of an artifact of q is cut off before it is buffered.
CutOff(q) == q \in Runs /\ q \in signalled /\ pc[q] = "handle" /\ pc'[q] = "c_version"

\* What one step of q does to buffers.
BufferStep(q) ==
  /\ Separate(q) /\ BufferKept(q)
  /\ pending'[q] # {} => /\ q \in Runs /\ pc'[q] \in Buffering
                         /\ q \notin turnEnded' /\ q \notin outside'
  /\ \/ streamed' = streamed \/ CutOff(q)
     \/ q \in Runs /\ streamed' \ streamed \subseteq pending'[q]

LEMMA CallBuffers ==
  ASSUME TypeInv, BufferHeld, NEW p \in Procs, p \notin Runs,
         UNCHANGED workerVars,
         UNCHANGED pending \/ CancelInStorage(p)
  PROVE  BufferStep(p)
  <1>0. pending \in [Procs -> SUBSET Artifacts] /\ pending[p] = {}
    BY DEF TypeInv, TypeOK, LocalTypeOK, BufferHeld
  <1>1. pending' = pending \/ pending' = [pending EXCEPT ![p] = {}]
    BY DEF CancelInStorage, CancelGetVersion, CancelLoad, CancelWrite, CancelReload,
       CancelRetry, WriteArtifactsOnly, CancelPublish
  <1>2. pending'[p] = {}
    BY <1>0, <1>1
  <1> QED BY <1>0, <1>1, <1>2
          DEF BufferStep, Separate, BufferKept, workerVars, contextVars, adapterVars

\* A cancel helper of a run writes the buffer, hands it to the artifact-only
\* write, or finds the task terminal at its first load.
LEMMA CancelBuffers ==
  ASSUME TypeInv, BufferHeld, NEW w \in Runs, CancelRun(w)
  PROVE  BufferStep(w)
  <1>0. /\ pending \in [Procs -> SUBSET Artifacts] /\ w \in Procs /\ pc \in [Procs -> Awaits]
        /\ streamed' = streamed /\ turnEnded' = turnEnded /\ outside' = outside
    BY KindsOfProcess DEF TypeInv, TypeOK, LocalTypeOK, PcTypeOK, CancelRun, contextVars, adapterVars
  <1>1. pending[w] # {} => pc[w] \in Buffering /\ w \notin turnEnded /\ w \notin outside
    BY <1>0 DEF BufferHeld
  <1>2. AfterCancel(w) = "fin_load"
    BY DEF AfterCancel
  <1>3. CASE CancelGetVersion(w) \/ CancelReload(w)
    <2>1. pending' = pending /\ (pending[w] # {} => pc'[w] \in InCancel \cup {"c_artifacts"})
      BY <1>0, <1>2, <1>3 DEF CancelGetVersion, CancelReload, ArtifactsOr, Goto, InCancel
    <2> QED BY <1>0, <1>1, <2>1 DEF BufferStep, Separate, BufferKept, Buffering
  <1>4. CASE CancelLoad(w)
    <2>1. \/ pending' = pending /\ pc'[w] = "c_write"
          \/ /\ pending' = [pending EXCEPT ![w] = {}] /\ pending'[w] = {}
             /\ pc[w] = "c_load" /\ tstate \in Terminal /\ pc'[w] = "fin_load"
      BY <1>0, <1>2, <1>4 DEF CancelLoad, Goto
    <2> QED BY <1>0, <1>1, <2>1 DEF BufferStep, Separate, BufferKept, Buffering, InCancel
  <1>5. CASE CancelWrite(w) \/ CancelRetry(w)
    <2>1. \/ /\ pending' = pending
             /\ pending[w] # {} => pc'[w] \in InCancel \cup {"c_artifacts"}
          \/ /\ pending' = [pending EXCEPT ![w] = {}] /\ pending'[w] = {}
             /\ pending[w] \subseteq artifacts'
      BY <1>0, <1>2, <1>5 DEF CancelWrite, CancelRetry, ArtifactsOr, Goto, InCancel,
         PinnedUpdate, ApplyUpdate
    <2> QED BY <1>0, <1>1, <2>1 DEF BufferStep, Separate, BufferKept, Buffering
  <1>6. CASE WriteArtifactsOnly(w)
    <2>1. /\ pending' = [pending EXCEPT ![w] = {}] /\ pending'[w] = {}
          /\ pending[w] \subseteq artifacts'
      BY <1>0, <1>6 DEF WriteArtifactsOnly, BlindUpdate, ApplyUpdate
    <2> QED BY <1>0, <2>1 DEF BufferStep, Separate, BufferKept
  <1>7. CASE CancelPublish(w)
    <2>1. pending' = pending /\ pc[w] = "c_publish"
      BY <1>7 DEF CancelPublish
    <2>2. pending[w] = {}
      BY <1>1, <2>1 DEF Buffering, InVersioned, InCancel, InMarkFailed
    <2> QED BY <1>0, <2>1, <2>2 DEF BufferStep, Separate, BufferKept
  <1> QED BY <1>3, <1>4, <1>5, <1>6, <1>7 DEF CancelRun, CancelInStorage

\* The same for _mark_failed.
LEMMA MarkBuffers ==
  ASSUME TypeInv, BufferHeld, NEW w \in Runs, MarkFailed(w)
  PROVE  BufferStep(w)
  <1>0. /\ pending \in [Procs -> SUBSET Artifacts] /\ w \in Procs /\ pc \in [Procs -> Awaits]
        /\ streamed' = streamed /\ turnEnded' = turnEnded /\ outside' = outside
    BY KindsOfProcess DEF TypeInv, TypeOK, LocalTypeOK, PcTypeOK, MarkFailed, contextVars, adapterVars
  <1>1. pending[w] # {} => pc[w] \in Buffering /\ w \notin turnEnded /\ w \notin outside
    BY <1>0 DEF BufferHeld
  <1>2. CASE FailGetVersion(w) \/ FailReload(w)
    <2>1. pending' = pending /\ (pending[w] # {} => pc'[w] \in InMarkFailed \cup {"c_artifacts"})
      BY <1>0, <1>2 DEF FailGetVersion, FailReload, ArtifactsOr, Goto, InMarkFailed
    <2> QED BY <1>0, <1>1, <2>1 DEF BufferStep, Separate, BufferKept, Buffering
  <1>3. CASE FailWrite(w) \/ FailRetry(w)
    <2>1. \/ /\ pending' = pending
             /\ pending[w] # {} => pc'[w] \in InMarkFailed \cup {"c_artifacts"}
          \/ /\ pending' = [pending EXCEPT ![w] = {}] /\ pending'[w] = {}
             /\ pending[w] \subseteq artifacts'
      BY <1>0, <1>3 DEF FailWrite, FailRetry, ArtifactsOr, Goto, InMarkFailed,
         PinnedUpdate, ApplyUpdate
    <2> QED BY <1>0, <1>1, <2>1 DEF BufferStep, Separate, BufferKept, Buffering
  <1>4. CASE FailPublish(w)
    <2>1. pending' = pending /\ pc[w] = "m_publish"
      BY <1>4 DEF FailPublish
    <2>2. pending[w] = {}
      BY <1>1, <2>1 DEF Buffering, InVersioned, InCancel, InMarkFailed
    <2> QED BY <1>0, <2>1, <2>2 DEF BufferStep, Separate, BufferKept
  <1> QED BY <1>2, <1>3, <1>4 DEF MarkFailed

\* The writes of the TaskContext: a batch leaves the buffer only with the write
\* that carries it.
LEMMA ContextBuffers ==
  ASSUME TypeInv, BufferHeld, NEW w \in Runs, RunContext(w)
  PROVE  BufferStep(w)
  <1>0. /\ pending \in [Procs -> SUBSET Artifacts] /\ w \in Procs /\ pc \in [Procs -> Awaits]
        /\ outside' = outside /\ turnEnded \in SUBSET Runs
    BY KindsOfProcess DEF TypeInv, TypeOK, LocalTypeOK, PcTypeOK, ContextTypeOK, RunContext, adapterVars
  <1>1. pending[w] # {} => pc[w] \in Buffering /\ w \notin turnEnded /\ w \notin outside
    BY <1>0 DEF BufferHeld
  <1>2. ASSUME TerminalError(w) PROVE pending[w] # {} => pc'[w] \in {"c_artifacts", "m_version"}
    BY <1>0, <1>2 DEF TerminalError, ArtifactsOr, Goto
  <1>3. ASSUME WriteSucceeded(w), streamed' = streamed,
               ApplyUpdate(WriteState(kind[w]), WriteMessage(kind[w]), <<>>, pending[w])
        PROVE  BufferStep(w)
    <2>1. /\ pending' = [pending EXCEPT ![w] = {}] /\ pending'[w] = {}
          /\ pending[w] \subseteq artifacts'
      BY <1>0, <1>3 DEF WriteSucceeded, ApplyUpdate
    <2>2. turnEnded' = turnEnded \/ turnEnded' = turnEnded \cup {w}
      BY <1>3 DEF WriteSucceeded
    <2> QED BY <1>0, <1>3, <2>1, <2>2 DEF BufferStep, Separate, BufferKept
  <1>4. ASSUME pending' = pending, turnEnded' = turnEnded, streamed' = streamed,
               pending[w] # {} => pc'[w] \in Buffering
        PROVE  BufferStep(w)
    BY <1>0, <1>1, <1>4 DEF BufferStep, Separate, BufferKept
  <1>b. {"c_artifacts", "m_version", "handle", "u_load", "u_refresh", "u_version", "u_retry"}
        \subseteq Buffering
    BY DEF Buffering, InMarkFailed, InVersioned
  <1>5. CASE VersionedWrite(w)
    <2>1. streamed' = streamed
      BY <1>5 DEF VersionedWrite
    <2>2. CASE PinnedUpdate(ver[w], WriteState(kind[w]), WriteMessage(kind[w]), <<>>, pending[w])
               /\ WriteSucceeded(w)
      BY <1>3, <2>1, <2>2 DEF PinnedUpdate
    <2>3. CASE Goto(w, "u_load") /\ UNCHANGED <<pending, turnEnded>>
      BY <1>0, <1>4, <1>b, <2>1, <2>3 DEF Goto
    <2>4. CASE TerminalError(w) /\ UNCHANGED <<pending, turnEnded>>
      BY <1>2, <1>4, <1>b, <2>1, <2>4
    <2> QED BY <1>5, <2>2, <2>3, <2>4 DEF VersionedWrite
  <1>6. CASE RetryWrite(w)
    <2>1. streamed' = streamed
      BY <1>6 DEF RetryWrite
    <2>2. CASE PinnedUpdate(ver[w], WriteState(kind[w]), WriteMessage(kind[w]), <<>>, pending[w])
               /\ WriteSucceeded(w)
      BY <1>3, <2>1, <2>2 DEF PinnedUpdate
    <2>3. CASE (\E l \in {"u_refresh", "handle", "m_version"} : Goto(w, l))
               /\ UNCHANGED <<pending, turnEnded>>
      BY <1>0, <1>4, <1>b, <2>1, <2>3 DEF Goto
    <2>4. CASE TerminalError(w) /\ UNCHANGED <<pending, turnEnded>>
      BY <1>2, <1>4, <1>b, <2>1, <2>4
    <2> QED BY <1>6, <2>2, <2>3, <2>4 DEF RetryWrite
  <1>7. CASE ReloadOnConflict(w)
    <2>1. UNCHANGED <<pending, turnEnded, streamed>>
      BY <1>7 DEF ReloadOnConflict, contextVars
    <2>2. TerminalError(w) \/ \E l \in {"u_version", "u_retry"} : Goto(w, l)
      BY <1>7 DEF ReloadOnConflict
    <2>3. pending[w] # {} => pc'[w] \in Buffering
      BY <1>0, <1>2, <1>b, <2>2 DEF Goto
    <2> QED BY <1>4, <2>1, <2>3
  <1>8. CASE FreshVersion(w) \/ RefreshVersion(w) \/ PublishProgress(w) \/ PublishEnd(w)
    <2>1. UNCHANGED <<pending, turnEnded, streamed>> /\ pc'[w] \in {"u_retry", "handle"}
      BY <1>0, <1>8 DEF FreshVersion, RefreshVersion, PublishProgress, PublishEnd, contextVars, Goto
    <2> QED BY <1>4, <1>b, <2>1
  <1> QED BY <1>5, <1>6, <1>7, <1>8 DEF RunContext, ContextStep

\* Where a run is that is back in _handle_op_inner.
OutsideMarks == \A w \in outside : pc[w] \in InMarkFailed \cup {"m_publish", "ack"}

LEMMA OutsideRuns ==
  ASSUME TypeInv, BufferHeld, OutsideMarks, NEW w \in Runs,
         Work(w) \/ UserCode(w) \/ Interrupt(w) \/ RunFault(w), w \in outside'
  PROVE  pc'[w] \in InMarkFailed \cup {"m_publish", "ack"}
  <1>0. /\ w \in Procs /\ pc \in [Procs -> Awaits] /\ outside \in SUBSET Runs
        /\ w \in outside => pc[w] \in InMarkFailed \cup {"m_publish", "ack"}
        /\ w \in outside => pending[w] = {}
    BY KindsOfProcess DEF TypeInv, TypeOK, PcTypeOK, AdapterTypeOK, OutsideMarks, BufferHeld
  <1>1. CASE w \notin outside
    <2>1. TakeOperation(w) \/ Settle(w)
      <3>1. ASSUME UNCHANGED outside PROVE FALSE
        BY <1>1, <3>1
      <3>2. ~AckAfterMark(w)
        BY <1>0, <1>1 DEF AckAfterMark, Forget
      <3>3. UserCode(w) \/ Interrupt(w) => UNCHANGED outside
        BY DEF UserCode, UserStep, HandlerCalls, HandlerReturns, HandlerRaises, Interrupt,
           CancelDelivered, adapterVars
      <3>4. ~RunFault(w)
        BY <1>0, <1>1 DEF RunFault, StorageRaises, Land, Escapes, WorkerCrashes, Forget
      <3> QED BY <3>1, <3>2, <3>3, <3>4 DEF Work, RunStep, CheckCancelled, CancelBeforeRun,
            SetWorking, AnnounceWorking, RunContext, CancelRun, MarkFailed, FinallyLoad,
            FinallyCleanBus, FinallyCleanKey, adapterVars
    <2>2. pc'[w] = "m_version"
      BY <1>0, <1>1, <2>1 DEF TakeOperation, Settle, Forget, Goto
    <2> QED BY <2>2 DEF InMarkFailed
  <1>2. CASE w \in outside
    <2>1. ~AckAfterMark(w) /\ ~WorkerCrashes(w)
      BY DEF AckAfterMark, WorkerCrashes, Forget
    <2>2. ASSUME MarkFailed(w) PROVE pc'[w] \in InMarkFailed \cup {"m_publish", "ack"}
      BY <1>0, <1>2, <2>2 DEF MarkFailed, FailGetVersion, FailWrite, FailReload, FailRetry,
         FailPublish, ArtifactsOr, AfterMark, Goto, InMarkFailed
    <2>3. ASSUME StorageRaises(w) PROVE pc'[w] = "ack"
      BY <1>0, <1>2, <2>3 DEF StorageRaises, Land, Goto, BeforeTry, InCancel, InVersioned,
         InMarkFailed
    <2>4. ~UserCode(w) /\ ~Interrupt(w)
      BY <1>0, <1>2 DEF UserCode, UserStep, HandlerCalls, HandlerCall, EmitArtifact, SendStatus,
         CallLifecycle, HandlerReturns, HandlerRaises, Interrupt, CancelDelivered, Cancellable,
         InMarkFailed
    <2>5. ~RunContext(w) /\ ~CancelRun(w)
      BY <1>0, <1>2 DEF RunContext, ContextStep, VersionedWrite, ReloadOnConflict,
         FreshVersion, RetryWrite, RefreshVersion, PublishProgress, PublishEnd, CancelRun,
         CancelInStorage, CancelGetVersion, CancelLoad, CancelWrite, CancelReload,
         CancelRetry, WriteArtifactsOnly, CancelPublish, InMarkFailed
    <2>6. Work(w) => MarkFailed(w)
      BY <1>0, <1>2, <2>1, <2>5 DEF Work, RunStep, TakeOperation, CheckCancelled, CancelBeforeRun,
         SetWorking, AnnounceWorking, FinallyLoad, FinallyCleanBus, FinallyCleanKey, Settle,
         InMarkFailed
    <2> QED BY <2>1, <2>2, <2>3, <2>4, <2>6 DEF RunFault
  <1> QED BY <1>1, <1>2

\* Steps of a run that leave its buffer alone.
LEMMA IdleBuffers ==
  ASSUME TypeInv, BufferHeld, NEW w \in Runs, pending' = pending, streamed' = streamed,
         \A v \in Runs : v # w => (v \in turnEnded' <=> v \in turnEnded),
         \A v \in Runs : v # w => (v \in outside' <=> v \in outside),
         \/ pc[w] \notin Buffering
         \/ w \in turnEnded
         \/ w \in outside
         \/ pc'[w] \in Buffering /\ turnEnded' = turnEnded /\ outside' = outside
  PROVE  BufferStep(w)
  <1>0. w \in Procs
    BY KindsOfProcess
  <1>1. pending[w] # {} => pc[w] \in Buffering /\ w \notin turnEnded /\ w \notin outside
    BY <1>0 DEF BufferHeld
  <1> QED BY <1>0, <1>1 DEF BufferStep, Separate, BufferKept

LEMMA RunBuffers ==
  ASSUME TypeInv, BufferHeld, OutsideMarks, NEW w \in Runs, Work(w) \/ UserCode(w) \/ Interrupt(w)
  PROVE  BufferStep(w)
  <1>0. /\ pending \in [Procs -> SUBSET Artifacts] /\ w \in Procs /\ pc \in [Procs -> Awaits]
        /\ turnEnded \in SUBSET Runs /\ outside \in SUBSET Runs
    BY KindsOfProcess DEF TypeInv, TypeOK, LocalTypeOK, PcTypeOK, ContextTypeOK, AdapterTypeOK
  <1>1. CASE TakeOperation(w) \/ CheckCancelled(w) \/ CancelBeforeRun(w) \/ SetWorking(w)
             \/ AnnounceWorking(w) \/ FinallyLoad(w) \/ FinallyCleanBus(w) \/ FinallyCleanKey(w)
    <2>1. /\ UNCHANGED <<pending, streamed, turnEnded>>
          /\ outside' = outside \/ outside' = outside \cup {w}
      BY <1>1 DEF TakeOperation, CheckCancelled, CancelBeforeRun, SetWorking, AnnounceWorking,
         FinallyLoad, FinallyCleanBus, FinallyCleanKey, contextVars, adapterVars
    <2>2. pc[w] \notin Buffering
      BY <1>1 DEF TakeOperation, CheckCancelled, CancelBeforeRun, SetWorking, AnnounceWorking,
         FinallyLoad, FinallyCleanBus, FinallyCleanKey, Buffering, InVersioned, InCancel,
         InMarkFailed
    <2> QED BY <2>1, <2>2, IdleBuffers
  <1>2. CASE Settle(w) \/ AckAfterMark(w)
    <2>1. /\ UNCHANGED <<pending, streamed>>
          /\ turnEnded' = turnEnded \/ turnEnded' = turnEnded \ {w}
          /\ outside' \in {outside \ {w}, outside \cup {w}}
      BY <1>2 DEF Settle, AckAfterMark, Forget, contextVars
    <2>2. pc[w] \notin Buffering
      BY <1>2 DEF Settle, AckAfterMark, Buffering, InVersioned, InCancel, InMarkFailed
    <2> QED BY <2>1, <2>2, IdleBuffers
  <1>3. CASE UserCode(w) /\ EmitArtifact(w)
    <2>1. PICK a \in Artifacts : /\ streamed' = streamed \cup {a}
                                 /\ pending' = [pending EXCEPT ![w] = @ \cup {a}]
      BY <1>3 DEF EmitArtifact
    <2>2. pending'[w] = pending[w] \cup {a}
      BY <1>0, <2>1
    <2>3. pc'[w] \in {"handle", "u_write"} /\ turnEnded' = turnEnded /\ w \notin turnEnded
      BY <1>0, <1>3 DEF EmitArtifact, StartWrite, Goto
    <2>4. outside' = outside /\ w \notin outside
      <3>1. pc[w] = "handle" /\ adapterVars' = adapterVars
        BY <1>3 DEF EmitArtifact, UserCode, UserStep, HandlerCalls, HandlerReturns, HandlerRaises
      <3> QED BY <1>0, <3>1 DEF adapterVars, OutsideMarks, InMarkFailed
    <2> QED BY <1>0, <2>1, <2>2, <2>3, <2>4
            DEF BufferStep, Separate, BufferKept, Buffering, InVersioned
  <1>4. CASE UserCode(w) /\ (SendStatus(w) \/ CallLifecycle(w))
    <2>1. UNCHANGED <<pending, streamed, turnEnded>> /\ pc'[w] = "u_write"
      BY <1>0, <1>4 DEF SendStatus, CallLifecycle, StartWrite, Goto
    <2>2. outside' = outside
      BY <1>4 DEF UserCode, UserStep, HandlerCalls, HandlerReturns, HandlerRaises, adapterVars
    <2> QED BY <2>1, <2>2, IdleBuffers DEF Buffering, InVersioned
  <1>5. CASE (UserCode(w) /\ (HandlerReturns(w) \/ HandlerRaises(w))) \/ Interrupt(w)
    <2>1. UNCHANGED <<pending, turnEnded, outside>>
      BY <1>5 DEF HandlerReturns, HandlerRaises, Interrupt, CancelDelivered, contextVars, adapterVars
    <2>2. w \in turnEnded \/ pc'[w] \in {"c_version", "u_write", "m_version"}
      BY <1>0, <1>5 DEF HandlerReturns, HandlerRaises, Interrupt, CancelDelivered, StartWrite, Goto
    <2>3. CASE streamed' = streamed
      BY <2>1, <2>2, <2>3, IdleBuffers DEF Buffering, InVersioned, InCancel, InMarkFailed
    <2>4. CASE streamed' # streamed
      <3>1. CutOff(w)
        BY <1>0, <1>5, <2>4
           DEF HandlerReturns, HandlerRaises, Interrupt, CancelDelivered, contextVars, CutOff, Goto
      <3>2. pending[w] # {} => w \notin turnEnded /\ w \notin outside
        BY <1>0 DEF BufferHeld
      <3> QED BY <1>0, <2>1, <3>1, <3>2
              DEF BufferStep, Separate, BufferKept, Buffering, InCancel, CutOff
    <2> QED BY <2>3, <2>4
  <1> QED BY <1>1, <1>2, <1>3, <1>4, <1>5, CancelBuffers, MarkBuffers, ContextBuffers
          DEF Work, RunStep, UserCode, UserStep, HandlerCalls, HandlerCall

\* Only a fault may empty a buffer without having written it.
LEMMA FaultBuffers ==
  ASSUME TypeInv, BufferHeld, OutsideMarks, NEW w \in Runs, RunFault(w)
  PROVE  BufferStep(w)
  <1>0. /\ pending \in [Procs -> SUBSET Artifacts] /\ w \in Procs /\ pc \in [Procs -> Awaits]
        /\ faults \in Nat
    BY KindsOfProcess, ProcsAssumption DEF TypeInv, TypeOK, LocalTypeOK, PcTypeOK
  <1>1. faults' # faults
    BY <1>0 DEF RunFault, StorageRaises, WorkerCrashes, Fault
  <1>2. pending[w] # {} => pc[w] \in Buffering /\ w \notin turnEnded /\ w \notin outside
    BY <1>0 DEF BufferHeld
  <1>3. CASE WorkerCrashes(w)
    <2>1. /\ pending' = [pending EXCEPT ![w] = {}] /\ pending'[w] = {} /\ streamed' = streamed
          /\ turnEnded' = turnEnded \ {w} /\ outside' = outside \ {w}
      BY <1>0, <1>3 DEF WorkerCrashes, Forget
    <2> QED BY <1>0, <1>1, <2>1 DEF BufferStep, Separate, BufferKept
  <1>4. CASE StorageRaises(w)
    <2>1. UNCHANGED <<streamed, turnEnded>>
      BY <1>4 DEF StorageRaises, contextVars
    <2>2. /\ outside' = outside
          /\ \/ pending' = [pending EXCEPT ![w] = {}]
             \/ /\ pending' = pending
                /\ \/ pc'[w] = "m_version"
                   \/ w \in outside
                   \/ pc[w] \in {"fin_load", "settle"}
      BY <1>0, <1>4 DEF StorageRaises, Land, Escapes, Goto
    <2>3. pending'[w] # {} => pc'[w] = "m_version" /\ w \notin turnEnded' /\ w \notin outside'
      BY <1>0, <1>2, <2>1, <2>2 DEF Buffering, InVersioned, InCancel, InMarkFailed
    <2> QED BY <1>0, <1>1, <2>1, <2>2, <2>3
            DEF BufferStep, Separate, BufferKept, Buffering, InMarkFailed
  <1> QED BY <1>3, <1>4 DEF RunFault

\* Every step is a step of one process, which accounts for its buffer.
LEMMA BufferSteps ==
  ASSUME TypeInv, BufferHeld, OutsideMarks, Next
  PROVE  \E q \in Procs : Moves(q) /\ BufferStep(q)
                          /\ (q \in outside' => pc'[q] \in InMarkFailed \cup {"m_publish", "ack"})
  <1>0. outside \in SUBSET Runs
    BY DEF TypeInv, TypeOK, AdapterTypeOK
  <1>1. ASSUME NEW p \in Requests, Submit(p) \/ Dispatch(p) \/ TimeOut(p) \/ CallFault(p)
        PROVE  BufferStep(p) /\ p \notin outside'
    <2>1. UNCHANGED workerVars /\ UNCHANGED pending
      BY <1>1 DEF Submit, SubmitStep, CreateTask, WriteTenant, GetVersion,
         LoadAndValidate, AppendMessage, ReloadAfterConflict, AnnounceSubmitted,
         Dispatch, DispatchStep, SubscribeFirst, Enqueue, EnqueueFailedVersion,
         EnqueueFailedLoad, EnqueueFailedWrite, EnqueueFailedPublish, AnswerDuplicate,
         SnapshotLoad, TimeOut, BlockingTimeout, CallFault, CallRaises
    <2> QED BY <1>0, <2>1, CallBuffers, KindsOfProcess DEF workerVars, adapterVars
  <1>2. ASSUME NEW p \in Watchers \cup Cancels,
               Watch(p) \/ CallCancel(p) \/ ForceCancel(p) \/ CallFault(p)
        PROVE  BufferStep(p) /\ p \notin outside'
    <2>1. UNCHANGED workerVars /\ (UNCHANGED pending \/ CancelInStorage(p))
      BY <1>2 DEF Watch, Resubscribe, SnapshotLoad, CallCancel, CancelCallStep, CancelTaskLoad,
         CancelTaskCheck, CancelTaskRequest, ForceCancel, ForceCancelStep, ForceCancelLoad,
         ForceCancelInStorage, ForceCancelCleanBus, ForceCancelCleanKey, CallFault, CallRaises
    <2> QED BY <1>0, <2>1, CallBuffers, KindsOfProcess DEF workerVars, adapterVars
  <1>3. ASSUME NEW w \in Runs, Work(w) \/ UserCode(w) \/ Interrupt(w) \/ RunFault(w)
        PROVE  BufferStep(w)
    BY <1>3, RunBuffers, FaultBuffers
  <1> QED BY <1>1, <1>2, <1>3, OutsideRuns, StepMoves, KindsOfProcess DEF Next

BufferInv == TypeInv /\ Untouched /\ BufferHeld /\ OutsideMarks

LEMMA BufferInductive == Spec => []BufferInv
  <1>1. ASSUME Init PROVE BufferHeld /\ OutsideMarks
    BY <1>1 DEF Init, AdapterInit, BufferHeld, OutsideMarks
  <1>2. ASSUME TypeInv, TypeInv', BufferHeld, OutsideMarks, [Next]_vars
        PROVE  BufferHeld' /\ OutsideMarks'
    <2>1. CASE UNCHANGED vars
      BY <1>2, <2>1 DEF vars, workerVars, contextVars, adapterVars, BufferHeld, OutsideMarks
    <2>2. CASE Next
      <3>1. PICK q \in Procs : /\ Moves(q) /\ BufferStep(q)
                               /\ q \in outside' => pc'[q] \in InMarkFailed \cup {"m_publish", "ack"}
        BY <1>2, <2>2, BufferSteps
      <3>2. \A p \in Procs : p # q => pc'[p] = pc[p] /\ pending'[p] = pending[p]
        BY <1>2, <3>1, OthersStay DEF BufferStep, Separate, TypeInv, TypeOK, LocalTypeOK
      <3>3. \A w \in Runs : w # q => (w \in outside' <=> w \in outside)
                                   /\ (w \in turnEnded' <=> w \in turnEnded)
        BY <3>1 DEF BufferStep, Separate
      <3>4. BufferHeld'
        BY <1>2, <3>1, <3>2, <3>3 DEF BufferHeld, BufferStep
      <3>5. OutsideMarks'
        <4>1. outside' \subseteq Runs /\ Runs \subseteq Procs
          BY <1>2, KindsOfProcess DEF TypeInv, TypeOK, AdapterTypeOK
        <4> QED BY <1>2, <3>1, <3>2, <3>3, <4>1 DEF OutsideMarks
      <3> QED BY <3>4, <3>5
    <2> QED BY <1>2, <2>1, <2>2
  <1> QED BY <1>1, <1>2, UntouchedInductive, PTL DEF Spec, BufferInv

\* An artifact that subscribers have seen stays in storage or in the buffer of a
\* run that will write it, whoever wins the races for the row; the exceptions
\* are a run that is to cancel a task it finds terminal, a cancellation between
\* the publication and the buffer, and faults.
THEOREM SeenArtifactsKept == Spec => ArtifactsKept
  <1> DEFINE Lost == \E w \in Runs : pc[w] = "c_load" /\ tstate \in Terminal /\ pc'[w] = "fin_load"
             Act == \A a \in streamed' :
                      (a \in streamed => Kept(a)) =>
                        \/ Kept(a)'
                        \/ \E w \in Runs : pc[w] = "c_load" /\ tstate \in Terminal /\ pc'[w] = "fin_load"
                        \/ /\ a \notin streamed
                           /\ \E w \in Runs : w \in signalled /\ pc[w] = "handle" /\ pc'[w] = "c_version"
                        \/ faults' # faults
  <1>1. ASSUME BufferInv, BufferInv', Next PROVE Act
    <2> SUFFICES ASSUME NEW a \in streamed', a \in streamed => Kept(a), ~Lost, faults' = faults,
                        a \in streamed \/ \A w \in Runs : ~CutOff(w)
                 PROVE  Kept(a)'
      BY DEF CutOff
    <2>0. TypeInv /\ Untouched /\ BufferHeld /\ BufferHeld' /\ OutsideMarks
      BY <1>1 DEF BufferInv
    <2>1. PICK q \in Procs : Moves(q) /\ BufferStep(q)
      BY <1>1, <2>0, BufferSteps
    <2>2. \A p \in Procs : p # q => pc'[p] = pc[p] /\ pending'[p] = pending[p]
      BY <2>0, <2>1, OthersStay DEF BufferStep, Separate, TypeInv, TypeOK, LocalTypeOK
    <2>3. ASSUME NEW w \in Runs, a \in pending'[w] PROVE Kept(a)'
      <3>1. pc'[w] \in Buffering
        BY <2>0, <2>3, KindsOfProcess DEF BufferHeld
      <3>2. InTurn(w)'
        BY <3>1 DEF InTurn, Buffering, InVersioned, InCancel, InMarkFailed
      <3> QED BY <2>3, <3>2 DEF Kept
    <2>4. artifacts \subseteq artifacts'
      <3>1. CASE tstate = "absent"
        BY <2>0, <3>1 DEF Untouched
      <3>2. CASE UNCHANGED storeVars \/ QuietUpdate \/ \E r \in Requests : FollowUp(r)
        BY <3>2 DEF storeVars, QuietUpdate, FollowUp, PinnedUpdate, ApplyUpdate
      <3> QED BY <1>1, <2>0, <3>1, <3>2, StoreSteps
    <2>5. CASE a \notin streamed
      <3>1. q \in Runs /\ a \in pending'[q]
        BY <2>1, <2>5 DEF BufferStep, CutOff
      <3> QED BY <2>3, <3>1
    <2>6. CASE a \in artifacts
      BY <2>4, <2>6 DEF Kept
    <2>7. CASE \E w \in Runs : a \in pending[w]
      <3>1. PICK w \in Runs : a \in pending[w]
        BY <2>7
      <3>2. CASE w # q
        BY <2>2, <2>3, <3>1, <3>2, KindsOfProcess
      <3>3. CASE w = q
        <4>1. a \in pending'[w] \/ a \in artifacts'
          BY <2>1, <3>1, <3>3 DEF BufferStep, BufferKept
        <4> QED BY <2>3, <4>1 DEF Kept
      <3> QED BY <3>2, <3>3
    <2> QED BY <2>5, <2>6, <2>7 DEF Kept
  <1>2. ASSUME BufferInv, BufferInv', [Next]_vars PROVE [Act]_vars
    BY <1>1, <1>2
  <1> QED BY <1>2, BufferInductive, PTL DEF Spec, ArtifactsKept

-----------------------------------------------------------------------------
(* Turns.  Without faults, and without messages of role agent (which start *)
(* an operation beside the one that is under way), a turn has one owner at *)
(* a time: the request that submits it, its operation in the broker, or    *)
(* the run that works on it.                                               *)

Undisturbed == faults = 0 /\ \A i \in DOMAIN history : history[i] \notin AgentRole

\* A run whose turn is still open.
Working(w) == InTurn(w) /\ w \notin turnEnded

\* Where a run is whose turn has ended.
EndedAt == {"end_publish", "handle", "fin_load", "fin_bus", "fin_key", "settle"}

\* Where a run is that has moved the task to working and may end the turn.
Engaged == {"announce_working", "handle", "p_publish", "end_publish"} \cup InVersioned \cup InMarkFailed

\* A turn has one owner, and a paused task has none.
Sole ==
  /\ \A r, s \in Submitting : r = s
  /\ \A v, w \in Runs : Working(v) /\ Working(w) => v = w
  /\ \A r \in Submitting : \A w \in Runs : ~Working(w)
  /\ queued[1] \in {0, 1}
  /\ queued[1] = 1 => Submitting = {} /\ \A w \in Runs : ~Working(w)
  /\ tstate \in Paused => Submitting = {} /\ queued[1] = 0 /\ \A w \in Runs : ~Working(w)

\* Nothing is retried, an ended turn is not taken up again, and a run that may
\* end its turn finds the task working, unless somebody has ended it.
Begun ==
  /\ raised = {} /\ outside = {}
  /\ \A a \in Attempts : a # 1 => queued[a] = 0
  /\ \A w \in turnEnded : pc[w] \in EndedAt
  /\ \A w \in Runs : pc[w] \in Engaged /\ w \notin turnEnded => tstate \in {"working"} \cup Terminal

\* The row after a step that neither changes the state nor the messages.
SameStatus == UNCHANGED <<tstate, statusMsg, history>>

\* What the owner of a turn may do to the row.
OwnerWrites(w) ==
  /\ Working(w) /\ history' = history
  /\ \/ tstate' = tstate
     \/ pc[w] = "set_working" /\ tstate \notin Terminal /\ tstate' = "working"
     \/ pc[w] \in Engaged /\ tstate \notin Terminal /\ tstate' \in Terminal
     \/ /\ pc[w] \in Engaged /\ tstate \notin Terminal /\ ~Working(w)'
        /\ tstate' \in Paused /\ statusMsg' = tstate'
     \/ tstate \notin Terminal /\ tstate' = "canceled"

\* A run takes the operation of a turn.
TakesTurn(w) ==
  /\ pc[w] = "idle" /\ pc'[w] = "check_cancel" /\ Receive(1)
  /\ SameStatus /\ turnEnded' = turnEnded

\* A run goes on with its turn, ends it, or cleans up after it.
KeepsTurn(w) ==
  /\ queued' = queued
  /\ Working(w)' => Working(w)
  /\ pc'[w] \in Engaged /\ w \notin turnEnded' =>
       \/ pc[w] \in Engaged /\ w \notin turnEnded
       \/ tstate' \in {"working"} \cup Terminal
  /\ SameStatus \/ OwnerWrites(w)

RunTurn(w) ==
  /\ raised' = {} /\ outside' = {}
  /\ \A v \in Runs : v # w => (v \in turnEnded' <=> v \in turnEnded)
  /\ w \in turnEnded' => pc'[w] \in EndedAt
  /\ TakesTurn(w) \/ KeepsTurn(w)

\* A run that is neither idle nor cleaning up, and not where an ended turn may
\* be, has its turn open.
LEMMA OpenTurn ==
  ASSUME Begun, NEW w \in Runs,
         pc[w] \notin {"idle", "ack"} \cup EndedAt \/ (pc[w] = "handle" /\ w \notin turnEnded)
  PROVE  Working(w) /\ w \notin turnEnded
  BY DEF Begun, Working, InTurn, EndedAt

LEMMA CancelTurns ==
  ASSUME TypeInv, Begun, NEW w \in Runs, CancelRun(w)
  PROVE  RunTurn(w)
  <1>0. /\ w \in Procs /\ pc \in [Procs -> Awaits] /\ history \o <<>> = history
        /\ UNCHANGED <<queued, turnEnded, raised, outside>>
    BY KindsOfProcess
       DEF TypeInv, TypeOK, PcTypeOK, StoreTypeOK, CancelRun, contextVars, adapterVars
  <1>1. pc[w] \in InCancel \cup {"c_artifacts", "c_publish"}
    BY DEF CancelRun, CancelInStorage, CancelGetVersion, CancelLoad, CancelWrite, CancelReload,
       CancelRetry, WriteArtifactsOnly, CancelPublish, InCancel
  <1>2. Working(w) /\ w \notin turnEnded
    BY <1>1, OpenTurn DEF InCancel, EndedAt
  <1>3. pc'[w] \in InCancel \cup {"c_artifacts", "c_publish", "fin_load"}
    BY <1>0 DEF CancelRun, CancelInStorage, CancelGetVersion, CancelLoad, CancelWrite,
       CancelReload, CancelRetry, WriteArtifactsOnly, CancelPublish, InCancel, AfterCancel,
       ArtifactsOr, Goto
  <1>4. pc'[w] \notin Engaged
    BY <1>3 DEF InCancel, Engaged, InVersioned, InMarkFailed
  <1>5. SameStatus \/ (history' = history /\ tstate \notin Terminal /\ tstate' = "canceled")
    BY <1>0 DEF CancelRun, CancelInStorage, CancelGetVersion, CancelLoad, CancelWrite,
       CancelReload, CancelRetry, WriteArtifactsOnly, CancelPublish, storeVars, SameStatus,
       PinnedUpdate, BlindUpdate, ApplyUpdate, TerminalGuard
  <1>6. SameStatus \/ OwnerWrites(w)
    BY <1>2, <1>5 DEF OwnerWrites
  <1>7. KeepsTurn(w)
    BY <1>0, <1>2, <1>4, <1>6 DEF KeepsTurn
  <1> QED BY <1>0, <1>2, <1>7 DEF RunTurn, Begun

LEMMA MarkTurns ==
  ASSUME TypeInv, Begun, NEW w \in Runs, MarkFailed(w)
  PROVE  RunTurn(w)
  <1>0. /\ w \in Procs /\ pc \in [Procs -> Awaits] /\ history \o <<>> = history
        /\ UNCHANGED <<queued, turnEnded, raised, outside>>
    BY KindsOfProcess
       DEF TypeInv, TypeOK, PcTypeOK, StoreTypeOK, MarkFailed, contextVars, adapterVars
  <1>1. pc[w] \in InMarkFailed \cup {"m_publish"}
    BY DEF MarkFailed, FailGetVersion, FailWrite, FailReload, FailRetry, FailPublish, InMarkFailed
  <1>2. Working(w) /\ w \notin turnEnded
    BY <1>1, OpenTurn DEF InMarkFailed, EndedAt
  <1>3. pc[w] = "m_publish" => pc'[w] \in {"ack", "fin_load"}
    BY <1>0 DEF MarkFailed, FailGetVersion, FailWrite, FailReload, FailRetry, FailPublish,
       AfterMark, Goto
  <1>4. pc'[w] \in Engaged => pc[w] \in Engaged
    BY <1>1, <1>3 DEF Engaged, InMarkFailed, InVersioned
  <1>5. \/ SameStatus
        \/ pc[w] \in InMarkFailed /\ history' = history /\ tstate \notin Terminal /\ tstate' = "failed"
    BY <1>0 DEF MarkFailed, FailGetVersion, FailWrite, FailReload, FailRetry, FailPublish,
       storeVars, SameStatus, PinnedUpdate, ApplyUpdate, TerminalGuard, InMarkFailed
  <1>6. SameStatus \/ OwnerWrites(w)
    BY <1>2, <1>5 DEF OwnerWrites, Engaged, Terminal
  <1>7. KeepsTurn(w)
    BY <1>0, <1>2, <1>4, <1>6 DEF KeepsTurn
  <1> QED BY <1>0, <1>2, <1>7 DEF RunTurn, Begun

\* A write of the TaskContext that goes through.
LEMMA WriteTurns ==
  ASSUME TypeInv, Begun, NEW w \in Runs, pc[w] \in InVersioned,
         UNCHANGED <<queued, raised, outside>>, WriteSucceeded(w),
         PinnedUpdate(ver[w], WriteState(kind[w]), WriteMessage(kind[w]), <<>>, pending[w])
  PROVE  RunTurn(w)
  <1> DEFINE k == kind[w]
  <1>0. /\ w \in Procs /\ pc \in [Procs -> Awaits] /\ history \o <<>> = history
        /\ k \in WriteKinds
    BY KindsOfProcess DEF TypeInv, TypeOK, PcTypeOK, StoreTypeOK, ContextTypeOK
  <1>1. Working(w) /\ w \notin turnEnded /\ pc[w] \in Engaged
    BY OpenTurn DEF InVersioned, EndedAt, Engaged
  <1>2. history' = history
    BY <1>0 DEF PinnedUpdate, ApplyUpdate
  <1>3. CASE k \in {"flush", "status"}
    <2>1. k \notin LifecycleCalls
      BY <1>3 DEF LifecycleCalls
    <2>2. tstate' = tstate
      BY <2>1 DEF PinnedUpdate, ApplyUpdate, WriteState
    <2>3. turnEnded' = turnEnded
      BY <2>1 DEF WriteSucceeded
    <2>4. OwnerWrites(w)
      BY <1>1, <1>2, <2>2 DEF OwnerWrites
    <2>5. KeepsTurn(w)
      BY <1>1, <2>3, <2>4 DEF KeepsTurn
    <2> QED BY <1>1, <2>3, <2>5 DEF RunTurn, Begun
  <1>4. CASE k \in LifecycleCalls
    <2>1. CallState[k] \in Terminal \cup Paused /\ CallState[k] # None
      BY <1>0, <1>4, WriteArguments DEF Terminal, Paused, None
    <2>2. tstate' = CallState[k] /\ tstate \notin Terminal /\ statusMsg' = WriteMessage(k)
      BY <1>4, <2>1 DEF PinnedUpdate, ApplyUpdate, WriteState, TerminalGuard
    <2>3. turnEnded' = turnEnded \cup {w} /\ pc'[w] = "end_publish"
      BY <1>0, <1>4 DEF WriteSucceeded, Goto, LifecycleCalls
    <2>4. ~Working(w)'
      BY <2>3 DEF Working
    <2>5. tstate' \in Paused => statusMsg' = tstate'
      <3>1. WriteMessage(k) = CallMessage(k)
        BY <1>4 DEF WriteMessage, LifecycleCalls
      <3>2. k = "complete" => CallState[k] = "completed"
        BY <1>4 DEF CallState
      <3> QED BY <2>2, <3>1, <3>2 DEF CallMessage, Paused
    <2>6. OwnerWrites(w)
      BY <1>1, <1>2, <2>1, <2>2, <2>4, <2>5 DEF OwnerWrites
    <2>7. KeepsTurn(w)
      BY <1>1, <2>3, <2>4, <2>6 DEF KeepsTurn
    <2> QED BY <1>1, <2>3, <2>7 DEF RunTurn, Begun, EndedAt
  <1> QED BY <1>0, <1>3, <1>4 DEF WriteKinds

\* A step that leaves the row and the turns as they are.
LEMMA QuietTurns ==
  ASSUME Begun, NEW w \in Runs, SameStatus,
         UNCHANGED <<queued, raised, outside, turnEnded>>,
         Working(w)' => Working(w),
         w \in turnEnded => pc'[w] \in EndedAt,
         pc'[w] \in Engaged /\ w \notin turnEnded =>
           pc[w] \in Engaged \/ tstate \in {"working"} \cup Terminal
  PROVE  RunTurn(w)
  BY DEF RunTurn, KeepsTurn, Begun, SameStatus

LEMMA ContextTurns ==
  ASSUME TypeInv, Begun, NEW w \in Runs, RunContext(w)
  PROVE  RunTurn(w)
  <1>0. w \in Procs /\ pc \in [Procs -> Awaits] /\ UNCHANGED <<queued, raised, outside>>
    BY KindsOfProcess DEF TypeInv, TypeOK, PcTypeOK, RunContext, adapterVars
  <1>1. ASSUME pc[w] \in InVersioned, UNCHANGED <<storeVars, turnEnded>>
        PROVE  RunTurn(w)
    <2>1. Working(w) /\ w \notin turnEnded /\ pc[w] \in Engaged
      BY <1>1, OpenTurn DEF InVersioned, EndedAt, Engaged
    <2> QED BY <1>0, <1>1, <2>1, QuietTurns DEF SameStatus, storeVars
  <1>2. CASE VersionedWrite(w) \/ RetryWrite(w)
    <2>1. pc[w] \in InVersioned
      BY <1>2 DEF VersionedWrite, RetryWrite, InVersioned
    <2>2. \/ UNCHANGED <<storeVars, turnEnded>>
          \/ /\ WriteSucceeded(w)
             /\ PinnedUpdate(ver[w], WriteState(kind[w]), WriteMessage(kind[w]), <<>>, pending[w])
      BY <1>2 DEF VersionedWrite, RetryWrite
    <2> QED BY <1>0, <1>1, <2>1, <2>2, WriteTurns
  <1>3. CASE ReloadOnConflict(w) \/ FreshVersion(w) \/ RefreshVersion(w)
    <2>1. pc[w] \in InVersioned /\ UNCHANGED <<storeVars, turnEnded>>
      BY <1>3 DEF ReloadOnConflict, FreshVersion, RefreshVersion, InVersioned, contextVars
    <2> QED BY <1>1, <2>1
  <1>4. CASE PublishProgress(w) \/ PublishEnd(w)
    <2>1. /\ pc[w] \in {"p_publish", "end_publish"} /\ pc'[w] = "handle"
          /\ UNCHANGED <<storeVars, turnEnded>>
      BY <1>0, <1>4 DEF PublishProgress, PublishEnd, contextVars, Goto
    <2>2. Working(w)' => Working(w)
      BY <2>1 DEF Working, InTurn
    <2>3. pc[w] \in Engaged
      BY <2>1 DEF Engaged
    <2> QED BY <1>0, <2>1, <2>2, <2>3, QuietTurns DEF SameStatus, storeVars, EndedAt
  <1> QED BY <1>2, <1>3, <1>4 DEF RunContext, ContextStep

\* The steps of a run.
LEMMA RunTurns ==
  ASSUME TypeInv, Begun, NEW w \in Runs, Work(w) \/ UserCode(w) \/ Interrupt(w)
  PROVE  RunTurn(w)
  <1>0. /\ w \in Procs /\ pc \in [Procs -> Awaits] /\ turnEnded \in SUBSET Runs
        /\ history \o <<>> = history /\ raised = {} /\ outside = {}
        /\ w \in turnEnded => pc[w] \in EndedAt
    BY KindsOfProcess DEF TypeInv, TypeOK, PcTypeOK, StoreTypeOK, ContextTypeOK, Begun
  <1>1. CASE TakeOperation(w)
    <2>1. PICK a \in Attempts :
            /\ Receive(a)
            /\ IF a > MaxRetries
                 THEN Goto(w, "m_version") /\ outside' = outside \cup {w}
                 ELSE Goto(w, "check_cancel") /\ UNCHANGED outside
      BY <1>1 DEF TakeOperation
    <2>2. a = 1
      BY <2>1 DEF Begun, Receive
    <2>3. ~(a > MaxRetries)
      BY <2>2, MaxRetriesAssumption
    <2>4. pc[w] = "idle" /\ pc'[w] = "check_cancel" /\ outside' = {} /\ Receive(1)
      BY <1>0, <1>1, <2>1, <2>2, <2>3 DEF TakeOperation, Goto
    <2>5. SameStatus /\ turnEnded' = turnEnded /\ raised' = {} /\ w \notin turnEnded
      BY <1>0, <1>1, <2>4 DEF TakeOperation, SameStatus, storeVars, contextVars, EndedAt
    <2> QED BY <2>4, <2>5 DEF RunTurn, TakesTurn
  <1>2. CASE SetWorking(w)
    <2>1. /\ Working(w) /\ w \notin turnEnded /\ pc[w] = "set_working"
          /\ UNCHANGED <<queued, turnEnded, raised, outside>>
      BY <1>2, OpenTurn DEF SetWorking, EndedAt, contextVars
    <2>2. CASE BlindUpdate("working", None, <<>>, {})
      <3>1. tstate' = "working" /\ tstate \notin Terminal /\ history' = history
        BY <1>0, <2>2 DEF BlindUpdate, ApplyUpdate, TerminalGuard, None
      <3>2. OwnerWrites(w)
        BY <2>1, <3>1 DEF OwnerWrites
      <3> QED BY <1>0, <2>1, <3>1, <3>2 DEF RunTurn, KeepsTurn
    <2>3. CASE ~BlindUpdate("working", None, <<>>, {})
      <3>1. SameStatus /\ pc'[w] = "fin_load"
        BY <1>0, <1>2, <2>3 DEF SetWorking, SameStatus, storeVars, Goto
      <3> QED BY <2>1, <3>1, QuietTurns DEF Engaged, InVersioned, InMarkFailed
    <2> QED BY <2>2, <2>3
  <1>3. CASE CheckCancelled(w) \/ CancelBeforeRun(w)
    <2>1. /\ pc[w] \in {"check_cancel", "cancel_preload"}
          /\ pc'[w] \in {"cancel_preload", "set_working", "fin_load", "c_version"}
          /\ UNCHANGED <<queued, turnEnded, raised, outside>> /\ SameStatus
      BY <1>0, <1>3 DEF CheckCancelled, CancelBeforeRun, Goto, contextVars, adapterVars,
         SameStatus, storeVars
    <2>2. Working(w) /\ w \notin turnEnded
      BY <2>1, OpenTurn DEF EndedAt
    <2> QED BY <2>1, <2>2, QuietTurns DEF Engaged, InVersioned, InMarkFailed
  <1>4. CASE AnnounceWorking(w)
    <2>1. /\ pc[w] = "announce_working" /\ UNCHANGED <<queued, turnEnded, raised, outside>>
          /\ SameStatus
      BY <1>4 DEF AnnounceWorking, contextVars, adapterVars, SameStatus, storeVars
    <2>2. Working(w) /\ w \notin turnEnded
      BY <2>1, OpenTurn DEF EndedAt
    <2> QED BY <2>1, <2>2, QuietTurns DEF Engaged
  <1>5. CASE FinallyLoad(w) \/ FinallyCleanBus(w) \/ FinallyCleanKey(w)
    <2>1. /\ pc'[w] \in {"fin_bus", "fin_key", "settle"}
          /\ UNCHANGED <<queued, turnEnded, raised, outside>> /\ SameStatus
      BY <1>0, <1>5 DEF FinallyLoad, FinallyCleanBus, FinallyCleanKey, Goto, contextVars,
         adapterVars, SameStatus, storeVars
    <2>2. ~Working(w)' /\ pc'[w] \in EndedAt /\ pc'[w] \notin Engaged
      BY <2>1 DEF Working, InTurn, EndedAt, Engaged, InVersioned, InMarkFailed
    <2> QED BY <2>1, <2>2, QuietTurns
  <1>6. CASE Settle(w) \/ AckAfterMark(w)
    <2>1. /\ queued' = queued /\ SameStatus /\ Forget(w)
      BY <1>0, <1>6 DEF Settle, AckAfterMark, SameStatus, storeVars
    <2>2. turnEnded' = turnEnded \ {w} /\ raised' = {} /\ outside' = {} /\ pc'[w] = "idle"
      BY <1>0, <2>1 DEF Forget, Goto
    <2>3. ~Working(w)' /\ pc'[w] \notin Engaged
      BY <2>2 DEF Working, InTurn, Engaged, InVersioned, InMarkFailed
    <2> QED BY <2>1, <2>2, <2>3 DEF RunTurn, KeepsTurn
  <1>7. CASE UserCode(w) \/ Interrupt(w)
    <2>1. /\ UNCHANGED <<queued, turnEnded, raised, outside>> /\ SameStatus
      BY <1>7 DEF UserCode, UserStep, HandlerCalls, HandlerCall, EmitArtifact, SendStatus,
         CallLifecycle, HandlerReturns, HandlerRaises, Interrupt, CancelDelivered,
         contextVars, adapterVars, SameStatus, storeVars
    <2>2. pc[w] \in Cancellable
      BY <1>7 DEF UserCode, UserStep, HandlerCalls, HandlerCall, EmitArtifact, SendStatus,
         CallLifecycle, HandlerReturns, HandlerRaises, Interrupt, CancelDelivered, Cancellable
    <2>3. w \in turnEnded => pc'[w] = "fin_load"
      BY <1>0, <1>7 DEF UserCode, UserStep, HandlerCalls, HandlerCall, EmitArtifact, SendStatus,
         CallLifecycle, HandlerReturns, HandlerRaises, Interrupt, CancelDelivered, Goto
    <2>4. pc[w] \in Engaged
      BY <2>2 DEF Cancellable, Engaged, InVersioned
    <2>5. w \notin turnEnded => Working(w)
      BY <2>2 DEF Working, InTurn, Cancellable
    <2>6. Working(w)' => Working(w)
      BY <2>1, <2>5 DEF Working
    <2> QED BY <2>1, <2>3, <2>4, <2>6, QuietTurns DEF EndedAt
  <1> QED BY <1>1, <1>2, <1>3, <1>4, <1>5, <1>6, <1>7, ContextTurns, CancelTurns, MarkTurns
          DEF Work, RunStep

\* What a request does with a turn: open it, hand it to the broker, or neither.
OpensTurn(r) ==
  /\ Submitting' = Submitting \cup {r} /\ queued' = queued
  /\ tstate' = "submitted"
  /\ \/ tstate = "absent" /\ history' = <<MsgOf[r]>>
     \/ tstate \in Paused /\ ~InHistory(MsgOf[r]) /\ history' = Append(history, MsgOf[r])

HandsTurn(r) ==
  /\ r \in Submitting /\ Submitting' = Submitting \ {r}
  /\ RunTask /\ SameStatus

PassesTurn ==
  /\ Submitting' \subseteq Submitting /\ queued' = queued
  /\ SameStatus \/ (tstate = "submitted" /\ tstate' = "failed" /\ history' = history)

LEMMA RequestTurns ==
  ASSUME MarkInv, Undisturbed', NEW r \in Requests, Submit(r) \/ Dispatch(r) \/ TimeOut(r)
  PROVE  OpensTurn(r) \/ HandsTurn(r) \/ PassesTurn
  <1> DEFINE Sub == {"tenant", "announce", "subscribe", "enqueue"}
  <1>0. /\ TypeInv /\ r \in Procs /\ pc \in [Procs -> Awaits] /\ history \in Seq(Messages)
        /\ history \o <<>> = history /\ MsgOf[r] \in Messages /\ Moves(r)
    BY StepMoves, KindsOfProcess, RequestAssumption
       DEF MarkInv, HistoryInv, TypeInv, TypeOK, PcTypeOK, StoreTypeOK
  <1>1. r \in Submitting <=> pc[r] \in Sub
    BY DEF Submitting
  <1>2. /\ pc'[r] \in Sub => Submitting' = Submitting \cup {r}
        /\ pc'[r] \notin Sub => Submitting' = Submitting \ {r}
    BY <1>0, SetsAfter
  <1>4. ASSUME queued' = queued, SameStatus, pc'[r] \in Sub => pc[r] \in Sub PROVE PassesTurn
    BY <1>1, <1>2, <1>4 DEF PassesTurn
  <1>5. CASE CreateTask(r) /\ tstate = "absent"
    <2>1. queued' = queued /\ pc'[r] \in Sub /\ history' = <<MsgOf[r]>> /\ tstate' = "submitted"
      BY <1>0, <1>5 DEF CreateTask, InsertTask, Goto
    <2> QED BY <1>2, <1>5, <2>1 DEF OpensTurn
  <1>6. CASE AppendMessage(r) /\ FollowUp(r)
    <2>1. /\ queued' = queued /\ pc'[r] \in Sub /\ history' = history \o <<MsgOf[r]>>
          /\ ver[r] = version /\ pc[r] = "append"
          /\ tstate' = IF newState[r] = None THEN tstate ELSE newState[r]
      BY <1>0, <1>6 DEF AppendMessage, FollowUp, PinnedUpdate, ApplyUpdate, UpdateRefused,
         VersionMismatch, Goto
    <2>2. history' = Append(history, MsgOf[r])
      BY <1>0, <2>1
    <2>3. ~InHistory(MsgOf[r]) /\ Accepts(MsgOf[r]) /\ newState[r] = StateTransition
      BY <2>1 DEF MarkInv, HistoryInv, AppendReady
    <2>4. MsgOf[r] \notin AgentRole
      <3>1. Len(history) + 1 \in DOMAIN history' /\ history'[Len(history) + 1] = MsgOf[r]
        BY <1>0, <2>2
      <3> QED BY <3>1 DEF Undisturbed
    <2>5. tstate \in Paused /\ tstate' = "submitted"
      BY <2>1, <2>3, <2>4 DEF Accepts, StateTransition, None
    <2> QED BY <1>2, <2>1, <2>2, <2>3, <2>5 DEF OpensTurn
  <1>7. CASE Submit(r)
    <2>1. ASSUME CreateTask(r), tstate # "absent"
          PROVE  queued' = queued /\ pc'[r] \notin Sub /\ SameStatus
      BY <1>0, <2>1 DEF CreateTask, Goto, SameStatus, storeVars
    <2>2. ASSUME AppendMessage(r), ~FollowUp(r)
          PROVE  queued' = queued /\ pc'[r] \notin Sub /\ SameStatus
      BY <1>0, <2>2 DEF AppendMessage, FollowUp, Goto, SameStatus, storeVars
    <2>3. ASSUME ~CreateTask(r), ~AppendMessage(r)
          PROVE  queued' = queued /\ (pc'[r] \in Sub => pc[r] \in Sub) /\ SameStatus
      BY <1>0, <1>7, <2>3 DEF Submit, SubmitStep, WriteTenant, GetVersion, LoadAndValidate,
         ReloadAfterConflict, AnnounceSubmitted, Goto, SameStatus, storeVars, BlindUpdate,
         ApplyUpdate, None
    <2> QED BY <1>4, <1>5, <1>6, <2>1, <2>2, <2>3
  <1>8. CASE Dispatch(r) /\ Enqueue(r)
    <2>1. /\ pc[r] = "enqueue" /\ pc'[r] \notin Sub /\ SameStatus
          /\ RunTask \/ queued' = queued
      BY <1>0, <1>8 DEF Enqueue, Goto, SameStatus, storeVars
    <2> QED BY <1>1, <1>2, <1>4, <2>1 DEF HandsTurn
  <1>9. CASE Dispatch(r) /\ EnqueueFailedWrite(r)
    <2>1. pc[r] = "fail_write" /\ queued' = queued /\ pc'[r] \notin Sub
      BY <1>0, <1>9 DEF EnqueueFailedWrite, Goto
    <2>2. \/ SameStatus
          \/ ver[r] = version /\ tstate' = "failed" /\ history' = history
      BY <1>0, <1>9 DEF EnqueueFailedWrite, PinnedUpdate, ApplyUpdate, VersionMismatch,
         SameStatus, storeVars, None
    <2>3. ver[r] = version => tstate = "submitted"
      BY <2>1 DEF MarkInv, MarkReady
    <2> QED BY <1>2, <2>1, <2>2, <2>3 DEF PassesTurn
  <1>10. CASE Dispatch(r) /\ ~Enqueue(r) /\ ~EnqueueFailedWrite(r)
    <2>1. queued' = queued /\ (pc'[r] \in Sub => pc[r] \in Sub) /\ SameStatus
      BY <1>0, <1>10 DEF Dispatch, DispatchStep, SubscribeFirst, EnqueueFailedVersion,
         EnqueueFailedLoad, EnqueueFailedPublish, AnswerDuplicate, SnapshotLoad, Goto,
         SameStatus, storeVars
    <2> QED BY <1>4, <2>1
  <1>11. CASE TimeOut(r)
    <2>1. queued' = queued /\ pc' = pc /\ SameStatus
      BY <1>11 DEF TimeOut, BlockingTimeout, SameStatus, storeVars
    <2> QED BY <1>4, <2>1
  <1> QED BY <1>7, <1>8, <1>9, <1>10, <1>11

\* Watchers and cancels own no turn; a timer may cancel the task.
LEMMA OtherTurns ==
  ASSUME TypeInv, Untouched, NEW p \in Watchers \cup Cancels,
         Watch(p) \/ CallCancel(p) \/ ForceCancel(p)
  PROVE  /\ Submitting' = Submitting /\ queued' = queued
         /\ \/ SameStatus
            \/ tstate \notin Terminal \cup {"absent"} /\ tstate' = "canceled" /\ history' = history
  <1>0. history \o <<>> = history
    BY DEF TypeInv, TypeOK, StoreTypeOK
  <1>1. queued' = queued
    BY DEF Watch, Resubscribe, SnapshotLoad, CallCancel, CancelCallStep, CancelTaskLoad,
       CancelTaskCheck, CancelTaskRequest, ForceCancel, ForceCancelStep, ForceCancelLoad,
       ForceCancelInStorage, ForceCancelCleanBus, ForceCancelCleanKey
  <1>2. Submitting' = Submitting
    BY OtherCounts DEF Uncounted
  <1>3. ASSUME CancelInStorage(p)
        PROVE  \/ SameStatus
               \/ tstate \notin Terminal \cup {"absent"} /\ tstate' = "canceled" /\ history' = history
    <2>1. pc[p] \in {"c_version", "c_load", "c_write", "c_version2", "c_load2", "c_write2",
                     "c_artifacts", "c_publish"}
      BY <1>3 DEF CancelInStorage, CancelGetVersion, CancelLoad, CancelWrite, CancelReload,
         CancelRetry, WriteArtifactsOnly, CancelPublish
    <2>2. tstate # "absent"
      BY <2>1 DEF Untouched
    <2> QED BY <1>0, <1>3, <2>2 DEF CancelInStorage, CancelGetVersion, CancelLoad, CancelWrite,
          CancelReload, CancelRetry, WriteArtifactsOnly, CancelPublish, storeVars, SameStatus,
          PinnedUpdate, BlindUpdate, ApplyUpdate, TerminalGuard, None
  <1>4. ASSUME ~CancelInStorage(p) PROVE SameStatus
    BY <1>4 DEF Watch, Resubscribe, SnapshotLoad, CallCancel, CancelCallStep, CancelTaskLoad,
       CancelTaskCheck, CancelTaskRequest, ForceCancel, ForceCancelStep, ForceCancelLoad,
       ForceCancelInStorage, ForceCancelCleanBus, ForceCancelCleanKey, SameStatus, storeVars
  <1> QED BY <1>1, <1>2, <1>3, <1>4

\* Faults and messages stay, so what was disturbed stays disturbed, and an
\* undisturbed step is not a fault.
LEMMA StaysDisturbed ==
  ASSUME TypeInv, Untouched, Next, Undisturbed'
  PROVE  /\ Undisturbed
         /\ \A p \in Requests \cup Cancels : ~CallFault(p)
         /\ \A w \in Runs : ~RunFault(w)
  <1>0. faults \in Nat /\ history \in Seq(Messages) /\ MsgOf \in [Requests -> Messages]
    BY ProcsAssumption, RequestAssumption DEF TypeInv, TypeOK, LocalTypeOK, StoreTypeOK
  <1>1. faults' = 0 /\ \A i \in DOMAIN history' : history'[i] \notin AgentRole
    BY DEF Undisturbed
  <1>2. ~Fault
    BY <1>0, <1>1 DEF Fault
  <1>3. /\ \A p \in Requests \cup Cancels : ~CallFault(p)
        /\ \A w \in Runs : ~RunFault(w)
    BY <1>2 DEF CallFault, CallRaises, RunFault, StorageRaises, WorkerCrashes
  <1>4. faults' = faults
    <2>1. ASSUME NEW r \in Requests, Submit(r) \/ Dispatch(r) \/ TimeOut(r) PROVE faults' = faults
      BY <2>1 DEF Submit, SubmitStep, CreateTask, WriteTenant, GetVersion,
         LoadAndValidate, AppendMessage, ReloadAfterConflict, AnnounceSubmitted,
         Dispatch, DispatchStep, SubscribeFirst, Enqueue, EnqueueFailedVersion,
         EnqueueFailedLoad, EnqueueFailedWrite, EnqueueFailedPublish, AnswerDuplicate,
         SnapshotLoad, TimeOut, BlockingTimeout
    <2>2. ASSUME NEW p, CancelInStorage(p) PROVE faults' = faults
      BY <2>2 DEF CancelInStorage, CancelGetVersion, CancelLoad, CancelWrite, CancelReload,
         CancelRetry, WriteArtifactsOnly, CancelPublish
    <2>3. ASSUME NEW p \in Watchers \cup Cancels, Watch(p) \/ CallCancel(p) \/ ForceCancel(p)
          PROVE  faults' = faults
      BY <2>2, <2>3 DEF Watch, Resubscribe, SnapshotLoad, CallCancel, CancelCallStep,
         CancelTaskLoad, CancelTaskCheck, CancelTaskRequest, ForceCancel, ForceCancelStep,
         ForceCancelLoad, ForceCancelInStorage, ForceCancelCleanBus, ForceCancelCleanKey
    <2>4. ASSUME NEW w \in Runs, Work(w) PROVE faults' = faults
      BY <2>2, <2>4 DEF Work, RunStep, TakeOperation, CheckCancelled, CancelBeforeRun,
         SetWorking, AnnounceWorking, RunContext, ContextStep, VersionedWrite,
         ReloadOnConflict, FreshVersion, RetryWrite, RefreshVersion, PublishProgress,
         PublishEnd, CancelRun, MarkFailed, FinallyLoad, FinallyCleanBus, FinallyCleanKey,
         Settle, AckAfterMark
    <2>5. ASSUME NEW w \in Runs, UserCode(w) \/ Interrupt(w) PROVE faults' = faults
      BY <2>5 DEF UserCode, UserStep, HandlerCalls, HandlerCall, EmitArtifact, SendStatus,
         CallLifecycle, HandlerReturns, HandlerRaises, Interrupt, CancelDelivered
    <2> QED BY <1>3, <2>1, <2>3, <2>4, <2>5 DEF Next
  <1>5. \A i \in DOMAIN history : i \in DOMAIN history' /\ history'[i] = history[i]
    <2>1. CASE history' = history
      BY <2>1
    <2>2. CASE tstate = "absent"
      BY <2>2 DEF Untouched
    <2>3. CASE \E r \in Requests : history' = Append(history, MsgOf[r])
      BY <1>0, <2>3
    <2> QED BY <2>1, <2>2, <2>3, HistorySteps DEF storeVars
  <1> QED BY <1>1, <1>3, <1>4, <1>5 DEF Undisturbed

TurnInv == Sole /\ Begun /\ PauseShowsQuestion

\* A step of a run.
LEMMA TurnRun ==
  ASSUME TypeInv, TypeInv', TurnInv, NEW w \in Runs, RunTurn(w), Moves(w)
  PROVE  TurnInv'
  <1>0. /\ queued \in [Attempts -> Nat] /\ 1 \in Attempts /\ turnEnded \in SUBSET Runs
        /\ Sole /\ Begun /\ PauseShowsQuestion
    BY MaxRetriesAssumption DEF TypeInv, TypeOK, BrokerTypeOK, ContextTypeOK, TurnInv, Attempts
  <1>1. Submitting' = Submitting
    BY SetsAfter, KindsOfProcess
  <1>2. \A v \in Runs : v # w => /\ pc'[v] = pc[v] /\ (v \in turnEnded' <=> v \in turnEnded)
                                /\ (Working(v)' <=> Working(v))
    BY OthersStay, KindsOfProcess DEF RunTurn, Working, InTurn
  <1>3. CASE TakesTurn(w)
    <2>0. queued[1] > 0 /\ queued' = [queued EXCEPT ![1] = queued[1] - 1]
      BY <1>3 DEF TakesTurn, Receive
    <2>1. queued[1] = 1
      BY <1>0, <2>0 DEF Sole
    <2>2. queued'[1] = 0 /\ \A a \in Attempts : a # 1 => queued'[a] = 0
      BY <1>0, <2>0, <2>1 DEF Begun
    <2>3. Submitting = {} /\ (\A v \in Runs : ~Working(v)) /\ tstate \notin Paused
      BY <1>0, <2>1 DEF Sole
    <2>4. tstate' = tstate /\ statusMsg' = statusMsg /\ pc'[w] = "check_cancel"
      BY <1>3 DEF TakesTurn, SameStatus
    <2>5. Sole'
      BY <1>1, <1>2, <2>2, <2>3, <2>4 DEF Sole
    <2>6. Begun'
      <3>1. \A v \in turnEnded' : pc'[v] \in EndedAt
        <4>1. turnEnded' = turnEnded
          BY <1>3 DEF TakesTurn
        <4> QED BY <1>0, <1>2, <4>1 DEF Begun, RunTurn
      <3>2. \A v \in Runs : pc'[v] \in Engaged /\ v \notin turnEnded' => tstate' \in {"working"} \cup Terminal
        BY <1>0, <1>2, <2>4 DEF Begun, Engaged, InVersioned, InMarkFailed
      <3> QED BY <2>2, <3>1, <3>2 DEF Begun, RunTurn
    <2> QED BY <1>0, <2>4, <2>5, <2>6 DEF TurnInv, PauseShowsQuestion
  <1>4. CASE KeepsTurn(w)
    <2>0. queued' = queued /\ (Working(w)' => Working(w)) /\ (SameStatus \/ OwnerWrites(w))
      BY <1>4 DEF KeepsTurn
    <2>1. \A v \in Runs : Working(v)' => Working(v)
      BY <1>2, <2>0
    <2>2. tstate' \in Paused => tstate' = tstate \/ (Working(w) /\ ~Working(w)' /\ statusMsg' = tstate')
      BY <2>0 DEF SameStatus, OwnerWrites, Paused, Terminal
    <2>3. Sole'
      BY <1>0, <1>1, <2>0, <2>1, <2>2 DEF Sole
    <2>4. tstate' \in Paused => statusMsg' = tstate'
      <3>1. CASE SameStatus
        BY <1>0, <3>1 DEF SameStatus, PauseShowsQuestion
      <3>2. CASE OwnerWrites(w)
        <4>1. Working(w) /\ tstate \notin Paused
          BY <1>0, <3>2 DEF OwnerWrites, Sole
        <4> QED BY <2>2, <4>1
      <3> QED BY <2>0, <3>1, <3>2
    <2>5. Begun'
      <3>1. \A v \in turnEnded' : pc'[v] \in EndedAt
        <4>1. turnEnded' \subseteq Runs
          BY DEF TypeInv, TypeOK, ContextTypeOK
        <4> QED BY <1>0, <1>2, <4>1 DEF Begun, RunTurn
      <3>2. ASSUME NEW v \in Runs, pc'[v] \in Engaged, v \notin turnEnded'
            PROVE  tstate' \in {"working"} \cup Terminal
        <4>0. Working(v)'
          BY <3>2 DEF Working, InTurn, Engaged, InVersioned, InMarkFailed
        <4>1. CASE v = w
          <5>1. tstate' \in {"working"} \cup Terminal \/ tstate \in {"working"} \cup Terminal
            BY <1>0, <1>4, <3>2, <4>1 DEF Begun, KeepsTurn
          <5> QED BY <2>0, <4>0, <4>1, <5>1 DEF SameStatus, OwnerWrites, Terminal
        <4>2. CASE v # w
          <5>1. Working(v) /\ tstate \in {"working"} \cup Terminal
            BY <1>0, <1>2, <3>2, <4>0, <4>2 DEF Begun
          <5>2. ~OwnerWrites(w)
            BY <1>0, <4>2, <5>1 DEF OwnerWrites, Sole
          <5> QED BY <2>0, <5>1, <5>2 DEF SameStatus
        <4> QED BY <4>1, <4>2
      <3> QED BY <1>0, <2>0, <3>1, <3>2 DEF Begun, RunTurn
    <2> QED BY <2>3, <2>4, <2>5 DEF TurnInv, PauseShowsQuestion
  <1> QED BY <1>3, <1>4 DEF RunTurn

\* A step of a request, a watcher or a cancel.
LEMMA TurnCall ==
  ASSUME TypeInv, Untouched, TurnInv, UNCHANGED workerVars,
         \A w \in Runs : pc'[w] = pc[w],
         \/ \E r \in Requests : OpensTurn(r) \/ HandsTurn(r)
         \/ PassesTurn
         \/ /\ Submitting' = Submitting /\ queued' = queued
            /\ SameStatus \/ tstate' = "canceled"
  PROVE  TurnInv'
  <1>0. /\ queued \in [Attempts -> Nat] /\ 1 \in Attempts
        /\ Sole /\ Begun /\ PauseShowsQuestion
        /\ UNCHANGED <<turnEnded, raised, outside>>
    BY MaxRetriesAssumption DEF TypeInv, TypeOK, BrokerTypeOK, TurnInv, Attempts, workerVars,
       contextVars, adapterVars
  <1>1. \A w \in Runs : Working(w)' <=> Working(w)
    BY <1>0 DEF Working, InTurn
  <1>2. \A w \in Runs : pc[w] \in Engaged /\ w \notin turnEnded => Working(w)
    BY DEF Working, InTurn, Engaged, InVersioned, InMarkFailed
  <1>3. (\A w \in turnEnded' : pc'[w] \in EndedAt) /\ raised' = {} /\ outside' = {}
    <2>1. turnEnded \subseteq Runs
      BY DEF TypeInv, TypeOK, ContextTypeOK
    <2> QED BY <1>0, <2>1 DEF Begun
  <1>4. ASSUME tstate' \in Paused => tstate' = tstate /\ statusMsg' = statusMsg,
               queued' = queued, Submitting' \subseteq Submitting,
               tstate' = tstate \/ tstate' \in Terminal
        PROVE  TurnInv'
    <2>1. Sole'
      BY <1>0, <1>1, <1>4 DEF Sole
    <2>2. Begun'
      BY <1>0, <1>3, <1>4 DEF Begun
    <2> QED BY <1>0, <1>4, <2>1, <2>2 DEF TurnInv, PauseShowsQuestion
  <1>5. CASE PassesTurn
    BY <1>4, <1>5 DEF PassesTurn, SameStatus, Paused, Terminal
  <1>6. CASE /\ Submitting' = Submitting /\ queued' = queued
             /\ SameStatus \/ tstate' = "canceled"
    BY <1>4, <1>6 DEF SameStatus, Paused, Terminal
  <1>7. ASSUME NEW r \in Requests, OpensTurn(r) PROVE TurnInv'
    <2>1. Submitting = {} /\ queued[1] = 0 /\ \A w \in Runs : ~Working(w)
      <3>1. CASE tstate = "absent"
        BY <1>0, <3>1 DEF Untouched, Submitting, Working, InTurn
      <3>2. CASE tstate \in Paused
        BY <1>0, <3>2 DEF Sole
      <3> QED BY <1>7, <3>1, <3>2 DEF OpensTurn
    <2>2. Submitting' = {r} /\ queued' = queued /\ tstate' = "submitted" /\ tstate' \notin Paused
      BY <1>7, <2>1 DEF OpensTurn, Paused
    <2>3. Sole'
      BY <1>0, <1>1, <2>1, <2>2 DEF Sole
    <2>4. Begun'
      BY <1>0, <1>2, <1>3, <2>1, <2>2 DEF Begun
    <2> QED BY <2>2, <2>3, <2>4 DEF TurnInv, PauseShowsQuestion
  <1>8. ASSUME NEW r \in Requests, HandsTurn(r) PROVE TurnInv'
    <2>1. r \in Submitting /\ Submitting' = Submitting \ {r} /\ SameStatus
      BY <1>8 DEF HandsTurn
    <2>2. queued[1] = 0 /\ (\A w \in Runs : ~Working(w)) /\ tstate \notin Paused /\ Submitting' = {}
      BY <1>0, <2>1 DEF Sole
    <2>3. queued'[1] = 1 /\ \A a \in Attempts : a # 1 => queued'[a] = queued[a]
      BY <1>0, <1>8, <2>2 DEF HandsTurn, RunTask
    <2>4. Sole'
      BY <1>1, <2>1, <2>2, <2>3 DEF Sole, SameStatus
    <2>5. Begun'
      BY <1>0, <1>3, <2>1, <2>3 DEF Begun, SameStatus
    <2> QED BY <2>1, <2>2, <2>4, <2>5 DEF TurnInv, PauseShowsQuestion, SameStatus
  <1> QED BY <1>5, <1>6, <1>7, <1>8

LEMMA TurnNext ==
  ASSUME MarkInv, TypeInv', Untouched, TurnInv, Next, Undisturbed' PROVE TurnInv'
  <1>0. TypeInv /\ Begun
    BY DEF MarkInv, HistoryInv, TurnInv
  <1>1. ASSUME NEW p \in Procs, p \notin Runs, Moves(p) PROVE \A w \in Runs : pc'[w] = pc[w]
    BY <1>0, <1>1, OthersStay, KindsOfProcess
  <1>2. ASSUME NEW r \in Requests, Submit(r) \/ Dispatch(r) \/ TimeOut(r) PROVE TurnInv'
    <2>1. UNCHANGED workerVars
      BY <1>2 DEF Submit, Dispatch, TimeOut
    <2>2. \A w \in Runs : pc'[w] = pc[w]
      BY <1>1, <1>2, StepMoves, KindsOfProcess
    <2> QED BY <1>0, <1>2, <2>1, <2>2, RequestTurns, TurnCall
  <1>3. ASSUME NEW p \in Watchers, Watch(p) PROVE TurnInv'
    <2>1. UNCHANGED workerVars /\ \A w \in Runs : pc'[w] = pc[w]
      BY <1>1, <1>3, StepMoves, KindsOfProcess DEF Watch
    <2> QED BY <1>0, <1>3, <2>1, OtherTurns, TurnCall
  <1>4. ASSUME NEW p \in Cancels, CallCancel(p) \/ ForceCancel(p) PROVE TurnInv'
    <2>1. UNCHANGED workerVars /\ \A w \in Runs : pc'[w] = pc[w]
      BY <1>1, <1>4, StepMoves, KindsOfProcess DEF CallCancel, ForceCancel
    <2> QED BY <1>0, <1>4, <2>1, OtherTurns, TurnCall
  <1>5. ASSUME NEW w \in Runs, Work(w) \/ UserCode(w) \/ Interrupt(w) PROVE TurnInv'
    BY <1>0, <1>5, RunTurns, StepMoves, TurnRun
  <1> QED BY <1>0, <1>2, <1>3, <1>4, <1>5, StaysDisturbed DEF Next

LEMMA TurnInductive == Spec => [](MarkInv /\ Untouched /\ (Undisturbed => TurnInv))
  <1>1. ASSUME Init PROVE TurnInv
    <2>1. \A p \in Procs : pc[p] = FirstStep(p)
      BY <1>1 DEF Init
    <2>2. Submitting = {} /\ \A w \in Runs : pc[w] = "idle"
      BY <2>1, KindsOfProcess, RequestAssumption DEF Submitting, FirstStep
    <2>3. \A w \in Runs : ~Working(w) /\ pc[w] \notin Engaged
      BY <2>2 DEF Working, InTurn, Engaged, InVersioned, InMarkFailed
    <2>4. /\ tstate = "absent" /\ raised = {} /\ outside = {} /\ turnEnded = {}
          /\ queued = [a \in Attempts |-> 0] /\ 1 \in Attempts
      BY <1>1, MaxRetriesAssumption DEF Init, StoreInit, AdapterInit, ContextInit, BrokerInit, Attempts
    <2> QED BY <2>2, <2>3, <2>4 DEF TurnInv, Sole, Begun, PauseShowsQuestion, Paused
  <1>2. ASSUME MarkInv, MarkInv', Untouched, Undisturbed => TurnInv, [Next]_vars
        PROVE  (Undisturbed => TurnInv)'
    <2>0. TypeInv /\ TypeInv'
      BY <1>2 DEF MarkInv, HistoryInv
    <2>1. CASE UNCHANGED vars
      <3>1. UNCHANGED <<tstate, statusMsg, history, queued, pc, faults, turnEnded, raised, outside>>
        BY <2>1 DEF vars, storeVars, workerVars, contextVars, adapterVars
      <3> QED BY <1>2, <3>1 DEF Undisturbed, TurnInv, Sole, Begun, PauseShowsQuestion,
            Submitting, Working, InTurn
    <2>2. CASE Next
      BY <1>2, <2>0, <2>2, StaysDisturbed, TurnNext
    <2> QED BY <1>2, <2>1, <2>2
  <1> QED BY <1>1, <1>2, MarkInductive, UntouchedInductive, PTL DEF Spec

\* A paused task shows the question of the turn that paused it, whatever
\* follow-ups, retries, watchers and cancels do meanwhile, as long as storage
\* does not fail, no worker dies and no message of role agent was sent.
THEOREM PausesShowQuestion == Spec => [](Undisturbed => PauseShowsQuestion)
  <1>1. TurnInv => PauseShowsQuestion
    BY DEF TurnInv
  <1> QED BY <1>1, TurnInductive, PTL

-----------------------------------------------------------------------------
(* The lifecycle.                                                          *)

LEMMA ProtocolStep ==
  ASSUME MarkInv, Untouched, TurnInv, Next, Undisturbed'
  PROVE  [Protocol!Next]_(Protocol!vars)
  <1> DEFINE Goal == Protocol!Next \/ UNCHANGED Protocol!vars
  <1>0. /\ TypeInv /\ Begun /\ Sole /\ tstate \in TaskStates /\ Terminal \cup Paused \subseteq TaskStates
        /\ MsgOf \in [Requests -> Messages]
    BY RequestAssumption DEF MarkInv, HistoryInv, TypeInv, TypeOK, StoreTypeOK, TurnInv, TaskStates
  <1>1. ASSUME SameStatus PROVE Goal
    BY <1>1 DEF SameStatus, Protocol!vars
  <1>2. ASSUME tstate \notin Terminal \cup {"absent"}, tstate' = "canceled", history' = history PROVE Goal
    <2>1. Protocol!Cancel
      BY <1>2 DEF Protocol!Cancel
    <2> QED BY <2>1 DEF Protocol!Next
  <1>3. ASSUME NEW r \in Requests, Submit(r) \/ Dispatch(r) \/ TimeOut(r) PROVE Goal
    <2>1. CASE OpensTurn(r)
      <3>1. MsgOf[r] \in Messages
        BY <1>0
      <3>2. CASE tstate = "absent"
        <4>1. Protocol!Create(MsgOf[r])
          BY <2>1, <3>2 DEF OpensTurn, Protocol!Create, Paused
        <4> QED BY <3>1, <4>1 DEF Protocol!Next
      <3>3. CASE tstate # "absent"
        <4>1. Protocol!Resume(MsgOf[r])
          BY <2>1, <3>3 DEF OpensTurn, InHistory, Protocol!Resume, Protocol!Fresh
        <4> QED BY <3>1, <4>1 DEF Protocol!Next
      <3> QED BY <3>2, <3>3
    <2>2. CASE HandsTurn(r)
      BY <1>1, <2>2 DEF HandsTurn
    <2>3. CASE PassesTurn
      <3>1. ASSUME tstate = "submitted", tstate' = "failed", history' = history PROVE Goal
        BY <3>1 DEF Protocol!FailUnstarted, Protocol!Next
      <3> QED BY <1>1, <2>3, <3>1 DEF PassesTurn
    <2> QED BY <1>3, <2>1, <2>2, <2>3, RequestTurns
  <1>4. ASSUME NEW p \in Watchers \cup Cancels, Watch(p) \/ CallCancel(p) \/ ForceCancel(p) PROVE Goal
    BY <1>0, <1>1, <1>2, <1>4, OtherTurns
  <1>5. ASSUME NEW w \in Runs, Work(w) \/ UserCode(w) \/ Interrupt(w) PROVE Goal
    <2>1. RunTurn(w)
      BY <1>0, <1>5, RunTurns
    <2>2. CASE OwnerWrites(w)
      <3>0. Working(w) /\ history' = history /\ tstate \notin Paused /\ tstate # "absent" /\ w \notin turnEnded
        BY <1>0, <2>2 DEF OwnerWrites, Sole, Working, InTurn, Untouched
      <3>1. CASE tstate' = tstate
        BY <3>0, <3>1 DEF Protocol!vars
      <3>2. CASE tstate \notin Terminal /\ tstate' = "working"
        <4>1. tstate \in {"submitted", "working"}
          BY <1>0, <3>0, <3>2 DEF TaskStates
        <4>2. tstate = "submitted" => Protocol!BeginTurn
          BY <3>0, <3>2 DEF Protocol!BeginTurn
        <4> QED BY <3>0, <3>2, <4>1, <4>2 DEF Protocol!Next, Protocol!vars
      <3>3. CASE pc[w] \in Engaged /\ tstate \notin Terminal /\ tstate' \in Terminal \cup Paused
        <4>1. tstate = "working"
          BY <1>0, <3>0, <3>3 DEF Begun
        <4>2. Protocol!EndTurn(tstate')
          BY <3>0, <4>1 DEF Protocol!EndTurn
        <4> QED BY <3>3, <4>2 DEF Protocol!Next
      <3>4. CASE tstate \notin Terminal /\ tstate' = "canceled"
        BY <1>2, <3>0, <3>4
      <3> QED BY <2>2, <3>1, <3>2, <3>3, <3>4 DEF OwnerWrites
    <2> QED BY <1>1, <2>1, <2>2 DEF RunTurn, TakesTurn, KeepsTurn
  <1>6. Goal
    BY <1>0, <1>3, <1>4, <1>5, StaysDisturbed DEF Next
  <1> QED BY <1>6

\* As long as it is undisturbed, the composed system implements the lifecycle
\* that TaskProtocol promises: every turn begins once and ends once, only a
\* client message ends a pause, and cancels and failed marks hit the states
\* they may hit, whatever the handlers, runs and timers interleave.
THEOREM ProtocolImplemented == Spec /\ []Undisturbed => ImplementsProtocol
  <1>1. Init => Protocol!Init
    BY DEF Init, StoreInit, Protocol!Init
  <1>2. ASSUME MarkInv, Untouched, Undisturbed => TurnInv, Undisturbed, Undisturbed', [Next]_vars
        PROVE  [Protocol!Next]_(Protocol!vars)
    <2>1. CASE UNCHANGED vars
      BY <2>1 DEF vars, storeVars, Protocol!vars
    <2> QED BY <1>2, <2>1, ProtocolStep
  <1> QED BY <1>1, <1>2, TurnInductive, PTL DEF Spec, ImplementsProtocol, Protocol!Spec

-----------------------------------------------------------------------------
(* Streams.                                                                *)

\* An undisturbed system in which one run at a time works for the task, the
\* broker takes what it is given, and no force-cancel timer has fired.
Calm ==
  /\ Undisturbed
  /\ \A v, w \in Busy : v = w
  /\ \A r \in Requests : pc[r] \notin {"fail_version", "fail_load", "fail_write", "fail_publish"}
  /\ \A c \in Cancels : pc[c] \in {"cancel_load", "cancel_check", "cancel_request", "force_load", "done"}

\* Where a run publishes the end of a turn.
Publishing == {"end_publish", "c_publish", "m_publish"}

\* Where a listener is about to look at a snapshot of the task.
Loading == {"dup_load", "watch_load"}

\* Nobody works on a terminal task, except to announce its end.
OwnerGone ==
  tstate \in Terminal =>
    /\ Submitting = {} /\ queued[1] = 0
    /\ \A w \in Runs : Working(w) => pc[w] \in {"c_publish", "m_publish"}

\* Cleanup follows the end of the task.
CleansEnded == \A w \in Runs : pc[w] = "fin_bus" => tstate \in Terminal

\* Once the end of a task is announced, only listeners that are about to load
\* its terminal snapshot are subscribed.
EndAnnounced ==
  tstate \in Terminal /\ (\A w \in Runs : pc[w] \notin Publishing)
  => \A l \in Listeners : stream[l] = "open" => pc[l] \in Loading

OrphansEnded ==
  \A l \in Listeners : stream[l] = "orphaned" => tstate \in Terminal /\ pc[l] \in Loading

StreamInv == OwnerGone /\ CleansEnded /\ EndAnnounced /\ OrphansEnded

\* What a step of a run means for the streams.
RunStreams(w) ==
  /\ tstate \notin Terminal /\ tstate' \in Terminal =>
       /\ pc'[w] \in Publishing /\ stream' = stream
       /\ pc'[w] = "end_publish" => w \in turnEnded'
  /\ pc[w] \in Publishing =>
       /\ \A l \in Listeners :
            stream'[l] # "open" /\ (stream'[l] = "orphaned" => stream[l] = "orphaned")
       /\ pc[w] # "end_publish" => pc'[w] \in {"fin_load", "ack"}
  /\ pc[w] = "fin_bus" =>
       \A l \in Listeners :
         stream'[l] # "open" /\ (stream'[l] = "orphaned" => stream[l] \in {"open", "orphaned"})
  /\ pc[w] \notin Publishing \cup {"fin_bus"} => stream' = stream
  /\ pc'[w] = "fin_bus" => tstate \in Terminal /\ tstate' = tstate

\* A TerminalMarker leaves no stream open that had not missed it.
LEMMA MarkerStreams ==
  ASSUME NEW st, PublishMarker(st), NEW l \in Listeners
  PROVE  stream'[l] # "open" /\ (stream'[l] = "orphaned" => stream[l] = "orphaned")
  <1>1. PICK full \in SUBSET Registered :
          stream' = [k \in Listeners |-> IF k \in full THEN "missed"
                                        ELSE IF k \in Registered THEN "final"
                                        ELSE stream[k]]
    BY DEF PublishMarker
  <1> QED BY <1>1 DEF Registered

LEMMA RunStream ==
  ASSUME TypeInv, Begun, NEW w \in Runs, Work(w) \/ UserCode(w) \/ Interrupt(w)
  PROVE  RunStreams(w)
  <1>0. w \in Procs /\ pc \in [Procs -> Awaits] /\ kind[w] \in WriteKinds
    BY KindsOfProcess DEF TypeInv, TypeOK, PcTypeOK, ContextTypeOK
  <1>1. CASE CancelRun(w)
    <2>1. AfterCancel(w) = "fin_load"
      BY DEF AfterCancel
    <2>2. CASE CancelPublish(w)
      BY <1>0, <2>1, <2>2, MarkerStreams DEF CancelPublish, Goto, storeVars, RunStreams, Publishing
    <2>3. CASE ~CancelPublish(w)
      BY <1>0, <1>1, <2>1, <2>3 DEF CancelRun, CancelInStorage, CancelGetVersion, CancelLoad,
         CancelWrite, CancelReload, CancelRetry, WriteArtifactsOnly, Goto, ArtifactsOr, storeVars,
         busVars, BlindUpdate, ApplyUpdate, None, RunStreams, Publishing
    <2> QED BY <2>2, <2>3
  <1>2. CASE MarkFailed(w)
    <2>1. CASE FailPublish(w)
      BY <1>0, <2>1, MarkerStreams DEF FailPublish, AfterMark, Goto, storeVars, RunStreams,
         Publishing
    <2>2. CASE ~FailPublish(w)
      BY <1>0, <1>2, <2>2 DEF MarkFailed, FailGetVersion, FailWrite, FailReload, FailRetry,
         AfterMark, Goto, ArtifactsOr, storeVars, busVars, RunStreams, Publishing
    <2> QED BY <2>1, <2>2
  <1>3. CASE RunContext(w)
    <2>1. CASE PublishEnd(w)
      BY <1>0, <2>1, MarkerStreams DEF PublishEnd, Goto, storeVars, RunStreams, Publishing
    <2>2. ASSUME WriteSucceeded(w), UNCHANGED busVars, pc[w] \in InVersioned,
                 PinnedUpdate(ver[w], WriteState(kind[w]), WriteMessage(kind[w]), <<>>, pending[w])
          PROVE  RunStreams(w)
      <3>1. tstate \notin Terminal /\ tstate' \in Terminal => kind[w] \in LifecycleCalls
        BY <2>2 DEF PinnedUpdate, ApplyUpdate, WriteState
      <3>2. kind[w] \in LifecycleCalls => pc'[w] = "end_publish" /\ w \in turnEnded'
        BY <1>0, <2>2 DEF WriteSucceeded, Goto, LifecycleCalls
      <3>3. pc'[w] # "fin_bus" /\ stream' = stream
        BY <1>0, <2>2 DEF WriteSucceeded, Goto, busVars
      <3>4. pc[w] \notin Publishing \cup {"fin_bus"}
        BY <2>2 DEF InVersioned, Publishing
      <3> QED BY <3>1, <3>2, <3>3, <3>4 DEF RunStreams, Publishing
    <2>3. ASSUME UNCHANGED storeVars, stream' = stream, pc[w] \notin Publishing \cup {"fin_bus"},
                 pc'[w] # "fin_bus"
          PROVE  RunStreams(w)
      BY <2>3 DEF RunStreams, storeVars
    <2>4. CASE VersionedWrite(w) \/ RetryWrite(w)
      <3>1. pc[w] \in InVersioned /\ UNCHANGED busVars
        BY <2>4 DEF VersionedWrite, RetryWrite, InVersioned
      <3>2. \/ /\ WriteSucceeded(w)
               /\ PinnedUpdate(ver[w], WriteState(kind[w]), WriteMessage(kind[w]), <<>>, pending[w])
            \/ UNCHANGED storeVars /\ pc'[w] # "fin_bus"
        BY <1>0, <2>4 DEF VersionedWrite, RetryWrite, TerminalError, ArtifactsOr, Goto
      <3> QED BY <2>2, <2>3, <3>1, <3>2 DEF InVersioned, Publishing, busVars
    <2>5. CASE ReloadOnConflict(w) \/ FreshVersion(w) \/ RefreshVersion(w) \/ PublishProgress(w)
      BY <1>0, <2>3, <2>5 DEF ReloadOnConflict, FreshVersion, RefreshVersion, PublishProgress,
         TerminalError, ArtifactsOr, Goto, PublishStatus, busVars, Publishing
    <2> QED BY <1>3, <2>1, <2>4, <2>5 DEF RunContext, ContextStep
  <1>4. CASE FinallyCleanBus(w)
    <2>1. \A l \in Listeners :
            stream'[l] # "open" /\ (stream'[l] = "orphaned" => stream[l] \in {"open", "orphaned"})
      BY <1>4 DEF FinallyCleanBus, CleanupBus
    <2> QED BY <1>0, <1>4, <2>1 DEF FinallyCleanBus, Goto, storeVars, RunStreams, Publishing
  <1>5. CASE SetWorking(w)
    BY <1>0, <1>5 DEF SetWorking, BlindUpdate, ApplyUpdate, None, Goto, storeVars, busVars,
       RunStreams, Publishing, Terminal
  <1>6. CASE TakeOperation(w) \/ CheckCancelled(w) \/ CancelBeforeRun(w) \/ AnnounceWorking(w)
             \/ FinallyLoad(w) \/ FinallyCleanKey(w) \/ Settle(w) \/ AckAfterMark(w)
    BY <1>0, <1>6 DEF TakeOperation, CheckCancelled, CancelBeforeRun, AnnounceWorking,
       FinallyLoad, FinallyCleanKey, Settle, AckAfterMark, Forget, Goto, PublishStatus, storeVars,
       busVars, RunStreams, Publishing
  <1>7. CASE UserCode(w) \/ Interrupt(w)
    BY <1>0, <1>7 DEF UserCode, UserStep, HandlerCalls, HandlerCall, EmitArtifact, SendStatus,
       CallLifecycle, StartWrite, HandlerReturns, HandlerRaises, Interrupt, CancelDelivered,
       Cancellable, Goto, storeVars, busVars, RunStreams, Publishing
  <1> QED BY <1>1, <1>2, <1>3, <1>4, <1>5, <1>6, <1>7 DEF Work, RunStep

LEMMA StreamRun ==
  ASSUME TypeInv, TurnInv, StreamInv, Calm, NEW w \in Runs, Moves(w), RunTurn(w), RunStreams(w),
         tstate \in Terminal => tstate' = tstate
  PROVE  StreamInv'
  <1>0. /\ Sole /\ OwnerGone /\ CleansEnded /\ EndAnnounced /\ OrphansEnded
        /\ \A v \in Busy : v = w \/ w \notin Busy
    BY DEF TurnInv, StreamInv, Calm
  <1>1. /\ Submitting' = Submitting
        /\ \A v \in Runs : v # w => /\ pc'[v] = pc[v] /\ (Working(v)' <=> Working(v))
        /\ \A l \in Listeners : pc'[l] = pc[l]
    <2>1. \A p \in Procs : p # w => pc'[p] = pc[p]
      BY OthersStay, KindsOfProcess
    <2> QED BY <2>1, SetsAfter, KindsOfProcess, ProcsAssumption DEF RunTurn, Working, InTurn
  <1>2. OwnerGone'
    <2> SUFFICES ASSUME tstate' \in Terminal PROVE OwnerGone'
      BY DEF OwnerGone
    <2>1. CASE tstate \in Terminal
      <3>1. ~TakesTurn(w)
        BY <1>0, <2>1 DEF OwnerGone, TakesTurn, Receive
      <3>2. queued' = queued /\ (Working(w)' => Working(w))
        BY <3>1 DEF RunTurn, KeepsTurn
      <3>3. ~Working(w)'
        <4>1. Working(w) => pc'[w] \in {"fin_load", "ack"}
          BY <1>0, <2>1 DEF OwnerGone, RunStreams, Publishing
        <4> QED BY <3>2, <4>1 DEF Working, InTurn
      <3> QED BY <1>0, <1>1, <2>1, <3>2, <3>3 DEF OwnerGone
    <2>2. CASE tstate \notin Terminal
      <3>1. OwnerWrites(w) /\ queued' = queued
        BY <2>2 DEF RunTurn, TakesTurn, KeepsTurn, SameStatus
      <3>2. Working(w)
        BY <3>1 DEF OwnerWrites
      <3>3. Submitting = {} /\ queued[1] = 0 /\ \A v \in Runs : v # w => ~Working(v)
        BY <1>0, <3>2 DEF Sole
      <3>4. Working(w)' => pc'[w] \in {"c_publish", "m_publish"}
        BY <2>2 DEF RunStreams, Publishing, Working
      <3> QED BY <1>1, <3>1, <3>3, <3>4 DEF OwnerGone
    <2> QED BY <2>1, <2>2
  <1>3. CleansEnded'
    BY <1>0, <1>1 DEF CleansEnded, RunStreams
  <1>4. EndAnnounced'
    <2> SUFFICES ASSUME tstate' \in Terminal, \A v \in Runs : pc'[v] \notin Publishing,
                        NEW l \in Listeners, stream'[l] = "open"
                 PROVE  pc'[l] \in Loading
      BY DEF EndAnnounced
    <2>1. tstate \in Terminal
      BY DEF RunStreams
    <2>2. pc[w] \notin Publishing
      BY DEF RunStreams
    <2>3. \A v \in Runs : pc[v] \notin Publishing
      BY <1>1, <2>2
    <2>4. stream[l] = "open"
      BY <2>2 DEF RunStreams
    <2> QED BY <1>0, <1>1, <2>1, <2>3, <2>4 DEF EndAnnounced
  <1>5. OrphansEnded'
    <2> SUFFICES ASSUME NEW l \in Listeners, stream'[l] = "orphaned"
                 PROVE  tstate' \in Terminal /\ pc'[l] \in Loading
      BY DEF OrphansEnded
    <2>1. CASE stream[l] = "orphaned"
      BY <1>0, <1>1, <2>1 DEF OrphansEnded
    <2>2. CASE stream[l] # "orphaned"
      <3>1. pc[w] = "fin_bus" /\ stream[l] = "open"
        BY <2>2 DEF RunStreams
      <3>2. tstate \in Terminal
        BY <1>0, <3>1 DEF CleansEnded
      <3>3. \A v \in Runs : pc[v] \notin Publishing
        BY <1>0, <3>1 DEF Busy, Publishing
      <3> QED BY <1>0, <1>1, <3>1, <3>2, <3>3 DEF EndAnnounced
    <2> QED BY <2>1, <2>2
  <1> QED BY <1>2, <1>3, <1>4, <1>5 DEF StreamInv

\* What a request or a watcher does to its own stream.
CallStreams(q) ==
  \/ stream' = stream /\ (pc[q] \notin Loading \/ tstate \notin Terminal)
  \/ /\ stream' = [stream EXCEPT ![q] = "open"] /\ tstate' = tstate
     /\ q \in Submitting \/ pc'[q] \in Loading
  \/ \E x \in {"snapshot", "timeout"} : stream' = [stream EXCEPT ![q] = x] /\ tstate' = tstate

LEMMA StreamCall ==
  ASSUME TypeInv, StreamInv, NEW q \in Requests \cup Watchers, Moves(q), CallStreams(q),
         UNCHANGED workerVars,
         tstate' = tstate \/ (tstate \notin Terminal /\ tstate' \notin Terminal),
         tstate \in Terminal => Submitting' = {} /\ queued' = queued
  PROVE  StreamInv'
  <1>0. /\ OwnerGone /\ CleansEnded /\ EndAnnounced /\ OrphansEnded
        /\ q \in Listeners /\ stream \in [Listeners -> StreamStates]
    BY ProcsAssumption DEF StreamInv, TypeInv, TypeOK, BusTypeOK
  <1>1. /\ \A w \in Runs : pc'[w] = pc[w] /\ (Working(w)' <=> Working(w))
        /\ \A l \in Listeners : l # q => pc'[l] = pc[l]
    <2>1. \A p \in Procs : p # q => pc'[p] = pc[p]
      BY OthersStay, KindsOfProcess
    <2> QED BY <2>1, KindsOfProcess, ProcsAssumption
            DEF Working, InTurn, workerVars, contextVars
  <1>2. \A l \in Listeners : l # q => stream'[l] = stream[l]
    BY <1>0 DEF CallStreams
  <1>3. OwnerGone'
    BY <1>0, <1>1 DEF OwnerGone
  <1>4. CleansEnded'
    BY <1>0, <1>1 DEF CleansEnded
  <1>5. EndAnnounced'
    <2> SUFFICES ASSUME tstate' \in Terminal, \A w \in Runs : pc'[w] \notin Publishing,
                        NEW l \in Listeners, stream'[l] = "open"
                 PROVE  pc'[l] \in Loading
      BY DEF EndAnnounced
    <2>1. tstate \in Terminal /\ Submitting = {} /\ \A w \in Runs : pc[w] \notin Publishing
      BY <1>0, <1>1 DEF OwnerGone
    <2>2. CASE l # q
      BY <1>0, <1>1, <1>2, <2>1, <2>2 DEF EndAnnounced
    <2>3. CASE l = q
      <3>1. stream[q] = "open" => pc[q] \in Loading
        BY <1>0, <2>1 DEF EndAnnounced
      <3>2. stream'[q] \notin {"snapshot", "timeout"}
        BY <2>3
      <3> QED BY <1>0, <2>1, <2>3, <3>1, <3>2 DEF CallStreams
    <2> QED BY <2>2, <2>3
  <1>6. OrphansEnded'
    <2> SUFFICES ASSUME NEW l \in Listeners, stream'[l] = "orphaned"
                 PROVE  tstate' \in Terminal /\ pc'[l] \in Loading
      BY DEF OrphansEnded
    <2>1. CASE l # q
      <3>1. tstate \in Terminal /\ pc[l] \in Loading
        BY <1>0, <1>2, <2>1 DEF OrphansEnded
      <3> QED BY <1>1, <2>1, <3>1
    <2>2. CASE l = q
      <3>1. stream' = stream /\ (pc[q] \notin Loading \/ tstate \notin Terminal)
        BY <1>0, <2>2 DEF CallStreams
      <3> QED BY <1>0, <2>2, <3>1 DEF OrphansEnded
    <2> QED BY <2>1, <2>2
  <1> QED BY <1>3, <1>4, <1>5, <1>6 DEF StreamInv

LEMMA RequestStream ==
  ASSUME MarkInv, StreamInv, Calm, Calm', NEW r \in Requests,
         Submit(r) \/ Dispatch(r) \/ TimeOut(r)
  PROVE  /\ CallStreams(r) /\ UNCHANGED workerVars
         /\ tstate' = tstate \/ (tstate \notin Terminal /\ tstate' \notin Terminal)
         /\ tstate \in Terminal => Submitting' = {} /\ queued' = queued
  <1>0. /\ TypeInv /\ r \in Procs /\ pc \in [Procs -> Awaits] /\ OwnerGone
        /\ pc[r] \notin {"fail_version", "fail_load", "fail_write", "fail_publish"}
    BY KindsOfProcess DEF MarkInv, HistoryInv, TypeInv, TypeOK, PcTypeOK, StreamInv, Calm
  <1>1. /\ CallStreams(r) /\ UNCHANGED workerVars
    <2>1. CASE Submit(r)
      <3>1. stream' = stream /\ pc[r] \notin Loading /\ UNCHANGED workerVars
        BY <1>0, <2>1 DEF Submit, SubmitStep, CreateTask, WriteTenant, GetVersion,
           LoadAndValidate, AppendMessage, ReloadAfterConflict, AnnounceSubmitted, busVars,
           PublishStatus, Loading
      <3> QED BY <3>1 DEF CallStreams
    <2>2. CASE Dispatch(r)
      <3>0. UNCHANGED workerVars
        BY <2>2 DEF Dispatch
      <3>1. CASE SubscribeFirst(r)
        <4>1. r \in Submitting /\ tstate' = tstate /\ pc[r] \notin Loading
          BY <3>1 DEF SubscribeFirst, Submitting, storeVars, Loading
        <4> QED BY <3>0, <3>1, <4>1 DEF SubscribeFirst, Subscribe, busVars, CallStreams
      <3>2. CASE AnswerDuplicate(r)
        BY <1>0, <3>0, <3>2 DEF AnswerDuplicate, Subscribe, Goto, busVars, storeVars, Loading,
           CallStreams
      <3>3. CASE SnapshotLoad(r)
        BY <1>0, <3>0, <3>3 DEF SnapshotLoad, Unsubscribe, busVars, storeVars, CallStreams
      <3>4. CASE Enqueue(r)
        BY <3>0, <3>4 DEF Enqueue, busVars, Loading, CallStreams
      <3> QED BY <1>0, <2>2, <3>1, <3>2, <3>3, <3>4 DEF Dispatch, DispatchStep,
            EnqueueFailedVersion, EnqueueFailedLoad, EnqueueFailedWrite, EnqueueFailedPublish
    <2>3. CASE TimeOut(r)
      BY <2>3 DEF TimeOut, BlockingTimeout, Unsubscribe, storeVars, CallStreams
    <2> QED BY <2>1, <2>2, <2>3
  <1>2. CASE OpensTurn(r)
    <2>1. tstate \notin Terminal /\ tstate' \notin Terminal
      BY <1>2 DEF OpensTurn, Paused, Terminal
    <2> QED BY <1>1, <2>1
  <1>3. CASE HandsTurn(r)
    BY <1>0, <1>1, <1>3 DEF HandsTurn, SameStatus, OwnerGone
  <1>4. CASE PassesTurn
    <2>1. tstate' # "failed" \/ tstate' = tstate
      <3>1. newState[r] \in {None, "submitted"}
        BY <1>0 DEF TypeInv, TypeOK, LocalTypeOK
      <3>2. CASE Submit(r)
        <4>1. CASE CreateTask(r)
          BY <4>1 DEF CreateTask, InsertTask, storeVars
        <4>2. CASE WriteTenant(r)
          BY <4>2 DEF WriteTenant, BlindUpdate, ApplyUpdate
        <4>3. CASE AppendMessage(r)
          BY <3>1, <4>3 DEF AppendMessage, PinnedUpdate, ApplyUpdate, storeVars
        <4>4. CASE GetVersion(r) \/ LoadAndValidate(r) \/ ReloadAfterConflict(r)
                   \/ AnnounceSubmitted(r)
          BY <4>4 DEF GetVersion, LoadAndValidate, ReloadAfterConflict, AnnounceSubmitted,
             storeVars
        <4> QED BY <3>2, <4>1, <4>2, <4>3, <4>4 DEF Submit, SubmitStep
      <3>3. CASE Dispatch(r)
        <4>1. ~EnqueueFailedWrite(r)
          BY <1>0 DEF EnqueueFailedWrite
        <4> QED BY <3>3, <4>1 DEF Dispatch, DispatchStep, SubscribeFirst, Enqueue,
              EnqueueFailedVersion, EnqueueFailedLoad, EnqueueFailedPublish, AnswerDuplicate,
              SnapshotLoad, storeVars
      <3>4. CASE TimeOut(r)
        BY <3>4 DEF TimeOut, BlockingTimeout, storeVars
      <3> QED BY <3>2, <3>3, <3>4
    <2> QED BY <1>0, <1>1, <1>4, <2>1 DEF PassesTurn, SameStatus, OwnerGone
  <1>5. Undisturbed'
    BY DEF Calm
  <1> QED BY <1>2, <1>3, <1>4, <1>5, RequestTurns

LEMMA StreamNext ==
  ASSUME MarkInv, Untouched, TurnInv, StreamInv, Calm, Calm', Next PROVE StreamInv'
  <1>0. TypeInv /\ Undisturbed' /\ Begun
    BY DEF MarkInv, HistoryInv, Calm, TurnInv
  <1>1. ASSUME NEW r \in Requests, Submit(r) \/ Dispatch(r) \/ TimeOut(r) PROVE StreamInv'
    <2>1. Moves(r)
      BY <1>1, StepMoves
    <2>2. /\ CallStreams(r) /\ UNCHANGED workerVars
          /\ tstate' = tstate \/ (tstate \notin Terminal /\ tstate' \notin Terminal)
          /\ tstate \in Terminal => Submitting' = {} /\ queued' = queued
      BY <1>1, RequestStream
    <2> QED BY <1>0, <2>1, <2>2, StreamCall
  <1>2. ASSUME NEW l \in Watchers, Watch(l) PROVE StreamInv'
    <2>1. Moves(l) /\ UNCHANGED workerVars /\ tstate' = tstate /\ queued' = queued
      BY <1>2, StepMoves DEF Watch, Resubscribe, SnapshotLoad, storeVars
    <2>2. CallStreams(l)
      BY <1>0, <1>2, KindsOfProcess DEF Watch, Resubscribe, SnapshotLoad, Subscribe, Unsubscribe,
         Goto, busVars, storeVars, Loading, CallStreams, TypeInv, TypeOK, PcTypeOK
    <2>3. tstate \in Terminal => Submitting' = {}
      BY <1>0, <2>1, SetsAfter, KindsOfProcess DEF StreamInv, OwnerGone
    <2> QED BY <1>0, <2>1, <2>2, <2>3, StreamCall
  <1>3. ASSUME NEW c \in Cancels, CallCancel(c) PROVE StreamInv'
    <2>1. /\ Moves(c) /\ UNCHANGED workerVars /\ tstate' = tstate /\ queued' = queued
          /\ stream' = stream
      BY <1>3, StepMoves DEF CallCancel, CancelCallStep, CancelTaskLoad, CancelTaskCheck,
         CancelTaskRequest, storeVars, busVars
    <2>2. \A p \in Procs : p # c => pc'[p] = pc[p]
      BY <1>0, <2>1, OthersStay, KindsOfProcess
    <2>3. (\A p \in Runs \cup Listeners : pc'[p] = pc[p]) /\ Submitting' = Submitting
      BY <1>0, <2>1, <2>2, SetsAfter, KindsOfProcess, ProcsAssumption
    <2>4. \A w \in Runs : Working(w)' <=> Working(w)
      BY <2>1, <2>3 DEF Working, InTurn, workerVars, contextVars
    <2> QED BY <2>1, <2>3, <2>4 DEF StreamInv, OwnerGone, CleansEnded, EndAnnounced, OrphansEnded
  <1>4. ASSUME NEW c \in Cancels PROVE ~ForceCancel(c)
    <2>1. /\ pc[c] \in {"cancel_load", "cancel_check", "cancel_request", "force_load", "done"}
          /\ pc'[c] \in {"cancel_load", "cancel_check", "cancel_request", "force_load", "done"}
          /\ c \in Procs /\ pc \in [Procs -> Awaits]
      BY <1>0, <1>4, KindsOfProcess DEF Calm, TypeInv, TypeOK, PcTypeOK
    <2> QED BY <2>1 DEF ForceCancel, ForceCancelStep, ForceCancelLoad, ForceCancelInStorage,
          ForceCancelCleanBus, ForceCancelCleanKey, CancelInStorage, CancelGetVersion,
          CancelLoad, CancelWrite, CancelReload, CancelRetry, WriteArtifactsOnly,
          CancelPublish, Goto
  <1>5. ASSUME NEW w \in Runs, Work(w) \/ UserCode(w) \/ Interrupt(w) PROVE StreamInv'
    <2>1. Moves(w) /\ RunTurn(w) /\ RunStreams(w)
      BY <1>0, <1>5, StepMoves, RunTurns, RunStream
    <2>2. tstate \in Terminal => tstate' = tstate
      BY <1>0, TerminalStays
    <2> QED BY <1>0, <2>1, <2>2, StreamRun
  <1> QED BY <1>0, <1>1, <1>2, <1>3, <1>4, <1>5, StaysDisturbed DEF Next

\* As long as one run at a time works for the task, the broker takes what it is
\* given and no force-cancel timer fires, cleanup drops nobody who waits for
\* the final event: it reaches only listeners that are about to load the
\* terminal snapshot, and those whose full streams lost the TerminalMarker.
\* With two runs it fails: the run orphaned_stream.
THEOREM StreamsNotOrphaned == Spec /\ []Calm => []NoOrphanedStream
  <1>1. ASSUME Init PROVE StreamInv
    <2>1. \A p \in Procs : pc[p] = FirstStep(p)
      BY <1>1 DEF Init
    <2>2. \A w \in Runs : pc[w] # "fin_bus"
      BY <2>1, KindsOfProcess, RequestAssumption DEF FirstStep
    <2>3. tstate = "absent" /\ \A l \in Listeners : stream[l] = "off"
      BY <1>1 DEF Init, StoreInit, BusInit
    <2> QED BY <2>2, <2>3 DEF StreamInv, OwnerGone, CleansEnded, EndAnnounced, OrphansEnded, Terminal
  <1>2. ASSUME MarkInv, Untouched, Undisturbed => TurnInv, StreamInv, Calm, Calm', [Next]_vars
        PROVE  StreamInv'
    <2>0. TurnInv
      BY <1>2 DEF Calm
    <2>1. CASE UNCHANGED vars
      <3>1. UNCHANGED <<tstate, stream, queued, pc, turnEnded>>
        BY <2>1 DEF vars, storeVars, busVars, workerVars, contextVars
      <3> QED BY <1>2, <3>1 DEF StreamInv, OwnerGone, CleansEnded, EndAnnounced, OrphansEnded,
            Submitting, Working, InTurn
    <2> QED BY <1>2, <2>0, <2>1, StreamNext
  <1>3. StreamInv => NoOrphanedStream
    BY DEF StreamInv, OrphansEnded, NoOrphanedStream, Loading
  <1> QED BY <1>1, <1>2, <1>3, TurnInductive, PTL DEF Spec

=============================================================================
