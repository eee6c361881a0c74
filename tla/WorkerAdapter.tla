--------------------------- MODULE WorkerAdapter ---------------------------
(***************************************************************************)
(* The worker side (worker/adapter.py): a run takes an operation from the  *)
(* broker, moves the task to `working`, lets the user's handler act        *)
(* through its TaskContext, turns whatever the handler left open into a    *)
(* cancel or a failure, cleans up, and settles the operation.  Storage     *)
(* calls may raise, and a worker process may crash and have its operation  *)
(* redelivered; MaxFaults bounds how often that is explored.               *)
(***************************************************************************)
EXTENDS TaskContext

CONSTANT Redelivery   \* whether the broker redelivers what a crashed worker
                      \* held (the Redis broker's stale-message claim)

ASSUME RedeliveryAssumption == Redelivery \in BOOLEAN

VARIABLES
  attempt,   \* handle.attempt of the operation a run works on
  started,   \* runs whose `working` write succeeded
  raised,    \* runs with an exception on its way out of _run_task_inner
  outside    \* runs back in _handle_op_inner, marking the task failed

adapterVars == <<attempt, started, raised, outside>>

AdapterTypeOK ==
  /\ attempt \in [Runs -> Attempts]
  /\ started \in SUBSET Runs
  /\ raised \in SUBSET Runs
  /\ outside \in SUBSET Runs

AdapterInit ==
  /\ attempt = [w \in Runs |-> 1]
  /\ started = {}
  /\ raised = {}
  /\ outside = {}

-----------------------------------------------------------------------------
(* _handle_op_inner and the beginning of _run_task_inner.                  *)

\* An operation is received.  One delivered too often is not dispatched: its
\* task is marked failed.  Otherwise on_cancel gives the run its scope.
TakeOperation(w) ==
  /\ pc[w] = "idle"
  /\ \E a \in Attempts :
       /\ Receive(a)
       /\ attempt' = [attempt EXCEPT ![w] = a]
       /\ IF a > MaxRetries
            THEN /\ Goto(w, "m_version")
                 /\ outside' = outside \cup {w}
                 /\ UNCHANGED cancelVars
            ELSE /\ Goto(w, "check_cancel")
                 /\ OnCancel(w)
                 /\ UNCHANGED outside
  /\ UNCHANGED <<storeVars, busVars, ver, pending, contextVars, started, raised, faults>>

CheckCancelled(w) ==
  /\ pc[w] = "check_cancel"
  /\ Goto(w, IF cancelled THEN "cancel_preload" ELSE "set_working")
  /\ UNCHANGED <<storeVars, busVars, cancelVars, queued, ver, pending,
                 contextVars, adapterVars, faults>>

\* A task cancelled before its run began.
CancelBeforeRun(w) ==
  /\ pc[w] = "cancel_preload"
  /\ Goto(w, IF tstate \in Terminal THEN "fin_load" ELSE "c_version")
  /\ UNCHANGED <<storeVars, busVars, cancelVars, queued, ver, pending,
                 contextVars, adapterVars, faults>>

\* The unpinned transition to `working`; its version seeds ctx._version.
SetWorking(w) ==
  /\ pc[w] = "set_working"
  /\ \/ /\ BlindUpdate("working", None, <<>>, {})
        /\ ver' = [ver EXCEPT ![w] = version + 1]
        /\ started' = started \cup {w}
        /\ Goto(w, "announce_working")
     \/ /\ TerminalGuard("working")
        /\ Goto(w, "fin_load")
        /\ UNCHANGED <<storeVars, ver, started>>
  /\ UNCHANGED <<busVars, cancelVars, queued, pending, contextVars,
                 attempt, raised, outside, faults>>

AnnounceWorking(w) ==
  /\ pc[w] = "announce_working"
  /\ PublishStatus("working")
  /\ Goto(w, "handle")
  /\ UNCHANGED <<storeVars, cancelVars, queued, ver, pending,
                 contextVars, adapterVars, faults>>

-----------------------------------------------------------------------------
(* The handler, watched by the cancel watcher.                             *)

HandlerCalls(w) ==
  /\ HandlerCall(w)
  /\ UNCHANGED <<cancelVars, queued, adapterVars>>

RunContext(w) ==
  /\ ContextStep(w)
  /\ UNCHANGED <<cancelVars, queued, adapterVars>>

\* Mutant: a handler may return without ending its turn.
HandlerReturns_Open(w) ==
  /\ pc[w] = "handle"
  /\ Goto(w, "fin_load")
  /\ UNCHANGED <<storeVars, busVars, cancelVars, queued, ver, pending,
                 contextVars, adapterVars, faults>>

\* handle() returns.  Without a lifecycle call the turn is failed, unless the
\* cancel signal is set.
HandlerReturns(w) ==
  /\ pc[w] = "handle"
  /\ \/ /\ w \in turnEnded
        /\ Goto(w, "fin_load")
        /\ UNCHANGED kind
     \/ /\ w \notin turnEnded
        /\ w \in signalled
        /\ Goto(w, "c_version")
        /\ UNCHANGED kind
     \/ /\ w \notin turnEnded
        /\ w \notin signalled
        /\ StartWrite(w, "fail")
  /\ UNCHANGED <<storeVars, busVars, cancelVars, queued, ver, pending,
                 turnEnded, reported, streamed, adapterVars, faults>>

\* handle() raises: ignored after a lifecycle call, else the task fails.
HandlerRaises(w) ==
  /\ pc[w] = "handle"
  /\ Goto(w, IF w \in turnEnded THEN "fin_load" ELSE "m_version")
  /\ UNCHANGED <<storeVars, busVars, cancelVars, queued, ver, pending,
                 contextVars, adapterVars, faults>>

\* The awaits of the handler's calls that the watcher's cancellation can
\* interrupt; the publication of a turn's end is shielded.
Cancellable == {"handle", "u_write", "u_load", "u_version", "u_retry",
                "u_refresh", "p_publish"}

\* The watcher cancels the handler.  It may come late: nothing forces it to
\* win against the handler's next call.  If it comes while emit_artifact awaits
\* the publication, the artifact may be out and is not buffered.
CancelDelivered(w) ==
  /\ pc[w] \in Cancellable
  /\ w \in signalled
  /\ Goto(w, IF w \in turnEnded THEN "fin_load" ELSE "c_version")
  /\ \/ UNCHANGED streamed
     \/ /\ pc[w] = "handle" /\ w \notin turnEnded
        /\ \E a \in Artifacts \ streamed : streamed' = streamed \cup {a}
  /\ UNCHANGED <<storeVars, busVars, cancelVars, queued, ver, pending, kind,
                 turnEnded, reported, adapterVars, faults>>

CancelRun(w) ==
  /\ CancelInStorage(w)
  /\ UNCHANGED <<cancelVars, queued, contextVars, adapterVars>>

-----------------------------------------------------------------------------
(* _mark_failed                                                            *)

AfterMark(w) == IF w \in outside THEN "ack" ELSE "fin_load"

FailGetVersion(w) ==
  /\ pc[w] \in {"m_version", "m_version2"}
  /\ ver' = [ver EXCEPT ![w] = version]
  /\ Goto(w, IF pc[w] = "m_version" THEN "m_write" ELSE "m_load2")
  /\ UNCHANGED <<storeVars, busVars, pending>>

\* Mutant: the failure is announced even if the task was terminal already.
FailWrite_Announced(w) ==
  /\ pc[w] = "m_write"
  /\ \/ /\ PinnedUpdate(ver[w], "failed", "failed", <<>>, pending[w])
        /\ pending' = [pending EXCEPT ![w] = {}]
     \/ /\ UpdateRefused(ver[w], "failed")
        /\ UNCHANGED <<storeVars, pending>>
  /\ Goto(w, "m_publish")
  /\ UNCHANGED <<busVars, ver>>

FailWrite(w) ==
  /\ pc[w] = "m_write"
  /\ \/ /\ PinnedUpdate(ver[w], "failed", "failed", <<>>, pending[w])
        /\ pending' = [pending EXCEPT ![w] = {}]
        /\ Goto(w, "m_publish")
     \/ /\ VersionMismatch(ver[w])
        /\ Goto(w, "m_version2")
        /\ UNCHANGED <<storeVars, pending>>
     \/ /\ ~VersionMismatch(ver[w])
        /\ TerminalGuard("failed")
        /\ Goto(w, ArtifactsOr(w, AfterMark(w)))
        /\ UNCHANGED <<storeVars, pending>>
  /\ UNCHANGED <<busVars, ver>>

FailReload(w) ==
  /\ pc[w] = "m_load2"
  /\ Goto(w, IF tstate \in Terminal THEN ArtifactsOr(w, AfterMark(w)) ELSE "m_write2")
  /\ UNCHANGED <<storeVars, busVars, ver, pending>>

FailRetry(w) ==
  /\ pc[w] = "m_write2"
  /\ \/ /\ PinnedUpdate(ver[w], "failed", "failed", <<>>, pending[w])
        /\ pending' = [pending EXCEPT ![w] = {}]
        /\ Goto(w, "m_publish")
     \/ /\ UpdateRefused(ver[w], "failed")
        /\ Goto(w, ArtifactsOr(w, AfterMark(w)))
        /\ UNCHANGED <<storeVars, pending>>
  /\ UNCHANGED <<busVars, ver>>

FailPublish(w) ==
  /\ pc[w] = "m_publish"
  /\ PublishMarker("failed")
  /\ Goto(w, AfterMark(w))
  /\ UNCHANGED <<storeVars, ver, pending>>

MarkFailed(w) ==
  /\ \/ FailGetVersion(w)
     \/ FailWrite(w)
     \/ FailReload(w)
     \/ FailRetry(w)
     \/ FailPublish(w)
  /\ UNCHANGED <<cancelVars, queued, contextVars, adapterVars, faults>>

-----------------------------------------------------------------------------
(* The finally block and the settlement of the operation.                  *)

\* Mutant: every turn cleans the bus, a paused one too.
FinallyLoad_Always(w) ==
  /\ pc[w] = "fin_load"
  /\ Goto(w, "fin_bus")
  /\ UNCHANGED <<storeVars, busVars, cancelVars, queued, ver, pending,
                 contextVars, adapterVars, faults>>

FinallyLoad(w) ==
  /\ pc[w] = "fin_load"
  /\ Goto(w, IF tstate \in Terminal THEN "fin_bus" ELSE "settle")
  /\ UNCHANGED <<storeVars, busVars, cancelVars, queued, ver, pending,
                 contextVars, adapterVars, faults>>

FinallyCleanBus(w) ==
  /\ pc[w] = "fin_bus"
  /\ CleanupBus
  /\ Goto(w, "fin_key")
  /\ UNCHANGED <<storeVars, cancelVars, queued, ver, pending,
                 contextVars, adapterVars, faults>>

FinallyCleanKey(w) ==
  /\ pc[w] = "fin_key"
  /\ ReleaseKey
  /\ Goto(w, "settle")
  /\ UNCHANGED <<storeVars, busVars, queued, ver, pending,
                 contextVars, adapterVars, faults>>

\* What a run leaves behind when its slot becomes free again.
Forget(w) ==
  /\ turnEnded' = turnEnded \ {w}
  /\ reported' = reported \ {w}
  /\ started' = started \ {w}
  /\ raised' = raised \ {w}
  /\ outside' = outside \ {w}
  /\ kind' = [kind EXCEPT ![w] = "flush"]
  /\ ver' = [ver EXCEPT ![w] = 0]
  /\ attempt' = [attempt EXCEPT ![w] = 1]
  /\ Goto(w, "idle")
  /\ UNCHANGED streamed

\* ack, or nack for another attempt, or after the last one: mark failed.
Settle(w) ==
  /\ pc[w] = "settle"
  /\ DropScope(w)
  /\ \/ /\ w \notin raised
        /\ Forget(w)
        /\ UNCHANGED queued
     \/ /\ w \in raised
        /\ attempt[w] < MaxRetries
        /\ Nack(attempt[w])
        /\ Forget(w)
     \/ /\ w \in raised
        /\ attempt[w] = MaxRetries
        /\ Goto(w, "m_version")
        /\ outside' = outside \cup {w}
        /\ UNCHANGED <<queued, ver, contextVars, attempt, started, raised>>
  /\ UNCHANGED <<storeVars, busVars, pending, faults>>

AckAfterMark(w) ==
  /\ pc[w] = "ack"
  /\ Forget(w)
  /\ UNCHANGED <<storeVars, busVars, cancelVars, queued, pending, faults>>

-----------------------------------------------------------------------------
(* A storage (or ack) call of a run raises.  Where the exception lands     *)
(* depends on the block the call is in.                                    *)

BeforeTry    == {"check_cancel", "cancel_preload", "set_working"}
InVersioned  == {"u_write", "u_load", "u_version", "u_retry", "u_refresh"}
InMarkFailed == {"m_version", "m_write", "m_version2", "m_load2", "m_write2"}

\* Out of _run_task_inner, through its finally block.
Escapes(w) ==
  /\ raised' = raised \cup {w}
  /\ Goto(w, "fin_load")
  /\ UNCHANGED outside

\* The exception lands where the code around pc[w] catches it.
Land(w) ==
  \/ /\ \/ pc[w] \in BeforeTry
        \/ pc[w] \in InCancel /\ w \notin started
        \/ pc[w] \in InMarkFailed /\ w \notin outside
     /\ Escapes(w)
     /\ pending' = [pending EXCEPT ![w] = {}]
  \/ /\ pc[w] \in InVersioned                       \* `except Exception`
     /\ Goto(w, "m_version")
     /\ UNCHANGED <<raised, outside, pending>>
  \/ /\ pc[w] \in InCancel /\ w \in started         \* already drained
     /\ Goto(w, "m_version")
     /\ pending' = [pending EXCEPT ![w] = {}]
     /\ UNCHANGED <<raised, outside>>
  \/ /\ pc[w] = "c_artifacts"                       \* logged
     /\ Goto(w, "fin_load")
     /\ pending' = [pending EXCEPT ![w] = {}]
     /\ UNCHANGED <<raised, outside>>
  \/ /\ pc[w] \in InMarkFailed /\ w \in outside     \* logged
     /\ Goto(w, "ack")
     /\ UNCHANGED <<raised, outside, pending>>
  \/ /\ pc[w] = "fin_load"                          \* treated as terminal
     /\ Goto(w, "fin_bus")
     /\ UNCHANGED <<raised, outside, pending>>
  \/ /\ pc[w] = "settle" /\ w \notin raised         \* the ack raised
     /\ raised' = raised \cup {w}
     /\ UNCHANGED <<pc, outside, pending>>

StorageRaises(w) ==
  /\ Fault
  /\ Land(w)
  /\ UNCHANGED <<storeVars, busVars, cancelVars, queued, ver, contextVars,
                 attempt, started>>

\* The worker process dies: the run is gone, its buffer with it, and the
\* broker hands its unacknowledged operation to somebody else, one delivery
\* later.
WorkerCrashes(w) ==
  /\ Redelivery
  /\ pc[w] # "idle"
  /\ attempt[w] <= MaxRetries
  /\ Fault
  /\ Nack(attempt[w])
  /\ DropScope(w)
  /\ Forget(w)
  /\ pending' = [pending EXCEPT ![w] = {}]
  /\ UNCHANGED <<storeVars, busVars>>

-----------------------------------------------------------------------------
\* The framework's own steps of a run.
RunStep(w) ==
  \/ TakeOperation(w)
  \/ CheckCancelled(w)
  \/ CancelBeforeRun(w)
  \/ SetWorking(w)
  \/ AnnounceWorking(w)
  \/ RunContext(w)
  \/ CancelRun(w)
  \/ MarkFailed(w)
  \/ FinallyLoad(w)
  \/ FinallyCleanBus(w)
  \/ FinallyCleanKey(w)
  \/ Settle(w)
  \/ AckAfterMark(w)

\* What the user's handler does.
UserStep(w) ==
  \/ HandlerCalls(w)
  \/ HandlerReturns(w)
  \/ HandlerRaises(w)
=============================================================================
