----------------------------- MODULE CancelTask -----------------------------
(***************************************************************************)
(* cancel_task_in_storage (cancel.py), the helper with which both the      *)
(* force-cancel timers of the TaskManager and the runs of the              *)
(* WorkerAdapter cancel a task.  Each of its awaits is a step of the       *)
(* process p that called it:                                               *)
(*                                                                         *)
(*   c_version -> c_load -> c_write -> c_publish                           *)
(*                             |                                           *)
(*                             +-> c_version2 -> c_load2 -> c_write2       *)
(*                                                  |          |           *)
(*                                                  +----------+-> c_artifacts *)
(***************************************************************************)
EXTENDS EventBus, CancelRegistry, Broker

CONSTANTS
  Requests,   \* message/send and message/stream calls
  Watchers,   \* tasks/resubscribe calls
  Cancels,    \* tasks/cancel calls, each with its force-cancel timer
  MaxFaults   \* how many storage errors and crashes are explored (a bound)

Procs == Requests \cup Watchers \cup Cancels \cup Runs

ASSUME ProcsAssumption ==
  /\ Listeners = Requests \cup Watchers
  /\ Requests \cap Watchers = {} /\ Requests \cap Cancels = {}
  /\ Requests \cap Runs = {} /\ Watchers \cap Cancels = {}
  /\ Watchers \cap Runs = {} /\ Cancels \cap Runs = {}
  /\ MaxFaults \in Nat

VARIABLES
  pc,        \* the await each process is about to perform
  ver,       \* the version a process captured for its next pinned write
  pending,   \* artifacts buffered by a run (ctx._pending_artifacts)
  faults     \* storage errors and crashes so far

\* Where the caller continues when the helper returns.
AfterCancel(p) == IF p \in Runs THEN "fin_load" ELSE "force_bus"

\* The awaits of the helper on which storage may raise.
InCancel == {"c_version", "c_load", "c_write", "c_version2", "c_load2", "c_write2"}

Fault ==
  /\ faults < MaxFaults
  /\ faults' = faults + 1

Goto(p, l) == pc' = [pc EXCEPT ![p] = l]

\* The artifact-only fallback is skipped when there is nothing to write.
ArtifactsOr(p, l) == IF pending[p] # {} THEN "c_artifacts" ELSE l

\* Lines 54, 86: the version is captured before the state is loaded.
CancelGetVersion(p) ==
  /\ pc[p] \in {"c_version", "c_version2"}
  /\ ver' = [ver EXCEPT ![p] = version]
  /\ Goto(p, IF pc[p] = "c_version" THEN "c_load" ELSE "c_load2")
  /\ UNCHANGED <<storeVars, busVars, pending, faults>>

\* Lines 55-59: on a terminal task the helper returns at once, dropping the
\* artifacts it was given.
CancelLoad(p) ==
  /\ pc[p] = "c_load"
  /\ IF tstate \in Terminal
       THEN /\ Goto(p, AfterCancel(p))
            /\ pending' = [pending EXCEPT ![p] = {}]
       ELSE /\ Goto(p, "c_write")
            /\ UNCHANGED pending
  /\ UNCHANGED <<storeVars, busVars, ver, faults>>

\* Lines 73-85: the canceled transition, together with the artifacts.
CancelWrite(p) ==
  /\ pc[p] = "c_write"
  /\ \/ /\ PinnedUpdate(ver[p], "canceled", "canceled", <<>>, pending[p])
        /\ pending' = [pending EXCEPT ![p] = {}]
        /\ Goto(p, "c_publish")
     \/ /\ UpdateRefused(ver[p], "canceled")
        /\ Goto(p, "c_version2")
        /\ UNCHANGED <<storeVars, pending>>
  /\ UNCHANGED <<busVars, ver, faults>>

\* Mutant: a cancel that lost to another returns without its artifacts.
CancelReload_NoFallback(p) ==
  /\ pc[p] = "c_load2"
  /\ Goto(p, IF tstate \in Terminal THEN AfterCancel(p) ELSE "c_write2")
  /\ UNCHANGED <<storeVars, busVars, ver, pending, faults>>

\* Lines 87-97.
CancelReload(p) ==
  /\ pc[p] = "c_load2"
  /\ Goto(p, IF tstate \in Terminal THEN ArtifactsOr(p, AfterCancel(p))
                                    ELSE "c_write2")
  /\ UNCHANGED <<storeVars, busVars, ver, pending, faults>>

\* Lines 98-115: the one retry; if it is refused too, the helper gives up.
CancelRetry(p) ==
  /\ pc[p] = "c_write2"
  /\ \/ /\ PinnedUpdate(ver[p], "canceled", "canceled", <<>>, pending[p])
        /\ pending' = [pending EXCEPT ![p] = {}]
        /\ Goto(p, "c_publish")
     \/ /\ UpdateRefused(ver[p], "canceled")
        /\ Goto(p, ArtifactsOr(p, AfterCancel(p)))
        /\ UNCHANGED <<storeVars, pending>>
  /\ UNCHANGED <<busVars, ver, faults>>

\* Lines 92-96, 110-114: state=None bypasses the terminal guard.
WriteArtifactsOnly(p) ==
  /\ pc[p] = "c_artifacts"
  /\ BlindUpdate(None, None, <<>>, pending[p])
  /\ pending' = [pending EXCEPT ![p] = {}]
  /\ Goto(p, AfterCancel(p))
  /\ UNCHANGED <<busVars, ver, faults>>

\* Lines 117-134.
CancelPublish(p) ==
  /\ pc[p] = "c_publish"
  /\ PublishMarker("canceled")
  /\ Goto(p, AfterCancel(p))
  /\ UNCHANGED <<storeVars, ver, pending, faults>>

CancelInStorage(p) ==
  \/ CancelGetVersion(p)
  \/ CancelLoad(p)
  \/ CancelWrite(p)
  \/ CancelReload(p)
  \/ CancelRetry(p)
  \/ WriteArtifactsOnly(p)
  \/ CancelPublish(p)
=============================================================================
