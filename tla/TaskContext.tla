---------------------------- MODULE TaskContext ----------------------------
(***************************************************************************)
(* What a worker does through its TaskContext (worker/base.py): emit       *)
(* artifacts, send progress, end the turn with a lifecycle method.  The    *)
(* user's handler is an arbitrary sequence of those calls; it may return   *)
(* or raise at any point.  All pinned writes go through _versioned_update: *)
(*                                                                         *)
(*   u_write --conflict--> u_load --(u_version)--> u_retry                 *)
(*                                                                         *)
(* A batch stays in pending until the write that carries it succeeds: the  *)
(* code takes it out of the buffer and puts it back on every failure.      *)
(***************************************************************************)
EXTENDS CancelTask

CONSTANTS
  Calls,         \* the lifecycle methods the handler may use (a bound)
  LateConflict   \* storage may raise ConcurrencyError without the current
                 \* version (the SQL backends, when the UPDATE hits no row)

LifecycleCalls ==
  {"complete", "respond", "fail", "reject", "request_input", "request_auth"}

ASSUME ContextAssumption ==
  /\ Calls \subseteq LifecycleCalls
  /\ LateConflict \in BOOLEAN

\* The state each lifecycle method writes.
CallState ==
  [c \in LifecycleCalls |->
     CASE c \in {"complete", "respond"} -> "completed"
       [] c = "fail"          -> "failed"
       [] c = "reject"        -> "rejected"
       [] c = "request_input" -> "input_required"
       [] c = "request_auth"  -> "auth_required"]

\* complete() writes no status message, the others do.
CallMessage(c) == IF c = "complete" THEN None ELSE CallState[c]

\* What a pinned write is for: an artifact flush, a progress update, or one
\* of the lifecycle methods.
WriteKinds == {"flush", "status"} \cup LifecycleCalls

VARIABLES
  kind,        \* the write a run is performing
  turnEnded,   \* runs whose lifecycle write succeeded (ctx._turn_ended)
  reported,    \* runs that have sent their progress update (a bound)
  streamed     \* artifacts published to subscribers

contextVars == <<kind, turnEnded, reported, streamed>>

ContextTypeOK ==
  /\ kind \in [Runs -> WriteKinds]
  /\ turnEnded \in SUBSET Runs
  /\ reported \in SUBSET Runs
  /\ streamed \in SUBSET Artifacts

ContextInit ==
  /\ kind = [w \in Runs |-> "flush"]
  /\ turnEnded = {}
  /\ reported = {}
  /\ streamed = {}

\* The arguments a pinned write passes to update_task.
WriteState(k)   == IF k \in LifecycleCalls THEN CallState[k] ELSE None
WriteMessage(k) == CASE k = "flush"  -> None
                     [] k = "status" -> "progress"
                     [] OTHER        -> CallMessage(k)

-----------------------------------------------------------------------------
(* The handler's calls.  They are ignored once the turn has ended.         *)

StartWrite(w, k) ==
  /\ kind' = [kind EXCEPT ![w] = k]
  /\ Goto(w, "u_write")

\* emit_artifact: subscribers first, then the buffer, then perhaps a flush
\* (interval or count threshold).  Nobody else reads the buffer, so publishing
\* and buffering are one step; a cancellation between the two is a branch of
\* CancelDelivered.
EmitArtifact(w) ==
  /\ pc[w] = "handle"
  /\ w \notin turnEnded
  /\ \E a \in Artifacts \ streamed :
       /\ streamed' = streamed \cup {a}
       /\ pending' = [pending EXCEPT ![w] = @ \cup {a}]
  /\ \/ StartWrite(w, "flush")
     \/ UNCHANGED <<pc, kind>>
  /\ UNCHANGED <<storeVars, busVars, ver, turnEnded, reported, faults>>

\* Mutant: progress is still sent after the turn has ended.
SendStatus_AfterEnd(w) ==
  /\ pc[w] = "handle"
  /\ w \notin reported
  /\ reported' = reported \cup {w}
  /\ StartWrite(w, "status")
  /\ UNCHANGED <<storeVars, busVars, ver, pending, turnEnded, streamed, faults>>

\* send_status(message); at most one per run is explored.
SendStatus(w) ==
  /\ pc[w] = "handle"
  /\ w \notin turnEnded \cup reported
  /\ reported' = reported \cup {w}
  /\ StartWrite(w, "status")
  /\ UNCHANGED <<storeVars, busVars, ver, pending, turnEnded, streamed, faults>>

\* complete, respond, fail, reject, request_input, request_auth.
CallLifecycle(w) ==
  /\ pc[w] = "handle"
  /\ w \notin turnEnded
  /\ \E c \in Calls : StartWrite(w, c)
  /\ UNCHANGED <<storeVars, busVars, ver, pending, turnEnded, reported, streamed,
                 faults>>

-----------------------------------------------------------------------------
(* _versioned_update and its callers' error handling.                      *)

\* A pinned write went through: the version is carried on and the caller
\* continues; a lifecycle write ends the turn.
WriteSucceeded(w) ==
  /\ ver' = [ver EXCEPT ![w] = version + 1]
  /\ pending' = [pending EXCEPT ![w] = {}]
  /\ turnEnded' = IF kind[w] \in LifecycleCalls THEN turnEnded \cup {w} ELSE turnEnded
  /\ Goto(w, CASE kind[w] = "flush"  -> "handle"
               [] kind[w] = "status" -> "p_publish"
               [] OTHER              -> "end_publish")

\* The version a ConcurrencyError reports, 0 when it reports none.
ReportedVersions == {version} \cup (IF LateConflict THEN {0} ELSE {})

\* TaskTerminalStateError leaves the handler.  The adapter catches it by name
\* and writes what is still buffered on its own; wrapped by the task group in
\* an ExceptionGroup it is an ordinary failure of the handler instead.
TerminalError(w) == \E l \in {ArtifactsOr(w, "fin_load"), "m_version"} : Goto(w, l)

VersionedWrite(w) ==
  /\ pc[w] = "u_write"
  /\ \/ /\ PinnedUpdate(ver[w], WriteState(kind[w]), WriteMessage(kind[w]),
                        <<>>, pending[w])
        /\ WriteSucceeded(w)
     \/ /\ VersionMismatch(ver[w])
        /\ \E v \in ReportedVersions : ver' = [ver EXCEPT ![w] = v]
        /\ Goto(w, "u_load")
        /\ UNCHANGED <<storeVars, pending, turnEnded>>
     \/ /\ ~VersionMismatch(ver[w])
        /\ TerminalGuard(WriteState(kind[w]))
        /\ TerminalError(w)
        /\ UNCHANGED <<storeVars, ver, pending, turnEnded>>
  /\ UNCHANGED <<busVars, kind, reported, streamed, faults>>

\* The reload after a conflict: a state or status-message write stops on a
\* terminal task, an artifact flush goes on.
ReloadOnConflict(w) ==
  /\ pc[w] = "u_load"
  /\ IF tstate \in Terminal /\ kind[w] # "flush"
       THEN TerminalError(w)
       ELSE Goto(w, IF ver[w] = 0 THEN "u_version" ELSE "u_retry")
  /\ UNCHANGED <<storeVars, busVars, ver, pending, contextVars, faults>>

\* `exc.current_version or await get_version()`: read after the reload.
FreshVersion(w) ==
  /\ pc[w] = "u_version"
  /\ ver' = [ver EXCEPT ![w] = version]
  /\ Goto(w, "u_retry")
  /\ UNCHANGED <<storeVars, busVars, pending, contextVars, faults>>

\* Mutant: a batch that lost twice is not put back into the buffer.
RetryWrite_DropsBatch(w) ==
  /\ pc[w] = "u_retry"
  /\ \/ /\ PinnedUpdate(ver[w], WriteState(kind[w]), WriteMessage(kind[w]),
                        <<>>, pending[w])
        /\ WriteSucceeded(w)
     \/ /\ VersionMismatch(ver[w])
        /\ ver' = [ver EXCEPT ![w] = version]
        /\ pending' = [pending EXCEPT ![w] = {}]
        /\ Goto(w, "handle")
        /\ UNCHANGED <<storeVars, turnEnded>>
  /\ UNCHANGED <<busVars, kind, reported, streamed, faults>>

\* The retry.  A second conflict re-buffers a flush or a progress update and
\* refreshes the version; from a lifecycle method it escapes as an exception.
RetryWrite(w) ==
  /\ pc[w] = "u_retry"
  /\ \/ /\ PinnedUpdate(ver[w], WriteState(kind[w]), WriteMessage(kind[w]),
                        <<>>, pending[w])
        /\ WriteSucceeded(w)
     \/ /\ VersionMismatch(ver[w])
        /\ kind[w] \notin LifecycleCalls
        /\ \E v \in ReportedVersions :
             /\ ver' = [ver EXCEPT ![w] = v]
             /\ Goto(w, IF v = 0 THEN "u_refresh" ELSE "handle")
        /\ UNCHANGED <<storeVars, pending, turnEnded>>
     \/ /\ VersionMismatch(ver[w])
        /\ kind[w] \in LifecycleCalls
        /\ Goto(w, "m_version")
        /\ UNCHANGED <<storeVars, ver, pending, turnEnded>>
     \/ /\ ~VersionMismatch(ver[w])
        /\ TerminalGuard(WriteState(kind[w]))
        /\ TerminalError(w)
        /\ UNCHANGED <<storeVars, ver, pending, turnEnded>>
  /\ UNCHANGED <<busVars, kind, reported, streamed, faults>>

RefreshVersion(w) ==
  /\ pc[w] = "u_refresh"
  /\ ver' = [ver EXCEPT ![w] = version]
  /\ Goto(w, "handle")
  /\ UNCHANGED <<storeVars, busVars, pending, contextVars, faults>>

\* The `working` event that follows a persisted progress update.
PublishProgress(w) ==
  /\ pc[w] = "p_publish"
  /\ PublishStatus("working")
  /\ Goto(w, "handle")
  /\ UNCHANGED <<storeVars, ver, pending, contextVars, faults>>

\* Mutant: the end of a turn goes out as a bare status event.
PublishEnd_Unmarked(w) ==
  /\ pc[w] = "end_publish"
  /\ PublishStatus(CallState[kind[w]])
  /\ Goto(w, "handle")
  /\ UNCHANGED <<storeVars, ver, pending, contextVars, faults>>

\* _emit_status after a lifecycle write, shielded from cancellation: every
\* lifecycle state, paused ones included, goes out in a TerminalMarker.
PublishEnd(w) ==
  /\ pc[w] = "end_publish"
  /\ PublishMarker(CallState[kind[w]])
  /\ Goto(w, "handle")
  /\ UNCHANGED <<storeVars, ver, pending, contextVars, faults>>

-----------------------------------------------------------------------------
HandlerCall(w) ==
  \/ EmitArtifact(w)
  \/ SendStatus(w)
  \/ CallLifecycle(w)

ContextStep(w) ==
  \/ VersionedWrite(w)
  \/ ReloadOnConflict(w)
  \/ FreshVersion(w)
  \/ RetryWrite(w)
  \/ RefreshVersion(w)
  \/ PublishProgress(w)
  \/ PublishEnd(w)
=============================================================================
