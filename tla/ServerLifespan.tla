--------------------------- MODULE ServerLifespan ---------------------------
(***************************************************************************)
(* The lifespan of A2AServer around the webhook delivery: the HTTP client, *)
(* the dependency container, then storage, broker, event bus and worker    *)
(* adapter are started in this order.  Any of them may fail to start, and  *)
(* so may the steps of the shutdown.  Runs write to the task while the     *)
(* adapter is up, background tasks of the TaskManager while it serves.     *)
(***************************************************************************)
EXTENDS PushDelivery, SequencesExt

CONSTANTS Runs,      \* the writers that are runs of the adapter
          Registry   \* registered dependencies in order; one may have two keys

Resources == <<"storage", "broker", "event_bus", "adapter">>

VARIABLES
  stage,    \* where lifespan() is
  entered,  \* resources of the async with statement that are open
  cursor,   \* position of startup() or shutdown() in the registry
  starts,   \* everything that was started, in order
  stops     \* everything that was stopped, in order

ASSUME LifespanAssumption ==
  /\ Runs \subseteq Writers
  /\ Registry \in Seq(ToSet(Registry)) /\ ToSet(Registry) \cap ToSet(Resources) = {}

vars == <<pushVars, stage, entered, cursor, starts, stops>>

Aliased == {d \in ToSet(Registry) : \E i, j \in DOMAIN Registry :
              i # j /\ Registry[i] = d /\ Registry[j] = d}

TypeOK ==
  /\ PushTypeOK
  /\ stage \in {"new", "deps", "rollback", "enter", "serving", "background", "delivery",
                "registry", "unwind", "deps_down", "ended"}
  /\ entered \in 0..Len(Resources) /\ cursor \in 0..Len(Registry) + 1
  /\ starts \in Seq(ToSet(Registry) \cup ToSet(Resources))
  /\ stops \in Seq(ToSet(Registry) \cup ToSet(Resources))

Init ==
  /\ PushInit
  /\ stage = "new" /\ entered = 0 /\ cursor = 0
  /\ starts = <<>> /\ stops = <<>>

Goto(s) == stage' = s

StartDelivery ==
  /\ stage = "new" /\ Goto("deps")
  /\ OpenClient /\ cursor' = 1
  /\ UNCHANGED <<taskVars, queue, worker, closing, ghosts, entered, starts, stops>>

\* DependencyContainer.startup: every instance once, in registration order.
\* A failure stops those that were started, the last one first.
StartDependency ==
  /\ stage = "deps"
  /\ \/ cursor > Len(Registry) /\ Goto("enter") /\ UNCHANGED <<cursor, starts>>
     \/ /\ cursor <= Len(Registry)
        /\ IF Registry[cursor] \in ToSet(starts)
           THEN UNCHANGED <<stage, starts>> /\ cursor' = cursor + 1
           ELSE \/ /\ starts' = Append(starts, Registry[cursor])
                   /\ cursor' = cursor + 1 /\ UNCHANGED stage
                \/ Goto("rollback") /\ cursor' = Len(starts) /\ UNCHANGED starts
  /\ UNCHANGED <<pushVars, entered, stops>>

Rollback ==
  /\ stage = "rollback"
  /\ IF cursor = 0 THEN Goto("ended") /\ UNCHANGED <<cursor, stops>>
     ELSE stops' = Append(stops, starts[cursor]) /\ cursor' = cursor - 1 /\ UNCHANGED stage
  /\ UNCHANGED <<pushVars, entered, starts>>

\* async with storage, broker, event_bus, adapter.run()
EnterResource ==
  /\ stage = "enter"
  /\ \/ entered = Len(Resources) /\ Goto("serving") /\ UNCHANGED <<entered, starts>>
     \/ /\ entered < Len(Resources)
        /\ entered' = entered + 1 /\ starts' = Append(starts, Resources[entered + 1])
        /\ UNCHANGED stage
     \/ entered < Len(Resources) /\ Goto("unwind") /\ UNCHANGED <<entered, starts>>
  /\ UNCHANGED <<pushVars, cursor, stops>>

LeaveServing ==
  /\ stage = "serving" /\ Goto("background")
  /\ UNCHANGED <<pushVars, entered, cursor, starts, stops>>

Idle(ws) == writer' = [w \in Writers |-> IF w \in ws THEN [at |-> "idle", snap |-> 0]
                                         ELSE writer[w]]

\* The background tasks are cancelled and awaited; an error of one of them
\* skips the rest of the finally block.
CancelBackground ==
  /\ stage = "background"
  /\ Idle(Writers \ Runs)
  /\ Goto("delivery") \/ Goto("unwind")
  /\ UNCHANGED <<version, deletion, registered, setter, queue, worker, client, closing,
                 ghosts, entered, cursor, starts, stops>>

ShutDownDelivery ==
  /\ stage = "delivery"
  /\ SendSentinels \/ Drained \/ GraceElapses \/ CloseClient
  /\ stage' = IF closing' = "done" THEN "registry" ELSE stage
  /\ UNCHANGED <<entered, cursor, starts, stops>>

\* The cancel registry is closed and app.state cleared; an error there is
\* raised once everything else has been left.
CloseRegistry ==
  /\ stage = "registry" /\ Goto("unwind")
  /\ UNCHANGED <<pushVars, entered, cursor, starts, stops>>

\* The exits of the async with statement, the adapter's first: it shuts the
\* broker down and cancels the runs.
ExitResource ==
  /\ stage = "unwind"
  /\ IF entered = 0
     THEN Goto("deps_down") /\ cursor' = Len(Registry) /\ UNCHANGED <<entered, stops, writer>>
     ELSE /\ entered' = entered - 1 /\ stops' = Append(stops, Resources[entered])
          /\ Idle(IF Resources[entered] = "adapter" THEN Runs ELSE {})
          /\ UNCHANGED <<stage, cursor>>
  /\ UNCHANGED <<version, deletion, registered, setter, queue, worker, client, closing,
                 ghosts, starts>>

\* Mutant: shutdown walks the registry forwards.
NextToStop_Forward == Registry[Len(Registry) + 1 - cursor]

NextToStop == Registry[cursor]

\* DependencyContainer.shutdown: every instance once, the registry backwards.
StopDependency ==
  /\ stage = "deps_down"
  /\ IF cursor = 0 THEN Goto("ended") /\ UNCHANGED <<cursor, stops>>
     ELSE /\ stops' = IF NextToStop \in ToSet(stops) THEN stops ELSE Append(stops, NextToStop)
          /\ cursor' = cursor - 1 /\ UNCHANGED stage
  /\ UNCHANGED <<pushVars, entered, starts>>

Up(w) == stage \in {"enter", "serving", "background", "delivery", "registry", "unwind"}
  /\ IF w \in Runs THEN entered = Len(Resources)
     ELSE stage \in {"serving", "background"}

LifespanStep ==
  \/ StartDelivery \/ StartDependency \/ Rollback \/ EnterResource \/ CancelBackground
  \/ ShutDownDelivery \/ CloseRegistry \/ ExitResource \/ StopDependency

Deliveries(c) == QueueStep(c) /\ UNCHANGED <<stage, entered, cursor, starts, stops>>
Emits(w) ==
  Up(w) /\ EmitterStep(w) /\ UNCHANGED <<stage, entered, cursor, starts, stops>>

Next ==
  \/ LifespanStep \/ LeaveServing
  \/ \E c \in Configs : Deliveries(c)
  \/ \E w \in Writers : Emits(w)
  \/ /\ stage = "serving" /\ StoreStep
     /\ UNCHANGED <<stage, entered, cursor, starts, stops>>
  \/ /\ \E c \in Configs : IdleTimeout(c)
     /\ UNCHANGED <<stage, entered, cursor, starts, stops>>

\* The event loop runs the lifespan and the delivery workers; requests to a
\* webhook end by their timeout.  Nobody has to write, register or shut down.
Spec ==
  /\ Init /\ [][Next]_vars
  /\ WF_vars(LifespanStep)
  /\ \A c \in Configs : WF_vars(Deliveries(c))

-----------------------------------------------------------------------------
Stopped(x) == x \in ToSet(stops)

\* Whatever was started is stopped after everything that was started after it,
\* so that a dependency outlives the runs, the storage and the dependencies
\* that may use it; and however the lifespan ends, everything that was started
\* has been stopped, once.  A dependency registered under two keys is the exception: the walk
\* over the registry backwards meets its second key first.
UnwindsInReverse ==
  /\ \A i, j \in DOMAIN starts :
       i < j /\ Stopped(starts[i]) /\ starts[i] \notin Aliased =>
         \E q \in DOMAIN stops : stops[q] = starts[j]
           /\ \A p \in DOMAIN stops : stops[p] = starts[i] => q < p
  /\ stage = "ended" => ToSet(stops) = ToSet(starts) /\ Len(stops) = Len(starts)
=============================================================================
