---------------------------- MODULE PushDelivery ----------------------------
(***************************************************************************)
(* Webhook notifications for one task.  PushDeliveryEmitter wraps every    *)
(* state change: after the write it loads a snapshot of the task and hands *)
(* it to WebhookDeliveryService, which keeps one bounded queue and one     *)
(* worker per registered configuration.  A snapshot is its version.  The   *)
(* last version is the terminal one.  The semaphore all POSTs share is     *)
(* first come first served and held for one POST, so it only delays them.  *)
(***************************************************************************)
EXTENDS Naturals, Sequences, FiniteSets

CONSTANTS Configs,       \* ids of webhook configurations
          Writers,       \* those who change the task: its run, a forced cancel
          FinalVersion,  \* the version of the terminal write
          MaxQueueSize,  \* max_queue_size
          MaxAttempts    \* max_retries: POSTs per snapshot

ASSUME PushAssumption ==
  FinalVersion \in Nat \ {0} /\ MaxQueueSize \in Nat \ {0} /\ MaxAttempts \in Nat \ {0}

VARIABLES
  version,     \* version of the task in storage
  deletion,    \* "no", "row" (row gone, configurations not yet), "done"
  registered,  \* configurations in the push store
  setter,      \* configurations of set calls that have seen the task
  writer,      \* where each update_task is, and the snapshot it loaded
  queue,       \* the snapshots waiting for each configuration
  worker,      \* the queue worker of each configuration
  client,      \* the HTTP client: "none", "open", "closed"
  closing,     \* where shutdown() is
  newest,      \* the snapshot last handed over for each configuration
  settled,     \* snapshots that were posted, refused or given up
  received,    \* newest snapshot each webhook was sent
  regressed,   \* webhooks that were sent an older snapshot after a newer one
  overtaken    \* a writer handed over a snapshot older than another writer's

pushVars == <<version, deletion, registered, setter, writer, queue, worker,
              client, closing, newest, settled, received, regressed, overtaken>>
taskVars == <<version, deletion, registered, setter, writer>>
ghosts == <<newest, settled, received, regressed, overtaken>>

Versions == 1..FinalVersion
Stop == 0  \* the sentinel that ends a worker

NoWorker == [at |-> "none", item |-> Stop, attempt |-> 0, late |-> FALSE]

WriterType == [at : {"idle", "written", "loaded"}, snap : 0..FinalVersion]
WorkerType == [at : {"none", "wait", "resolve", "post", "backoff", "cancelled"},
               item : 0..FinalVersion, attempt : 0..MaxAttempts, late : BOOLEAN]

PushTypeOK ==
  /\ version \in 0..FinalVersion /\ deletion \in {"no", "row", "done"}
  /\ registered \subseteq Configs /\ setter \subseteq Configs /\ regressed \subseteq Configs
  /\ writer \in [Writers -> WriterType] /\ worker \in [Configs -> WorkerType]
  /\ queue \in [Configs -> Seq(0..FinalVersion)]
  /\ \A c \in Configs : Len(queue[c]) <= MaxQueueSize
  /\ settled \in [Configs -> SUBSET Versions]
  /\ newest \in [Configs -> 0..FinalVersion] /\ received \in [Configs -> 0..FinalVersion]
  /\ overtaken \in BOOLEAN
  /\ client \in {"none", "open", "closed"}
  /\ closing \in {"no", "drain", "cancelling", "close", "done"}

PushInit ==
  /\ version = 0 /\ deletion = "no"
  /\ registered = {} /\ setter = {}
  /\ writer = [w \in Writers |-> [at |-> "idle", snap |-> 0]]
  /\ queue = [c \in Configs |-> <<>>]
  /\ worker = [c \in Configs |-> NoWorker]
  /\ client = "none" /\ closing = "no"
  /\ newest = [c \in Configs |-> 0] /\ settled = [c \in Configs |-> {}]
  /\ received = [c \in Configs |-> 0]
  /\ regressed = {} /\ overtaken = FALSE

Alive(c) == worker[c].at # "none"

-----------------------------------------------------------------------------
\* The configurations of the task.

\* handle_set_config: the task is loaded, then the URL is validated ...
SetConfig(c) ==
  /\ deletion = "no"
  /\ setter' = setter \cup {c}
  /\ UNCHANGED <<version, deletion, registered, writer, queue, worker, client, closing,
                 ghosts>>

\* ... and refused, or the configuration is stored for that task id.
StoreConfig(c) ==
  /\ c \in setter
  /\ setter' = setter \ {c}
  /\ registered' \in {registered, registered \cup {c}}
  /\ UNCHANGED <<version, deletion, writer, queue, worker, client, closing, ghosts>>

DeleteConfig(c) ==
  /\ deletion = "no"
  /\ c \in registered
  /\ registered' = registered \ {c}
  /\ UNCHANGED <<version, deletion, setter, writer, queue, worker, client, closing,
                 ghosts>>

\* delete_task: the row goes, then the configurations of the task.
DeleteTask ==
  /\ \/ deletion = "no" /\ version > 0 /\ deletion' = "row" /\ UNCHANGED registered
     \/ deletion = "row" /\ deletion' = "done" /\ registered' = {}
  /\ UNCHANGED <<version, setter, writer, queue, worker, client, closing, ghosts>>

-----------------------------------------------------------------------------
\* PushDeliveryEmitter.update_task.

\* The inner emitter writes; only a change of state is announced.
Update(w) ==
  /\ writer[w].at = "idle"
  /\ deletion = "no" /\ version < FinalVersion
  /\ version' = version + 1
  /\ \E at \in {"written"} \cup (IF version' < FinalVersion THEN {"idle"} ELSE {}) :
       writer' = [writer EXCEPT ![w].at = at]
  /\ UNCHANGED <<deletion, registered, setter, queue, worker, client, closing, ghosts>>

\* The snapshot may be newer than this write.  A storage error ends the call
\* without a notification.
LoadSnapshot(w) ==
  /\ writer[w].at = "written"
  /\ \/ deletion = "no" /\ writer' = [writer EXCEPT ![w] = [at |-> "loaded", snap |-> version]]
     \/ writer' = [writer EXCEPT ![w].at = "idle"]
  /\ UNCHANGED <<version, deletion, registered, setter, queue, worker, client, closing,
                 ghosts>>

\* Mutant: a full queue refuses the snapshot.
Enqueue_DropNewest(q, x) == IF Len(q) < MaxQueueSize THEN Append(q, x) ELSE q

\* _enqueue: a full queue loses its oldest entry.
Enqueue(q, x) == Append(IF Len(q) < MaxQueueSize THEN q ELSE Tail(q), x)

\* deliver: for every configuration registered now, a queue with a living
\* worker, and the snapshot in it.
Deliver(w) ==
  LET v == writer[w].snap
      fresh == {c \in registered : ~Alive(c)}
  IN /\ writer[w].at = "loaded"
     /\ writer' = [writer EXCEPT ![w] = [at |-> "idle", snap |-> 0]]
     /\ queue' = [c \in Configs |->
          IF c \in fresh THEN Enqueue(<<>>, v)
          ELSE IF c \in registered THEN Enqueue(queue[c], v) ELSE queue[c]]
     /\ worker' = [c \in Configs |->
          IF c \in fresh
          THEN [NoWorker EXCEPT !.at = "wait", !.late = closing # "no"]
          ELSE worker[c]]
     /\ newest' = [c \in Configs |-> IF c \in registered THEN v ELSE newest[c]]
     /\ overtaken' = (overtaken \/ \E c \in registered : newest[c] > v)
     /\ UNCHANGED <<version, deletion, registered, setter, client, closing, settled,
                    received, regressed>>

-----------------------------------------------------------------------------
\* _queue_worker and _deliver_single.

Works(c, at) == worker[c].at = at

\* The next snapshot, or the sentinel: what is queued behind it is lost.
TakeItem(c) ==
  /\ Works(c, "wait") /\ queue[c] # <<>>
  /\ LET item == Head(queue[c])
     IN IF item = Stop
        THEN worker' = [worker EXCEPT ![c] = NoWorker] /\ queue' = [queue EXCEPT ![c] = <<>>]
        ELSE /\ worker' = [worker EXCEPT ![c].at = "resolve", ![c].item = item]
             /\ queue' = [queue EXCEPT ![c] = Tail(@)]
  /\ UNCHANGED <<taskVars, client, closing, ghosts>>

IdleTimeout(c) ==
  /\ Works(c, "wait") /\ queue[c] = <<>>
  /\ worker' = [worker EXCEPT ![c] = NoWorker]
  /\ UNCHANGED <<taskVars, queue, client, closing, ghosts>>

\* The snapshot is dealt with; a drained queue ends with the terminal one.
FinishItem(c) ==
  /\ settled' = [settled EXCEPT ![c] = @ \cup {worker[c].item}]
  /\ worker' = [worker EXCEPT ![c] =
       IF queue[c] = <<>> /\ @.item = FinalVersion THEN NoWorker
       ELSE [@ EXCEPT !.at = "wait", !.attempt = 0]]

\* The host is resolved and pinned, or the URL is refused.
Resolve(c) ==
  /\ Works(c, "resolve")
  /\ \/ worker' = [worker EXCEPT ![c].at = "post", ![c].attempt = 1] /\ UNCHANGED settled
     \/ FinishItem(c)
  /\ UNCHANGED <<taskVars, queue, client, closing, newest, received, regressed, overtaken>>

Receives(c) ==
  /\ received' = [received EXCEPT ![c] = IF worker[c].item > @ THEN worker[c].item ELSE @]
  /\ regressed' = IF worker[c].item < received[c] THEN regressed \cup {c} ELSE regressed

\* Mutant: a failed snapshot goes to the end of the queue.
Retry_Requeue(c) ==
  /\ worker' = [worker EXCEPT ![c].at = "wait"]
  /\ queue' = [queue EXCEPT ![c] = Enqueue(@, worker[c].item)]
  /\ UNCHANGED settled

\* A failure is retried after a delay.
Retry(c) ==
  /\ IF worker[c].attempt < MaxAttempts
     THEN worker' = [worker EXCEPT ![c].at = "backoff"] /\ UNCHANGED settled
     ELSE FinishItem(c)
  /\ UNCHANGED queue

\* The answer: accepted, refused (4xx), or a failure to be retried.  A failed
\* request may have arrived.  A closed client raises, which ends the snapshot.
Answer(c) ==
  /\ Works(c, "post")
  /\ \/ client = "open" /\ Receives(c) /\ FinishItem(c) /\ UNCHANGED queue
     \/ client = "open" /\ Retry(c) /\ (Receives(c) \/ UNCHANGED <<received, regressed>>)
     \/ client = "closed" /\ FinishItem(c) /\ UNCHANGED <<queue, received, regressed>>
  /\ UNCHANGED <<taskVars, client, closing, newest, overtaken>>

BackOff(c) ==
  /\ Works(c, "backoff")
  /\ worker' = [worker EXCEPT ![c].at = "post", ![c].attempt = @ + 1]
  /\ UNCHANGED <<taskVars, queue, client, closing, ghosts>>

-----------------------------------------------------------------------------
\* WebhookDeliveryService.startup and shutdown.

OpenClient == client' = "open"

\* shutdown waits for the workers it finds.
Awaited == {c \in Configs : Alive(c) /\ ~worker[c].late}

SendSentinels ==
  /\ closing = "no"
  /\ queue' = [c \in Configs |-> IF Alive(c) THEN Enqueue(queue[c], Stop) ELSE queue[c]]
  /\ closing' = IF Awaited = {} THEN "close" ELSE "drain"
  /\ UNCHANGED <<taskVars, worker, client, ghosts>>

Drained ==
  /\ closing \in {"drain", "cancelling"}
  /\ Awaited = {}
  /\ closing' = "close"
  /\ UNCHANGED <<taskVars, queue, worker, client, ghosts>>

\* Mutant: after the grace period the client is closed under the workers.
GraceElapses_NoCancel ==
  /\ closing = "drain" /\ Awaited # {}
  /\ closing' = "close"
  /\ UNCHANGED <<taskVars, queue, worker, client, ghosts>>

GraceElapses ==
  /\ closing = "drain" /\ Awaited # {}
  /\ closing' = "cancelling"
  /\ worker' = [c \in Configs |->
       IF c \in Awaited THEN [worker[c] EXCEPT !.at = "cancelled"] ELSE worker[c]]
  /\ UNCHANGED <<taskVars, queue, client, ghosts>>

CancelledEnds(c) ==
  /\ Works(c, "cancelled")
  /\ worker' = [worker EXCEPT ![c] = NoWorker]
  /\ queue' = [queue EXCEPT ![c] = <<>>]
  /\ UNCHANGED <<taskVars, client, closing, ghosts>>

CloseClient ==
  /\ closing = "close"
  /\ client' = "closed" /\ closing' = "done"
  /\ UNCHANGED <<taskVars, queue, worker, ghosts>>

-----------------------------------------------------------------------------
QueueStep(c) ==
  \/ TakeItem(c) \/ Resolve(c) \/ Answer(c) \/ BackOff(c)
  \/ CancelledEnds(c)

StoreStep ==
  \/ \E c \in Configs : SetConfig(c) \/ StoreConfig(c) \/ DeleteConfig(c)
  \/ DeleteTask

EmitterStep(w) == Update(w) \/ LoadSnapshot(w) \/ Deliver(w)

\* The snapshots of a task reach a webhook in the order of their versions.
\* The one exception: of two writers at the same time the slower one hands over
\* the snapshot it loaded before the other one's write.
WebhookOrder == regressed # {} => overtaken

\* shutdown leaves no worker behind that it knew of: when the client is
\* closed, only workers started after shutdown began are still there.
ClosedAfterWorkers == client = "closed" => \A c \in Configs : Alive(c) => worker[c].late

\* The newest snapshot handed over for a webhook is never dropped by a full
\* queue or a worker that gives up: it is posted, refused or retried to the
\* end, unless the server shuts down.
NewestSettles ==
  \A c \in Configs, v \in Versions :
    newest[c] = v ~> (v \in settled[c] \/ newest[c] # v \/ closing # "no")
=============================================================================
