----------------------------- MODULE RedisBroker -----------------------------
(***************************************************************************)
(* RedisBroker: one Redis stream with one consumer group, read by the      *)
(* server processes of a deployment, and the handles they work on.  Every  *)
(* Redis command is a step, a MULTI block too; a process may die between   *)
(* any two of them, or be stopped and deregistered.  XACK and the HDEL of  *)
(* the crash count that follows it are one step: the count of an           *)
(* acknowledged entry is never read again.                                 *)
(*                                                                         *)
(* Entry ids come from a finite pool; an id may be drawn again once it is  *)
(* neither waiting, nor pending, nor held, so that endless requeueing      *)
(* stays finite.  done, failed, slow, lost and runs are history that only  *)
(* the properties read.                                                    *)
(***************************************************************************)
EXTENDS Naturals, Sequences, SequencesExt, FiniteSets

CONSTANTS
  Consumers,      \* server processes
  Handles,        \* OperationHandles that may exist at the same time
  Ids,            \* pool of stream entry ids
  Ops,            \* operations, each for one message of a task
  MaxRetries,     \* max_retries of the broker
  AdapterLimits,  \* max_retries the WorkerAdapter may be configured with
  Slots,          \* max_concurrent_tasks of a process
  MaxFaults,      \* bound: how often a process dies, is stopped, or meets an
                  \* error of Redis in its receive loop
  MaxTrims,       \* bound: how often MAXLEN hits an unacknowledged entry
  MaxSlow,        \* bound: claims of an operation that still runs
  Nil

ASSUME BrokerAssumption ==
  /\ MaxRetries \in Nat \ {0} /\ AdapterLimits \subseteq Nat \ {0}
  /\ Slots \in Nat \ {0} /\ MaxFaults \in Nat /\ MaxTrims \in Nat
  /\ MaxSlow \in Nat
  /\ Nil \notin Consumers \cup Handles \cup Ids \cup Ops

VARIABLES
  entry,       \* id -> the fields of the stream entry
  queue,       \* the ids not yet delivered to the group, in order
  pel,         \* id -> the consumer it is pending for, or Nil
  due,         \* ids without a not_before in the future
  trimmed,     \* pending ids whose entry was trimmed away
  crashes,     \* the crash_counts hash
  dlq,         \* operations in the dead-letter stream
  loop,        \* where the receive loop of each process is, and its entry
  hnd,         \* the handles
  setup,       \* max_retries of the WorkerAdapter, and the operations whose
               \* payload does not deserialize
  sent,        \* operations given to run_task
  faults,      \* deaths, stops and Redis errors of the receive loops
  trims,       \* how often trimming hit an unacknowledged entry
  done,        \* operations whose run returned
  failed,      \* operations whose task was marked failed
  slow,        \* operation -> claims from a process that still held it
  lost,        \* operation -> the ways in which it was lost
  runs         \* operation -> how often user code was started

streamVars == <<entry, queue, pel, due, trimmed, crashes, dlq>>
history == <<sent, faults, trims, done, failed, slow, lost, runs>>
vars == <<streamVars, loop, hnd, setup, history>>

LoopLabels == {"poll", "requeue", "count", "bury", "bury_ack", "malformed",
               "malformed_ack", "yield", "stopping", "down"}
HandleLabels == {"free", "ready", "running", "finished", "nack", "nack_add",
                 "bury_ack", "failing", "ack"}
Losses == {"killed", "deregistered", "trimmed", "unmarked", "misread"}

AtRest(label) == [pc |-> label, id |-> Nil, attempt |-> 0]
NoHandle == [pc |-> "free", owner |-> Nil, id |-> Nil, op |-> Nil, attempt |-> 0]

EntryType == [op : Ops \cup {Nil}, attempt : Nat]
LoopType == [pc : LoopLabels, id : Ids \cup {Nil}, attempt : Nat]
HandleType == [pc : HandleLabels, owner : Consumers \cup {Nil}, id : Ids \cup {Nil},
               op : Ops \cup {Nil}, attempt : Nat]

TypeOK ==
  /\ entry \in [Ids -> EntryType]
  /\ queue \in Seq(Ids)
  /\ pel \in [Ids -> Consumers \cup {Nil}]
  /\ due \subseteq Ids /\ trimmed \subseteq Ids
  /\ crashes \in [Ids -> Nat]
  /\ loop \in [Consumers -> LoopType]
  /\ hnd \in [Handles -> HandleType]
  /\ setup \in [adapterMax : Nat, malformed : SUBSET Ops]
  /\ dlq \subseteq Ops /\ sent \subseteq Ops /\ done \subseteq Ops /\ failed \subseteq Ops
  /\ faults \in Nat /\ trims \in Nat
  /\ lost \in [Ops -> SUBSET Losses]
  /\ runs \in [Ops -> Nat] /\ slow \in [Ops -> Nat]

Init ==
  /\ entry = [i \in Ids |-> [op |-> Nil, attempt |-> 0]]
  /\ queue = <<>>
  /\ pel = [i \in Ids |-> Nil]
  /\ due = Ids /\ trimmed = {}
  /\ crashes = [i \in Ids |-> 0]
  /\ dlq = {}
  /\ loop = [c \in Consumers |-> AtRest("poll")]
  /\ hnd = [h \in Handles |-> NoHandle]
  /\ setup \in [adapterMax : AdapterLimits, malformed : SUBSET Ops]
  /\ sent = {} /\ faults = 0 /\ trims = 0
  /\ done = {} /\ failed = {}
  /\ lost = [p \in Ops |-> {}]
  /\ runs = [p \in Ops |-> 0] /\ slow = [p \in Ops |-> 0]

-----------------------------------------------------------------------------
(* The stream.                                                             *)

Queued == {queue[n] : n \in DOMAIN queue}

\* The ids process c has in its hands: its loop and its handles.
InHand(c) == {loop[c].id} \cup {hnd[h].id : h \in {g \in Handles : hnd[g].owner = c}}

FreeIds == {i \in Ids : /\ i \notin Queued /\ pel[i] = Nil
                        /\ \A c \in Consumers : i \notin InHand(c)}

\* XADD of a new entry.
Add(i, p, n, isDue) ==
  /\ entry' = [entry EXCEPT ![i] = [op |-> p, attempt |-> n]]
  /\ queue' = Append(queue, i)
  /\ due' = IF isDue THEN due \cup {i} ELSE due \ {i}
  /\ crashes' = [crashes EXCEPT ![i] = 0]

\* XACK.
Acknowledge(i) ==
  /\ pel' = [pel EXCEPT ![i] = Nil]
  /\ trimmed' = trimmed \ {i}

Lose(ops, how) ==
  lost' = [p \in Ops |-> IF p \in ops THEN lost[p] \cup {how} ELSE lost[p]]

RunTask(p) ==
  /\ p \notin sent
  /\ sent' = sent \cup {p}
  /\ \E i \in FreeIds : Add(i, p, 1, TRUE)
  /\ UNCHANGED <<pel, trimmed, dlq, loop, hnd, setup, faults, trims, done,
                 failed, slow, lost, runs>>

\* The not_before of an entry passes.
BecomeDue(i) ==
  /\ i \notin due
  /\ due' = due \cup {i}
  /\ UNCHANGED <<entry, queue, pel, trimmed, crashes, dlq, loop, hnd,
                 setup, history>>

\* MAXLEN of a later XADD, of this or of another task, takes entry i.
Trim(i) ==
  /\ trims < MaxTrims
  /\ trims' = trims + 1
  /\ \/ /\ i \in Queued
        /\ \E n \in DOMAIN queue : queue[n] = i /\ queue' = RemoveAt(queue, n)
        /\ Lose({entry[i].op}, "trimmed")
        /\ UNCHANGED trimmed
     \/ /\ pel[i] # Nil
        /\ trimmed' = trimmed \cup {i}
        /\ UNCHANGED <<queue, lost>>
  /\ UNCHANGED <<entry, pel, due, crashes, dlq, loop, hnd, setup, sent,
                 faults, done, failed, slow, runs>>

-----------------------------------------------------------------------------
(* The receive loop of process c.  It claims and reads in turns; an empty  *)
(* answer only sends it round again.                                       *)

Loop(c, label, i, n) ==
  loop' = [loop EXCEPT ![c] = [pc |-> label, id |-> i, attempt |-> n]]

\* XAUTOCLAIM of an entry that was pending too long: its process is dead or
\* merely busy with it; the claimer itself, perhaps.
ClaimStale(c) ==
  /\ loop[c].pc = "poll"
  /\ \E i \in Ids :
       LET holders == {d \in Consumers : i \in InHand(d)}
       IN /\ pel[i] # Nil
          /\ holders = {} \/ slow[entry[i].op] < MaxSlow
          /\ \/ /\ i \in trimmed
                /\ Acknowledge(i)
                /\ Lose({entry[i].op}, "trimmed")
                /\ UNCHANGED <<loop, slow>>
             \/ /\ i \notin trimmed
                /\ pel' = [pel EXCEPT ![i] = c]
                /\ Loop(c, IF i \notin due THEN "requeue"
                           ELSE IF entry[i].op \in setup.malformed THEN "malformed"
                           ELSE "count", i, entry[i].attempt)
                /\ slow' = [slow EXCEPT ![entry[i].op] = @ + IF holders = {} THEN 0 ELSE 1]
                /\ UNCHANGED <<trimmed, lost>>
  /\ UNCHANGED <<entry, queue, due, crashes, dlq, hnd, setup, sent, faults,
                 trims, done, failed, runs>>

\* XREADGROUP of one new entry.
ReadNew(c) ==
  /\ loop[c].pc = "poll"
  /\ queue # <<>>
  /\ LET i == Head(queue)
     IN /\ pel' = [pel EXCEPT ![i] = c]
        /\ Loop(c, IF i \notin due THEN "requeue"
                   ELSE IF entry[i].op \in setup.malformed THEN "malformed"
                   ELSE "yield", i, entry[i].attempt)
  /\ queue' = Tail(queue)
  /\ UNCHANGED <<entry, due, trimmed, crashes, dlq, hnd, setup, history>>

\* _requeue_not_due: XADD, XACK and HDEL in one MULTI.  The copy has the same
\* fields; nobody else holds an entry that was never due, so it keeps its id.
RequeueNotDue(c) ==
  /\ loop[c].pc = "requeue"
  /\ LET i == loop[c].id
     IN /\ queue' = Append(queue, i)
        /\ Acknowledge(i)
        /\ crashes' = [crashes EXCEPT ![i] = 0]
  /\ Loop(c, "poll", Nil, 0)
  /\ UNCHANGED <<entry, due, dlq, hnd, setup, history>>

\* Mutant: the claims of crashed deliveries are not counted.
CountClaim_Frozen(c) ==
  /\ loop[c].pc = "count"
  /\ Loop(c, IF entry[loop[c].id].attempt > MaxRetries THEN "bury" ELSE "yield",
          loop[c].id, entry[loop[c].id].attempt)
  /\ UNCHANGED <<streamVars, hnd, setup, history>>

\* HINCRBY of the crash count: a poison pill is buried, else it is yielded
\* with its effective attempt.
CountClaim(c) ==
  /\ loop[c].pc = "count"
  /\ LET i == loop[c].id
         n == entry[i].attempt + crashes[i] + 1
     IN /\ crashes' = [crashes EXCEPT ![i] = @ + 1]
        /\ Loop(c, IF n > MaxRetries THEN "bury" ELSE "yield", i, n)
  /\ UNCHANGED <<entry, queue, pel, due, trimmed, dlq, hnd, setup, history>>

\* XADD to the dead-letter stream, of a poison pill or a malformed payload.
Bury(c) ==
  /\ loop[c].pc \in {"bury", "malformed"}
  /\ dlq' = dlq \cup {entry[loop[c].id].op}
  /\ loop' = [loop EXCEPT ![c].pc = IF @ = "bury" THEN "bury_ack" ELSE "malformed_ack"]
  /\ UNCHANGED <<entry, queue, pel, due, trimmed, crashes, hnd, setup,
                 history>>

\* Mutant: the poison pill is not handed to the adapter.
BuryAck_Silent(c) ==
  /\ loop[c].pc \in {"bury_ack", "malformed_ack"}
  /\ Acknowledge(loop[c].id)
  /\ Loop(c, "poll", Nil, 0)
  /\ UNCHANGED <<entry, queue, due, crashes, dlq, hnd, setup, history>>

\* XACK of what was buried.  The poison pill is yielded all the same, for the
\* adapter to mark its task failed; what passes for malformed has no handle.
BuryAck(c) ==
  /\ loop[c].pc \in {"bury_ack", "malformed_ack"}
  /\ Acknowledge(loop[c].id)
  /\ \/ /\ loop[c].pc = "bury_ack"
        /\ loop' = [loop EXCEPT ![c].pc = "yield"]
        /\ UNCHANGED lost
     \/ /\ loop[c].pc = "malformed_ack"
        /\ Loop(c, "poll", Nil, 0)
        /\ Lose({entry[loop[c].id].op} \ setup.malformed, "misread")
  /\ UNCHANGED <<entry, queue, due, crashes, dlq, hnd, setup, sent, faults, trims, done,
                 failed, slow, runs>>

Fault == faults < MaxFaults /\ faults' = faults + 1

\* A command about a claimed entry raises, whether or not it reached Redis: the
\* except clause that is meant for malformed payloads takes the entry.
ClaimRaises(c) ==
  LET i == loop[c].id IN
  /\ Fault
  /\ \/ /\ loop[c].pc = "count"
        /\ crashes' \in {crashes, [crashes EXCEPT ![i] = @ + 1]}
        /\ UNCHANGED <<pel, trimmed, dlq>>
     \/ /\ loop[c].pc = "bury"
        /\ dlq' \in {dlq, dlq \cup {entry[i].op}}
        /\ UNCHANGED <<pel, trimmed, crashes>>
     \/ /\ loop[c].pc = "bury_ack"
        /\ Acknowledge(i) \/ UNCHANGED <<pel, trimmed>>
        /\ UNCHANGED <<crashes, dlq>>
  /\ loop' = [loop EXCEPT ![c].pc = "malformed"]
  /\ UNCHANGED <<entry, queue, due, hnd, setup, sent, trims, done, failed, slow, lost, runs>>

\* A requeue that never reached Redis, the burial or the XACK of what passes for
\* malformed raises out of the loop, which _broker_loop enters again: the entry
\* stays pending, unless its XACK had come before the first error.
ReceiveRaises(c) ==
  LET i == loop[c].id IN
  /\ Fault
  /\ \/ loop[c].pc \in {"requeue", "malformed", "malformed_ack"} /\ UNCHANGED dlq
     \/ loop[c].pc = "malformed" /\ dlq' = dlq \cup {entry[i].op}
  /\ Lose(IF pel[i] = Nil THEN {entry[i].op} \ (done \cup failed) ELSE {}, "misread")
  /\ Loop(c, "poll", Nil, 0)
  /\ UNCHANGED <<entry, queue, pel, due, trimmed, crashes, hnd, setup, sent, trims, done,
                 failed, slow, runs>>

Busy(c) == {h \in Handles : hnd[h].owner = c}

\* _broker_loop: the semaphore is acquired with the entry already in hand,
\* then the handler starts.
Dispatch(c) ==
  /\ loop[c].pc = "yield"
  /\ Cardinality(Busy(c)) < Slots
  /\ \E h \in Handles :
       /\ hnd[h] = NoHandle
       /\ hnd' = [hnd EXCEPT ![h] = [pc |-> "ready", owner |-> c,
                                     id |-> loop[c].id,
                                     op |-> entry[loop[c].id].op,
                                     attempt |-> loop[c].attempt]]
  /\ Loop(c, "poll", Nil, 0)
  /\ UNCHANGED <<streamVars, setup, history>>

-----------------------------------------------------------------------------
(* A handle under _handle_op_inner of the adapter.                         *)

Step(h, label) == hnd' = [hnd EXCEPT ![h].pc = label]
Release(h) == hnd' = [hnd EXCEPT ![h] = NoHandle]

\* The pre-check for poison pills, then user code.
Start(h) ==
  /\ hnd[h].pc = "ready"
  /\ \/ /\ hnd[h].attempt > setup.adapterMax
        /\ Step(h, "failing")
        /\ UNCHANGED runs
     \/ /\ hnd[h].attempt <= setup.adapterMax
        /\ Step(h, "running")
        /\ runs' = [runs EXCEPT ![hnd[h].op] = @ + 1]
  /\ UNCHANGED <<streamVars, loop, setup, sent, faults, trims, done, failed,
                 slow, lost>>

\* The dispatch returns.
Finish(h) ==
  /\ hnd[h].pc = "running"
  /\ done' = done \cup {hnd[h].op}
  /\ Step(h, "finished")
  /\ UNCHANGED <<streamVars, loop, setup, sent, faults, trims, failed, slow,
                 lost, runs>>

\* The dispatch raises, or the ack after it, whether or not the XACK reached
\* Redis: retry while attempts are left.
Raise(h) ==
  /\ \/ hnd[h].pc \in {"running", "finished"} /\ UNCHANGED <<pel, trimmed>>
     \/ hnd[h].pc = "finished" /\ Acknowledge(hnd[h].id)
  /\ Step(h, IF hnd[h].attempt < setup.adapterMax THEN "nack" ELSE "failing")
  /\ UNCHANGED <<entry, queue, due, crashes, dlq, loop, setup, history>>

\* nack beyond the limit of the broker: dead-letter stream first.
NackBury(h) ==
  /\ hnd[h].pc = "nack"
  /\ hnd[h].attempt + 1 > MaxRetries
  /\ dlq' = dlq \cup {hnd[h].op}
  /\ Step(h, "bury_ack")
  /\ UNCHANGED <<entry, queue, pel, due, trimmed, crashes, loop, setup,
                 history>>

\* Mutant: the retry is acknowledged and never added.
NackAck_Forgets(h) ==
  /\ hnd[h].pc = "nack"
  /\ hnd[h].attempt + 1 <= MaxRetries
  /\ Acknowledge(hnd[h].id)
  /\ Release(h)
  /\ UNCHANGED <<entry, queue, due, crashes, dlq, loop, setup, history>>

\* nack: XACK, the first command of a pipeline that is no transaction ...
NackAck(h) ==
  /\ hnd[h].pc = "nack"
  /\ hnd[h].attempt + 1 <= MaxRetries
  /\ Acknowledge(hnd[h].id)
  /\ Step(h, "nack_add")
  /\ UNCHANGED <<entry, queue, due, crashes, dlq, loop, setup, history>>

\* ... and XADD of the next attempt, not before its delay has passed.
NackAdd(h) ==
  /\ hnd[h].pc = "nack_add"
  /\ \E i \in FreeIds : Add(i, hnd[h].op, hnd[h].attempt + 1, FALSE)
  /\ Release(h)
  /\ UNCHANGED <<pel, trimmed, dlq, loop, setup, history>>

\* nack raises, before, between or after its commands reached Redis; after the
\* XADD the failed mark comes on top of the retry.
NackRaises(h) ==
  /\ \/ /\ hnd[h].pc \in {"nack", "nack_add", "bury_ack"}
        /\ UNCHANGED <<entry, queue, due, crashes>>
     \/ /\ hnd[h].pc = "nack_add"
        /\ \E i \in FreeIds : Add(i, hnd[h].op, hnd[h].attempt + 1, FALSE)
  /\ Step(h, "failing")
  /\ UNCHANGED <<pel, trimmed, dlq, loop, setup, history>>

\* _mark_failed, which may itself raise; the entry is acknowledged anyway.
MarkFailed(h) ==
  /\ hnd[h].pc = "failing"
  /\ \/ failed' = failed \cup {hnd[h].op} /\ UNCHANGED lost
     \/ Lose({hnd[h].op}, "unmarked") /\ UNCHANGED failed
  /\ Step(h, "ack")
  /\ UNCHANGED <<streamVars, loop, setup, sent, faults, trims, done, slow,
                 runs>>

\* ack, after the run, the failed mark or the burial.
Ack(h) ==
  /\ hnd[h].pc \in {"finished", "ack", "bury_ack"}
  /\ Acknowledge(hnd[h].id)
  /\ Release(h)
  /\ UNCHANGED <<entry, queue, due, crashes, dlq, loop, setup, history>>

\* The ack after the failed mark raises, which is only logged.
AckRaises(h) ==
  /\ hnd[h].pc = "ack"
  /\ Release(h)
  /\ UNCHANGED <<streamVars, loop, setup, history>>

-----------------------------------------------------------------------------
(* Processes that die, stop and come back.                                 *)

\* What process c loses with its memory: operations it holds that Redis no
\* longer has pending and that nobody has settled.
OnlyInMemory(c) ==
  {entry[i].op : i \in {j \in Ids : j \in InHand(c) /\ pel[j] = Nil}}
    \ (done \cup failed)

Vanish(c, label) ==
  /\ Fault
  /\ loop' = [loop EXCEPT ![c] = AtRest(label)]
  /\ hnd' = [h \in Handles |-> IF hnd[h].owner = c THEN NoHandle ELSE hnd[h]]
  /\ Lose(OnlyInMemory(c), "killed")
  /\ UNCHANGED <<streamVars, setup, sent, trims, done, failed, slow, runs>>

\* The process is killed.
Kill(c) ==
  /\ loop[c].pc \notin {"stopping", "down"}
  /\ Vanish(c, "down")

\* The lifespan ends: shutdown() and the cancellation of loop and handlers,
\* none of which acknowledges anything.
Stop(c) ==
  /\ loop[c].pc \notin {"stopping", "down"}
  /\ Vanish(c, "stopping")

Pending(c) == {i \in Ids : pel[i] = c}

\* __aexit__: XGROUP DELCONSUMER, which deletes the pending entries of the
\* consumer together with it.
Deregister(c) ==
  /\ loop[c].pc = "stopping"
  /\ pel' = [i \in Ids |-> IF i \in Pending(c) THEN Nil ELSE pel[i]]
  /\ trimmed' = trimmed \ Pending(c)
  /\ Lose({entry[i].op : i \in Pending(c)}, "deregistered")
  /\ Loop(c, "down", Nil, 0)
  /\ UNCHANGED <<entry, queue, due, crashes, dlq, hnd, setup, sent, faults,
                 trims, done, failed, slow, runs>>

\* A new process takes its place.
Restart(c) ==
  /\ loop[c].pc = "down"
  /\ Loop(c, "poll", Nil, 0)
  /\ UNCHANGED <<streamVars, hnd, setup, history>>

ReceiveStep(c) ==
  \/ RequeueNotDue(c) \/ CountClaim(c) \/ Bury(c) \/ BuryAck(c) \/ Dispatch(c)
  \/ ClaimRaises(c) \/ ReceiveRaises(c)

HandleStep(h) ==
  \/ Start(h) \/ Finish(h) \/ Raise(h) \/ NackBury(h) \/ NackAck(h)
  \/ NackAdd(h) \/ MarkFailed(h) \/ Ack(h)

Next ==
  \/ \E p \in Ops : RunTask(p)
  \/ \E i \in Ids : BecomeDue(i) \/ Trim(i)
  \/ \E c \in Consumers :
       \/ ClaimStale(c) \/ ReadNew(c) \/ ReceiveStep(c)
       \/ Kill(c) \/ Stop(c) \/ Deregister(c) \/ Restart(c)
  \/ \E h \in Handles : HandleStep(h) \/ NackRaises(h) \/ AckRaises(h)

Spec == Init /\ [][Next]_vars

-----------------------------------------------------------------------------
InFlight(p) ==
  \/ \E i \in Ids : entry[i].op = p /\ (i \in Queued \/ pel[i] # Nil)
  \/ \E h \in Handles : hnd[h].op = p
  \/ \E c \in Consumers : loop[c].id # Nil /\ entry[loop[c].id].op = p

Settled(p) == p \in done \cup failed \/ (p \in setup.malformed /\ p \in dlq)

\* An accepted operation is never forgotten silently: it is settled, or still
\* in the stream, in a pending list or in a live handle, or it was lost in one
\* of the ways this broker has: its process died between the XACK and the
\* XADD of nack or between burying a poison pill and marking it, it was
\* pending for a consumer that was deregistered, MAXLEN took it, the failed mark
\* itself raised, or Redis failed while it was claimed, so that it passed for
\* malformed.  With limits that differ it may also end in the dead-letter
\* stream unmarked.
OnlyKnownLosses ==
  \A p \in sent :
    \/ Settled(p) \/ InFlight(p) \/ lost[p] # {}
    \/ setup.adapterMax > MaxRetries /\ p \in dlq

Working(h) == hnd[h].pc \in {"ready", "running", "finished", "nack", "nack_add"}

\* Unless a run outlasts the claim timeout, no operation is worked on by two
\* handlers, and crashes, retries and failed acknowledgements together start
\* user code at most as often as the adapter allows.
RunsBounded ==
  \A p \in Ops :
    slow[p] = 0 =>
      /\ runs[p] <= setup.adapterMax
      /\ \A g, h \in Handles :
           hnd[g].op = p /\ hnd[h].op = p /\ Working(g) /\ Working(h) => g = h

\* A dead-lettered operation ends with its task marked failed, or is on the
\* way there; only a malformed payload, or a loss named above, leaves a task
\* behind that nobody works on.
DeadLettersMarked ==
  setup.adapterMax <= MaxRetries =>
    \A p \in dlq \ setup.malformed : p \in done \cup failed \/ InFlight(p) \/ lost[p] # {}
=============================================================================
