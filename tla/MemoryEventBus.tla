--------------------------- MODULE MemoryEventBus ---------------------------
(***************************************************************************)
(* InMemoryEventBus (event_bus/memory.py) for one task, in the detail that *)
(* EventBus leaves out: event ids, the ring buffer for Last-Event-ID       *)
(* replay, the bounded stream of every subscriber, the lock around the     *)
(* subscriber list and the lazy purge after cleanup.                       *)
(*                                                                         *)
(* The subscriber lock is a FIFO queue (anyio.Lock, external): a coroutine *)
(* joins it when it starts to acquire and acts when it is at the head.     *)
(* What a publisher does before it asks for the lock, and what anybody     *)
(* does while holding it, happens without an await.                        *)
(***************************************************************************)
EXTENDS Naturals, Sequences, SequencesExt

CONSTANTS
  Clients,       \* SSE clients; each holds one connection at a time
  Publishers,    \* coroutines that publish or clean up
  EventBuffer,   \* event_buffer: capacity of a subscriber's stream
  ReplayBuffer,  \* event_replay_buffer: length of the ring buffer
  Kinds,         \* the kinds of event explored, of EventKinds
  MaxEvents      \* how many events are published (a bound)

\* "end" is a TerminalMarker, "status" any other event.
EventKinds == {"status", "end"}

ASSUME BusAssumption ==
  /\ Clients \cap Publishers = {}
  /\ EventBuffer \in Nat \ {0}
  /\ ReplayBuffer \in Nat \ {0}
  /\ Kinds \subseteq EventKinds
  /\ MaxEvents \in Nat

VARIABLES
  counter,    \* _event_counters: the last id assigned
  replay,     \* _replay_buffers: the ring buffer
  deadline,   \* _purge_deadlines: "none", "armed" or "due"
  subs,       \* _subs: the clients whose send stream is in the list
  lock,       \* the holder of the subscriber lock and those who wait for it
  task,       \* what each publisher is doing
  sending,    \* the event each publisher is fanning out
  phase,      \* where each client's connection is
  resumed,    \* clients that connected with a Last-Event-ID
  stream,     \* recv_stream of each connection
  batch,      \* the rest of list(buf) in the replay phase
  yielded,    \* last_yielded_id
  lastId,     \* the id of the last event the client received, 0 for none
  published,  \* how many events were published (numbers them)
  base,       \* events that were published when the client asked for a snapshot
  seen,       \* the events the client received since then
  lost,       \* events a client's stream had no room for or the ring lost
  skipped,    \* events of publishers cancelled before the fan-out
  outdated,   \* clients whose ids come from a counter that was purged since
  stalled     \* clients that had resumed and not begun to read at such a purge

ringVars   == <<counter, replay, deadline>>
clientVars == <<phase, resumed, stream, batch, yielded, lastId, base, seen, lost,
                outdated, stalled>>
vars == <<ringVars, subs, lock, task, sending, clientVars, published, skipped>>

Phases == {"away", "subscribing", "registered", "loaded", "reading", "leaving"}

\* An event: its number, the id it was given, and what it is.
Events == [n : Nat, id : Nat, kind : EventKinds]
NoEvent == [n |-> 0, id |-> 0, kind |-> "status"]

Init ==
  /\ counter = 0 /\ replay = <<>> /\ deadline = "none"
  /\ subs = {} /\ lock = <<>>
  /\ task = [p \in Publishers |-> "idle"]
  /\ sending = [p \in Publishers |-> NoEvent]
  /\ phase = [c \in Clients |-> "away"]
  /\ resumed = {}
  /\ stream = [c \in Clients |-> <<>>]
  /\ batch = [c \in Clients |-> <<>>]
  /\ yielded = [c \in Clients |-> 0]
  /\ lastId = [c \in Clients |-> 0]
  /\ published = 0 /\ skipped = {}
  /\ base = [c \in Clients |-> 0]
  /\ seen = [c \in Clients |-> <<>>]
  /\ lost = [c \in Clients |-> {}]
  /\ outdated = {} /\ stalled = {}

Holds(x) == lock # <<>> /\ Head(lock) = x

-----------------------------------------------------------------------------
(* publish                                                                 *)

\* deque(maxlen=ReplayBuffer).append
Push(buf, e) ==
  LET b == Append(buf, e)
  IN  IF Len(b) > ReplayBuffer THEN Tail(b) ELSE b

\* The clients that hold ids of the current counter.
WithIds ==
  {c \in Clients : \/ yielded[c] > 0 \/ lastId[c] > 0
                   \/ stream[c] # <<>> \/ batch[c] # <<>>}

\* Clients that a restart of the ids catches with a stream of older ids, which
\* they will compare with what the ring buffer holds by then.
Waiting == {c \in resumed : phase[c] \in {"registered", "loaded"}}

\* The ids restart at 1.
RestartIds ==
  /\ outdated' = outdated \cup WithIds
  /\ stalled' = stalled \cup Waiting

\* _purge_expired, then the pending purge is called off, an id is assigned
\* and the event is buffered; the fan-out has to wait for the lock.
Publish(p) ==
  /\ task[p] = "idle"
  /\ published < MaxEvents
  /\ LET purge == deadline = "due"
         id    == (IF purge THEN 0 ELSE counter) + 1
     IN  /\ counter' = id
         /\ IF purge THEN RestartIds ELSE UNCHANGED <<outdated, stalled>>
         /\ \E k \in Kinds :
              LET e == [n |-> published + 1, id |-> id, kind |-> k]
              IN  /\ replay' = Push(IF purge THEN <<>> ELSE replay, e)
                  /\ sending' = [sending EXCEPT ![p] = e]
  /\ deadline' = "none"
  /\ published' = published + 1
  /\ task' = [task EXCEPT ![p] = "publish"]
  /\ lock' = Append(lock, p)
  /\ UNCHANGED <<subs, phase, resumed, stream, batch, yielded, lastId, base, seen,
                 lost, skipped>>

HasRoom(c) == Len(stream[c]) < EventBuffer

\* send_nowait to everybody in the list; a full stream drops the event.
FanOut(p) ==
  /\ Holds(p) /\ task[p] = "publish"
  /\ LET e == sending[p]
     IN  /\ stream' = [c \in Clients |-> IF c \in subs /\ HasRoom(c)
                                           THEN Append(stream[c], e) ELSE stream[c]]
         /\ lost' = [c \in Clients |-> IF c \in subs /\ ~HasRoom(c)
                                         THEN lost[c] \cup {e.n} ELSE lost[c]]
  /\ task' = [task EXCEPT ![p] = "idle"]
  /\ sending' = [sending EXCEPT ![p] = NoEvent]
  /\ lock' = Tail(lock)
  /\ UNCHANGED <<ringVars, subs, phase, resumed, batch, yielded, lastId, base,
                 seen, outdated, stalled, published, skipped>>

\* The publisher is cancelled before it has the lock: the event stays in the
\* ring buffer only.  Markers are published in a shielded scope.
PublishCancelled(p) ==
  /\ task[p] = "publish"
  /\ sending[p].kind # "end"
  /\ \E i \in DOMAIN lock : lock[i] = p /\ lock' = RemoveAt(lock, i)
  /\ skipped' = skipped \cup {sending[p].n}
  /\ task' = [task EXCEPT ![p] = "idle"]
  /\ sending' = [sending EXCEPT ![p] = NoEvent]
  /\ UNCHANGED <<ringVars, subs, clientVars, published>>

-----------------------------------------------------------------------------
(* cleanup and the purge                                                   *)

Cleanup(p) ==
  /\ task[p] = "idle"
  /\ published > 0
  /\ task' = [task EXCEPT ![p] = "cleanup"]
  /\ lock' = Append(lock, p)
  /\ UNCHANGED <<ringVars, subs, sending, clientVars, published, skipped>>

\* The list is popped and the purge deadline set (again).
DropSubscribers(p) ==
  /\ Holds(p) /\ task[p] = "cleanup"
  /\ subs' = {}
  /\ deadline' = "armed"
  /\ task' = [task EXCEPT ![p] = "idle"]
  /\ lock' = Tail(lock)
  /\ UNCHANGED <<counter, replay, sending, clientVars, published, skipped>>

\* _replay_ttl_s elapses; it is far longer than any wait for the lock.
GraceElapses ==
  /\ deadline = "armed" /\ lock = <<>>
  /\ deadline' = "due"
  /\ UNCHANGED <<counter, replay, subs, lock, task, sending, clientVars, published,
                 skipped>>

\* _purge_expired, called for another task.
PurgeExpired ==
  /\ deadline = "due"
  /\ deadline' = "none" /\ counter' = 0 /\ replay' = <<>>
  /\ RestartIds
  /\ UNCHANGED <<subs, lock, task, sending, phase, resumed, stream, batch, yielded,
                 lastId, base, seen, lost, published, skipped>>

-----------------------------------------------------------------------------
(* subscribe and _iter_events                                              *)

\* A connection, with the Last-Event-ID the client remembers or without.
Connect(c) ==
  /\ phase[c] = "away"
  /\ \/ /\ lastId[c] # 0
        /\ resumed' = resumed \cup {c}
     \/ resumed' = resumed \ {c}
  /\ phase' = [phase EXCEPT ![c] = "subscribing"]
  /\ lock' = Append(lock, c)
  /\ UNCHANGED <<ringVars, subs, task, sending, stream, batch, yielded, lastId,
                 base, seen, lost, outdated, stalled, published, skipped>>

\* The send stream enters the list and, without an await in between, the
\* counter is captured as the bookmark of a connection without Last-Event-ID.
Register(c) ==
  /\ Holds(c) /\ phase[c] = "subscribing"
  /\ subs' = subs \cup {c}
  /\ stream' = [stream EXCEPT ![c] = <<>>]
  /\ IF c \in resumed
       THEN /\ yielded' = [yielded EXCEPT ![c] = 0]
            /\ UNCHANGED <<base, seen, lost, lastId, outdated, stalled>>
       ELSE /\ yielded' = [yielded EXCEPT ![c] = counter]
            /\ base' = [base EXCEPT ![c] = published]
            /\ seen' = [seen EXCEPT ![c] = <<>>]
            /\ lost' = [lost EXCEPT ![c] = {}]
            /\ lastId' = [lastId EXCEPT ![c] = 0]
            /\ outdated' = outdated \ {c} /\ stalled' = stalled \ {c}
  /\ phase' = [phase EXCEPT ![c] = "registered"]
  /\ lock' = Tail(lock)
  /\ UNCHANGED <<ringVars, task, sending, resumed, batch, published, skipped>>

\* The caller loads the task inside the subscription.
LoadSnapshot(c) ==
  /\ phase[c] = "registered"
  /\ phase' = [phase EXCEPT ![c] = "loaded"]
  /\ UNCHANGED <<ringVars, subs, lock, task, sending, resumed, stream, batch,
                 yielded, lastId, base, seen, lost, outdated, stalled, published,
                 skipped>>

LastSeen(c) == IF seen[c] = <<>> THEN base[c] ELSE Last(seen[c])

\* What the ring buffer no longer holds when the replay begins.
Evicted(c) ==
  {n \in (LastSeen(c) + 1) .. published : \A i \in DOMAIN replay : replay[i].n # n}

\* The entries of list(buf) with a larger id: ids grow along the buffer.
Beyond(buf, id) ==
  LET k == CHOOSE k \in 1 .. Len(buf) + 1 :
             \A i \in DOMAIN buf : i < k <=> buf[i].id <= id
  IN  SubSeq(buf, k, Len(buf))

\* Mutant: the event after the Last-Event-ID is taken for the last one seen.
StartReading_OffByOne(c) ==
  /\ phase[c] = "loaded"
  /\ batch' = [batch EXCEPT ![c] =
                 IF c \in resumed THEN Beyond(replay, lastId[c] + 1) ELSE <<>>]
  /\ lost' = [lost EXCEPT ![c] = IF c \in resumed THEN @ \cup Evicted(c) ELSE @]
  /\ phase' = [phase EXCEPT ![c] = "reading"]
  /\ UNCHANGED <<ringVars, subs, lock, task, sending, resumed, stream, yielded,
                 lastId, base, seen, outdated, stalled, published, skipped>>

\* _iter_events starts: list(buf), restricted to the ids after the
\* Last-Event-ID.
StartReading(c) ==
  /\ phase[c] = "loaded"
  /\ batch' = [batch EXCEPT ![c] =
                 IF c \in resumed THEN Beyond(replay, lastId[c]) ELSE <<>>]
  /\ lost' = [lost EXCEPT ![c] = IF c \in resumed THEN @ \cup Evicted(c) ELSE @]
  /\ phase' = [phase EXCEPT ![c] = "reading"]
  /\ UNCHANGED <<ringVars, subs, lock, task, sending, resumed, stream, yielded,
                 lastId, base, seen, outdated, stalled, published, skipped>>

\* The client receives e; a TerminalMarker makes it leave.
Yield(c, e) ==
  /\ seen' = [seen EXCEPT ![c] = Append(@, e.n)]
  /\ lastId' = [lastId EXCEPT ![c] = e.id]
  /\ IF e.kind = "end"
       THEN /\ phase' = [phase EXCEPT ![c] = "leaving"]
            /\ lock' = Append(lock, c)
       ELSE UNCHANGED <<phase, lock>>

YieldReplayed(c) ==
  /\ phase[c] = "reading" /\ batch[c] # <<>>
  /\ Yield(c, Head(batch[c]))
  /\ yielded' = [yielded EXCEPT ![c] = Head(batch[c]).id]
  /\ batch' = [batch EXCEPT ![c] = Tail(@)]
  /\ UNCHANGED <<ringVars, subs, task, sending, resumed, stream, base, lost,
                 outdated, stalled, published, skipped>>

\* Mutant: the live phase does not skip what the replay has delivered.
YieldLive_NoSkip(c) ==
  /\ phase[c] = "reading" /\ batch[c] = <<>> /\ stream[c] # <<>>
  /\ Yield(c, Head(stream[c]))
  /\ stream' = [stream EXCEPT ![c] = Tail(@)]
  /\ UNCHANGED <<ringVars, subs, task, sending, resumed, batch, yielded, base, lost,
                 outdated, stalled, published, skipped>>

\* The live phase skips ids that the replay or the bookmark covers.
YieldLive(c) ==
  /\ phase[c] = "reading" /\ batch[c] = <<>> /\ stream[c] # <<>>
  /\ IF Head(stream[c]).id <= yielded[c]
       THEN UNCHANGED <<seen, lastId, phase, lock>>
       ELSE Yield(c, Head(stream[c]))
  /\ stream' = [stream EXCEPT ![c] = Tail(@)]
  /\ UNCHANGED <<ringVars, subs, task, sending, resumed, batch, yielded, base, lost,
                 outdated, stalled, published, skipped>>

\* The client disconnects.
Disconnect(c) ==
  /\ phase[c] \in {"registered", "loaded", "reading"}
  /\ phase' = [phase EXCEPT ![c] = "leaving"]
  /\ lock' = Append(lock, c)
  /\ UNCHANGED <<ringVars, subs, task, sending, resumed, stream, batch, yielded,
                 lastId, base, seen, lost, outdated, stalled, published, skipped>>

\* The finally block of subscribe.
Unregister(c) ==
  /\ Holds(c) /\ phase[c] = "leaving"
  /\ subs' = subs \ {c}
  /\ stream' = [stream EXCEPT ![c] = <<>>]
  /\ batch' = [batch EXCEPT ![c] = <<>>]
  /\ yielded' = [yielded EXCEPT ![c] = 0]
  /\ phase' = [phase EXCEPT ![c] = "away"]
  /\ lock' = Tail(lock)
  /\ UNCHANGED <<ringVars, task, sending, resumed, lastId, base, seen, lost,
                 outdated, stalled, published, skipped>>

Next ==
  \/ \E p \in Publishers : \/ Publish(p) \/ FanOut(p) \/ PublishCancelled(p)
                           \/ Cleanup(p) \/ DropSubscribers(p)
  \/ GraceElapses
  \/ PurgeExpired
  \/ \E c \in Clients : \/ Connect(c) \/ Register(c) \/ LoadSnapshot(c)
                        \/ StartReading(c) \/ YieldReplayed(c) \/ YieldLive(c)
                        \/ Disconnect(c) \/ Unregister(c)

Spec == Init /\ [][Next]_vars

-----------------------------------------------------------------------------
(* Properties.                                                             *)

\* Types, and the bounds that buffers and ids keep: the ring buffer ends with
\* the event of the current counter, the lock is held at most once each.
TypeOK ==
  /\ counter \in Nat /\ published \in Nat
  /\ replay \in Seq(Events) /\ Len(replay) <= ReplayBuffer
  /\ replay # <<>> => Last(replay).id = counter
  /\ deadline \in {"none", "armed", "due"}
  /\ subs \subseteq Clients
  /\ lock \in Seq(Clients \cup Publishers)
  /\ \A i, j \in DOMAIN lock : lock[i] = lock[j] => i = j
  /\ task \in [Publishers -> {"idle", "publish", "cleanup"}]
  /\ sending \in [Publishers -> Events]
  /\ phase \in [Clients -> Phases]
  /\ resumed \subseteq Clients /\ outdated \subseteq Clients
  /\ stalled \subseteq Clients
  /\ stream \in [Clients -> Seq(Events)]
  /\ \A c \in Clients : Len(stream[c]) <= EventBuffer
  /\ batch \in [Clients -> Seq(Events)]
  /\ yielded \in [Clients -> Nat] /\ lastId \in [Clients -> Nat]
  /\ base \in [Clients -> Nat] /\ seen \in [Clients -> Seq(Nat)]
  /\ skipped \subseteq 1 .. published
  /\ lost \in [Clients -> SUBSET (1 .. published)]

Increasing(s) == \A i, j \in DOMAIN s : i < j => s[i] < s[j]

\* A client receives events in the order they were published and none twice,
\* across reconnections with Last-Event-ID and the hand-over from replay to
\* live events, whatever the buffers dropped and however often the ids restart
\* (the ordering MUST of EventBus.subscribe).  The one exception is a client
\* whose resumed connection has registered and not begun to read when the ids
\* restart.
InPublicationOrder == \A c \in Clients \ stalled : Increasing(seen[c])

\* Between its snapshot and the last event it received a client misses only
\* what its full stream dropped, what the ring buffer no longer held, and
\* events whose publisher was cancelled before the fan-out.  (A client whose
\* ids were assigned before a purge can have later events suppressed.)
OnlyKnownLosses ==
  \A c \in Clients \ outdated :
    (base[c] + 1) .. LastSeen(c) \subseteq ToSet(seen[c]) \cup lost[c] \cup skipped

=============================================================================
