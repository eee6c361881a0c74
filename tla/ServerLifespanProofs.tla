------------------------ MODULE ServerLifespanProofs ------------------------
(***************************************************************************)
(* Proofs about ServerLifespan and the webhook delivery inside it, for any *)
(* number of configurations, writers, versions and dependencies, and for   *)
(* every queue size and number of attempts.                                *)
(***************************************************************************)
EXTENDS ServerLifespan, FiniteSetTheorems, SequenceTheorems, TLAPS

-----------------------------------------------------------------------------
(* The delivery                                                            *)

Sorted(q) == \A m, n \in DOMAIN q : m < n => q[n] = Stop \/ q[m] <= q[n]
Within(q, lo, hi) == \A n \in DOMAIN q : q[n] = Stop \/ (lo <= q[n] /\ q[n] <= hi)

Handling == {"resolve", "post", "backoff"}

\* A worker has a snapshot in its hands, and attempts left when it waits to
\* try again.
Busy ==
  \A c \in Configs :
    /\ worker[c].at \in Handling => worker[c].item # Stop
    /\ worker[c].at = "backoff" => worker[c].attempt < MaxAttempts

\* What the webhook has, what its worker holds and what waits in its queue
\* follow each other in the order of their versions.
Ordered(c) ==
  /\ received[c] <= newest[c] /\ worker[c].item <= newest[c]
  /\ worker[c].at \in Handling => received[c] <= worker[c].item
  /\ Sorted(queue[c])
  /\ Within(queue[c], received[c], newest[c])
  /\ Within(queue[c], worker[c].item, newest[c])

InOrder == overtaken \/ (regressed = {} /\ \A c \in Configs : Ordered(c))

\* Once shutdown has waited, only latecomers are alive.
Closed ==
  /\ closing \in {"close", "done"} => \A c \in Configs : Alive(c) => worker[c].late
  /\ client = "closed" => closing = "done"

PushInv == PushTypeOK /\ Busy /\ InOrder /\ Closed

(* Queues                                                                  *)

Snaps == 0..FinalVersion

LEMMA AppendSorted ==
  ASSUME NEW q \in Seq(Snaps), NEW x \in Snaps, NEW lo \in Snaps, NEW hi \in Snaps, NEW top \in Snaps,
         hi <= top, x = Stop \/ (lo <= x /\ hi <= x /\ x <= top)
  PROVE  /\ Append(q, x) \in Seq(Snaps) /\ Len(Append(q, x)) = Len(q) + 1
         /\ Within(q, lo, hi) => Within(Append(q, x), lo, top)
         /\ Within(q, lo, hi) /\ Sorted(q) => Sorted(Append(q, x))
<1> DEFINE r == Append(q, x)
<1>1. /\ r \in Seq(Snaps) /\ Len(q) \in Nat /\ Len(r) = Len(q) + 1
      /\ DOMAIN q = 1 .. Len(q) /\ DOMAIN r = 1 .. Len(q) + 1 /\ r[Len(q) + 1] = x
      /\ \A n \in 1 .. Len(q) : r[n] = q[n] /\ q[n] \in Snaps
  OBVIOUS
<1>2. \A n \in 1 .. Len(q) + 1 : n \in 1 .. Len(q) \/ n = Len(q) + 1 BY <1>1
<1>t. FinalVersion \in Nat /\ Snaps = 0..FinalVersion BY PushAssumption DEF Snaps
<1> HIDE DEF r
<1>3. ASSUME Within(q, lo, hi) PROVE Within(r, lo, top)
  <2> SUFFICES ASSUME NEW n \in 1 .. Len(q) + 1 PROVE r[n] = Stop \/ (lo <= r[n] /\ r[n] <= top)
    BY <1>1 DEF Within
  <2>1. CASE n = Len(q) + 1 BY <1>1, <2>1
  <2>2. CASE n \in 1 .. Len(q)
    <3>1. r[n] = q[n] /\ q[n] \in Snaps /\ (q[n] = Stop \/ (lo <= q[n] /\ q[n] <= hi))
      BY <1>1, <1>3, <2>2 DEF Within
    <3> QED BY <1>t, <3>1
  <2> QED BY <1>2, <2>1, <2>2
<1>4. ASSUME Within(q, lo, hi), Sorted(q) PROVE Sorted(r)
  <2> SUFFICES ASSUME NEW m \in 1 .. Len(q) + 1, NEW n \in 1 .. Len(q) + 1, m < n
               PROVE  r[n] = Stop \/ r[m] <= r[n]
    BY <1>1 DEF Sorted
  <2>0. m \in 1 .. Len(q) BY <1>1
  <2>1. CASE n = Len(q) + 1
    <3>1. r[n] = x /\ r[m] = q[m] /\ q[m] \in Snaps BY <1>1, <2>0, <2>1
    <3>2. q[m] = Stop \/ q[m] <= hi BY <1>1, <1>4, <2>0 DEF Within
    <3> QED BY <1>t, <3>1, <3>2 DEF Stop
  <2>2. CASE n \in 1 .. Len(q) BY <1>1, <1>4, <2>0, <2>2 DEF Sorted
  <2> QED BY <1>2, <2>1, <2>2
<1> QED BY <1>1, <1>3, <1>4 DEF r

LEMMA TailSorted ==
  ASSUME NEW q \in Seq(Snaps), q # <<>>, NEW lo \in Snaps, NEW hi \in Snaps
  PROVE  /\ Tail(q) \in Seq(Snaps) /\ Len(Tail(q)) = Len(q) - 1 /\ Head(q) \in Snaps
         /\ Within(q, lo, hi) => /\ Within(Tail(q), lo, hi)
                                 /\ Head(q) = Stop \/ (lo <= Head(q) /\ Head(q) <= hi)
         /\ Sorted(q) => Sorted(Tail(q))
         /\ Sorted(q) /\ Within(q, lo, hi) => Within(Tail(q), Head(q), hi)
<1> DEFINE r == Tail(q)
<1>1. /\ Len(q) \in Nat /\ Len(q) >= 1 /\ DOMAIN q = 1 .. Len(q) /\ r \in Seq(Snaps)
      /\ Len(r) = Len(q) - 1 /\ DOMAIN r = 1 .. Len(q) - 1 /\ Head(q) = q[1] /\ q[1] \in Snaps
      /\ \A n \in 1 .. Len(q) - 1 : r[n] = q[n + 1]
  BY HeadTailProperties
<1>2. \A n \in 1 .. Len(q) - 1 : n + 1 \in 1 .. Len(q) /\ 1 < n + 1 BY <1>1
<1>3. \A m, n \in 1 .. Len(q) - 1 : m < n => m + 1 < n + 1 BY <1>1
<1>4. 1 \in 1 .. Len(q) BY <1>1
<1> HIDE DEF r
<1>5. Within(q, lo, hi) => /\ Within(r, lo, hi)
                           /\ Head(q) = Stop \/ (lo <= Head(q) /\ Head(q) <= hi)
  BY <1>1, <1>2, <1>4 DEF Within
<1>6. Sorted(q) => Sorted(r) BY <1>1, <1>2, <1>3 DEF Sorted
<1>7. Sorted(q) /\ Within(q, lo, hi) => Within(r, Head(q), hi)
  BY <1>1, <1>2, <1>4 DEF Sorted, Within
<1> QED BY <1>1, <1>5, <1>6, <1>7 DEF r

\* _enqueue keeps the bound and the order.
LEMMA EnqueueSorted ==
  ASSUME NEW q \in Seq(Snaps), Len(q) <= MaxQueueSize,
         NEW x \in Snaps, NEW lo \in Snaps, NEW hi \in Snaps, NEW top \in Snaps,
         hi <= top, x = Stop \/ (lo <= x /\ hi <= x /\ x <= top)
  PROVE  /\ Enqueue(q, x) \in Seq(Snaps) /\ Len(Enqueue(q, x)) <= MaxQueueSize
         /\ Within(q, lo, hi) => Within(Enqueue(q, x), lo, top)
         /\ Within(q, lo, hi) /\ Sorted(q) => Sorted(Enqueue(q, x))
<1>0. Len(q) \in Nat /\ MaxQueueSize \in Nat /\ MaxQueueSize > 0 BY PushAssumption
<1>1. CASE Len(q) < MaxQueueSize
  <2>1. Enqueue(q, x) = Append(q, x) BY <1>1 DEF Enqueue
  <2>2. /\ Append(q, x) \in Seq(Snaps) /\ Len(Append(q, x)) = Len(q) + 1
        /\ Within(q, lo, hi) => Within(Append(q, x), lo, top)
        /\ Within(q, lo, hi) /\ Sorted(q) => Sorted(Append(q, x))
    BY AppendSorted
  <2>3. Len(Append(q, x)) <= MaxQueueSize BY <1>0, <1>1, <2>2
  <2> QED BY <2>1, <2>2, <2>3
<1>2. CASE ~(Len(q) < MaxQueueSize)
  <2>1. Enqueue(q, x) = Append(Tail(q), x) BY <1>2 DEF Enqueue
  <2>2. q # <<>> BY <1>0, <1>2
  <2>3. /\ Tail(q) \in Seq(Snaps) /\ Len(Tail(q)) = Len(q) - 1
        /\ Within(q, lo, hi) => Within(Tail(q), lo, hi)
        /\ Sorted(q) => Sorted(Tail(q))
    BY <2>2, TailSorted
  <2> DEFINE t == Tail(q)
  <2> HIDE DEF t
  <2>4. t \in Seq(Snaps) /\ Len(t) = Len(q) - 1 BY <2>3 DEF t
  <2>5. /\ Append(t, x) \in Seq(Snaps) /\ Len(Append(t, x)) = Len(t) + 1
        /\ Within(t, lo, hi) => Within(Append(t, x), lo, top)
        /\ Within(t, lo, hi) /\ Sorted(t) => Sorted(Append(t, x))
    BY <2>4, AppendSorted
  <2>6. Len(Append(t, x)) <= MaxQueueSize BY <1>0, <2>4, <2>5
  <2> QED BY <2>1, <2>3, <2>5, <2>6 DEF t
<1> QED BY <1>1, <1>2

LEMMA EmptySorted == /\ <<>> \in Seq(Snaps) /\ Len(<<>>) = 0 /\ Sorted(<<>>)
                     /\ \A lo, hi \in Snaps : Within(<<>>, lo, hi)
BY DEF Sorted, Within

(* Steps of the delivery                                                   *)

LEMMA WorkerTypes ==
  ASSUME PushTypeOK, NEW c \in Configs
  PROVE  /\ worker[c].at \in {"none", "wait", "resolve", "post", "backoff", "cancelled"}
         /\ worker[c].item \in Snaps /\ worker[c].attempt \in 0..MaxAttempts
         /\ queue[c] \in Seq(Snaps) /\ Len(queue[c]) <= MaxQueueSize
         /\ newest[c] \in Snaps /\ received[c] \in Snaps
BY DEF PushTypeOK, WorkerType, Snaps

\* Writers and the store of configurations do not touch the delivery.
LEMMA TaskSide ==
  ASSUME PushInv, UNCHANGED <<queue, worker, client, closing, ghosts>>,
         version' \in 0..FinalVersion, deletion' \in {"no", "row", "done"},
         registered' \subseteq Configs, setter' \subseteq Configs, writer' \in [Writers -> WriterType]
  PROVE  PushInv'
<1>1. UNCHANGED <<queue, worker, client, closing, newest, settled, received, regressed, overtaken>>
  BY DEF ghosts
<1>2. PushTypeOK' BY <1>1 DEF PushInv, PushTypeOK
<1>3. Busy' BY <1>1 DEF PushInv, Busy
<1>4. InOrder' BY <1>1 DEF PushInv, InOrder, Ordered
<1>5. Closed' BY <1>1 DEF PushInv, Closed, Alive
<1> QED BY <1>2, <1>3, <1>4, <1>5 DEF PushInv

LEMMA StoreSteps == ASSUME PushInv, StoreStep PROVE PushInv'
<1>1. PushTypeOK BY DEF PushInv
<1>2. ASSUME NEW c \in Configs, SetConfig(c) \/ StoreConfig(c) \/ DeleteConfig(c) PROVE PushInv'
  BY <1>1, <1>2, TaskSide DEF SetConfig, StoreConfig, DeleteConfig, PushTypeOK
<1>3. CASE DeleteTask BY <1>1, <1>3, TaskSide DEF DeleteTask, PushTypeOK
<1> QED BY <1>2, <1>3 DEF StoreStep

LEMMA UpdateStep == ASSUME PushInv, NEW w \in Writers, Update(w) \/ LoadSnapshot(w) PROVE PushInv'
<1>1. PushTypeOK /\ FinalVersion \in Nat BY PushAssumption DEF PushInv
<1>2. CASE Update(w)
  <2>1. version' \in 0..FinalVersion BY <1>1, <1>2 DEF Update, PushTypeOK
  <2>2. writer' \in [Writers -> WriterType]
    <3>1. PICK at \in {"written", "idle"} : writer' = [writer EXCEPT ![w].at = at] BY <1>2 DEF Update
    <3> QED BY <1>1, <3>1 DEF PushTypeOK, WriterType
  <2> QED BY <1>1, <1>2, <2>1, <2>2, TaskSide DEF Update, PushTypeOK
<1>3. CASE LoadSnapshot(w)
  <2>1. writer' \in [Writers -> WriterType]
    <3>1. CASE writer' = [writer EXCEPT ![w] = [at |-> "loaded", snap |-> version]]
      BY <1>1, <3>1 DEF PushTypeOK, WriterType
    <3>2. CASE writer' = [writer EXCEPT ![w].at = "idle"] BY <1>1, <3>2 DEF PushTypeOK, WriterType
    <3> QED BY <1>3, <3>1, <3>2 DEF LoadSnapshot
  <2> QED BY <1>1, <1>3, <2>1, TaskSide DEF LoadSnapshot, PushTypeOK
<1> QED BY <1>2, <1>3

LEMMA IdleStep ==
  ASSUME PushInv, NEW ws, Idle(ws),
         UNCHANGED <<version, deletion, registered, setter, queue, worker, client, closing, ghosts>>
  PROVE  PushInv'
<1>1. PushTypeOK /\ FinalVersion \in Nat BY PushAssumption DEF PushInv
<1>2. writer' \in [Writers -> WriterType] BY <1>1 DEF Idle, PushTypeOK, WriterType
<1> QED BY <1>1, <1>2, TaskSide DEF PushTypeOK

\* One worker moves.
LEMMA WorkerStep ==
  ASSUME PushInv, PushTypeOK', NEW c \in Configs, UNCHANGED <<client, closing, newest, overtaken>>,
         \A d \in Configs \ {c} :
           worker'[d] = worker[d] /\ queue'[d] = queue[d] /\ received'[d] = received[d],
         worker'[c].at \in Handling => worker'[c].item # Stop,
         worker'[c].at = "backoff" => worker'[c].attempt < MaxAttempts,
         worker'[c].at # "none" => worker[c].at # "none" /\ (worker[c].late => worker'[c].late),
         ~overtaken => regressed' = {} /\ Ordered(c)'
  PROVE  PushInv'
<1>1. Busy' BY DEF PushInv, Busy
<1>2. InOrder'
  <2> SUFFICES ASSUME ~overtaken PROVE regressed' = {} /\ \A d \in Configs : Ordered(d)' BY DEF InOrder
  <2>1. \A d \in Configs \ {c} : Ordered(d) BY DEF PushInv, InOrder
  <2>2. \A d \in Configs \ {c} : Ordered(d)' BY <2>1 DEF Ordered
  <2> QED BY <2>2
<1>3. Closed' BY DEF PushInv, Closed, Alive
<1> QED BY <1>1, <1>2, <1>3 DEF PushInv

LEMMA TakeItemStep == ASSUME PushInv, NEW c \in Configs, TakeItem(c) PROVE PushInv'
<1>1. PushTypeOK /\ FinalVersion \in Nat /\ MaxAttempts \in Nat BY PushAssumption DEF PushInv
<1>2. /\ worker[c].at = "wait" /\ queue[c] # <<>>
      /\ UNCHANGED <<version, deletion, registered, setter, writer, client, closing, newest, settled,
                     received, regressed, overtaken>>
  BY DEF TakeItem, Works, taskVars, ghosts
<1>3. ~overtaken => regressed = {} /\ Ordered(c) BY DEF PushInv, InOrder
<1>4. /\ received[c] \in Snaps /\ newest[c] \in Snaps /\ queue[c] \in Seq(Snaps)
      /\ worker[c].item \in Snaps /\ Len(queue[c]) <= MaxQueueSize
  BY <1>1, WorkerTypes
<1>5. CASE Head(queue[c]) = Stop
  <2>1. worker' = [worker EXCEPT ![c] = NoWorker] /\ queue' = [queue EXCEPT ![c] = <<>>]
    BY <1>5 DEF TakeItem
  <2>2. PushTypeOK'
    <3>1. worker' \in [Configs -> WorkerType] BY <1>1, <2>1 DEF PushTypeOK, WorkerType, NoWorker, Stop
    <3>2. queue' \in [Configs -> Seq(0..FinalVersion)] BY <1>1, <2>1 DEF PushTypeOK
    <3>3. \A d \in Configs : Len(queue'[d]) <= MaxQueueSize
      <4>1. 0 <= MaxQueueSize /\ Len(<<>>) = 0 BY PushAssumption, EmptySorted
      <4>2. queue'[c] = <<>> /\ \A d \in Configs \ {c} : queue'[d] = queue[d] BY <1>1, <2>1 DEF PushTypeOK
      <4> QED BY <1>1, <4>1, <4>2 DEF PushTypeOK
    <3> QED BY <1>1, <1>2, <3>1, <3>2, <3>3 DEF PushTypeOK
  <2>3. /\ \A d \in Configs \ {c} : worker'[d] = worker[d] /\ queue'[d] = queue[d]
        /\ worker'[c] = NoWorker /\ queue'[c] = <<>>
    BY <1>1, <2>1 DEF PushTypeOK
  <2>4. ~overtaken => Ordered(c)'
    BY <1>1, <1>2, <1>3, <1>4, <2>3, EmptySorted DEF Ordered, NoWorker, Handling, Stop, Snaps
  <2> QED BY <1>2, <1>3, <2>2, <2>3, <2>4, WorkerStep DEF NoWorker, Handling
<1>6. CASE Head(queue[c]) # Stop
  <2>1. /\ worker' = [worker EXCEPT ![c].at = "resolve", ![c].item = Head(queue[c])]
        /\ queue' = [queue EXCEPT ![c] = Tail(@)]
    BY <1>6 DEF TakeItem
  <2>2. /\ Head(queue[c]) \in Snaps /\ Tail(queue[c]) \in Seq(Snaps) /\ Len(Tail(queue[c])) = Len(queue[c]) - 1
        /\ \A lo, hi \in Snaps :
             /\ Within(queue[c], lo, hi) => /\ Within(Tail(queue[c]), lo, hi)
                                            /\ lo <= Head(queue[c]) /\ Head(queue[c]) <= hi
             /\ Sorted(queue[c]) => Sorted(Tail(queue[c]))
             /\ Sorted(queue[c]) /\ Within(queue[c], lo, hi) => Within(Tail(queue[c]), Head(queue[c]), hi)
    BY <1>2, <1>4, <1>6, TailSorted
  <2>3. /\ \A d \in Configs \ {c} : worker'[d] = worker[d] /\ queue'[d] = queue[d]
        /\ worker'[c].at = "resolve" /\ worker'[c].item = Head(queue[c])
        /\ worker'[c].late = worker[c].late /\ queue'[c] = Tail(queue[c])
    BY <1>1, <2>1 DEF PushTypeOK, WorkerType
  <2>4. PushTypeOK'
    <3>1. worker' \in [Configs -> WorkerType] BY <1>1, <2>1, <2>2 DEF PushTypeOK, WorkerType, Snaps
    <3>2. queue' \in [Configs -> Seq(0..FinalVersion)] BY <1>1, <2>1, <2>2 DEF PushTypeOK, Snaps
    <3>3. Len(queue[c]) \in Nat /\ MaxQueueSize \in Nat BY <1>4, PushAssumption
    <3>4. \A d \in Configs : Len(queue'[d]) <= MaxQueueSize
      <4>1. Len(Tail(queue[c])) <= MaxQueueSize BY <1>4, <2>2, <3>3
      <4> QED BY <1>1, <2>3, <4>1 DEF PushTypeOK
    <3> QED BY <1>1, <1>2, <3>1, <3>2, <3>4 DEF PushTypeOK
  <2>5. ~overtaken => Ordered(c)' BY <1>2, <1>3, <1>4, <2>2, <2>3 DEF Ordered
  <2> QED BY <1>2, <1>3, <1>6, <2>3, <2>4, <2>5, WorkerStep DEF Handling
<1> QED BY <1>5, <1>6

LEMMA IdleTimeoutStep == ASSUME PushInv, NEW c \in Configs, IdleTimeout(c) PROVE PushInv'
<1>1. PushTypeOK /\ FinalVersion \in Nat /\ MaxAttempts \in Nat BY PushAssumption DEF PushInv
<1>2. /\ UNCHANGED <<version, deletion, registered, setter, writer, client, closing, newest, settled,
                     received, regressed, overtaken, queue>>
      /\ worker' = [worker EXCEPT ![c] = NoWorker]
  BY DEF IdleTimeout, taskVars, ghosts
<1>3. ~overtaken => regressed = {} /\ Ordered(c) BY DEF PushInv, InOrder
<1>4. worker' \in [Configs -> WorkerType] BY <1>1, <1>2 DEF PushTypeOK, WorkerType, NoWorker, Stop
<1>5. worker'[c] = NoWorker /\ \A d \in Configs \ {c} : worker'[d] = worker[d]
  BY <1>1, <1>2 DEF PushTypeOK
<1>6. PushTypeOK' BY <1>1, <1>2, <1>4 DEF PushTypeOK
<1>7. ~overtaken => Ordered(c)'
  <2> SUFFICES ASSUME ~overtaken PROVE Ordered(c)' OBVIOUS
  <2>1. /\ received[c] \in Snaps /\ newest[c] \in Snaps BY <1>1, WorkerTypes
  <2>2. queue'[c] = <<>> BY <1>2 DEF IdleTimeout
  <2> QED BY <1>1, <1>2, <1>3, <1>5, <2>1, <2>2, EmptySorted DEF Ordered, NoWorker, Handling, Stop, Snaps
<1> QED BY <1>2, <1>3, <1>5, <1>6, <1>7, WorkerStep DEF NoWorker, Handling

LEMMA CancelledEndsStep == ASSUME PushInv, NEW c \in Configs, CancelledEnds(c) PROVE PushInv'
<1>1. PushTypeOK /\ FinalVersion \in Nat /\ MaxAttempts \in Nat BY PushAssumption DEF PushInv
<1>2. /\ UNCHANGED <<version, deletion, registered, setter, writer, client, closing, newest, settled,
                     received, regressed, overtaken>>
      /\ worker' = [worker EXCEPT ![c] = NoWorker] /\ queue' = [queue EXCEPT ![c] = <<>>]
  BY DEF CancelledEnds, taskVars, ghosts
<1>3. ~overtaken => regressed = {} /\ Ordered(c) BY DEF PushInv, InOrder
<1>4. worker' \in [Configs -> WorkerType] BY <1>1, <1>2 DEF PushTypeOK, WorkerType, NoWorker, Stop
<1>5. /\ worker'[c] = NoWorker /\ queue'[c] = <<>>
      /\ \A d \in Configs \ {c} : worker'[d] = worker[d] /\ queue'[d] = queue[d]
  BY <1>1, <1>2 DEF PushTypeOK
<1>6. PushTypeOK'
  <2>1. queue' \in [Configs -> Seq(0..FinalVersion)] BY <1>1, <1>2 DEF PushTypeOK
  <2>2. 0 <= MaxQueueSize /\ Len(<<>>) = 0 BY PushAssumption, EmptySorted
  <2>3. \A d \in Configs : Len(queue'[d]) <= MaxQueueSize BY <1>1, <1>5, <2>2 DEF PushTypeOK
  <2> QED BY <1>1, <1>2, <1>4, <2>1, <2>3 DEF PushTypeOK
<1>7. ~overtaken => Ordered(c)'
  <2>1. /\ received[c] \in Snaps /\ newest[c] \in Snaps BY <1>1, WorkerTypes
  <2> QED BY <1>1, <1>2, <1>3, <1>5, <2>1, EmptySorted DEF Ordered, NoWorker, Handling, Stop, Snaps
<1> QED BY <1>2, <1>3, <1>5, <1>6, <1>7, WorkerStep DEF NoWorker, Handling

LEMMA FinishEffect ==
  ASSUME PushTypeOK, NEW c \in Configs, FinishItem(c), worker[c].item # Stop
  PROVE  /\ settled' \in [Configs -> SUBSET Versions] /\ worker' \in [Configs -> WorkerType]
         /\ \A d \in Configs \ {c} : worker'[d] = worker[d]
         /\ worker'[c].at \in {"none", "wait"} /\ worker'[c].item \in {Stop, worker[c].item}
         /\ worker'[c].at # "none" => worker'[c].late = worker[c].late
<1>0. FinalVersion \in Nat /\ MaxAttempts \in Nat BY PushAssumption
<1>1. worker[c].item \in Versions BY <1>0 DEF PushTypeOK, WorkerType, Versions, Stop
<1>2. settled' \in [Configs -> SUBSET Versions] BY <1>1 DEF FinishItem, PushTypeOK
<1>3. \/ worker' = [worker EXCEPT ![c] = NoWorker]
      \/ worker' = [worker EXCEPT ![c] = [worker[c] EXCEPT !.at = "wait", !.attempt = 0]]
  BY DEF FinishItem
<1>4. CASE worker' = [worker EXCEPT ![c] = NoWorker]
  BY <1>0, <1>2, <1>4 DEF PushTypeOK, WorkerType, NoWorker, Stop
<1>5. CASE worker' = [worker EXCEPT ![c] = [worker[c] EXCEPT !.at = "wait", !.attempt = 0]]
  <2>1. 0 \in 0..MaxAttempts BY <1>0
  <2>2. /\ worker' \in [Configs -> WorkerType] /\ \A d \in Configs \ {c} : worker'[d] = worker[d]
        /\ worker'[c].at = "wait" /\ worker'[c].item = worker[c].item /\ worker'[c].late = worker[c].late
    BY <1>5, <2>1 DEF PushTypeOK, WorkerType
  <2> QED BY <1>2, <2>2
<1> QED BY <1>3, <1>4, <1>5

\* A POST that arrives makes its snapshot the newest one received, unless a
\* newer one was there.
LEMMA ReceivesEffect ==
  ASSUME PushTypeOK, NEW c \in Configs, Receives(c) \/ UNCHANGED <<received, regressed>>
  PROVE  /\ received' \in [Configs -> 0..FinalVersion] /\ regressed' \subseteq Configs
         /\ \A d \in Configs \ {c} : received'[d] = received[d]
         /\ received'[c] \in {received[c], worker[c].item}
         /\ received[c] <= worker[c].item => regressed' = regressed
<1>1. /\ worker[c].item \in Snaps /\ received[c] \in Snaps /\ Snaps \subseteq Nat
      /\ received \in [Configs -> Snaps] /\ regressed \subseteq Configs
  BY PushAssumption, WorkerTypes DEF PushTypeOK, Snaps
<1>2. CASE UNCHANGED <<received, regressed>> BY <1>1, <1>2 DEF Snaps
<1>3. CASE Receives(c)
  <2>1. PICK x \in {received[c], worker[c].item} : received' = [received EXCEPT ![c] = x]
    BY <1>3 DEF Receives
  <2>0. received[c] \in Nat /\ worker[c].item \in Nat BY <1>1
  <2>2. received[c] <= worker[c].item => ~(worker[c].item < received[c]) BY <2>0
  <2>3. regressed' \subseteq Configs /\ (received[c] <= worker[c].item => regressed' = regressed)
    BY <1>1, <1>3, <2>2 DEF Receives
  <2> QED BY <1>1, <2>1, <2>3 DEF Snaps
<1> QED BY <1>2, <1>3

\* A snapshot is dealt with, its webhook having received it or not.
LEMMA FinishStep ==
  ASSUME PushInv, NEW c \in Configs, worker[c].at \in Handling, FinishItem(c),
         Receives(c) \/ UNCHANGED <<received, regressed>>,
         UNCHANGED <<taskVars, queue, client, closing, newest, overtaken>>
  PROVE  PushInv'
<1>1. PushTypeOK /\ worker[c].item # Stop /\ FinalVersion \in Nat
  BY PushAssumption DEF PushInv, Busy
<1>2. /\ settled' \in [Configs -> SUBSET Versions] /\ worker' \in [Configs -> WorkerType]
      /\ \A d \in Configs \ {c} : worker'[d] = worker[d]
      /\ worker'[c].at \in {"none", "wait"} /\ worker'[c].item \in {Stop, worker[c].item}
      /\ worker'[c].at # "none" => worker'[c].late = worker[c].late
  BY <1>1, FinishEffect
<1>3. /\ received' \in [Configs -> 0..FinalVersion] /\ regressed' \subseteq Configs
      /\ \A d \in Configs \ {c} : received'[d] = received[d]
      /\ received'[c] \in {received[c], worker[c].item}
      /\ received[c] <= worker[c].item => regressed' = regressed
  BY <1>1, ReceivesEffect
<1>4. PushTypeOK' BY <1>1, <1>2, <1>3 DEF PushTypeOK, taskVars
<1>5. ASSUME ~overtaken PROVE regressed' = {} /\ Ordered(c)'
  <2>1. regressed = {} /\ Ordered(c) BY <1>5 DEF PushInv, InOrder
  <2>2. /\ received[c] \in Snaps /\ newest[c] \in Snaps /\ worker[c].item \in Snaps
        /\ queue[c] \in Seq(Snaps)
    BY <1>1, WorkerTypes
  <2>3. Within(queue[c], Stop, newest[c])
    <3>1. \A n \in DOMAIN queue[c] : queue[c][n] \in Nat BY <1>1, <2>2 DEF Snaps
    <3> QED BY <2>1, <3>1 DEF Ordered, Within, Stop
  <2>4. Stop <= newest[c] BY <1>1, <2>2 DEF Snaps, Stop
  <2> QED BY <1>2, <1>3, <2>1, <2>3, <2>4 DEF Ordered, Handling
<1> QED BY <1>1, <1>2, <1>3, <1>4, <1>5, WorkerStep DEF Handling

LEMMA ResolveStep == ASSUME PushInv, NEW c \in Configs, Resolve(c) PROVE PushInv'
<1>1. PushTypeOK /\ worker[c].at = "resolve" /\ "resolve" \in Handling /\ MaxAttempts \in Nat \ {0}
  BY PushAssumption DEF PushInv, Resolve, Works, Handling
<1>2. UNCHANGED <<taskVars, queue, client, closing, newest, received, regressed, overtaken>> BY DEF Resolve
<1>3. CASE FinishItem(c) BY <1>1, <1>2, <1>3, FinishStep
<1>4. CASE worker' = [worker EXCEPT ![c].at = "post", ![c].attempt = 1] /\ UNCHANGED settled
  <2>1. /\ worker' \in [Configs -> WorkerType] /\ \A d \in Configs \ {c} : worker'[d] = worker[d]
        /\ worker'[c].at = "post" /\ worker'[c].item = worker[c].item /\ worker'[c].late = worker[c].late
    <3>1. 1 \in 0..MaxAttempts BY <1>1
    <3> QED BY <1>1, <1>4, <3>1 DEF PushTypeOK, WorkerType
  <2>2. PushTypeOK' BY <1>1, <1>2, <1>4, <2>1 DEF PushTypeOK, taskVars
  <2>3. ~overtaken => regressed' = {} /\ Ordered(c)'
    BY <1>1, <1>2, <2>1 DEF PushInv, InOrder, Ordered
  <2>4. worker[c].item # Stop BY <1>1 DEF PushInv, Busy
  <2> QED BY <1>1, <1>2, <2>1, <2>2, <2>3, <2>4, WorkerStep
<1> QED BY <1>3, <1>4 DEF Resolve

LEMMA BackOffStep == ASSUME PushInv, NEW c \in Configs, BackOff(c) PROVE PushInv'
<1>1. PushTypeOK /\ worker[c].at = "backoff" /\ "backoff" \in Handling /\ MaxAttempts \in Nat
  BY PushAssumption DEF PushInv, BackOff, Works, Handling
<1>2. /\ UNCHANGED <<version, deletion, registered, setter, writer, queue, client, closing, newest, settled,
                     received, regressed, overtaken>>
      /\ worker' = [worker EXCEPT ![c].at = "post", ![c].attempt = @ + 1]
  BY DEF BackOff, taskVars, ghosts
<1>3. worker[c].item # Stop /\ worker[c].attempt + 1 \in 0..MaxAttempts
  BY <1>1 DEF PushInv, Busy, PushTypeOK, WorkerType
<1>4. /\ worker' \in [Configs -> WorkerType] /\ \A d \in Configs \ {c} : worker'[d] = worker[d]
      /\ worker'[c].at = "post" /\ worker'[c].item = worker[c].item /\ worker'[c].late = worker[c].late
  BY <1>1, <1>2, <1>3 DEF PushTypeOK, WorkerType
<1>5. PushTypeOK' BY <1>1, <1>2, <1>4 DEF PushTypeOK
<1>6. ~overtaken => regressed' = {} /\ Ordered(c)'
  BY <1>1, <1>2, <1>4 DEF PushInv, InOrder, Ordered
<1> QED BY <1>1, <1>2, <1>3, <1>4, <1>5, <1>6, WorkerStep

LEMMA AnswerStep == ASSUME PushInv, NEW c \in Configs, Answer(c) PROVE PushInv'
<1>1. /\ PushTypeOK /\ worker[c].at = "post" /\ "post" \in Handling /\ MaxAttempts \in Nat
      /\ UNCHANGED <<taskVars, queue, client, closing, newest, overtaken>>
      /\ Receives(c) \/ UNCHANGED <<received, regressed>>
  BY PushAssumption DEF PushInv, Answer, Works, Handling, Retry
<1>2. CASE FinishItem(c) BY <1>1, <1>2, FinishStep
<1>3. CASE /\ worker[c].attempt < MaxAttempts /\ UNCHANGED settled
           /\ worker' = [worker EXCEPT ![c].at = "backoff"]
  <2>1. /\ worker' \in [Configs -> WorkerType] /\ \A d \in Configs \ {c} : worker'[d] = worker[d]
        /\ worker'[c].at = "backoff" /\ worker'[c].item = worker[c].item
        /\ worker'[c].attempt = worker[c].attempt /\ worker'[c].late = worker[c].late
    BY <1>1, <1>3 DEF PushTypeOK, WorkerType
  <2>2. /\ received' \in [Configs -> 0..FinalVersion] /\ regressed' \subseteq Configs
        /\ \A d \in Configs \ {c} : received'[d] = received[d]
        /\ received'[c] \in {received[c], worker[c].item}
        /\ received[c] <= worker[c].item => regressed' = regressed
    BY <1>1, ReceivesEffect
  <2>3. PushTypeOK' BY <1>1, <1>3, <2>1, <2>2 DEF PushTypeOK, taskVars
  <2>4. worker[c].item # Stop BY <1>1 DEF PushInv, Busy
  <2>5. ASSUME ~overtaken PROVE regressed' = {} /\ Ordered(c)'
    <3>1. regressed = {} /\ Ordered(c) BY <2>5 DEF PushInv, InOrder
    <3>2. worker[c].item <= worker[c].item BY <1>1, WorkerTypes DEF Snaps
    <3> QED BY <1>1, <2>1, <2>2, <3>1, <3>2 DEF Ordered
  <2> QED BY <1>1, <1>3, <2>1, <2>2, <2>3, <2>4, <2>5, WorkerStep
<1> QED BY <1>2, <1>3 DEF Answer, Retry

\* What deliver does for one configuration.
LEMMA DeliverEffect ==
  ASSUME PushTypeOK, NEW w \in Writers, Deliver(w), NEW c \in Configs, NEW v, v = writer[w].snap
  PROVE  /\ c \in registered /\ ~Alive(c) =>
              /\ queue'[c] = Enqueue(<<>>, v) /\ newest'[c] = v
              /\ worker'[c] = [NoWorker EXCEPT !.at = "wait", !.late = closing # "no"]
         /\ c \in registered /\ Alive(c) =>
              queue'[c] = Enqueue(queue[c], v) /\ newest'[c] = v /\ worker'[c] = worker[c]
         /\ c \notin registered =>
              queue'[c] = queue[c] /\ newest'[c] = newest[c] /\ worker'[c] = worker[c]
BY DEF Deliver

LEMMA FreshRecord ==
  ASSUME NEW b \in BOOLEAN, NEW k, k = [at |-> "wait", item |-> 0, attempt |-> 0, late |-> b]
  PROVE  k \in WorkerType /\ k.at = "wait" /\ k.item = Stop /\ k.late = b
<1>1. 0 \in 0..FinalVersion /\ 0 \in 0..MaxAttempts BY PushAssumption
<1>2. k.at = "wait" /\ k.item = Stop /\ k.late = b BY Zenon DEF Stop
<1>3. k \in WorkerType BY <1>1 DEF WorkerType
<1> QED BY <1>2, <1>3

LEMMA FreshWorker ==
  ASSUME NEW k, k = [NoWorker EXCEPT !.at = "wait", !.late = closing # "no"]
  PROVE  /\ k \in WorkerType /\ k.at = "wait" /\ k.item = Stop
         /\ closing \in {"close", "done"} => k.late
<1>1. PICK b \in BOOLEAN : b = (closing # "no") BY Zenon
<1>2. k = [at |-> "wait", item |-> 0, attempt |-> 0, late |-> b] BY <1>1 DEF NoWorker, Stop
<1>3. k \in WorkerType /\ k.at = "wait" /\ k.item = Stop /\ k.late = b BY <1>2, FreshRecord, Zenon
<1>4. closing \in {"close", "done"} => closing # "no" OBVIOUS
<1> QED BY <1>1, <1>3, <1>4, Zenon

LEMMA DeliverStep == ASSUME PushInv, NEW w \in Writers, Deliver(w) PROVE PushInv'
<1>1. PushTypeOK /\ FinalVersion \in Nat /\ MaxQueueSize \in Nat \ {0} BY PushAssumption DEF PushInv
<1> DEFINE v == writer[w].snap
<1>2. v \in Snaps BY <1>1 DEF PushTypeOK, WriterType, Snaps
<1>3. /\ UNCHANGED <<version, deletion, registered, setter, client, closing, settled, received, regressed>>
      /\ writer' = [writer EXCEPT ![w] = [at |-> "idle", snap |-> 0]]
      /\ queue' = [d \in Configs |-> queue'[d]] /\ worker' = [d \in Configs |-> worker'[d]]
      /\ newest' = [d \in Configs |-> newest'[d]]
      /\ overtaken' = (overtaken \/ \E d \in registered : newest[d] > v)
  BY DEF Deliver
<1>e. \A c \in Configs :
         /\ c \in registered /\ ~Alive(c) =>
              /\ queue'[c] = Enqueue(<<>>, v) /\ newest'[c] = v
              /\ worker'[c] = [NoWorker EXCEPT !.at = "wait", !.late = closing # "no"]
         /\ c \in registered /\ Alive(c) =>
              queue'[c] = Enqueue(queue[c], v) /\ newest'[c] = v /\ worker'[c] = worker[c]
         /\ c \notin registered =>
              queue'[c] = queue[c] /\ newest'[c] = newest[c] /\ worker'[c] = worker[c]
  BY <1>1, DeliverEffect
<1> HIDE DEF v
<1>4. \A q \in Seq(Snaps) : Len(q) <= MaxQueueSize =>
        /\ Enqueue(q, v) \in Seq(Snaps) /\ Len(Enqueue(q, v)) <= MaxQueueSize
        /\ \A lo, hi \in Snaps : lo <= hi /\ hi <= v =>
             /\ Within(q, lo, hi) => Within(Enqueue(q, v), lo, v)
             /\ Within(q, lo, hi) /\ Sorted(q) => Sorted(Enqueue(q, v))
  <2> SUFFICES ASSUME NEW q \in Seq(Snaps), Len(q) <= MaxQueueSize
               PROVE  /\ Enqueue(q, v) \in Seq(Snaps) /\ Len(Enqueue(q, v)) <= MaxQueueSize
                      /\ \A lo, hi \in Snaps : lo <= hi /\ hi <= v =>
                           /\ Within(q, lo, hi) => Within(Enqueue(q, v), lo, v)
                           /\ Within(q, lo, hi) /\ Sorted(q) => Sorted(Enqueue(q, v))
    OBVIOUS
  <2>1. v <= v BY <1>1, <1>2 DEF Snaps
  <2>2. \A lo, hi \in Snaps : lo <= hi /\ hi <= v => lo <= v BY <1>1, <1>2 DEF Snaps
  <2>3. /\ Enqueue(q, v) \in Seq(Snaps) /\ Len(Enqueue(q, v)) <= MaxQueueSize
    BY <1>2, <2>1, EnqueueSorted
  <2> QED BY <1>2, <2>1, <2>2, <2>3, EnqueueSorted
<1>5. <<>> \in Seq(Snaps) /\ Len(<<>>) <= MaxQueueSize
  <2>1. Len(<<>>) = 0 /\ <<>> \in Seq(Snaps) BY EmptySorted
  <2>2. 0 <= MaxQueueSize BY <1>1
  <2> QED BY <2>1, <2>2
<1>f. \A c \in Configs : c \in registered /\ ~Alive(c) =>
        /\ worker'[c] \in WorkerType /\ worker'[c].at = "wait" /\ worker'[c].item = Stop
        /\ closing \in {"close", "done"} => worker'[c].late
  BY <1>e, FreshWorker
<1>t. PushTypeOK'
  <2>1. writer' \in [Writers -> WriterType] BY <1>1, <1>3 DEF PushTypeOK, WriterType
  <2>2. worker' \in [Configs -> WorkerType] BY <1>1, <1>3, <1>e, <1>f DEF PushTypeOK
  <2>3. newest' \in [Configs -> Snaps] BY <1>1, <1>2, <1>3, <1>e DEF PushTypeOK, Snaps
  <2>4. \A c \in Configs : queue'[c] \in Seq(Snaps) /\ Len(queue'[c]) <= MaxQueueSize
    <3> SUFFICES ASSUME NEW c \in Configs PROVE queue'[c] \in Seq(Snaps) /\ Len(queue'[c]) <= MaxQueueSize
      OBVIOUS
    <3>1. queue[c] \in Seq(Snaps) /\ Len(queue[c]) <= MaxQueueSize BY <1>1, WorkerTypes
    <3>2. queue'[c] \in {queue[c], Enqueue(queue[c], v), Enqueue(<<>>, v)} BY <1>e
    <3> QED BY <1>4, <1>5, <3>1, <3>2
  <2>5. overtaken' \in BOOLEAN BY <1>3
  <2> QED BY <1>1, <1>3, <2>1, <2>2, <2>3, <2>4, <2>5 DEF PushTypeOK, Snaps
<1>6. Busy' BY <1>e, <1>f DEF PushInv, Busy, Handling
<1>7. InOrder'
  <2> SUFFICES ASSUME ~overtaken' PROVE regressed' = {} /\ \A c \in Configs : Ordered(c)' BY DEF InOrder
  <2>1. /\ ~overtaken /\ regressed = {} /\ \A c \in Configs : Ordered(c) BY <1>3 DEF PushInv, InOrder
  <2>2. \A c \in Configs : c \in registered => newest[c] <= v
    <3> SUFFICES ASSUME NEW c \in Configs, c \in registered PROVE newest[c] <= v OBVIOUS
    <3>1. ~(newest[c] > v) BY <1>3
    <3>2. newest[c] \in Nat /\ v \in Nat BY <1>1, <1>2, WorkerTypes DEF Snaps
    <3> QED BY <3>1, <3>2
  <2> SUFFICES ASSUME NEW c \in Configs PROVE Ordered(c)' BY <1>3, <2>1
  <2>3. /\ received[c] \in Snaps /\ newest[c] \in Snaps /\ worker[c].item \in Snaps
        /\ queue[c] \in Seq(Snaps) /\ Len(queue[c]) <= MaxQueueSize
    BY <1>1, WorkerTypes
  <2>4. /\ received[c] <= newest[c] /\ worker[c].item <= newest[c]
        /\ worker[c].at \in Handling => received[c] <= worker[c].item
        /\ Sorted(queue[c]) /\ Within(queue[c], received[c], newest[c])
        /\ Within(queue[c], worker[c].item, newest[c])
    BY <2>1 DEF Ordered
  <2>5. CASE c \notin registered BY <1>3, <1>e, <2>1, <2>5 DEF Ordered
  <2>6. CASE c \in registered
    <3>1. newest[c] <= v /\ received[c] <= v /\ worker[c].item <= v BY <1>1, <1>2, <2>2, <2>3, <2>4, <2>6 DEF Snaps
    <3>2. CASE Alive(c)
      <4>1. /\ Within(Enqueue(queue[c], v), received[c], v) /\ Sorted(Enqueue(queue[c], v))
            /\ Within(Enqueue(queue[c], v), worker[c].item, v)
        BY <1>4, <2>3, <2>4, <3>1
      <4> QED BY <1>3, <1>e, <2>4, <2>6, <3>1, <3>2, <4>1 DEF Ordered
    <3>3. CASE ~Alive(c)
      <4>1. Sorted(<<>>) /\ \A lo, hi \in Snaps : Within(<<>>, lo, hi) BY EmptySorted
      <4>2. Stop \in Snaps /\ Stop <= newest[c] /\ Stop <= v BY <1>1, <1>2, <2>3 DEF Snaps, Stop
      <4>3. /\ Within(Enqueue(<<>>, v), received[c], v) /\ Sorted(Enqueue(<<>>, v))
            /\ Within(Enqueue(<<>>, v), Stop, v)
        BY <1>4, <1>5, <2>3, <2>4, <3>1, <4>1, <4>2
      <4> QED BY <1>3, <1>e, <1>f, <2>6, <3>1, <3>3, <4>2, <4>3 DEF Ordered, Handling
    <3> QED BY <3>2, <3>3
  <2> QED BY <2>5, <2>6
<1>8. Closed' BY <1>3, <1>e, <1>f DEF PushInv, Closed, Alive
<1> QED BY <1>t, <1>6, <1>7, <1>8 DEF PushInv

(* Shutdown of the delivery                                                *)

LEMMA SentinelStep == ASSUME PushInv, SendSentinels PROVE PushInv'
<1>1. PushTypeOK /\ FinalVersion \in Nat BY PushAssumption DEF PushInv
<1>2. /\ UNCHANGED <<version, deletion, registered, setter, writer, worker, client, newest, settled, received,
                     regressed, overtaken>>
      /\ closing = "no" /\ closing' \in {"close", "drain"}
      /\ closing' = "close" => \A c \in Configs : Alive(c) => worker[c].late
      /\ queue' = [c \in Configs |-> IF Alive(c) THEN Enqueue(queue[c], Stop) ELSE queue[c]]
  BY DEF SendSentinels, Awaited, taskVars, ghosts
<1>s. Stop \in Snaps BY <1>1 DEF Stop, Snaps
<1>3. ASSUME NEW c \in Configs, NEW x \in Snaps, x = Stop
      PROVE /\ Enqueue(queue[c], x) \in Seq(Snaps) /\ Len(Enqueue(queue[c], x)) <= MaxQueueSize
            /\ \A lo, hi \in Snaps :
                 /\ Within(queue[c], lo, hi) => Within(Enqueue(queue[c], x), lo, hi)
                 /\ Within(queue[c], lo, hi) /\ Sorted(queue[c]) => Sorted(Enqueue(queue[c], x))
  <2>1. queue[c] \in Seq(Snaps) /\ Len(queue[c]) <= MaxQueueSize BY <1>1, WorkerTypes
  <2>2. \A hi \in Snaps : hi <= hi BY <1>1 DEF Snaps
  <2>3. Enqueue(queue[c], x) \in Seq(Snaps) /\ Len(Enqueue(queue[c], x)) <= MaxQueueSize
    BY <1>3, <2>1, <2>2, EnqueueSorted
  <2> QED BY <1>3, <2>1, <2>2, <2>3, EnqueueSorted
<1>4. \A c \in Configs :
        /\ Enqueue(queue[c], Stop) \in Seq(Snaps) /\ Len(Enqueue(queue[c], Stop)) <= MaxQueueSize
        /\ \A lo, hi \in Snaps :
             /\ Within(queue[c], lo, hi) => Within(Enqueue(queue[c], Stop), lo, hi)
             /\ Within(queue[c], lo, hi) /\ Sorted(queue[c]) => Sorted(Enqueue(queue[c], Stop))
  BY <1>s, <1>3
<1>5. \A c \in Configs : queue'[c] \in {queue[c], Enqueue(queue[c], Stop)} BY <1>2
<1>6. PushTypeOK'
  <2>1. \A c \in Configs : queue'[c] \in Seq(Snaps) /\ Len(queue'[c]) <= MaxQueueSize
    <3> SUFFICES ASSUME NEW c \in Configs PROVE queue'[c] \in Seq(Snaps) /\ Len(queue'[c]) <= MaxQueueSize
      OBVIOUS
    <3>1. queue[c] \in Seq(Snaps) /\ Len(queue[c]) <= MaxQueueSize BY <1>1, WorkerTypes
    <3> QED BY <1>4, <1>5, <3>1
  <2>2. queue' \in [Configs -> Seq(Snaps)] BY <1>2, <2>1
  <2> QED BY <1>1, <1>2, <2>1, <2>2 DEF PushTypeOK, Snaps
<1>7. Busy' BY <1>2 DEF PushInv, Busy
<1>8. InOrder'
  <2> SUFFICES ASSUME ~overtaken PROVE \A c \in Configs : Ordered(c)' BY <1>2 DEF PushInv, InOrder
  <2> SUFFICES ASSUME NEW c \in Configs PROVE Ordered(c)' OBVIOUS
  <2>1. Ordered(c) BY DEF PushInv, InOrder
  <2>2. received[c] \in Snaps /\ newest[c] \in Snaps /\ worker[c].item \in Snaps BY <1>1, WorkerTypes
  <2>3. CASE queue'[c] = queue[c] BY <1>2, <2>1, <2>3 DEF Ordered
  <2>4. CASE queue'[c] = Enqueue(queue[c], Stop)
    <3>1. /\ Sorted(queue'[c]) /\ Within(queue'[c], received[c], newest[c])
          /\ Within(queue'[c], worker[c].item, newest[c])
      BY <1>4, <2>1, <2>2, <2>4 DEF Ordered
    <3> QED BY <1>2, <2>1, <3>1 DEF Ordered
  <2> QED BY <1>5, <2>3, <2>4
<1>9. Closed' BY <1>2 DEF PushInv, Closed, Alive
<1> QED BY <1>6, <1>7, <1>8, <1>9 DEF PushInv

LEMMA DrainedStep == ASSUME PushInv, Drained \/ CloseClient PROVE PushInv'
<1>1. /\ UNCHANGED <<version, deletion, registered, setter, writer, worker, queue, newest, settled, received,
                     regressed, overtaken>>
      /\ client' \in {client, "closed"} /\ closing' \in {"close", "done"}
      /\ client' = "closed" => closing' = "done"
      /\ \A c \in Configs : Alive(c) => worker[c].late
  BY DEF Drained, CloseClient, PushInv, Closed, Awaited, taskVars, ghosts
<1>2. PushTypeOK' BY <1>1 DEF PushInv, PushTypeOK
<1>3. Busy' BY <1>1 DEF PushInv, Busy
<1>4. InOrder' BY <1>1 DEF PushInv, InOrder, Ordered
<1>5. Closed' BY <1>1 DEF Closed, Alive
<1> QED BY <1>2, <1>3, <1>4, <1>5 DEF PushInv

LEMMA GraceStep == ASSUME PushInv, GraceElapses PROVE PushInv'
<1>1. /\ UNCHANGED <<version, deletion, registered, setter, writer, queue, client, newest, settled, received,
                     regressed, overtaken>>
      /\ closing = "drain" /\ closing' = "cancelling"
      /\ worker' = [c \in Configs |->
           IF c \in Awaited THEN [worker[c] EXCEPT !.at = "cancelled"] ELSE worker[c]]
  BY DEF GraceElapses, taskVars, ghosts
<1>2. \A c \in Configs : worker[c] \in WorkerType BY DEF PushInv, PushTypeOK
<1>3. \A c \in Configs :
        /\ worker'[c] \in WorkerType /\ worker'[c].item = worker[c].item
        /\ worker'[c].attempt = worker[c].attempt
        /\ worker'[c].at = worker[c].at \/ worker'[c].at = "cancelled"
  BY <1>1, <1>2 DEF WorkerType
<1>4. PushTypeOK' BY <1>1, <1>3 DEF PushInv, PushTypeOK
<1>5. Busy' BY <1>3 DEF PushInv, Busy, Handling
<1>6. InOrder'
  <2> SUFFICES ASSUME ~overtaken PROVE \A c \in Configs : Ordered(c)' BY <1>1 DEF PushInv, InOrder
  <2>1. \A c \in Configs : Ordered(c) BY DEF PushInv, InOrder
  <2> QED BY <1>1, <1>3, <2>1 DEF Ordered, Handling
<1>7. Closed' BY <1>1 DEF PushInv, Closed
<1> QED BY <1>4, <1>5, <1>6, <1>7 DEF PushInv

LEMMA OpenStep ==
  ASSUME PushInv, OpenClient, UNCHANGED <<taskVars, queue, worker, closing, ghosts>> PROVE PushInv'
<1>1. /\ UNCHANGED <<version, deletion, registered, setter, writer, worker, queue, closing, newest, settled,
                     received, regressed, overtaken>>
      /\ client' = "open"
  BY DEF OpenClient, taskVars, ghosts
<1>2. PushTypeOK' BY <1>1 DEF PushInv, PushTypeOK
<1>3. Busy' BY <1>1 DEF PushInv, Busy
<1>4. InOrder' BY <1>1 DEF PushInv, InOrder, Ordered
<1>5. Closed' BY <1>1 DEF PushInv, Closed, Alive
<1> QED BY <1>2, <1>3, <1>4, <1>5 DEF PushInv

LEMMA PushUnchanged == ASSUME PushInv, UNCHANGED pushVars PROVE PushInv'
BY DEF PushInv, PushTypeOK, Busy, InOrder, Ordered, Closed, Alive, pushVars

LEMMA PushInvInit == ASSUME PushInit PROVE PushInv
<1>1. FinalVersion \in Nat /\ MaxQueueSize \in Nat /\ MaxAttempts \in Nat BY PushAssumption
<1>2. PushTypeOK
  <2>1. writer \in [Writers -> WriterType] BY <1>1 DEF PushInit, WriterType
  <2>2. NoWorker \in WorkerType BY <1>1 DEF NoWorker, WorkerType, Stop
  <2>3. worker \in [Configs -> WorkerType] BY <2>2 DEF PushInit
  <2>4. \A c \in Configs : queue[c] = <<>> BY DEF PushInit
  <2>5. Len(<<>>) = 0 /\ <<>> \in Seq(0..FinalVersion) BY EmptySorted DEF Snaps
  <2>6. 0 <= MaxQueueSize /\ 0 \in 0..FinalVersion BY <1>1
  <2>7. queue \in [Configs -> Seq(0..FinalVersion)] BY <2>5 DEF PushInit
  <2>8. \A c \in Configs : Len(queue[c]) <= MaxQueueSize BY <2>4, <2>5, <2>6
  <2> QED BY <2>1, <2>3, <2>6, <2>7, <2>8 DEF PushInit, PushTypeOK
<1>3. \A c \in Configs : worker[c].at = "none" /\ worker[c].item = Stop BY DEF PushInit, NoWorker
<1>4. Busy BY <1>3 DEF Busy, Handling
<1>5. InOrder
  <2>1. \A c \in Configs : queue[c] = <<>> /\ received[c] = 0 /\ newest[c] = 0 BY DEF PushInit
  <2>2. 0 \in Snaps BY <1>1 DEF Snaps
  <2>3. \A c \in Configs : Ordered(c) BY <1>3, <2>1, <2>2, EmptySorted DEF Ordered, Handling, Stop
  <2> QED BY <2>3 DEF InOrder, PushInit
<1>6. Closed BY DEF Closed, PushInit
<1> QED BY <1>2, <1>4, <1>5, <1>6 DEF PushInv

LEMMA PushStep == ASSUME PushInv, [Next]_vars PROVE PushInv'
<1>1. CASE UNCHANGED vars BY <1>1, PushUnchanged DEF vars
<1>2. CASE UNCHANGED pushVars BY <1>2, PushUnchanged
<1>3. CASE LifespanStep
  <2>1. CASE StartDelivery BY <2>1, OpenStep DEF StartDelivery
  <2>2. CASE StartDependency \/ Rollback \/ EnterResource \/ CloseRegistry \/ StopDependency
    BY <1>2, <2>2 DEF StartDependency, Rollback, EnterResource, CloseRegistry, StopDependency
  <2>3. CASE CancelBackground BY <2>3, IdleStep DEF CancelBackground
  <2>4. CASE ShutDownDelivery BY <2>4, SentinelStep, DrainedStep, GraceStep DEF ShutDownDelivery
  <2>5. CASE ExitResource
    <3>1. UNCHANGED <<version, deletion, registered, setter, queue, worker, client, closing, ghosts>>
      BY <2>5 DEF ExitResource
    <3>2. CASE UNCHANGED writer BY <1>2, <3>1, <3>2 DEF pushVars, ghosts
    <3>3. CASE \E ws : Idle(ws) BY <3>1, <3>3, IdleStep
    <3>4. UNCHANGED writer \/ \E ws : Idle(ws) BY <2>5, Zenon DEF ExitResource
    <3> QED BY <3>2, <3>3, <3>4
  <2> QED BY <1>3, <2>1, <2>2, <2>3, <2>4, <2>5 DEF LifespanStep
<1>4. CASE LeaveServing BY <1>2, <1>4 DEF LeaveServing
<1>5. ASSUME NEW c \in Configs, Deliveries(c) PROVE PushInv'
  BY <1>5, TakeItemStep, ResolveStep, AnswerStep, BackOffStep, CancelledEndsStep DEF Deliveries, QueueStep
<1>6. ASSUME NEW w \in Writers, Emits(w) PROVE PushInv'
  BY <1>6, UpdateStep, DeliverStep DEF Emits, EmitterStep
<1>7. CASE StoreStep BY <1>7, StoreSteps
<1>8. ASSUME NEW c \in Configs, IdleTimeout(c) PROVE PushInv' BY <1>8, IdleTimeoutStep
<1> QED BY <1>1, <1>3, <1>4, <1>5, <1>6, <1>7, <1>8 DEF Next

\* The delivery keeps its types, and a webhook is sent what its queue holds
\* in order, through every start, failure and shutdown of the server.
THEOREM PushInvariant == Spec => []PushInv
<1>1. Init => PushInv BY PushInvInit DEF Init
<1>2. PushInv /\ [Next]_vars => PushInv' BY PushStep
<1> QED BY <1>1, <1>2, PTL DEF Spec

\* No webhook is sent an older snapshot of the task after a newer one
\* (_queue_worker, _deliver_single), however POSTs fail, queues overflow,
\* workers end and start again and configurations come and go, unless one
\* writer overtook another before it handed its snapshot over.
THEOREM WebhooksInOrder == Spec => []WebhookOrder
<1>1. PushInv => WebhookOrder BY DEF PushInv, InOrder, WebhookOrder
<1> QED BY <1>1, PushInvariant, PTL

\* shutdown closes the HTTP client under no worker that it found (it waits,
\* cancels and waits again); the ones deliver starts later are the exception.
THEOREM ClientClosedLast == Spec => []ClosedAfterWorkers
<1>1. PushInv => ClosedAfterWorkers BY DEF PushInv, Closed, ClosedAfterWorkers
<1> QED BY <1>1, PushInvariant, PTL

-----------------------------------------------------------------------------
(* The order of start and stop                                             *)

Deps == ToSet(Registry)
Upto(n) == {Resources[k] : k \in 1..n}
Keys(n) == {Registry[k] : k \in 1..n}
Begun(n) == {starts[k] : k \in 1..n}
Things == Deps \cup ToSet(Resources)

Early == {"new", "deps", "enter", "serving", "background", "delivery", "registry"}
Entering == {"enter", "serving", "background", "delivery", "registry", "unwind"}

\* x is started before y: a dependency before a resource, resources in their
\* order, dependencies by their first keys.
Sooner(x, y) ==
  \/ x \in Deps /\ y \in ToSet(Resources)
  \/ \E a, b \in 1..4 : a < b /\ x = Resources[a] /\ y = Resources[b]
  \/ /\ y \in Deps
     /\ \E n \in DOMAIN Registry : Registry[n] = x /\ \A m \in 1..n : Registry[m] # y

\* What still has to be stopped.
Pending ==
  CASE stage = "deps" -> Keys(cursor - 1)
    [] stage = "rollback" -> Begun(cursor)
    [] stage \in Entering -> Deps \cup Upto(entered)
    [] stage = "deps_down" -> Keys(cursor)
    [] OTHER -> {}

\* Where lifespan() may be, and what its positions may be there.
Positions ==
  /\ stage = "new" => starts = <<>>
  /\ stage = "deps" => cursor \in 1..Len(Registry) + 1 /\ Len(starts) < cursor
  /\ stage = "rollback" => cursor <= Len(starts) /\ Len(starts) <= Len(Registry)
  /\ stage = "deps_down" => cursor \in 0..Len(Registry)
  /\ stage \in {"new", "deps", "rollback"} => entered = 0
  /\ stage \in Early => stops = <<>>

Accounts ==
  /\ IsInjective(starts) /\ IsInjective(stops)
  /\ ToSet(starts) = ToSet(stops) \cup Pending
  /\ stage \in {"rollback", "unwind"} => ToSet(stops) \cap Pending = {}

Chain == \A i, j \in DOMAIN starts : i < j => Sooner(starts[i], starts[j])

\* x is stopped after everything that was started after it.
StopsAfter(x) ==
  \A i, j \in DOMAIN starts :
    i < j /\ starts[i] = x /\ Stopped(x) /\ x \notin Aliased =>
      \E q \in DOMAIN stops : stops[q] = starts[j] /\ \A p \in DOMAIN stops : stops[p] = x => q < p

UnwindInv == TypeOK /\ Positions /\ Accounts /\ Chain /\ \A x \in Things : StopsAfter(x)

\* r is s with x at its end.
Extended(r, s, x) ==
  /\ Len(r) = Len(s) + 1 /\ Len(s) \in Nat /\ DOMAIN s = 1..Len(s)
  /\ r[Len(s) + 1] = x /\ \A n \in DOMAIN s : r[n] = s[n]
  /\ \A n \in DOMAIN r : n \in DOMAIN s \/ n = Len(s) + 1
  /\ DOMAIN s \subseteq DOMAIN r /\ \A n \in DOMAIN s : n < Len(s) + 1
  /\ ToSet(r) = ToSet(s) \cup {x}
  /\ IsInjective(s) /\ x \notin ToSet(s) => IsInjective(r)

LEMMA AppendOne ==
  ASSUME NEW S, NEW s \in Seq(S), NEW x \in S, NEW r, r = Append(s, x)
  PROVE  r \in Seq(S) /\ Extended(r, s, x)
<1>1. /\ r \in Seq(S) /\ Len(r) = Len(s) + 1 /\ Len(s) \in Nat
      /\ DOMAIN s = 1..Len(s) /\ DOMAIN r = 1..Len(s) + 1
      /\ r[Len(s) + 1] = x /\ \A n \in 1..Len(s) : r[n] = s[n]
  OBVIOUS
<1>2. /\ \A n \in 1..Len(s) + 1 : n \in 1..Len(s) \/ n = Len(s) + 1
      /\ \A n \in 1..Len(s) : n \in 1..Len(s) + 1 /\ n < Len(s) + 1
      /\ Len(s) + 1 \in 1..Len(s) + 1
  BY <1>1
<1>3. ToSet(r) = ToSet(s) \cup {x}
  <2>1. \A y : y \in ToSet(r) <=> \E n \in DOMAIN r : y = r[n] BY DEF ToSet
  <2>2. \A y : y \in ToSet(s) <=> \E n \in DOMAIN s : y = s[n] BY DEF ToSet
  <2> QED BY <1>1, <1>2, <2>1, <2>2
<1>4. IsInjective(s) /\ x \notin ToSet(s) => IsInjective(r)
  <2>1. \A n \in DOMAIN s : s[n] \in ToSet(s) BY DEF ToSet
  <2> QED BY <1>1, <1>2, <2>1 DEF IsInjective
<1> QED BY <1>1, <1>2, <1>3, <1>4 DEF Extended

LEMMA EmptySet == ToSet(<<>>) = {} /\ IsInjective(<<>>) /\ DOMAIN <<>> = {}
BY DEF ToSet, IsInjective

\* Without repetition a sequence is as long as the set of its elements is large.
LEMMA InjectiveLen ==
  ASSUME NEW S, NEW s \in Seq(S), IsInjective(s)
  PROVE  Cardinality(ToSet(s)) = Len(s)
<1>1. Len(s) \in Nat /\ DOMAIN s = 1..Len(s) /\ s \in [1..Len(s) -> S] OBVIOUS
<1>2. \A y : y \in ToSet(s) <=> \E n \in 1..Len(s) : y = s[n] BY <1>1 DEF ToSet
<1>3. s \in [1..Len(s) -> ToSet(s)] BY <1>1, <1>2
<1>4. s \in Bijection(1..Len(s), ToSet(s))
  BY <1>1, <1>2, <1>3 DEF Bijection, Injection, Surjection, IsInjective
<1>5. ExistsBijection(1..Len(s), ToSet(s)) BY <1>4 DEF ExistsBijection
<1> QED BY <1>1, <1>5, FS_CountingElements


LEMMA ResourceFacts ==
  /\ Len(Resources) = 4 /\ \A n \in 1..4 : Resources[n] \in ToSet(Resources)
  /\ \A y \in ToSet(Resources) : \E n \in 1..4 : y = Resources[n]
  /\ \A a, b \in 1..4 : Resources[a] = Resources[b] => a = b
  /\ Upto(0) = {} /\ \A n \in 0..4 : Upto(n) \subseteq ToSet(Resources)
  /\ \A n \in 1..4 : Upto(n) = Upto(n - 1) \cup {Resources[n]} /\ Resources[n] \notin Upto(n - 1)
<1>1. Len(Resources) = 4 /\ DOMAIN Resources = 1..4 BY DEF Resources
<1>2. /\ Resources[1] = "storage" /\ Resources[2] = "broker" /\ Resources[3] = "event_bus"
      /\ Resources[4] = "adapter"
  BY DEF Resources
<1>3. \A a, b \in 1..4 : Resources[a] = Resources[b] => a = b BY <1>2
<1>4. /\ \A n \in 1..4 : Resources[n] \in ToSet(Resources)
      /\ \A y \in ToSet(Resources) : \E n \in 1..4 : y = Resources[n]
  BY <1>1 DEF ToSet
<1>5. \A n \in 0..4 : Upto(n) \subseteq ToSet(Resources) BY <1>4 DEF Upto
<1>6. \A n \in 1..4 : \A k \in 1..n : k \in 1..4 /\ (k = n \/ k \in 1..n - 1) OBVIOUS
<1>7. \A n \in 1..4 : \A k \in 1..n - 1 : k \in 1..n /\ k \in 1..4 /\ k # n OBVIOUS
<1>8. \A n \in 1..4 : n \in 1..n OBVIOUS
<1>9. \A n \in 1..4 : Upto(n) = Upto(n - 1) \cup {Resources[n]} BY <1>6, <1>7, <1>8 DEF Upto
<1>10. \A n \in 1..4 : Resources[n] \notin Upto(n - 1) BY <1>3, <1>7 DEF Upto
<1> QED BY <1>1, <1>3, <1>4, <1>5, <1>9, <1>10 DEF Upto

LEMMA RegistryFacts ==
  /\ Len(Registry) \in Nat /\ DOMAIN Registry = 1..Len(Registry) /\ Deps \cap ToSet(Resources) = {}
  /\ \A n \in 1..Len(Registry) : Registry[n] \in Deps
  /\ \A y \in Deps : \E n \in 1..Len(Registry) : y = Registry[n]
BY LifespanAssumption DEF Deps, ToSet

LEMMA ThingsFacts ==
  ASSUME UnwindInv
  PROVE  /\ starts \in Seq(Things) /\ stops \in Seq(Things)
         /\ entered \in 0..4 /\ cursor \in 0..Len(Registry) + 1
         /\ \A n \in DOMAIN starts : starts[n] \in ToSet(starts) /\ starts[n] \in Things
         /\ \A y \in ToSet(starts) : \E n \in DOMAIN starts : y = starts[n]
         /\ \A n \in DOMAIN stops : stops[n] \in ToSet(stops)
         /\ \A y \in ToSet(stops) : \E n \in DOMAIN stops : y = stops[n]
         /\ ToSet(starts) \subseteq Things /\ ToSet(stops) \subseteq Things
<1>1. starts \in Seq(Things) /\ stops \in Seq(Things) /\ entered \in 0..4 /\ cursor \in 0..Len(Registry) + 1
  BY ResourceFacts DEF UnwindInv, TypeOK, Things, Deps
<1> QED BY <1>1 DEF ToSet

\* Stopping x, when everything started after it is stopped.
LEMMA StopOne ==
  ASSUME UnwindInv, NEW x \in ToSet(starts), x \notin ToSet(stops), UNCHANGED starts,
         stops' = Append(stops, x),
         \A i, j \in DOMAIN starts :
           i < j /\ starts[i] = x /\ x \notin Aliased => starts[j] \in ToSet(stops)
  PROVE  /\ stops' \in Seq(Things) /\ IsInjective(stops') /\ ToSet(stops') = ToSet(stops) \cup {x}
         /\ \A y \in Things : StopsAfter(y)'
<1>1. /\ stops \in Seq(Things) /\ x \in Things /\ IsInjective(stops)
      /\ \A n \in DOMAIN stops : stops[n] \in ToSet(stops)
      /\ \A y \in ToSet(stops) : \E n \in DOMAIN stops : y = stops[n]
  BY ThingsFacts DEF UnwindInv, Accounts
<1>2. /\ stops' \in Seq(Things) /\ Len(stops) \in Nat
      /\ stops'[Len(stops) + 1] = x /\ \A n \in DOMAIN stops : stops'[n] = stops[n]
      /\ \A n \in DOMAIN stops' : n \in DOMAIN stops \/ n = Len(stops) + 1
      /\ DOMAIN stops \subseteq DOMAIN stops' /\ \A n \in DOMAIN stops : n < Len(stops) + 1
      /\ ToSet(stops') = ToSet(stops) \cup {x}
      /\ IsInjective(stops')
  <2>1. stops' \in Seq(Things) /\ Extended(stops', stops, x) BY <1>1, AppendOne
  <2> QED BY <1>1, <2>1 DEF Extended
<1>3. ASSUME NEW y \in Things PROVE StopsAfter(y)'
  <2> SUFFICES ASSUME NEW i \in DOMAIN starts, NEW j \in DOMAIN starts,
                      i < j, starts[i] = y, y \in ToSet(stops'), y \notin Aliased
               PROVE  \E q \in DOMAIN stops' : /\ stops'[q] = starts[j]
                                               /\ \A p \in DOMAIN stops' : stops'[p] = y => q < p
    BY DEF StopsAfter, Stopped
  <2>1. CASE y = x
    <3>1. starts[j] \in ToSet(stops) BY <2>1
    <3>2. PICK q \in DOMAIN stops : starts[j] = stops[q] BY <1>1, <3>1
    <3>3. \A p \in DOMAIN stops' : stops'[p] = x => p = Len(stops) + 1 BY <1>1, <1>2
    <3> QED BY <1>2, <2>1, <3>2, <3>3
  <2>2. CASE y # x
    <3>1. y \in ToSet(stops) BY <1>2, <2>2
    <3>2. PICK q \in DOMAIN stops : stops[q] = starts[j] /\ \A p \in DOMAIN stops : stops[p] = y => q < p
      BY <3>1 DEF UnwindInv, StopsAfter, Stopped
    <3>3. \A p \in DOMAIN stops' : stops'[p] = y => p \in DOMAIN stops BY <1>2, <2>2
    <3> QED BY <1>2, <3>2, <3>3
  <2> QED BY <2>1, <2>2
<1> QED BY <1>2, <1>3

\* Starting x, while nothing has been stopped.
LEMMA StartOne ==
  ASSUME UnwindInv, stops = <<>>, NEW x \in Things, x \notin ToSet(starts), UNCHANGED stops,
         starts' = Append(starts, x), \A n \in DOMAIN starts : Sooner(starts[n], x)
  PROVE  /\ starts' \in Seq(Things) /\ IsInjective(starts') /\ ToSet(starts') = ToSet(starts) \cup {x}
         /\ Len(starts) \in Nat /\ Len(starts') = Len(starts) + 1
         /\ Chain' /\ \A y \in Things : StopsAfter(y)'
<1>1. starts \in Seq(Things) /\ IsInjective(starts) BY ThingsFacts DEF UnwindInv, Accounts
<1>2. /\ starts' \in Seq(Things) /\ Len(starts) \in Nat /\ Len(starts') = Len(starts) + 1
      /\ starts'[Len(starts) + 1] = x /\ \A n \in DOMAIN starts : starts'[n] = starts[n]
      /\ \A n \in DOMAIN starts' : n \in DOMAIN starts \/ n = Len(starts) + 1
      /\ DOMAIN starts = 1..Len(starts)
      /\ ToSet(starts') = ToSet(starts) \cup {x}
      /\ IsInjective(starts')
  <2>1. starts' \in Seq(Things) /\ Extended(starts', starts, x) BY <1>1, AppendOne
  <2> QED BY <1>1, <2>1 DEF Extended
<1>3. Chain'
  <2> SUFFICES ASSUME NEW i \in DOMAIN starts', NEW j \in DOMAIN starts', i < j
               PROVE  Sooner(starts'[i], starts'[j])
    BY DEF Chain, Sooner
  <2>1. i \in DOMAIN starts
    <3>1. CASE i = Len(starts) + 1
      <4>1. j \in DOMAIN starts \/ j = Len(starts) + 1 BY <1>2
      <4> QED BY <1>2, <3>1, <4>1
    <3> QED BY <1>2, <3>1
  <2>2. CASE j \in DOMAIN starts
    <3>1. Sooner(starts[i], starts[j]) BY <2>1, <2>2 DEF UnwindInv, Chain
    <3> QED BY <1>2, <2>1, <2>2, <3>1
  <2>3. CASE j = Len(starts) + 1
    <3>1. Sooner(starts[i], x) BY <2>1
    <3> QED BY <1>2, <2>1, <2>3, <3>1
  <2> QED BY <1>2, <2>2, <2>3
<1>4. \A y \in Things : StopsAfter(y)'
  <2>1. ToSet(stops') = {} BY EmptySet
  <2> QED BY <2>1 DEF StopsAfter, Stopped
<1> QED BY <1>2, <1>3, <1>4

LEMMA PendingAt ==
  /\ stage = "deps" => Pending = Keys(cursor - 1)
  /\ stage = "rollback" => Pending = Begun(cursor)
  /\ stage \in Entering => Pending = Deps \cup Upto(entered)
  /\ stage = "deps_down" => Pending = Keys(cursor)
  /\ stage \in {"new", "ended"} => Pending = {}
BY DEF Pending, Entering

LEMMA PendingNext ==
  /\ stage' = "deps" => Pending' = Keys(cursor' - 1)
  /\ stage' = "rollback" => Pending' = Begun(cursor)'
  /\ stage' \in Entering => Pending' = Deps \cup Upto(entered')
  /\ stage' = "deps_down" => Pending' = Keys(cursor')
  /\ stage' \in {"new", "ended"} => Pending' = {}
BY DEF Pending, Entering, Keys, Begun, Deps, Upto

LEMMA KeyFacts ==
  /\ Keys(0) = {} /\ Keys(Len(Registry)) = Deps
  /\ \A n \in 1..Len(Registry) : Keys(n) = Keys(n - 1) \cup {Registry[n]}
  /\ \A n \in 0..Len(Registry) : Keys(n) \subseteq Deps
<1>1. Len(Registry) \in Nat BY RegistryFacts
<1>2. \A n \in 1..Len(Registry) : \A k \in 1..n : k \in 1..Len(Registry) /\ (k = n \/ k \in 1..n - 1)
  BY <1>1
<1>3. \A n \in 1..Len(Registry) : \A k \in 1..n - 1 : k \in 1..n BY <1>1
<1>4. \A n \in 1..Len(Registry) : n \in 1..n BY <1>1
<1>5. \A n \in 1..Len(Registry) : Keys(n) = Keys(n - 1) \cup {Registry[n]} BY <1>2, <1>3, <1>4 DEF Keys
<1>6. Keys(0) = {} /\ Keys(Len(Registry)) = Deps BY RegistryFacts DEF Keys
<1>7. \A n \in 0..Len(Registry) : \A k \in 1..n : k \in 1..Len(Registry) BY <1>1
<1>8. \A n \in 0..Len(Registry) : Keys(n) \subseteq Deps BY <1>7, RegistryFacts DEF Keys
<1> QED BY <1>5, <1>6, <1>8

\* Nothing is started and nothing stopped.
LEMMA Quiet ==
  ASSUME UnwindInv, TypeOK', Positions', UNCHANGED <<starts, stops>>,
         ToSet(starts) = ToSet(stops) \cup Pending',
         stage' \in {"rollback", "unwind"} => ToSet(stops) \cap Pending' = {}
  PROVE  UnwindInv'
<1>1. Accounts' BY DEF UnwindInv, Accounts
<1>2. Chain' BY DEF UnwindInv, Chain, Sooner
<1>3. \A x \in Things : StopsAfter(x)' BY DEF UnwindInv, StopsAfter, Stopped
<1> QED BY <1>1, <1>2, <1>3 DEF UnwindInv

LEMMA StartDeliveryUnwind == ASSUME UnwindInv, PushTypeOK', StartDelivery PROVE UnwindInv'
<1>1. /\ stage = "new" /\ stage' = "deps" /\ cursor' = 1 /\ UNCHANGED <<entered, starts, stops>>
      /\ starts = <<>> /\ stops = <<>> /\ entered = 0
  BY DEF StartDelivery, Goto, UnwindInv, Positions, Early
<1>2. TypeOK' BY <1>1, RegistryFacts DEF UnwindInv, TypeOK
<1>3. Positions' BY <1>1, RegistryFacts DEF Positions, Early
<1>4. Pending' = {} BY <1>1, PendingNext, KeyFacts
<1>5. ToSet(starts) = ToSet(stops) \cup Pending' BY <1>1, <1>4
<1> QED BY <1>1, <1>2, <1>3, <1>5, Quiet

LEMMA StartDependencyUnwind == ASSUME UnwindInv, PushTypeOK', StartDependency PROVE UnwindInv'
<1>1. /\ stage = "deps" /\ UNCHANGED <<entered, stops>> /\ stops = <<>> /\ entered = 0
      /\ cursor \in 1..Len(Registry) + 1 /\ Len(starts) < cursor /\ Len(Registry) \in Nat
      /\ TypeOK /\ ToSet(stops) = {} /\ ToSet(starts) = Keys(cursor - 1)
  BY RegistryFacts, PendingAt, EmptySet DEF StartDependency, UnwindInv, Positions, Early, Accounts
<1>2. /\ starts \in Seq(Things) /\ Len(starts) \in Nat /\ DOMAIN starts = 1..Len(starts)
      /\ \A n \in DOMAIN starts : starts[n] \in ToSet(starts)
  BY ThingsFacts
<1>3. CASE cursor > Len(Registry) /\ Goto("enter") /\ UNCHANGED <<cursor, starts>>
  <2>1. stage' = "enter" /\ cursor = Len(Registry) + 1 /\ cursor - 1 = Len(Registry)
    BY <1>1, <1>3 DEF Goto
  <2>2. TypeOK' BY <1>1, <1>3, <2>1 DEF TypeOK
  <2>3. Positions' BY <1>1, <1>3, <2>1 DEF Positions, Early
  <2>4. ToSet(starts) = Deps BY <1>1, <2>1, KeyFacts
  <2>5. Pending' = Deps BY <1>1, <2>1, PendingNext, ResourceFacts DEF Entering
  <2> QED BY <1>1, <1>3, <2>1, <2>2, <2>3, <2>4, <2>5, Quiet
<1>4. CASE cursor <= Len(Registry)
  <2> DEFINE x == Registry[cursor]
  <2>1. cursor \in 1..Len(Registry) /\ x \in Deps BY <1>1, <1>4, RegistryFacts
  <2>2. Keys(cursor) = ToSet(starts) \cup {x} BY <1>1, <2>1, KeyFacts
  <2> HIDE DEF x
  <2>3. CASE stage' = "deps" /\ UNCHANGED starts /\ cursor' = cursor + 1 /\ x \in ToSet(starts)
    <3>1. TypeOK' BY <1>1, <2>1, <2>3 DEF TypeOK
    <3>2. Positions' BY <1>1, <1>2, <2>1, <2>3 DEF Positions, Early
    <3>3. cursor' - 1 = cursor BY <1>1, <2>3
    <3>4. Pending' = ToSet(starts) BY <2>2, <2>3, <3>3, PendingNext
    <3> QED BY <1>1, <2>3, <3>1, <3>2, <3>4, Quiet
  <2>4. CASE /\ stage' = "deps" /\ starts' = Append(starts, x) /\ cursor' = cursor + 1
             /\ x \notin ToSet(starts)
    <3>1. ASSUME NEW n \in DOMAIN starts PROVE Sooner(starts[n], x)
      <4>1. PICK k \in 1..cursor - 1 : starts[n] = Registry[k] BY <1>1, <1>2 DEF Keys
      <4>2. k \in DOMAIN Registry BY <1>1, <2>1, RegistryFacts
      <4>3. \A m \in 1..k : m \in 1..cursor - 1 BY <1>1
      <4>4. \A m \in 1..k : Registry[m] # x BY <1>1, <2>4, <4>3 DEF Keys
      <4> QED BY <2>1, <4>1, <4>2, <4>4 DEF Sooner
    <3>2. x \in Things BY <2>1 DEF Things
    <3>3. /\ starts' \in Seq(Things) /\ IsInjective(starts') /\ ToSet(starts') = ToSet(starts) \cup {x}
          /\ Len(starts') = Len(starts) + 1 /\ Chain' /\ \A y \in Things : StopsAfter(y)'
      BY <1>1, <2>4, <3>1, <3>2, StartOne
    <3>4. TypeOK' BY <1>1, <2>1, <2>4, <3>3 DEF TypeOK, Things, Deps
    <3>5. Positions' BY <1>1, <1>2, <2>1, <2>4, <3>3 DEF Positions, Early
    <3>6. cursor' - 1 = cursor BY <1>1, <2>4
    <3>7. Pending' = ToSet(starts') BY <2>2, <2>4, <3>3, <3>6, PendingNext
    <3>8. Accounts' BY <1>1, <2>4, <3>3, <3>7, EmptySet DEF Accounts
    <3> QED BY <3>3, <3>4, <3>5, <3>8 DEF UnwindInv
  <2>5. CASE stage' = "rollback" /\ UNCHANGED starts /\ cursor' = Len(starts)
    <3>1. TypeOK' BY <1>1, <1>2, <2>1, <2>5 DEF TypeOK
    <3>2. Positions' BY <1>1, <1>2, <2>1, <2>5 DEF Positions, Early
    <3>3. Pending' = ToSet(starts) BY <1>2, <2>5, PendingNext DEF Begun, ToSet
    <3> QED BY <1>1, <2>5, <3>1, <3>2, <3>3, Quiet
  <2> QED BY <1>1, <1>4, <2>3, <2>4, <2>5 DEF StartDependency, Goto, x
<1> QED BY <1>1, <1>3, <1>4 DEF StartDependency

LEMMA RollbackUnwind == ASSUME UnwindInv, PushTypeOK', Rollback PROVE UnwindInv'
<1>1. /\ stage = "rollback" /\ UNCHANGED <<entered, starts>> /\ entered = 0 /\ TypeOK
      /\ cursor <= Len(starts) /\ Len(starts) <= Len(Registry) /\ Len(Registry) \in Nat
      /\ IsInjective(starts) /\ ToSet(starts) = ToSet(stops) \cup Begun(cursor)
      /\ ToSet(stops) \cap Begun(cursor) = {}
  BY RegistryFacts, PendingAt DEF Rollback, UnwindInv, Positions, Accounts
<1>2. /\ Len(starts) \in Nat /\ DOMAIN starts = 1..Len(starts) /\ cursor \in Nat
      /\ \A n \in DOMAIN starts : starts[n] \in ToSet(starts)
  BY RegistryFacts, ThingsFacts
<1>3. CASE cursor = 0
  <2>1. stage' = "ended" /\ UNCHANGED <<cursor, stops>> BY <1>3 DEF Rollback, Goto
  <2>2. TypeOK' BY <1>1, <2>1 DEF TypeOK
  <2>3. Positions' BY <2>1 DEF Positions, Early
  <2>4. Begun(cursor) = {} BY <1>3 DEF Begun
  <2>5. Pending' = {} BY <2>1, PendingNext
  <2> QED BY <1>1, <2>1, <2>2, <2>3, <2>4, <2>5, Quiet
<1>4. CASE cursor # 0
  <2> DEFINE x == starts[cursor]
  <2>1. stage' = "rollback" /\ stops' = Append(stops, x) /\ cursor' = cursor - 1 BY <1>1, <1>4 DEF Rollback
  <2>2. cursor \in DOMAIN starts /\ cursor \in 1..cursor BY <1>1, <1>2, <1>4
  <2>3. x \in Begun(cursor) /\ x \in ToSet(starts) /\ x \notin ToSet(stops) BY <1>1, <1>2, <2>2 DEF Begun
  <2>4. ASSUME NEW i \in DOMAIN starts, NEW j \in DOMAIN starts, i < j, starts[i] = x
        PROVE  starts[j] \in ToSet(stops)
    <3>1. i = cursor BY <1>1, <2>2, <2>4 DEF IsInjective
    <3>2. j \notin 1..cursor BY <1>2, <2>4, <3>1
    <3>3. \A n \in 1..cursor : n \in DOMAIN starts BY <1>1, <1>2
    <3>4. starts[j] \notin Begun(cursor) BY <1>1, <3>2, <3>3 DEF Begun, IsInjective
    <3> QED BY <1>1, <1>2, <3>4
  <2> HIDE DEF x
  <2>5. /\ stops' \in Seq(Things) /\ IsInjective(stops') /\ ToSet(stops') = ToSet(stops) \cup {x}
        /\ \A y \in Things : StopsAfter(y)'
    BY <1>1, <2>1, <2>3, <2>4, StopOne
  <2>6. Pending' = Begun(cursor) \ {x}
    <3>1. \A n \in 1..cursor : n \in DOMAIN starts /\ (n = cursor \/ n \in 1..cursor - 1) BY <1>1, <1>2
    <3>2. \A n \in 1..cursor - 1 : n \in 1..cursor /\ n # cursor BY <1>2
    <3>3. Pending' = {starts[k] : k \in 1..cursor - 1} BY <1>1, <2>1, PendingNext DEF Begun
    <3>4. \A n \in 1..cursor : starts[n] = x => n = cursor BY <1>1, <2>2, <3>1 DEF IsInjective, x
    <3> QED BY <3>1, <3>2, <3>3, <3>4 DEF Begun, x
  <2>7. TypeOK' BY <1>1, <1>2, <1>4, <2>1, <2>5 DEF TypeOK, Things, Deps
  <2>8. Positions' BY <1>1, <1>2, <1>4, <2>1 DEF Positions, Early
  <2>9. Accounts' BY <1>1, <2>1, <2>3, <2>5, <2>6 DEF Accounts
  <2>10. Chain' BY <1>1 DEF UnwindInv, Chain, Sooner
  <2> QED BY <2>5, <2>7, <2>8, <2>9, <2>10 DEF UnwindInv
<1> QED BY <1>3, <1>4

LEMMA EnterUnwind == ASSUME UnwindInv, PushTypeOK', EnterResource PROVE UnwindInv'
<1>1. /\ stage = "enter" /\ UNCHANGED <<cursor, stops>> /\ stops = <<>> /\ entered \in 0..4 /\ TypeOK
      /\ ToSet(stops) = {} /\ ToSet(starts) = Deps \cup Upto(entered)
      /\ \A n \in DOMAIN starts : starts[n] \in ToSet(starts)
  BY PendingAt, EmptySet, ThingsFacts DEF EnterResource, UnwindInv, Positions, Early, Accounts, Entering
<1>2. CASE stage' \in {"serving", "unwind"} /\ UNCHANGED <<entered, starts>>
  <2>1. TypeOK' BY <1>1, <1>2 DEF TypeOK
  <2>2. Positions' BY <1>1, <1>2 DEF Positions, Early
  <2>3. Pending' = ToSet(starts) BY <1>1, <1>2, PendingNext DEF Entering
  <2> QED BY <1>1, <1>2, <2>1, <2>2, <2>3, Quiet
<1>3. CASE /\ entered < 4 /\ entered' = entered + 1 /\ stage' = "enter"
           /\ starts' = Append(starts, Resources[entered + 1])
  <2>0. PICK n \in 1..4 : n = entered + 1 /\ n - 1 = entered BY <1>1, <1>3
  <2> DEFINE x == Resources[n]
  <2>1. Upto(n) = Upto(entered) \cup {x} /\ x \notin Upto(entered) /\ x \in ToSet(Resources)
    BY <2>0, ResourceFacts
  <2>2. x \in Things /\ x \notin ToSet(starts) BY <1>1, <2>1, RegistryFacts DEF Things
  <2>3. \A k \in 1..entered : k \in 1..4 /\ k < n BY <1>1, <2>0
  <2>4. \A k \in DOMAIN starts : Sooner(starts[k], x)
    <3> SUFFICES ASSUME NEW k \in DOMAIN starts PROVE Sooner(starts[k], x) OBVIOUS
    <3>1. CASE starts[k] \in Deps BY <2>1, <3>1 DEF Sooner
    <3>2. CASE starts[k] \in Upto(entered)
      <4>1. PICK a \in 1..entered : starts[k] = Resources[a] BY <3>2 DEF Upto
      <4> QED BY <2>0, <2>3, <4>1 DEF Sooner
    <3> QED BY <1>1, <3>1, <3>2
  <2>5. starts' = Append(starts, x) BY <1>3, <2>0
  <2> HIDE DEF x
  <2>6. /\ starts' \in Seq(Things) /\ IsInjective(starts') /\ ToSet(starts') = ToSet(starts) \cup {x}
        /\ Chain' /\ \A y \in Things : StopsAfter(y)'
    BY <1>1, <2>2, <2>4, <2>5, StartOne
  <2>7. TypeOK' BY <1>1, <1>3, <2>6, ResourceFacts DEF TypeOK, Things, Deps
  <2>8. Positions' BY <1>1, <1>3 DEF Positions, Early
  <2>9. entered' = n /\ Pending' = Deps \cup Upto(n) BY <1>3, <2>0, PendingNext DEF Entering
  <2>10. Accounts' BY <1>1, <1>3, <2>1, <2>6, <2>9, EmptySet DEF Accounts
  <2> QED BY <2>6, <2>7, <2>8, <2>10 DEF UnwindInv
<1>4. Len(Resources) = 4 BY ResourceFacts
<1> QED BY <1>1, <1>2, <1>3, <1>4 DEF EnterResource, Goto

\* From serving to the exits.
LEMMA ServingUnwind ==
  ASSUME UnwindInv, PushTypeOK', LeaveServing \/ CancelBackground \/ ShutDownDelivery \/ CloseRegistry
  PROVE  UnwindInv'
<1>1. /\ UNCHANGED <<entered, cursor, starts, stops>>
      /\ stage \in {"serving", "background", "delivery", "registry"}
      /\ stage' \in {"background", "delivery", "registry", "unwind"}
  BY DEF LeaveServing, CancelBackground, ShutDownDelivery, CloseRegistry, Goto
<1>2. /\ stops = <<>> /\ TypeOK /\ ToSet(stops) = {} /\ ToSet(starts) = Deps \cup Upto(entered)
  BY <1>1, PendingAt, EmptySet DEF UnwindInv, Positions, Early, Accounts, Entering
<1>3. TypeOK' BY <1>1, <1>2 DEF TypeOK
<1>4. Positions' BY <1>1, <1>2 DEF Positions, Early
<1>5. Pending' = ToSet(starts) BY <1>1, <1>2, PendingNext DEF Entering
<1> QED BY <1>1, <1>2, <1>3, <1>4, <1>5, Quiet

LEMMA ExitUnwind == ASSUME UnwindInv, PushTypeOK', ExitResource PROVE UnwindInv'
<1>1. /\ stage = "unwind" /\ UNCHANGED starts /\ entered \in 0..4 /\ TypeOK /\ Len(Registry) \in Nat
      /\ ToSet(starts) = ToSet(stops) \cup (Deps \cup Upto(entered))
      /\ ToSet(stops) \cap (Deps \cup Upto(entered)) = {}
  BY RegistryFacts, PendingAt, ThingsFacts DEF ExitResource, UnwindInv, Accounts, Entering
<1>2. CASE entered = 0
  <2>1. stage' = "deps_down" /\ cursor' = Len(Registry) /\ UNCHANGED <<entered, stops>>
    BY <1>2 DEF ExitResource, Goto
  <2>2. TypeOK' BY <1>1, <2>1 DEF TypeOK
  <2>3. Positions' BY <1>1, <2>1 DEF Positions, Early
  <2>4. Pending' = Deps BY <2>1, PendingNext, KeyFacts
  <2>5. Upto(entered) = {} BY <1>2, ResourceFacts
  <2> QED BY <1>1, <2>1, <2>2, <2>3, <2>4, <2>5, Quiet
<1>3. CASE entered # 0
  <2> DEFINE x == Resources[entered]
  <2>1. stage' = "unwind" /\ entered' = entered - 1 /\ stops' = Append(stops, x) /\ UNCHANGED cursor
    BY <1>1, <1>3 DEF ExitResource
  <2>2. entered \in 1..4 BY <1>1, <1>3
  <2>3. /\ Upto(entered) = Upto(entered - 1) \cup {x} /\ x \notin Upto(entered - 1)
        /\ x \in ToSet(Resources)
    BY <2>2, ResourceFacts
  <2>4. x \in ToSet(starts) /\ x \notin ToSet(stops) /\ x \notin Deps BY <1>1, <2>3, RegistryFacts
  <2>5. ASSUME NEW i \in DOMAIN starts, NEW j \in DOMAIN starts, i < j, starts[i] = x
        PROVE  starts[j] \in ToSet(stops)
    <3>1. Sooner(x, starts[j]) BY <2>5 DEF UnwindInv, Chain
    <3>2. \A n \in DOMAIN Registry : Registry[n] # x BY <2>4, RegistryFacts
    <3>3. PICK a, b \in 1..4 : a < b /\ x = Resources[a] /\ starts[j] = Resources[b]
      BY <2>4, <3>1, <3>2 DEF Sooner
    <3>4. a = entered BY <2>2, <3>3, ResourceFacts
    <3>5. \A k \in 1..entered : k \in 1..4 /\ k # b BY <2>2, <3>3, <3>4
    <3>6. starts[j] \notin Upto(entered) BY <3>3, <3>5, ResourceFacts DEF Upto
    <3>7. starts[j] \notin Deps BY <3>3, ResourceFacts, RegistryFacts
    <3>8. starts[j] \in ToSet(starts) BY ThingsFacts
    <3> QED BY <1>1, <3>6, <3>7, <3>8
  <2> HIDE DEF x
  <2>6. /\ stops' \in Seq(Things) /\ IsInjective(stops') /\ ToSet(stops') = ToSet(stops) \cup {x}
        /\ \A y \in Things : StopsAfter(y)'
    BY <1>1, <2>1, <2>4, <2>5, StopOne
  <2>7. TypeOK' BY <1>1, <2>1, <2>2, <2>6, ResourceFacts DEF TypeOK, Things, Deps
  <2>8. Positions' BY <2>1 DEF Positions, Early
  <2>9. Pending' = Deps \cup Upto(entered - 1) BY <2>1, PendingNext DEF Entering
  <2>10. Accounts' BY <1>1, <2>1, <2>3, <2>4, <2>6, <2>9 DEF UnwindInv, Accounts
  <2>11. Chain' BY <1>1 DEF UnwindInv, Chain, Sooner
  <2> QED BY <2>6, <2>7, <2>8, <2>10, <2>11 DEF UnwindInv
<1> QED BY <1>2, <1>3

LEMMA StopDependencyUnwind == ASSUME UnwindInv, PushTypeOK', StopDependency PROVE UnwindInv'
<1>1. /\ stage = "deps_down" /\ UNCHANGED <<entered, starts>> /\ TypeOK /\ Len(Registry) \in Nat
      /\ cursor \in 0..Len(Registry) /\ ToSet(starts) = ToSet(stops) \cup Keys(cursor)
  BY RegistryFacts, PendingAt DEF StopDependency, UnwindInv, Accounts, Positions
<1>2. CASE cursor = 0
  <2>1. stage' = "ended" /\ UNCHANGED <<cursor, stops>> BY <1>2 DEF StopDependency, Goto
  <2>2. TypeOK' BY <1>1, <2>1 DEF TypeOK
  <2>3. Positions' BY <2>1 DEF Positions, Early
  <2>4. Keys(cursor) = {} BY <1>2, KeyFacts
  <2>5. Pending' = {} BY <2>1, PendingNext
  <2> QED BY <1>1, <2>1, <2>2, <2>3, <2>4, <2>5, Quiet
<1>3. CASE cursor # 0
  <2> DEFINE x == Registry[cursor]
  <2>1. /\ stage' = "deps_down" /\ cursor' = cursor - 1
        /\ stops' = IF x \in ToSet(stops) THEN stops ELSE Append(stops, x)
    BY <1>1, <1>3 DEF StopDependency, NextToStop
  <2>2. cursor \in 1..Len(Registry) /\ x \in Deps BY <1>1, <1>3, RegistryFacts
  <2>3. Keys(cursor) = Keys(cursor - 1) \cup {x} /\ x \in ToSet(starts) BY <1>1, <2>2, KeyFacts
  <2>4. Pending' = Keys(cursor - 1) BY <2>1, PendingNext
  <2>5. Positions' BY <1>1, <2>1, <2>2 DEF Positions, Early
  <2>6. cursor' \in 0..Len(Registry) + 1 BY <1>1, <2>1, <2>2
  <2>7. CASE x \in ToSet(stops)
    <3>1. UNCHANGED stops BY <2>1, <2>7
    <3>2. TypeOK' BY <1>1, <2>1, <2>6, <3>1 DEF TypeOK
    <3> QED BY <1>1, <2>1, <2>3, <2>4, <2>5, <2>7, <3>1, <3>2, Quiet
  <2>8. CASE x \notin ToSet(stops)
    <3>1. ASSUME NEW i \in DOMAIN starts, NEW j \in DOMAIN starts, i < j, starts[i] = x, x \notin Aliased
          PROVE  starts[j] \in ToSet(stops)
      <4>1. Sooner(x, starts[j]) BY <3>1 DEF UnwindInv, Chain
      <4>2. starts[j] \in ToSet(starts) BY ThingsFacts
      <4>3. x \notin ToSet(Resources) /\ \A a \in 1..4 : x # Resources[a]
        BY <2>2, RegistryFacts, ResourceFacts
      <4>4. CASE starts[j] \in ToSet(Resources)
        <5>1. starts[j] \notin Keys(cursor) BY <1>1, <4>4, KeyFacts, RegistryFacts
        <5> QED BY <1>1, <4>2, <5>1
      <4>5. CASE starts[j] \notin ToSet(Resources)
        <5>1. PICK n \in DOMAIN Registry : Registry[n] = x /\ \A m \in 1..n : Registry[m] # starts[j]
          BY <4>1, <4>3, <4>5 DEF Sooner
        <5>2. n = cursor
          <6>1. cursor \in DOMAIN Registry /\ x \in ToSet(Registry) BY <2>2, RegistryFacts DEF Deps
          <6> QED BY <3>1, <5>1, <6>1 DEF Aliased
        <5>3. starts[j] \notin Keys(cursor) BY <5>1, <5>2 DEF Keys
        <5> QED BY <1>1, <4>2, <5>3
      <4> QED BY <4>4, <4>5
    <3>2. stops' = Append(stops, x) BY <2>1, <2>8
    <3> HIDE DEF x
    <3>3. /\ stops' \in Seq(Things) /\ IsInjective(stops') /\ ToSet(stops') = ToSet(stops) \cup {x}
          /\ \A y \in Things : StopsAfter(y)'
      BY <1>1, <2>3, <2>8, <3>1, <3>2, StopOne
    <3>4. TypeOK' BY <1>1, <2>1, <2>6, <3>3 DEF TypeOK, Things, Deps
    <3>5. Accounts' BY <1>1, <2>1, <2>3, <2>4, <3>3 DEF UnwindInv, Accounts
    <3>6. Chain' BY <1>1 DEF UnwindInv, Chain, Sooner
    <3> QED BY <2>5, <3>3, <3>4, <3>5, <3>6 DEF UnwindInv
  <2> QED BY <2>7, <2>8
<1> QED BY <1>2, <1>3

LEMMA UnwindUnchanged ==
  ASSUME UnwindInv, PushTypeOK', UNCHANGED <<stage, entered, cursor, starts, stops>> PROVE UnwindInv'
BY DEF UnwindInv, TypeOK, Positions, Accounts, Pending, Keys, Begun, Upto, Deps, Chain, Sooner, StopsAfter,
       Stopped

LEMMA UnwindInit == ASSUME Init, PushTypeOK PROVE UnwindInv
<1>1. stage = "new" /\ entered = 0 /\ cursor = 0 /\ starts = <<>> /\ stops = <<>> BY DEF Init
<1>2. TypeOK BY <1>1, RegistryFacts, ResourceFacts DEF TypeOK
<1>3. Positions BY <1>1 DEF Positions
<1>4. Accounts BY <1>1, PendingAt, EmptySet DEF Accounts
<1>5. Chain /\ \A x \in Things : StopsAfter(x) BY <1>1, EmptySet DEF Chain, StopsAfter
<1> QED BY <1>2, <1>3, <1>4, <1>5 DEF UnwindInv

LEMMA UnwindStep == ASSUME UnwindInv, PushTypeOK', [Next]_vars PROVE UnwindInv'
<1>1. CASE UNCHANGED <<stage, entered, cursor, starts, stops>> BY <1>1, UnwindUnchanged
<1>2. CASE LifespanStep \/ LeaveServing
  BY <1>2, StartDeliveryUnwind, StartDependencyUnwind, RollbackUnwind, EnterUnwind, ServingUnwind,
     ExitUnwind, StopDependencyUnwind DEF LifespanStep
<1> QED BY <1>1, <1>2 DEF Next, vars, Deliveries, Emits

\* What is started, stopped and pending always adds up (lifespan(),
\* DependencyContainer.startup and shutdown), wherever a start or a stop fails.
THEOREM LifespanInvariant == Spec => [](PushInv /\ UnwindInv)
<1>1. Init => PushInv /\ UnwindInv BY PushInvInit, UnwindInit DEF Init, PushInv
<1>2. PushInv /\ UnwindInv /\ [Next]_vars => PushInv' /\ UnwindInv'
  <2> SUFFICES ASSUME PushInv, UnwindInv, [Next]_vars PROVE PushInv' /\ UnwindInv' OBVIOUS
  <2>1. PushInv' BY PushStep
  <2>2. PushTypeOK' BY <2>1 DEF PushInv
  <2> QED BY <2>1, <2>2, UnwindStep
<1> QED BY <1>1, <1>2, PTL DEF Spec

\* Every variable of the lifespan and the delivery keeps its type: no queue
\* grows beyond max_queue_size, no worker tries more often than max_retries.
THEOREM LifespanTypeCorrect == Spec => []TypeOK
<1>1. UnwindInv => TypeOK BY DEF UnwindInv
<1> QED BY <1>1, LifespanInvariant, PTL

\* Whatever lifespan() started is stopped after what was started after it, and
\* all of it by the end, once: for every registry, and for a start that fails
\* at any dependency or resource.
THEOREM LifespanUnwinds == Spec => []UnwindsInReverse
<1>1. ASSUME UnwindInv PROVE UnwindsInReverse
  <2>1. \A x \in Things : StopsAfter(x) BY <1>1 DEF UnwindInv
  <2>2. \A n \in DOMAIN starts : starts[n] \in Things BY <1>1, ThingsFacts
  <2>3. ASSUME NEW i \in DOMAIN starts, NEW j \in DOMAIN starts,
               i < j, Stopped(starts[i]), starts[i] \notin Aliased
        PROVE  \E q \in DOMAIN stops : /\ stops[q] = starts[j]
                                       /\ \A p \in DOMAIN stops : stops[p] = starts[i] => q < p
    BY <2>1, <2>2, <2>3 DEF StopsAfter
  <2>4. ASSUME stage = "ended" PROVE ToSet(stops) = ToSet(starts) /\ Len(stops) = Len(starts)
    <3>1. ToSet(stops) = ToSet(starts) /\ IsInjective(starts) /\ IsInjective(stops)
      BY <1>1, <2>4, PendingAt DEF UnwindInv, Accounts
    <3>2. starts \in Seq(Things) /\ stops \in Seq(Things) BY <1>1, ThingsFacts
    <3>3. Cardinality(ToSet(starts)) = Len(starts) /\ Cardinality(ToSet(stops)) = Len(stops)
      BY <3>1, <3>2, InjectiveLen
    <3> QED BY <3>1, <3>3
  <2> QED BY <2>3, <2>4 DEF UnwindsInReverse
<1> QED BY <1>1, LifespanInvariant, PTL
=============================================================================
