-------------------------- MODULE RedisBrokerProofs --------------------------
(***************************************************************************)
(* Proofs about RedisBroker, for any number of processes, handles,         *)
(* operations, faults, trims and retries, and for every configuration of   *)
(* the adapter and the broker.                                             *)
(***************************************************************************)
EXTENDS RedisBroker, SequenceTheorems, TLAPS

\* Some loop or handle has the entry in its hands.
Held(i) == \/ \E c \in Consumers : loop[c].id = i
           \/ \E h \in Handles : hnd[h].id = i

Used(i) == i \in Queued \/ pel[i] # Nil \/ Held(i)

\* A loop has an entry in hand unless it polls or its process is down.
LoopShape ==
  \A c \in Consumers :
    loop[c].id = Nil <=> loop[c].pc \in {"poll", "stopping", "down"}

\* A handle in use belongs to a process and carries the operation of its entry:
\* no id is drawn again while somebody holds it.
HandleShape ==
  \A h \in Handles :
    \/ hnd[h] = NoHandle
    \/ /\ hnd[h].pc # "free" /\ hnd[h].owner \in Consumers
       /\ hnd[h].id \in Ids /\ hnd[h].op = entry[hnd[h].id].op

UsedWasSent == \A i \in Ids : Used(i) => entry[i].op \in sent

\* What is in the dead-letter stream was sent, and what a burial has put there.
BurialShape ==
  /\ dlq \subseteq sent
  /\ \A c \in Consumers :
       loop[c].pc = "malformed_ack" => entry[loop[c].id].op \in dlq

\* Why a handle may acknowledge: the run returned, the failure was marked or
\* could not be, or the limits differ and the operation is a dead letter.
Justified ==
  \A h \in Handles :
    /\ hnd[h].pc = "nack" => hnd[h].attempt < setup.adapterMax
    /\ hnd[h].pc = "finished" => hnd[h].op \in done
    /\ hnd[h].pc = "ack" => hnd[h].op \in done \cup failed \/ lost[hnd[h].op] # {}
    /\ hnd[h].pc = "bury_ack" => setup.adapterMax > MaxRetries /\ hnd[h].op \in dlq

\* An operation is settled, known to be lost, a dead letter under limits that
\* differ, or some entry in use stands for it.
Known(p) ==
  \/ Settled(p) \/ lost[p] # {}
  \/ setup.adapterMax > MaxRetries /\ p \in dlq
  \/ \E i \in Ids : Used(i) /\ entry[i].op = p

Shapes == LoopShape /\ HandleShape /\ UsedWasSent /\ BurialShape /\ Justified

LossInv == TypeOK /\ Shapes /\ \A p \in sent : Known(p)

-----------------------------------------------------------------------------
\* Somebody may yet deliver or run the operation of the entry.
Active(i) ==
  \/ i \in Queued \/ pel[i] # Nil
  \/ \E c \in Consumers : loop[c].id = i
  \/ \E h \in Handles : hnd[h].id = i /\ Working(h)

\* The delivery that the entry stands for: its attempt and the crashes since.
Effective(i) == entry[i].attempt + crashes[i]

Once(s, x) == \A m, n \in DOMAIN s : s[m] = x /\ s[n] = x => m = n

\* The entry of an operation that was never claimed from a living process is in
\* one place.
Exclusive(i) ==
  /\ i \in Queued => pel[i] = Nil /\ ~Held(i)
  /\ Once(queue, i)
  /\ \A c, d \in Consumers : loop[c].id = i /\ loop[d].id = i => c = d
  /\ \A g, h \in Handles : hnd[g].id = i /\ hnd[h].id = i => g = h
  /\ \A c \in Consumers, h \in Handles : ~(loop[c].id = i /\ hnd[h].id = i)
  /\ \A h \in Handles : hnd[h].id = i /\ hnd[h].pc = "nack_add" => pel[i] = Nil

\* The delivery has not reached user code.
Fresh(i) ==
  \/ i \in Queued \/ i \notin due
  \/ \E c \in Consumers : loop[c].id = i /\ loop[c].pc \in {"requeue", "yield", "bury", "bury_ack"}
  \/ \E h \in Handles : hnd[h].id = i /\ hnd[h].pc = "ready"

\* Every start of user code is paid for by an attempt or a counted crash.
Paid(i) ==
  LET p == entry[i].op IN
  /\ Active(i) => runs[p] <= Effective(i)
  /\ Active(i) /\ Fresh(i) => runs[p] < Effective(i)
  /\ i \in Queued => crashes[i] = 0
  /\ \A c \in Consumers :
       loop[c].id = i /\ loop[c].pc \in {"yield", "bury", "bury_ack"} =>
         loop[c].attempt = Effective(i)
  /\ \A c \in Consumers : loop[c].id = i /\ loop[c].pc = "requeue" => crashes[i] = 0
  /\ \A h \in Handles : hnd[h].id = i /\ Working(h) => hnd[h].attempt = Effective(i)

\* What is delivered was due, and only what is due is counted.
DueShape ==
  /\ \A i \in Ids : i \notin due => crashes[i] = 0
  /\ \A c \in Consumers :
       loop[c].pc \in {"count", "yield", "bury", "bury_ack"} => loop[c].id \in due
  /\ \A h \in Handles : hnd[h].pc # "free" => hnd[h].id \in due

\* Operations that were not claimed from a living process.
Undisturbed(p) ==
  /\ \A i, j \in Ids :
       Active(i) /\ Active(j) /\ entry[i].op = p /\ entry[j].op = p => i = j
  /\ \A i \in Ids : entry[i].op = p => Exclusive(i) /\ Paid(i)
  /\ runs[p] <= setup.adapterMax

RunInv ==
  /\ DueShape
  /\ \A p \in Ops \ sent : runs[p] = 0
  /\ \A p \in Ops : slow[p] = 0 => Undisturbed(p)

-----------------------------------------------------------------------------
(* The queue                                                               *)

Elems(s) == {s[n] : n \in DOMAIN s}

LEMMA AppendElems ==
  ASSUME NEW s \in Seq(Ids), NEW i \in Ids
  PROVE  /\ Append(s, i) \in Seq(Ids) /\ Elems(Append(s, i)) = Elems(s) \cup {i}
         /\ i \notin Elems(s) => Once(Append(s, i), i)
         /\ \A x \in Ids \ {i} : Once(s, x) => Once(Append(s, i), x)
<1>1. /\ Append(s, i) \in Seq(Ids) /\ Len(s) \in Nat /\ DOMAIN s = 1 .. Len(s)
      /\ DOMAIN Append(s, i) = 1 .. Len(s) + 1 /\ Append(s, i)[Len(s) + 1] = i
      /\ \A n \in 1 .. Len(s) : Append(s, i)[n] = s[n]
  OBVIOUS
<1>2. 1 .. Len(s) + 1 = (1 .. Len(s)) \cup {Len(s) + 1} BY <1>1
<1>3. Elems(Append(s, i)) = Elems(s) \cup {i} BY <1>1, <1>2 DEF Elems
<1>4. i \notin Elems(s) => Once(Append(s, i), i) BY <1>1, <1>2 DEF Elems, Once
<1>5. \A x \in Ids \ {i} : Once(s, x) => Once(Append(s, i), x) BY <1>1, <1>2 DEF Once
<1> QED BY <1>1, <1>3, <1>4, <1>5

LEMMA PartOfQueue ==
  ASSUME NEW s \in Seq(Ids), NEW m \in Nat \ {0}, NEW n \in 0 .. Len(s), m <= n + 1
  PROVE  /\ SubSeq(s, m, n) \in Seq(Ids) /\ Len(SubSeq(s, m, n)) = n - m + 1
         /\ \A x \in 1 .. n - m + 1 : SubSeq(s, m, n)[x] = s[m + x - 1]
<1>1. m \in Nat /\ n \in Nat /\ m >= 1 /\ n <= Len(s) OBVIOUS
<1>2. SubSeq(s, m, n) \in Seq(Ids) BY <1>1
<1>3. Len(SubSeq(s, m, n)) = IF m <= n THEN n - m + 1 ELSE 0 BY <1>1
<1>4. \A x \in 1 .. n - m + 1 : SubSeq(s, m, n)[x] = s[m + x - 1] BY <1>1
<1> QED BY <1>1, <1>2, <1>3, <1>4

\* Taking the entry at position k out of the queue; its head is position 1.
LEMMA RemoveElems ==
  ASSUME NEW s \in Seq(Ids), NEW k \in DOMAIN s
  PROVE  /\ RemoveAt(s, k) \in Seq(Ids)
         /\ Elems(RemoveAt(s, k)) \subseteq Elems(s)
         /\ Elems(s) \subseteq Elems(RemoveAt(s, k)) \cup {s[k]}
         /\ Once(s, s[k]) => s[k] \notin Elems(RemoveAt(s, k))
         /\ \A x \in Ids : Once(s, x) => Once(RemoveAt(s, k), x)
<1> DEFINE r == RemoveAt(s, k)
           f(n) == IF n < k THEN n ELSE n + 1
           a == k - 1
           b == k + 1
           u == SubSeq(s, 1, a)
           v == SubSeq(s, b, Len(s))
<1>1. Len(s) \in Nat /\ DOMAIN s = 1 .. Len(s) /\ k \in 1 .. Len(s) OBVIOUS
<1>a. /\ a \in 0 .. Len(s) /\ 1 \in Nat \ {0} /\ 1 <= a + 1 /\ a = k - 1
      /\ b \in Nat \ {0} /\ Len(s) \in 0 .. Len(s) /\ b <= Len(s) + 1 /\ b = k + 1
  BY <1>1
<1>r. r = u \o v BY DEF RemoveAt
<1> HIDE DEF a, b, r
<1>2. u \in Seq(Ids) /\ Len(u) = a /\ \A n \in 1 .. a : u[n] = s[n]
  <2>1. /\ u \in Seq(Ids) /\ Len(u) = a - 1 + 1
        /\ \A n \in 1 .. a - 1 + 1 : u[n] = s[1 + n - 1]
    BY <1>a, PartOfQueue
  <2> HIDE DEF u
  <2> QED BY <1>a, <2>1
<1>t. v \in Seq(Ids) /\ Len(v) = Len(s) - k /\ \A n \in 1 .. Len(s) - k : v[n] = s[k + n]
  <2>1. /\ v \in Seq(Ids) /\ Len(v) = Len(s) - b + 1
        /\ \A n \in 1 .. Len(s) - b + 1 : v[n] = s[b + n - 1]
    BY <1>a, PartOfQueue
  <2> HIDE DEF v
  <2>2. Len(s) - b + 1 = Len(s) - k /\ \A n \in 1 .. Len(s) - k : b + n - 1 = k + n BY <1>1, <1>a
  <2> QED BY <2>1, <2>2
<1> HIDE DEF u, v
<1>c. /\ r \in Seq(Ids) /\ Len(r) = Len(u) + Len(v)
      /\ \A n \in 1 .. Len(u) + Len(v) : r[n] = IF n <= Len(u) THEN u[n] ELSE v[n - Len(u)]
  BY <1>r, <1>2, <1>t, ConcatProperties
<1>d. Len(u) + Len(v) = Len(s) - 1 BY <1>1, <1>a, <1>2, <1>t
<1>3. r \in Seq(Ids) /\ Len(r) = Len(s) - 1 /\ DOMAIN r = 1 .. Len(s) - 1
  BY <1>c, <1>d
<1>4. ASSUME NEW n \in 1 .. Len(s) - 1 PROVE r[n] = s[f(n)] /\ f(n) \in 1 .. Len(s)
  <2>0. r[n] = IF n <= a THEN u[n] ELSE v[n - a]
    BY <1>c, <1>d, <1>2
  <2>1. CASE n < k BY <1>1, <1>a, <1>2, <2>0, <2>1
  <2>2. CASE ~(n < k)
    <3>1. n - a \in 1 .. Len(s) - k /\ k + (n - a) = n + 1 BY <1>1, <1>a, <2>2
    <3>2. r[n] = v[n - a] BY <1>1, <1>a, <2>0, <2>2
    <3>3. v[n - a] = s[k + (n - a)] BY <1>t, <3>1
    <3> QED BY <1>1, <2>2, <3>1, <3>2, <3>3
  <2> QED BY <2>1, <2>2
<1>5. \A m \in 1 .. Len(s) : m # k => \E n \in 1 .. Len(s) - 1 : m = f(n)
  <2> SUFFICES ASSUME NEW m \in 1 .. Len(s), m # k PROVE \E n \in 1 .. Len(s) - 1 : m = f(n)
    OBVIOUS
  <2>1. CASE m < k
    <3>1. m \in 1 .. Len(s) - 1 /\ m = f(m) BY <1>1, <2>1
    <3> QED BY <3>1
  <2>2. CASE m > k
    <3>1. m - 1 \in 1 .. Len(s) - 1 /\ m = f(m - 1) BY <1>1, <2>2
    <3> QED BY <3>1
  <2> QED BY <1>1, <2>1, <2>2
<1>6. \A n \in 1 .. Len(s) - 1 : f(n) # k BY <1>1
<1>7. \A m, n \in 1 .. Len(s) - 1 : f(m) = f(n) => m = n BY <1>1
<1> HIDE DEF f, r
<1>8. Elems(r) \subseteq Elems(s) BY <1>1, <1>3, <1>4 DEF Elems
<1>e. Elems(s) \subseteq Elems(r) \cup {s[k]}
  <2> SUFFICES ASSUME NEW m \in 1 .. Len(s), m # k PROVE s[m] \in Elems(r)
    BY <1>1 DEF Elems
  <2>1. PICK n \in 1 .. Len(s) - 1 : m = f(n) BY <1>5
  <2>2. r[n] = s[m] BY <1>4, <2>1
  <2> QED BY <1>3, <2>2 DEF Elems
<1>9. Once(s, s[k]) => s[k] \notin Elems(r)
  BY <1>1, <1>3, <1>4, <1>6 DEF Elems, Once
<1>10. \A x \in Ids : Once(s, x) => Once(r, x)
  BY <1>1, <1>3, <1>4, <1>7 DEF Once
<1> QED BY <1>3, <1>8, <1>e, <1>9, <1>10 DEF r

LEMMA TailElems ==
  ASSUME NEW s \in Seq(Ids), s # <<>>
  PROVE  1 \in DOMAIN s /\ Head(s) = s[1] /\ Head(s) \in Ids /\ Tail(s) = RemoveAt(s, 1)
<1>1. Len(s) \in Nat /\ Len(s) >= 1 /\ DOMAIN s = 1 .. Len(s) OBVIOUS
<1>2. SubSeq(s, 1, 0) = <<>> BY SubSeqEmpty
<1>3. Tail(s) = SubSeq(s, 2, Len(s)) BY TailIsSubSeq
<1>4. Tail(s) \in Seq(Ids) /\ <<>> \o Tail(s) = Tail(s) BY ConcatEmptySeq, HeadTailProperties
<1>5. 1 - 1 = 0 /\ 1 + 1 = 2 OBVIOUS
<1>6. RemoveAt(s, 1) = SubSeq(s, 1, 0) \o SubSeq(s, 2, Len(s)) BY <1>5 DEF RemoveAt
<1> QED BY <1>1, <1>2, <1>3, <1>4, <1>6

-----------------------------------------------------------------------------
(* Types                                                                   *)

LEMMA LoopTypes ==
  ASSUME TypeOK, NEW c \in Consumers
  PROVE  loop[c].pc \in LoopLabels /\ loop[c].id \in Ids \cup {Nil} /\ loop[c].attempt \in Nat
BY DEF TypeOK, LoopType

LEMMA HandleTypes ==
  ASSUME TypeOK, NEW h \in Handles
  PROVE  /\ hnd[h].pc \in HandleLabels /\ hnd[h].owner \in Consumers \cup {Nil}
         /\ hnd[h].id \in Ids \cup {Nil} /\ hnd[h].op \in Ops \cup {Nil} /\ hnd[h].attempt \in Nat
BY DEF TypeOK, HandleType

LEMMA EntryTypes ==
  ASSUME TypeOK, NEW i \in Ids
  PROVE  entry[i].op \in Ops \cup {Nil} /\ entry[i].attempt \in Nat
BY DEF TypeOK, EntryType

(* What the helpers of the actions do.                                     *)

LEMMA LoopEffect ==
  ASSUME TypeOK, NEW c \in Consumers, NEW l \in LoopLabels, NEW i \in Ids \cup {Nil}, NEW n \in Nat,
         Loop(c, l, i, n)
  PROVE  /\ loop' \in [Consumers -> LoopType]
         /\ loop'[c].pc = l /\ loop'[c].id = i /\ loop'[c].attempt = n
         /\ \A d \in Consumers \ {c} : loop'[d] = loop[d]
BY DEF TypeOK, Loop, LoopType

LEMMA StepEffect ==
  ASSUME TypeOK, NEW h \in Handles, NEW l \in HandleLabels, Step(h, l)
  PROVE  /\ hnd' \in [Handles -> HandleType]
         /\ hnd'[h].pc = l /\ hnd'[h].owner = hnd[h].owner /\ hnd'[h].id = hnd[h].id
         /\ hnd'[h].op = hnd[h].op /\ hnd'[h].attempt = hnd[h].attempt
         /\ \A g \in Handles \ {h} : hnd'[g] = hnd[g]
BY DEF TypeOK, Step, HandleType

LEMMA ReleaseEffect ==
  ASSUME TypeOK, NEW h \in Handles, Release(h)
  PROVE  /\ hnd' \in [Handles -> HandleType] /\ hnd'[h] = NoHandle
         /\ \A g \in Handles \ {h} : hnd'[g] = hnd[g]
BY DEF TypeOK, Release, HandleType, NoHandle, HandleLabels

LEMMA AddEffect ==
  ASSUME TypeOK, NEW i \in Ids, NEW p \in Ops, NEW n \in Nat,
         entry' = [entry EXCEPT ![i] = [op |-> p, attempt |-> n]], queue' = Append(queue, i),
         crashes' = [crashes EXCEPT ![i] = 0], due' = due \cup {i} \/ due' = due \ {i}
  PROVE  /\ entry' \in [Ids -> EntryType] /\ entry'[i].op = p /\ entry'[i].attempt = n
         /\ \A j \in Ids \ {i} : entry'[j] = entry[j] /\ crashes'[j] = crashes[j]
         /\ queue' \in Seq(Ids) /\ Queued' = Queued \cup {i}
         /\ i \notin Queued => Once(queue', i)
         /\ \A j \in Ids \ {i} : Once(queue, j) => Once(queue', j)
         /\ due' \subseteq Ids /\ due' \ {i} = due \ {i}
         /\ crashes' \in [Ids -> Nat] /\ crashes'[i] = 0
<1>1. queue \in Seq(Ids) BY DEF TypeOK
<1>2. /\ queue' \in Seq(Ids) /\ Elems(queue') = Elems(queue) \cup {i}
      /\ i \notin Elems(queue) => Once(queue', i)
      /\ \A j \in Ids \ {i} : Once(queue, j) => Once(queue', j)
  BY <1>1, AppendElems
<1>3. Queued = Elems(queue) /\ Queued' = Elems(queue') BY DEF Queued, Elems
<1>4. /\ entry' \in [Ids -> EntryType] /\ entry'[i].op = p /\ entry'[i].attempt = n
      /\ \A j \in Ids \ {i} : entry'[j] = entry[j] /\ crashes'[j] = crashes[j]
      /\ crashes' \in [Ids -> Nat] /\ crashes'[i] = 0
  BY DEF TypeOK, EntryType
<1>5. due' \subseteq Ids /\ due' \ {i} = due \ {i} BY DEF TypeOK
<1> QED BY <1>2, <1>3, <1>4, <1>5

LEMMA AckEffect ==
  ASSUME TypeOK, NEW i \in Ids, Acknowledge(i)
  PROVE  /\ pel' \in [Ids -> Consumers \cup {Nil}] /\ pel'[i] = Nil
         /\ \A j \in Ids \ {i} : pel'[j] = pel[j]
         /\ trimmed' \subseteq Ids
BY DEF TypeOK, Acknowledge

LEMMA LoseEffect ==
  ASSUME TypeOK, NEW ops, NEW how \in Losses, Lose(ops, how)
  PROVE  /\ lost' \in [Ops -> SUBSET Losses]
         /\ \A p \in Ops : lost[p] \subseteq lost'[p]
         /\ \A p \in Ops : p \in ops => lost'[p] # {}
BY DEF TypeOK, Lose

\* An entry that leaves the queue at position k.
LEMMA RemoveEffect ==
  ASSUME TypeOK, NEW k \in DOMAIN queue, queue' = RemoveAt(queue, k)
  PROVE  /\ queue' \in Seq(Ids) /\ queue[k] \in Ids /\ queue[k] \in Queued
         /\ Queued' \subseteq Queued /\ Queued \subseteq Queued' \cup {queue[k]}
         /\ Once(queue, queue[k]) => queue[k] \notin Queued'
         /\ \A j \in Ids : Once(queue, j) => Once(queue', j)
<1>1. queue \in Seq(Ids) BY DEF TypeOK
<1>2. Queued = Elems(queue) /\ Queued' = Elems(queue') BY DEF Queued, Elems
<1>3. queue[k] \in Ids /\ queue[k] \in Elems(queue) BY <1>1 DEF Elems
<1> QED BY <1>1, <1>2, <1>3, RemoveElems

-----------------------------------------------------------------------------
(* No silent loss                                                          *)

\* A step that only adds to the history and leaves every entry in use, or
\* accounts for its operation, forgets nothing.
LEMMA KnownStep ==
  ASSUME LossInv, sent' = sent, setup' = setup, done \subseteq done', failed \subseteq failed',
         dlq \subseteq dlq', \A p \in Ops : lost[p] \subseteq lost'[p],
         \A i \in Ids : Used(i) => \/ Used(i)' /\ entry'[i].op = entry[i].op
                                  \/ \A p \in Ops : p = entry[i].op => Known(p)'
  PROVE  \A p \in sent' : Known(p)'
<1> SUFFICES ASSUME NEW p \in sent PROVE Known(p)' OBVIOUS
<1>1. Known(p) /\ p \in Ops BY DEF LossInv, TypeOK
<1>2. CASE Settled(p) \/ lost[p] # {} \/ (setup.adapterMax > MaxRetries /\ p \in dlq)
  BY <1>1, <1>2 DEF Known, Settled
<1>3. CASE \E i \in Ids : Used(i) /\ entry[i].op = p
  <2>1. PICK i \in Ids : Used(i) /\ entry[i].op = p BY <1>3
  <2>2. CASE Used(i)' /\ entry'[i].op = entry[i].op
    <3>1. entry'[i].op = p BY <2>1, <2>2
    <3> QED BY <2>2, <3>1 DEF Known
  <2>3. CASE \A q \in Ops : q = entry[i].op => Known(q)' BY <1>1, <2>1, <2>3
  <2> QED BY <2>1, <2>2, <2>3
<1> QED BY <1>1, <1>2, <1>3 DEF Known

LEMMA RunTaskKept == ASSUME LossInv, NEW p \in Ops, RunTask(p) PROVE LossInv'
<1>0. PICK i \in FreeIds : Add(i, p, 1, TRUE) BY DEF RunTask
<1>1. /\ i \in Ids /\ TypeOK /\ Shapes /\ i \notin Queued /\ pel[i] = Nil
      /\ \A c \in Consumers : i \notin InHand(c)
  BY DEF FreeIds, LossInv
<1>2. /\ entry' \in [Ids -> EntryType] /\ entry'[i].op = p /\ entry'[i].attempt = 1
      /\ \A j \in Ids \ {i} : entry'[j] = entry[j]
      /\ queue' \in Seq(Ids) /\ Queued' = Queued \cup {i}
      /\ due' \subseteq Ids /\ crashes' \in [Ids -> Nat]
  <2>1. /\ 1 \in Nat /\ entry' = [entry EXCEPT ![i] = [op |-> p, attempt |-> 1]]
        /\ queue' = Append(queue, i) /\ crashes' = [crashes EXCEPT ![i] = 0] /\ due' = due \cup {i}
    BY <1>0 DEF Add
  <2> QED BY <1>1, <2>1, AddEffect
<1>3. /\ UNCHANGED <<pel, trimmed, dlq, loop, hnd, setup, faults, trims, done, failed, slow, lost, runs>>
      /\ sent' = sent \cup {p}
  BY DEF RunTask
<1>4. ~Held(i)
  BY <1>1, HandleTypes, BrokerAssumption DEF Held, InHand, Shapes, HandleShape, NoHandle
<1>5. TypeOK' BY <1>1, <1>2, <1>3 DEF TypeOK
<1>6. Shapes'
  <2>1. LoopShape' BY <1>1, <1>3 DEF Shapes, LoopShape
  <2>2. HandleShape' BY <1>1, <1>2, <1>3, <1>4 DEF Shapes, HandleShape, Held
  <2>3. UsedWasSent' BY <1>1, <1>2, <1>3 DEF Shapes, UsedWasSent, Used, Held
  <2>4. BurialShape'
    BY <1>1, <1>2, <1>3, <1>4, LoopTypes DEF Shapes, BurialShape, LoopShape, Held
  <2>5. Justified' BY <1>1, <1>3 DEF Shapes, Justified
  <2> QED BY <2>1, <2>2, <2>3, <2>4, <2>5 DEF Shapes
<1>7. \A q \in sent' : Known(q)'
  <2>1. Known(p)' BY <1>1, <1>2 DEF Known, Used
  <2>2. ASSUME NEW q \in sent \ {p} PROVE Known(q)'
    <3>1. Known(q) BY DEF LossInv
    <3>2. \A j \in Ids : Used(j) /\ entry[j].op = q => j # i
      BY <1>1, <1>4 DEF Used
    <3> QED BY <1>2, <1>3, <3>1, <3>2 DEF Known, Settled, Used, Held
  <2> QED BY <1>3, <2>1, <2>2
<1> QED BY <1>5, <1>6, <1>7 DEF LossInv

\* A handle in use, and its entry.
LEMMA InUse ==
  ASSUME LossInv, NEW h \in Handles, hnd[h].pc # "free"
  PROVE  /\ hnd[h].id \in Ids /\ hnd[h].owner \in Consumers /\ hnd[h].op = entry[hnd[h].id].op
         /\ hnd[h].op \in sent /\ hnd[h].op \in Ops /\ Used(hnd[h].id) /\ hnd[h] # NoHandle
         /\ hnd[h].attempt \in Nat
<1>1. hnd[h].id \in Ids /\ hnd[h].owner \in Consumers /\ hnd[h].op = entry[hnd[h].id].op /\ hnd[h] # NoHandle
  BY DEF LossInv, Shapes, HandleShape, NoHandle
<1>2. Used(hnd[h].id) BY DEF Used, Held
<1>3. hnd[h].op \in sent BY <1>1, <1>2 DEF LossInv, Shapes, UsedWasSent
<1> QED BY <1>1, <1>2, <1>3, HandleTypes DEF LossInv, TypeOK

\* A loop that has an entry.
LEMMA InLoop ==
  ASSUME LossInv, NEW c \in Consumers, loop[c].pc \notin {"poll", "stopping", "down"}
  PROVE  /\ loop[c].id \in Ids /\ Used(loop[c].id) /\ entry[loop[c].id].op \in sent
         /\ entry[loop[c].id].op \in Ops
<1>1. loop[c].id \in Ids BY LoopTypes DEF LossInv, Shapes, LoopShape
<1>2. Used(loop[c].id) BY DEF Used, Held
<1> QED BY <1>1, <1>2 DEF LossInv, Shapes, UsedWasSent, TypeOK

\* A handle moves on, perhaps acknowledging its entry: it still holds it.
LEMMA MoveKept ==
  ASSUME LossInv, TypeOK', NEW h \in Handles, NEW l \in HandleLabels, hnd[h].pc # "free", l # "free",
         Step(h, l), UNCHANGED <<entry, queue, loop, setup, sent>>,
         \A j \in Ids : pel'[j] = pel[j] \/ j = hnd[h].id,
         done \subseteq done', failed \subseteq failed', dlq \subseteq dlq',
         dlq' \subseteq dlq \cup {hnd[h].op}, \A p \in Ops : lost[p] \subseteq lost'[p],
         l = "nack" => hnd[h].attempt < setup.adapterMax,
         l = "finished" => hnd[h].op \in done',
         l = "ack" => hnd[h].op \in done' \cup failed' \/ lost'[hnd[h].op] # {},
         l = "bury_ack" => setup.adapterMax > MaxRetries /\ hnd[h].op \in dlq'
  PROVE  LossInv'
<1>1. TypeOK /\ Shapes /\ UNCHANGED Queued BY DEF LossInv, Queued
<1>2. /\ hnd'[h].pc = l /\ hnd'[h].owner = hnd[h].owner /\ hnd'[h].id = hnd[h].id
      /\ hnd'[h].op = hnd[h].op /\ hnd'[h].attempt = hnd[h].attempt
      /\ \A g \in Handles \ {h} : hnd'[g] = hnd[g]
  BY <1>1, StepEffect
<1>3. /\ hnd[h].id \in Ids /\ hnd[h].owner \in Consumers /\ hnd[h].op = entry[hnd[h].id].op
      /\ hnd[h].op \in sent
  BY InUse
<1>4. \A i \in Ids : Used(i)' <=> Used(i)
  <2>1. \A i \in Ids : Held(i)' <=> Held(i) BY <1>2 DEF Held
  <2>2. Held(hnd[h].id) BY DEF Held
  <2> QED BY <1>1, <2>1, <2>2 DEF Used
<1>5. LoopShape' BY <1>1 DEF Shapes, LoopShape
<1>6. HandleShape'
  <2>1. \A g \in Handles : hnd[g] = NoHandle => hnd[g].pc = "free" BY DEF NoHandle
  <2> QED BY <1>1, <1>2, <1>3, <2>1 DEF Shapes, HandleShape
<1>7. UsedWasSent' BY <1>1, <1>4 DEF Shapes, UsedWasSent
<1>8. BurialShape' BY <1>1, <1>3 DEF Shapes, BurialShape
<1>9. Justified'
  <2>1. ASSUME NEW g \in Handles \ {h}
        PROVE  /\ hnd'[g].pc = "nack" => hnd'[g].attempt < setup'.adapterMax
               /\ hnd'[g].pc = "finished" => hnd'[g].op \in done'
               /\ hnd'[g].pc = "ack" => hnd'[g].op \in done' \cup failed' \/ lost'[hnd'[g].op] # {}
               /\ hnd'[g].pc = "bury_ack" => setup'.adapterMax > MaxRetries /\ hnd'[g].op \in dlq'
    BY <1>1, <1>2, InUse DEF Shapes, Justified
  <2> QED BY <1>2, <2>1 DEF Justified
<1>10. \A p \in sent' : Known(p)' BY <1>4, KnownStep
<1> QED BY <1>5, <1>6, <1>7, <1>8, <1>9, <1>10 DEF LossInv, Shapes

LEMMA StartKept == ASSUME LossInv, NEW h \in Handles, Start(h) PROVE LossInv'
<1>1. TypeOK /\ hnd[h].pc = "ready" BY DEF LossInv, Start
<1>2. PICK l \in {"failing", "running"} : Step(h, l) BY DEF Start
<1>3. l \in HandleLabels BY DEF HandleLabels
<1>4. hnd' \in [Handles -> HandleType] BY <1>1, <1>2, <1>3, StepEffect
<1>5. runs' \in [Ops -> Nat] BY <1>1 DEF Start, TypeOK
<1>6. UNCHANGED <<streamVars, loop, setup, sent, faults, trims, done, failed, slow, lost>> BY DEF Start
<1>7. TypeOK' BY <1>1, <1>4, <1>5, <1>6 DEF TypeOK, streamVars
<1> QED BY <1>1, <1>2, <1>3, <1>6, <1>7, MoveKept DEF streamVars

LEMMA FinishKept == ASSUME LossInv, NEW h \in Handles, Finish(h) PROVE LossInv'
<1>1. TypeOK /\ hnd[h].pc = "running" /\ Step(h, "finished") /\ "finished" \in HandleLabels
  BY DEF LossInv, Finish, HandleLabels
<1>2. hnd' \in [Handles -> HandleType] BY <1>1, StepEffect
<1>3. hnd[h].op \in Ops BY <1>1, InUse
<1>4. UNCHANGED <<streamVars, loop, setup, sent, faults, trims, failed, slow, lost, runs>>
      /\ done' = done \cup {hnd[h].op}
  BY DEF Finish
<1>5. TypeOK' BY <1>1, <1>2, <1>3, <1>4 DEF TypeOK, streamVars
<1> QED BY <1>1, <1>4, <1>5, MoveKept DEF streamVars

LEMMA RaiseKept == ASSUME LossInv, NEW h \in Handles, Raise(h) PROVE LossInv'
<1>1. TypeOK /\ hnd[h].pc \in {"running", "finished"} BY DEF LossInv, Raise
<1>2. PICK l \in {"nack", "failing"} : Step(h, l) /\ (l = "nack" => hnd[h].attempt < setup.adapterMax)
  BY DEF Raise
<1>3. l \in HandleLabels BY DEF HandleLabels
<1>4. hnd' \in [Handles -> HandleType] BY <1>1, <1>2, <1>3, StepEffect
<1>5. hnd[h].id \in Ids BY <1>1, InUse
<1>6. /\ pel' \in [Ids -> Consumers \cup {Nil}] /\ trimmed' \subseteq Ids
      /\ \A j \in Ids : pel'[j] = pel[j] \/ j = hnd[h].id
  BY <1>1, <1>5, AckEffect DEF Raise, TypeOK
<1>7. UNCHANGED <<entry, queue, due, crashes, dlq, loop, setup, history>> BY DEF Raise
<1>8. TypeOK' BY <1>1, <1>4, <1>6, <1>7 DEF TypeOK, history
<1> QED BY <1>1, <1>2, <1>3, <1>6, <1>7, <1>8, MoveKept DEF history

LEMMA NackBuryKept == ASSUME LossInv, NEW h \in Handles, NackBury(h) PROVE LossInv'
<1>1. TypeOK /\ hnd[h].pc = "nack" /\ Step(h, "bury_ack") /\ "bury_ack" \in HandleLabels
  BY DEF LossInv, NackBury, HandleLabels
<1>2. hnd' \in [Handles -> HandleType] BY <1>1, StepEffect
<1>3. hnd[h].op \in Ops /\ hnd[h].attempt \in Nat BY <1>1, InUse
<1>4. UNCHANGED <<entry, queue, pel, due, trimmed, crashes, loop, setup, history>>
      /\ dlq' = dlq \cup {hnd[h].op} /\ hnd[h].attempt + 1 > MaxRetries
  BY DEF NackBury
<1>5. TypeOK' BY <1>1, <1>2, <1>3, <1>4 DEF TypeOK, history
<1>6. setup.adapterMax > MaxRetries
  <2>1. hnd[h].attempt < setup.adapterMax BY <1>1 DEF LossInv, Shapes, Justified
  <2> QED BY <1>1, <1>3, <1>4, <2>1, BrokerAssumption DEF TypeOK
<1> QED BY <1>1, <1>4, <1>5, <1>6, MoveKept DEF history

LEMMA NackAckKept == ASSUME LossInv, NEW h \in Handles, NackAck(h) PROVE LossInv'
<1>1. TypeOK /\ hnd[h].pc = "nack" /\ Step(h, "nack_add") /\ "nack_add" \in HandleLabels
  BY DEF LossInv, NackAck, HandleLabels
<1>2. hnd' \in [Handles -> HandleType] BY <1>1, StepEffect
<1>3. hnd[h].id \in Ids BY <1>1, InUse
<1>4. /\ pel' \in [Ids -> Consumers \cup {Nil}] /\ trimmed' \subseteq Ids
      /\ \A j \in Ids : pel'[j] = pel[j] \/ j = hnd[h].id
  BY <1>1, <1>3, AckEffect DEF NackAck
<1>5. UNCHANGED <<entry, queue, due, crashes, dlq, loop, setup, history>> BY DEF NackAck
<1>6. TypeOK' BY <1>1, <1>2, <1>4, <1>5 DEF TypeOK, history
<1> QED BY <1>1, <1>4, <1>5, <1>6, MoveKept DEF history

LEMMA MarkFailedKept == ASSUME LossInv, NEW h \in Handles, MarkFailed(h) PROVE LossInv'
<1>1. TypeOK /\ hnd[h].pc = "failing" /\ Step(h, "ack") /\ "ack" \in HandleLabels
  BY DEF LossInv, MarkFailed, HandleLabels
<1>2. hnd' \in [Handles -> HandleType] BY <1>1, StepEffect
<1>3. hnd[h].op \in Ops BY <1>1, InUse
<1>4. UNCHANGED <<streamVars, loop, setup, sent, faults, trims, done, slow, runs>> BY DEF MarkFailed
<1>5. /\ failed \subseteq failed' /\ failed' \subseteq failed \cup {hnd[h].op}
      /\ lost' \in [Ops -> SUBSET Losses] /\ \A p \in Ops : lost[p] \subseteq lost'[p]
      /\ hnd[h].op \in failed' \/ lost'[hnd[h].op] # {}
  <2>1. CASE failed' = failed \cup {hnd[h].op} /\ UNCHANGED lost BY <1>1, <2>1 DEF TypeOK
  <2>2. CASE Lose({hnd[h].op}, "unmarked") /\ UNCHANGED failed
    <3>1. "unmarked" \in Losses BY DEF Losses
    <3> QED BY <1>1, <1>3, <2>2, <3>1, LoseEffect
  <2> QED BY <2>1, <2>2 DEF MarkFailed
<1>6. TypeOK' BY <1>1, <1>2, <1>3, <1>4, <1>5 DEF TypeOK, streamVars
<1> QED BY <1>1, <1>4, <1>5, <1>6, MoveKept DEF streamVars

\* A handle is released with its operation accounted for.
LEMMA ReleaseKept ==
  ASSUME LossInv, TypeOK', NEW h \in Handles, hnd[h].pc \in {"finished", "ack", "bury_ack"}, Release(h),
         UNCHANGED <<entry, queue, dlq, loop, setup, history>>,
         \A j \in Ids : pel'[j] = pel[j] \/ (pel'[j] = Nil /\ j = hnd[h].id)
  PROVE  LossInv'
<1>1. TypeOK /\ Shapes /\ UNCHANGED Queued BY DEF LossInv, Queued
<1>2. hnd'[h] = NoHandle /\ \A g \in Handles \ {h} : hnd'[g] = hnd[g] BY <1>1, ReleaseEffect
<1>3. /\ hnd[h].id \in Ids /\ hnd[h].op = entry[hnd[h].id].op /\ hnd[h].op \in Ops
  BY InUse
<1>n. NoHandle.pc = "free" /\ NoHandle.id = Nil BY DEF NoHandle
<1>4. \A i \in Ids : Used(i)' => Used(i)
  BY <1>1, <1>2, <1>n, BrokerAssumption DEF Used, Held
<1>5. \A i \in Ids : Used(i) => Used(i)' \/ i = hnd[h].id BY <1>1, <1>2 DEF Used, Held
<1>6. Known(hnd[h].op)
  BY <1>1 DEF Shapes, Justified, Known, Settled
<1>7. \A p \in Ops : p = hnd[h].op => Known(p)'
  <2> SUFFICES ASSUME NEW p \in Ops, p = hnd[h].op PROVE Known(p)' OBVIOUS
  <2>1. p \in done \cup failed \/ lost[p] # {} \/ (setup.adapterMax > MaxRetries /\ p \in dlq)
    BY <1>1 DEF Shapes, Justified
  <2> QED BY <2>1 DEF Known, Settled, history
<1>8. LoopShape' /\ BurialShape' BY <1>1 DEF Shapes, LoopShape, BurialShape, history
<1>9. HandleShape' BY <1>1, <1>2 DEF Shapes, HandleShape
<1>10. UsedWasSent' BY <1>1, <1>4 DEF Shapes, UsedWasSent, history
<1>11. Justified' BY <1>1, <1>2, <1>n DEF Shapes, Justified, history
<1>12. \A p \in sent' : Known(p)'
  <2>1. \A i \in Ids : Used(i) => \/ Used(i)' /\ entry'[i].op = entry[i].op
                                  \/ \A p \in Ops : p = entry[i].op => Known(p)'
    BY <1>3, <1>5, <1>7
  <2> QED BY <2>1, KnownStep DEF history
<1> QED BY <1>8, <1>9, <1>10, <1>11, <1>12 DEF LossInv, Shapes

LEMMA AckKept == ASSUME LossInv, NEW h \in Handles, Ack(h) \/ AckRaises(h) PROVE LossInv'
<1>1. /\ TypeOK /\ hnd[h].pc \in {"finished", "ack", "bury_ack"} /\ Release(h)
      /\ UNCHANGED <<entry, queue, due, crashes, dlq, loop, setup, history>>
  BY DEF LossInv, Ack, AckRaises, streamVars
<1>2. hnd' \in [Handles -> HandleType] BY <1>1, ReleaseEffect
<1>3. hnd[h].id \in Ids BY <1>1, InUse
<1>4. /\ pel' \in [Ids -> Consumers \cup {Nil}] /\ trimmed' \subseteq Ids
      /\ \A j \in Ids : pel'[j] = pel[j] \/ (pel'[j] = Nil /\ j = hnd[h].id)
  BY <1>1, <1>3, AckEffect DEF Ack, AckRaises, streamVars, TypeOK
<1>5. TypeOK' BY <1>1, <1>2, <1>4 DEF TypeOK, history
<1> QED BY <1>1, <1>4, <1>5, ReleaseKept

\* A free id is nowhere.
LEMMA FreeIsUnused == ASSUME LossInv, NEW i \in FreeIds PROVE i \in Ids /\ ~Used(i)
<1>1. /\ i \in Ids /\ i \notin Queued /\ pel[i] = Nil /\ \A c \in Consumers : i \notin InHand(c)
  BY DEF FreeIds
<1>2. ~Held(i)
  BY <1>1, BrokerAssumption DEF Held, InHand, LossInv, Shapes, HandleShape, NoHandle
<1> QED BY <1>1, <1>2 DEF Used

\* The retry is added; its handle is released, or goes on to mark the failure.
LEMMA RetryKept ==
  ASSUME LossInv, NEW h \in Handles, hnd[h].pc = "nack_add", NEW i \in FreeIds,
         Add(i, hnd[h].op, hnd[h].attempt + 1, FALSE), Release(h) \/ Step(h, "failing"),
         UNCHANGED <<pel, trimmed, dlq, loop, setup, history>>
  PROVE  LossInv'
<1>1. TypeOK /\ Shapes /\ i \in Ids /\ ~Used(i) BY FreeIsUnused DEF LossInv
<1>2. /\ hnd[h].id \in Ids /\ hnd[h].owner \in Consumers /\ hnd[h].op = entry[hnd[h].id].op
      /\ hnd[h].op \in sent /\ hnd[h].op \in Ops /\ hnd[h].attempt + 1 \in Nat /\ Used(hnd[h].id)
  BY InUse
<1>3. /\ entry' \in [Ids -> EntryType] /\ entry'[i].op = hnd[h].op
      /\ \A j \in Ids \ {i} : entry'[j] = entry[j]
      /\ queue' \in Seq(Ids) /\ Queued' = Queued \cup {i}
      /\ due' \subseteq Ids /\ crashes' \in [Ids -> Nat]
  <2>1. /\ entry' = [entry EXCEPT ![i] = [op |-> hnd[h].op, attempt |-> hnd[h].attempt + 1]]
        /\ queue' = Append(queue, i) /\ crashes' = [crashes EXCEPT ![i] = 0] /\ due' = due \ {i}
    BY DEF Add
  <2> QED BY <1>1, <1>2, <2>1, AddEffect
<1>n. NoHandle.pc = "free" /\ NoHandle.id = Nil BY DEF NoHandle
<1>4. /\ hnd' \in [Handles -> HandleType] /\ \A g \in Handles \ {h} : hnd'[g] = hnd[g]
      /\ \/ hnd'[h] = NoHandle
         \/ /\ hnd'[h].pc = "failing" /\ hnd'[h].owner = hnd[h].owner /\ hnd'[h].id = hnd[h].id
            /\ hnd'[h].op = hnd[h].op
  <2>1. "failing" \in HandleLabels BY DEF HandleLabels
  <2> QED BY <1>1, <2>1, ReleaseEffect, StepEffect
<1>5. TypeOK' BY <1>1, <1>3, <1>4 DEF TypeOK, history
<1>6. \A j \in Ids : Used(j)' => Used(j) \/ j = i
  BY <1>3, <1>4, <1>n, BrokerAssumption DEF Used, Held
<1>7. \A j \in Ids : Used(j) => j # i /\ (Used(j)' \/ j = hnd[h].id)
  BY <1>1, <1>3, <1>4 DEF Used, Held
<1>8. LoopShape' BY <1>1 DEF Shapes, LoopShape
<1>9. HandleShape'
  <2>1. \A g \in Handles : hnd[g].id \in Ids => hnd[g].id # i BY <1>1 DEF Used, Held
  <2>2. ASSUME NEW g \in Handles \ {h}, hnd[g] # NoHandle
        PROVE  /\ hnd'[g].pc # "free" /\ hnd'[g].owner \in Consumers
               /\ hnd'[g].id \in Ids /\ hnd'[g].op = entry'[hnd'[g].id].op
    BY <1>1, <1>3, <1>4, <2>1, <2>2 DEF Shapes, HandleShape
  <2>3. \/ hnd'[h] = NoHandle
        \/ /\ hnd'[h].pc # "free" /\ hnd'[h].owner \in Consumers
           /\ hnd'[h].id \in Ids /\ hnd'[h].op = entry'[hnd'[h].id].op
    BY <1>2, <1>3, <1>4, <2>1
  <2>4. \A g \in Handles \ {h} : hnd[g] = NoHandle => hnd'[g] = NoHandle BY <1>4
  <2> QED BY <2>2, <2>3, <2>4 DEF HandleShape
<1>10. UsedWasSent' BY <1>1, <1>2, <1>3, <1>6 DEF Shapes, UsedWasSent, history
<1>11. BurialShape'
  <2>1. \A c \in Consumers : loop[c].pc \in {"malformed", "malformed_ack"} => loop[c].id \in Ids \ {i}
    BY <1>1, LoopTypes DEF Shapes, LoopShape, Used, Held
  <2> QED BY <1>1, <1>3, <2>1 DEF Shapes, BurialShape, history
<1>12. Justified' BY <1>1, <1>4, <1>n DEF Shapes, Justified, history
<1>13. \A p \in Ops : p = hnd[h].op => Known(p)'
  <2>1. Used(i)' BY <1>3 DEF Used
  <2> QED BY <1>1, <1>3, <2>1 DEF Known
<1>14. \A p \in sent' : Known(p)'
  <2>1. \A j \in Ids : Used(j) => \/ Used(j)' /\ entry'[j].op = entry[j].op
                                  \/ \A p \in Ops : p = entry[j].op => Known(p)'
    BY <1>2, <1>3, <1>7, <1>13
  <2> QED BY <2>1, KnownStep DEF history
<1> QED BY <1>5, <1>8, <1>9, <1>10, <1>11, <1>12, <1>14 DEF LossInv, Shapes

LEMMA NackRaisesKept == ASSUME LossInv, NEW h \in Handles, NackRaises(h) PROVE LossInv'
<1>1. CASE \E i \in FreeIds : Add(i, hnd[h].op, hnd[h].attempt + 1, FALSE) /\ hnd[h].pc = "nack_add"
  BY <1>1, RetryKept DEF NackRaises
<1>2. CASE UNCHANGED <<entry, queue, due, crashes>>
  <2>1. /\ TypeOK /\ hnd[h].pc \in {"nack", "nack_add", "bury_ack"}
        /\ Step(h, "failing") /\ "failing" \in HandleLabels
        /\ UNCHANGED <<entry, queue, due, crashes, pel, trimmed, dlq, loop, setup, history>>
    BY <1>2 DEF LossInv, NackRaises, HandleLabels
  <2>2. hnd' \in [Handles -> HandleType] BY <2>1, StepEffect
  <2>3. TypeOK' BY <2>1, <2>2 DEF TypeOK, history
  <2> QED BY <2>1, <2>3, MoveKept DEF history
<1> QED BY <1>1, <1>2 DEF NackRaises

LEMMA NackAddKept == ASSUME LossInv, NEW h \in Handles, NackAdd(h) PROVE LossInv'
BY RetryKept DEF NackAdd

\* Steps that write no entry: what a loop or a handle may become.
LoopMoved(c) ==
  /\ loop'[c].id = Nil <=> loop'[c].pc \in {"poll", "stopping", "down"}
  /\ loop'[c].id # Nil => loop'[c].id \in Ids /\ Used(loop'[c].id)
  /\ loop'[c].pc = "malformed_ack" => entry[loop'[c].id].op \in dlq'

HandleMoved(h) ==
  \/ hnd'[h] = NoHandle
  \/ /\ hnd'[h].pc = "ready" /\ hnd'[h].owner \in Consumers
     /\ hnd'[h].id \in Ids /\ Used(hnd'[h].id) /\ hnd'[h].op = entry[hnd'[h].id].op

LEMMA MovesKept ==
  ASSUME LossInv, TypeOK', UNCHANGED <<entry, setup, sent, done, failed>>,
         dlq \subseteq dlq', dlq' \subseteq sent, \A p \in Ops : lost[p] \subseteq lost'[p],
         \A i \in Ids : i \in Queued' \/ pel'[i] # Nil => Used(i),
         \A c \in Consumers : loop'[c] = loop[c] \/ LoopMoved(c),
         \A h \in Handles : hnd'[h] = hnd[h] \/ HandleMoved(h),
         \A i \in Ids : Used(i) => Used(i)' \/ \A p \in Ops : p = entry[i].op => Known(p)'
  PROVE  LossInv'
<1>1. TypeOK /\ Shapes BY DEF LossInv
<1>n. NoHandle.pc = "free" /\ NoHandle.id = Nil BY DEF NoHandle
<1>2. \A i \in Ids : Used(i)' => Used(i)
  <2> SUFFICES ASSUME NEW i \in Ids, Used(i)' PROVE Used(i) OBVIOUS
  <2>1. CASE i \in Queued' \/ pel'[i] # Nil BY <2>1
  <2>2. ASSUME NEW c \in Consumers, loop'[c].id = i PROVE Used(i)
    <3>1. CASE loop'[c] = loop[c] BY <2>2, <3>1 DEF Used, Held
    <3>2. CASE LoopMoved(c) BY <2>2, <3>2, BrokerAssumption DEF LoopMoved
    <3> QED BY <3>1, <3>2
  <2>3. ASSUME NEW h \in Handles, hnd'[h].id = i PROVE Used(i)
    <3>1. CASE hnd'[h] = hnd[h] BY <2>3, <3>1 DEF Used, Held
    <3>2. CASE HandleMoved(h) BY <2>3, <3>2, <1>n, BrokerAssumption DEF HandleMoved
    <3> QED BY <3>1, <3>2
  <2> QED BY <2>1, <2>2, <2>3 DEF Used, Held
<1>3. LoopShape' BY <1>1 DEF LoopMoved, Shapes, LoopShape
<1>4. HandleShape'
  <2> SUFFICES ASSUME NEW h \in Handles, hnd'[h] # NoHandle
               PROVE  /\ hnd'[h].pc # "free" /\ hnd'[h].owner \in Consumers
                      /\ hnd'[h].id \in Ids /\ hnd'[h].op = entry[hnd'[h].id].op
    BY DEF HandleShape
  <2>1. CASE hnd'[h] = hnd[h] BY <1>1, <2>1 DEF Shapes, HandleShape
  <2>2. CASE HandleMoved(h) BY <2>2 DEF HandleMoved
  <2> QED BY <2>1, <2>2
<1>5. UsedWasSent' BY <1>1, <1>2 DEF Shapes, UsedWasSent
<1>6. BurialShape' BY <1>1 DEF LoopMoved, Shapes, BurialShape
<1>7. Justified'
  <2> SUFFICES ASSUME NEW h \in Handles, hnd'[h].pc \in {"nack", "finished", "ack", "bury_ack"}
               PROVE  /\ hnd'[h].pc = "nack" => hnd'[h].attempt < setup.adapterMax
                      /\ hnd'[h].pc = "finished" => hnd'[h].op \in done
                      /\ hnd'[h].pc = "ack" => hnd'[h].op \in done \cup failed \/ lost'[hnd'[h].op] # {}
                      /\ hnd'[h].pc = "bury_ack" => setup.adapterMax > MaxRetries /\ hnd'[h].op \in dlq'
    BY DEF Justified
  <2>1. hnd'[h] = hnd[h] BY <1>n DEF HandleMoved
  <2>2. hnd[h].op \in Ops BY <2>1, InUse
  <2> QED BY <1>1, <2>1, <2>2 DEF Shapes, Justified
<1>8. \A p \in sent' : Known(p)' BY KnownStep
<1> QED BY <1>3, <1>4, <1>5, <1>6, <1>7, <1>8 DEF LossInv, Shapes

LEMMA BecomeDueKept == ASSUME LossInv, NEW i \in Ids, BecomeDue(i) PROVE LossInv'
<1>1. UNCHANGED <<entry, queue, pel, trimmed, crashes, dlq, loop, hnd, setup, history>>
      /\ due' = due \cup {i}
  BY DEF BecomeDue
<1>2. TypeOK' BY <1>1 DEF LossInv, TypeOK, history
<1>3. UNCHANGED Queued BY <1>1 DEF Queued
<1>4. \A j \in Ids : (j \in Queued' \/ pel'[j] # Nil => Used(j)) /\ (Used(j) => Used(j)')
  BY <1>1, <1>3 DEF Used, Held
<1>5. dlq \subseteq sent BY DEF LossInv, Shapes, BurialShape
<1> QED BY <1>1, <1>2, <1>4, <1>5, MovesKept DEF history

LEMMA TrimKept == ASSUME LossInv, NEW i \in Ids, Trim(i) PROVE LossInv'
<1>1. /\ UNCHANGED <<entry, pel, due, crashes, dlq, loop, hnd, setup, sent, faults, done, failed, slow, runs>>
      /\ trims' = trims + 1
  BY DEF Trim
<1>2. TypeOK /\ dlq \subseteq sent /\ "trimmed" \in Losses
  BY DEF LossInv, Shapes, BurialShape, Losses
<1>3. CASE /\ \E n \in DOMAIN queue : queue[n] = i /\ queue' = RemoveAt(queue, n)
           /\ Lose({entry[i].op}, "trimmed") /\ UNCHANGED trimmed
  <2>1. PICK n \in DOMAIN queue : queue[n] = i /\ queue' = RemoveAt(queue, n) BY <1>3
  <2>2. /\ queue' \in Seq(Ids) /\ Queued' \subseteq Queued /\ Queued \subseteq Queued' \cup {i}
    BY <1>2, <2>1, RemoveEffect
  <2>3. /\ lost' \in [Ops -> SUBSET Losses] /\ \A p \in Ops : lost[p] \subseteq lost'[p]
        /\ \A p \in Ops : p = entry[i].op => lost'[p] # {}
    BY <1>2, <1>3, LoseEffect
  <2>4. TypeOK' BY <1>1, <1>2, <1>3, <2>2, <2>3 DEF TypeOK
  <2>5. \A j \in Ids : j \in Queued' \/ pel'[j] # Nil => Used(j) BY <1>1, <2>2 DEF Used
  <2>6. \A j \in Ids : Used(j) => Used(j)' \/ j = i BY <1>1, <2>2 DEF Used, Held
  <2>7. \A j \in Ids : Used(j) => Used(j)' \/ \A p \in Ops : p = entry[j].op => Known(p)'
    BY <2>3, <2>6 DEF Known
  <2> QED BY <1>1, <1>2, <2>3, <2>4, <2>5, <2>7, MovesKept
<1>4. CASE trimmed' = trimmed \cup {i} /\ UNCHANGED <<queue, lost>>
  <2>1. TypeOK' BY <1>1, <1>2, <1>4 DEF TypeOK
  <2>2. \A j \in Ids : (j \in Queued' \/ pel'[j] # Nil => Used(j)) /\ (Used(j) => Used(j)')
    BY <1>1, <1>4 DEF Used, Held, Queued
  <2> QED BY <1>1, <1>2, <1>4, <2>1, <2>2, MovesKept
<1> QED BY <1>3, <1>4 DEF Trim

\* What a claim does: entry i of a living holder (n = 1) or of none (n = 0).
LEMMA ClaimCases ==
  ASSUME LossInv, NEW c \in Consumers, ClaimStale(c)
  PROVE  \E i \in Ids, n \in {0, 1} :
           /\ pel[i] # Nil
           /\ \/ Acknowledge(i) /\ Lose({entry[i].op}, "trimmed") /\ UNCHANGED <<loop, slow>>
              \/ /\ pel' = [pel EXCEPT ![i] = c]
                 /\ Loop(c, IF i \notin due THEN "requeue"
                            ELSE IF entry[i].op \in setup.malformed THEN "malformed"
                            ELSE "count", i, entry[i].attempt)
                 /\ slow' \in [Ops -> Nat] /\ slow'[entry[i].op] = slow[entry[i].op] + n
                 /\ \A p \in Ops \ {entry[i].op} : slow'[p] = slow[p]
                 /\ n = 0 => ~Held(i)
                 /\ UNCHANGED <<trimmed, lost>>
<1> DEFINE holders(i) == {d \in Consumers : i \in InHand(d)}
           cost(i) == IF holders(i) = {} THEN 0 ELSE 1
           label(i) == IF i \notin due THEN "requeue"
                       ELSE IF entry[i].op \in setup.malformed THEN "malformed" ELSE "count"
<1>0. PICK i \in Ids :
        /\ pel[i] # Nil
        /\ \/ Acknowledge(i) /\ Lose({entry[i].op}, "trimmed") /\ UNCHANGED <<loop, slow>>
           \/ /\ pel' = [pel EXCEPT ![i] = c] /\ Loop(c, label(i), i, entry[i].attempt)
              /\ slow' = [slow EXCEPT ![entry[i].op] = @ + cost(i)]
              /\ UNCHANGED <<trimmed, lost>>
  BY Zenon DEF ClaimStale
<1> DEFINE n == cost(i)
<1>1. n \in {0, 1} /\ (n = 0 => holders(i) = {}) OBVIOUS
<1> HIDE DEF cost
<1>2. slow \in [Ops -> Nat] /\ n \in Nat BY <1>1 DEF LossInv, TypeOK
<1>3. entry[i].op \in Ops BY <1>0 DEF LossInv, Shapes, UsedWasSent, Used, TypeOK
<1> HIDE DEF n
<1>4. slow' = [slow EXCEPT ![entry[i].op] = @ + n] =>
        /\ slow' \in [Ops -> Nat] /\ slow'[entry[i].op] = slow[entry[i].op] + n
        /\ \A p \in Ops \ {entry[i].op} : slow'[p] = slow[p]
  BY <1>2, <1>3
<1>5. holders(i) = {} => ~Held(i)
  BY BrokerAssumption DEF Held, InHand, LossInv, Shapes, HandleShape, NoHandle
<1>6. slow' = [slow EXCEPT ![entry[i].op] = @ + cost(i)] =>
        slow' = [slow EXCEPT ![entry[i].op] = @ + n]
  BY DEF n
<1> HIDE DEF holders
<1> QED BY <1>0, <1>1, <1>4, <1>5, <1>6

LEMMA ClaimStaleKept == ASSUME LossInv, NEW c \in Consumers, ClaimStale(c) PROVE LossInv'
<1>1. /\ UNCHANGED <<entry, queue, due, crashes, dlq, hnd, setup, sent, faults, trims, done, failed, runs>>
      /\ loop[c].pc = "poll"
  BY DEF ClaimStale
<1>2. TypeOK /\ dlq \subseteq sent /\ "trimmed" \in Losses /\ UNCHANGED Queued
  BY <1>1 DEF LossInv, Shapes, BurialShape, Losses, Queued
<1>3. PICK i \in Ids :
        /\ pel[i] # Nil
        /\ \/ Acknowledge(i) /\ Lose({entry[i].op}, "trimmed") /\ UNCHANGED <<loop, slow>>
           \/ /\ pel' = [pel EXCEPT ![i] = c]
              /\ Loop(c, IF i \notin due THEN "requeue"
                         ELSE IF entry[i].op \in setup.malformed THEN "malformed"
                         ELSE "count", i, entry[i].attempt)
              /\ slow' \in [Ops -> Nat]
              /\ UNCHANGED <<trimmed, lost>>
  BY ClaimCases
<1>4. Used(i) BY <1>3 DEF Used
<1>5. CASE Acknowledge(i) /\ Lose({entry[i].op}, "trimmed") /\ UNCHANGED <<loop, slow>>
  <2>2. /\ pel' \in [Ids -> Consumers \cup {Nil}] /\ pel'[i] = Nil
        /\ (\A j \in Ids \ {i} : pel'[j] = pel[j]) /\ trimmed' \subseteq Ids
    BY <1>2, <1>5, AckEffect
  <2>3. /\ lost' \in [Ops -> SUBSET Losses] /\ \A p \in Ops : lost[p] \subseteq lost'[p]
        /\ \A p \in Ops : p = entry[i].op => lost'[p] # {}
    BY <1>2, <1>5, LoseEffect
  <2>4. TypeOK' BY <1>1, <1>2, <1>5, <2>2, <2>3 DEF TypeOK
  <2>5. \A j \in Ids : j \in Queued' \/ pel'[j] # Nil => Used(j) BY <1>2, <2>2 DEF Used
  <2>6. \A j \in Ids : Used(j) => Used(j)' \/ j = i BY <1>1, <1>2, <1>5, <2>2 DEF Used, Held
  <2>7. \A j \in Ids : Used(j) => Used(j)' \/ \A p \in Ops : p = entry[j].op => Known(p)'
    BY <2>3, <2>6 DEF Known
  <2> QED BY <1>1, <1>2, <1>5, <2>3, <2>4, <2>5, <2>7, MovesKept
<1>6. CASE /\ pel' = [pel EXCEPT ![i] = c]
           /\ Loop(c, IF i \notin due THEN "requeue"
                      ELSE IF entry[i].op \in setup.malformed THEN "malformed"
                      ELSE "count", i, entry[i].attempt)
           /\ slow' \in [Ops -> Nat]
           /\ UNCHANGED <<trimmed, lost>>
  <2>1. PICK l \in {"requeue", "malformed", "count"} :
          Loop(c, l, i, entry[i].attempt) /\ (l = "malformed" => entry[i].op \in setup.malformed)
    BY <1>6
  <2>2. /\ loop' \in [Consumers -> LoopType] /\ loop'[c].pc = l /\ loop'[c].id = i
        /\ \A d \in Consumers \ {c} : loop'[d] = loop[d]
    <3>1. l \in LoopLabels /\ i \in Ids \cup {Nil} BY DEF LoopLabels
    <3>2. entry[i].attempt \in Nat BY <1>2, EntryTypes
    <3> QED BY <1>2, <2>1, <3>1, <3>2, LoopEffect
  <2>3. pel' \in [Ids -> Consumers \cup {Nil}] /\ pel'[i] # Nil /\ \A j \in Ids \ {i} : pel'[j] = pel[j]
    BY <1>2, <1>6, BrokerAssumption DEF TypeOK
  <2>4. TypeOK' BY <1>1, <1>2, <1>6, <2>2, <2>3 DEF TypeOK
  <2>5. \A j \in Ids : j \in Queued' \/ pel'[j] # Nil => Used(j) BY <1>2, <1>4, <2>3 DEF Used
  <2>6. \A j \in Ids : Used(j) => Used(j)'
    <3>1. loop[c].id = Nil BY <1>1 DEF LossInv, Shapes, LoopShape
    <3> QED BY <1>1, <1>2, <2>2, <2>3, <3>1, BrokerAssumption DEF Used, Held
  <2>7. LoopMoved(c) BY <1>4, <2>1, <2>2, BrokerAssumption DEF LoopMoved
  <2> QED BY <1>1, <1>2, <1>6, <2>2, <2>4, <2>5, <2>6, <2>7, MovesKept
<1> QED BY <1>3, <1>5, <1>6

LEMMA ReadNewKept == ASSUME LossInv, NEW c \in Consumers, ReadNew(c) PROVE LossInv'
<1>1. /\ UNCHANGED <<entry, due, trimmed, crashes, dlq, hnd, setup, history>>
      /\ loop[c].pc = "poll" /\ queue # <<>> /\ queue' = Tail(queue)
      /\ pel' = [pel EXCEPT ![Head(queue)] = c]
  BY DEF ReadNew
<1>2. TypeOK /\ dlq \subseteq sent /\ queue \in Seq(Ids) BY DEF LossInv, Shapes, BurialShape, TypeOK
<1>3. PICK i \in Ids : /\ i = Head(queue) /\ 1 \in DOMAIN queue /\ i = queue[1]
                       /\ queue' = RemoveAt(queue, 1)
  BY <1>1, <1>2, TailElems
<1>4. /\ queue' \in Seq(Ids) /\ Queued' \subseteq Queued /\ Queued \subseteq Queued' \cup {i} /\ i \in Queued
  BY <1>2, <1>3, RemoveEffect
<1>5. PICK l \in {"requeue", "malformed", "yield"} :
        Loop(c, l, i, entry[i].attempt) /\ (l = "malformed" => entry[i].op \in setup.malformed)
  BY <1>3 DEF ReadNew
<1>6. /\ loop' \in [Consumers -> LoopType] /\ loop'[c].pc = l /\ loop'[c].id = i
      /\ \A d \in Consumers \ {c} : loop'[d] = loop[d]
  <2>1. l \in LoopLabels /\ i \in Ids \cup {Nil} BY DEF LoopLabels
  <2>2. entry[i].attempt \in Nat BY <1>2, EntryTypes
  <2> QED BY <1>2, <1>5, <2>1, <2>2, LoopEffect
<1>7. pel' \in [Ids -> Consumers \cup {Nil}] /\ pel'[i] # Nil /\ \A j \in Ids \ {i} : pel'[j] = pel[j]
  BY <1>1, <1>2, <1>3, BrokerAssumption DEF TypeOK
<1>8. TypeOK' BY <1>1, <1>2, <1>4, <1>6, <1>7 DEF TypeOK, history
<1>9. Used(i) BY <1>4 DEF Used
<1>10. \A j \in Ids : j \in Queued' \/ pel'[j] # Nil => Used(j) BY <1>4, <1>7, <1>9 DEF Used
<1>11. \A j \in Ids : Used(j) => Used(j)'
  <2>1. loop[c].id = Nil BY <1>1 DEF LossInv, Shapes, LoopShape
  <2> QED BY <1>1, <1>4, <1>6, <1>7, <2>1, BrokerAssumption DEF Used, Held
<1>12. LoopMoved(c) BY <1>5, <1>6, <1>9, BrokerAssumption DEF LoopMoved
<1> QED BY <1>1, <1>2, <1>6, <1>8, <1>10, <1>11, <1>12, MovesKept DEF history

LEMMA RequeueNotDueKept == ASSUME LossInv, NEW c \in Consumers, RequeueNotDue(c) PROVE LossInv'
<1>1. /\ UNCHANGED <<entry, due, dlq, hnd, setup, history>> /\ loop[c].pc = "requeue"
      /\ Loop(c, "poll", Nil, 0)
  BY DEF RequeueNotDue
<1>2. TypeOK /\ dlq \subseteq sent /\ queue \in Seq(Ids) BY DEF LossInv, Shapes, BurialShape, TypeOK
<1>3. PICK i \in Ids : i = loop[c].id /\ Used(i) BY <1>1, InLoop
<1>4. /\ queue' = Append(queue, i) /\ Acknowledge(i) /\ crashes' = [crashes EXCEPT ![i] = 0]
  BY <1>3 DEF RequeueNotDue
<1>5. queue' \in Seq(Ids) /\ Queued' = Queued \cup {i}
  <2>1. queue' \in Seq(Ids) /\ Elems(queue') = Elems(queue) \cup {i} BY <1>2, <1>4, AppendElems
  <2> QED BY <2>1 DEF Queued, Elems
<1>6. /\ loop' \in [Consumers -> LoopType] /\ loop'[c].pc = "poll" /\ loop'[c].id = Nil
      /\ \A d \in Consumers \ {c} : loop'[d] = loop[d]
  <2>1. "poll" \in LoopLabels /\ Nil \in Ids \cup {Nil} /\ 0 \in Nat BY DEF LoopLabels
  <2> QED BY <1>1, <1>2, <2>1, LoopEffect
<1>7. /\ pel' \in [Ids -> Consumers \cup {Nil}] /\ pel'[i] = Nil /\ trimmed' \subseteq Ids
      /\ \A j \in Ids \ {i} : pel'[j] = pel[j]
  BY <1>2, <1>4, AckEffect
<1>8. TypeOK' BY <1>1, <1>2, <1>4, <1>5, <1>6, <1>7 DEF TypeOK, history
<1>10. \A j \in Ids : j \in Queued' \/ pel'[j] # Nil => Used(j) BY <1>3, <1>5, <1>7 DEF Used
<1>11. \A j \in Ids : Used(j) => Used(j)' BY <1>1, <1>3, <1>5, <1>6, <1>7 DEF Used, Held
<1>12. LoopMoved(c) BY <1>6 DEF LoopMoved
<1> QED BY <1>1, <1>2, <1>6, <1>8, <1>10, <1>11, <1>12, MovesKept DEF history

LEMMA CountClaimKept == ASSUME LossInv, NEW c \in Consumers, CountClaim(c) PROVE LossInv'
<1>1. /\ UNCHANGED <<entry, queue, pel, due, trimmed, dlq, hnd, setup, history>> /\ loop[c].pc = "count"
  BY DEF CountClaim
<1>2. TypeOK /\ dlq \subseteq sent /\ UNCHANGED Queued
  BY <1>1 DEF LossInv, Shapes, BurialShape, Queued
<1>3. PICK i \in Ids : i = loop[c].id /\ Used(i) BY <1>1, InLoop
<1>t. crashes[i] \in Nat /\ entry[i].attempt \in Nat /\ MaxRetries \in Nat
  BY <1>2, EntryTypes, BrokerAssumption DEF TypeOK
<1>4. PICK l \in {"bury", "yield"} : Loop(c, l, i, entry[i].attempt + crashes[i] + 1)
  BY <1>3 DEF CountClaim
<1>5. crashes' \in [Ids -> Nat] BY <1>2, <1>3 DEF CountClaim, TypeOK
<1>6. /\ loop' \in [Consumers -> LoopType] /\ loop'[c].pc = l /\ loop'[c].id = i
      /\ \A d \in Consumers \ {c} : loop'[d] = loop[d]
  <2>1. l \in LoopLabels /\ i \in Ids \cup {Nil} BY DEF LoopLabels
  <2>2. entry[i].attempt + crashes[i] + 1 \in Nat BY <1>t
  <2> QED BY <1>2, <1>4, <2>1, <2>2, LoopEffect
<1>8. TypeOK' BY <1>1, <1>2, <1>5, <1>6 DEF TypeOK, history
<1>10. \A j \in Ids : j \in Queued' \/ pel'[j] # Nil => Used(j) BY <1>1, <1>2 DEF Used
<1>11. \A j \in Ids : Used(j) => Used(j)' BY <1>1, <1>2, <1>3, <1>6 DEF Used, Held
<1>12. LoopMoved(c) BY <1>3, <1>6, BrokerAssumption DEF LoopMoved
<1> QED BY <1>1, <1>2, <1>6, <1>8, <1>10, <1>11, <1>12, MovesKept DEF history

LEMMA BuryKept == ASSUME LossInv, NEW c \in Consumers, Bury(c) PROVE LossInv'
<1>1. /\ UNCHANGED <<entry, queue, pel, due, trimmed, crashes, hnd, setup, history>>
      /\ loop[c].pc \in {"bury", "malformed"}
  BY DEF Bury
<1>2. TypeOK /\ dlq \subseteq sent /\ UNCHANGED Queued
  BY <1>1 DEF LossInv, Shapes, BurialShape, Queued
<1>3. PICK i \in Ids : i = loop[c].id /\ Used(i) /\ entry[i].op \in sent /\ entry[i].op \in Ops
  BY <1>1, InLoop
<1>4. dlq' = dlq \cup {entry[i].op} BY <1>3 DEF Bury
<1>5. /\ loop' \in [Consumers -> LoopType] /\ loop'[c].id = i
      /\ loop'[c].pc \in {"bury_ack", "malformed_ack"}
      /\ loop'[c].pc = "malformed_ack" => loop[c].pc = "malformed"
      /\ \A d \in Consumers \ {c} : loop'[d] = loop[d]
  <2>1. PICK l \in {"bury_ack", "malformed_ack"} :
          loop' = [loop EXCEPT ![c].pc = l] /\ (l = "malformed_ack" => loop[c].pc = "malformed")
    BY <1>1 DEF Bury
  <2>2. l \in LoopLabels BY DEF LoopLabels
  <2> QED BY <1>2, <1>3, <2>1, <2>2 DEF TypeOK, LoopType
<1>8. TypeOK' BY <1>1, <1>2, <1>3, <1>4, <1>5 DEF TypeOK, history
<1>10. \A j \in Ids : j \in Queued' \/ pel'[j] # Nil => Used(j) BY <1>1, <1>2 DEF Used
<1>11. \A j \in Ids : Used(j) => Used(j)' BY <1>1, <1>2, <1>3, <1>5 DEF Used, Held
<1>12. LoopMoved(c) BY <1>3, <1>4, <1>5, BrokerAssumption DEF LoopMoved
<1>13. dlq \subseteq dlq' /\ dlq' \subseteq sent BY <1>2, <1>3, <1>4
<1> QED BY <1>1, <1>5, <1>8, <1>10, <1>11, <1>12, <1>13, MovesKept DEF history

LEMMA BuryAckKept == ASSUME LossInv, NEW c \in Consumers, BuryAck(c) PROVE LossInv'
<1>1. /\ UNCHANGED <<entry, queue, due, crashes, dlq, hnd, setup, sent, faults, trims, done, failed, slow, runs>>
      /\ loop[c].pc \in {"bury_ack", "malformed_ack"}
  BY DEF BuryAck
<1>2. TypeOK /\ dlq \subseteq sent /\ UNCHANGED Queued
  BY <1>1 DEF LossInv, Shapes, BurialShape, Queued
<1>3. PICK i \in Ids : i = loop[c].id /\ Used(i) /\ Acknowledge(i)
  BY <1>1, InLoop DEF BuryAck
<1>7. /\ pel' \in [Ids -> Consumers \cup {Nil}] /\ pel'[i] = Nil /\ trimmed' \subseteq Ids
      /\ \A j \in Ids \ {i} : pel'[j] = pel[j]
  BY <1>2, <1>3, AckEffect
<1>10. \A j \in Ids : j \in Queued' \/ pel'[j] # Nil => Used(j) BY <1>2, <1>3, <1>7 DEF Used
<1>4. CASE loop' = [loop EXCEPT ![c].pc = "yield"] /\ UNCHANGED lost
  <2>1. /\ loop' \in [Consumers -> LoopType] /\ loop'[c].id = i /\ loop'[c].pc = "yield"
        /\ \A d \in Consumers \ {c} : loop'[d] = loop[d]
    BY <1>2, <1>3, <1>4 DEF TypeOK, LoopType, LoopLabels
  <2>2. TypeOK' BY <1>1, <1>2, <1>4, <1>7, <2>1 DEF TypeOK
  <2>3. \A j \in Ids : Used(j) => Used(j)' BY <1>1, <1>2, <1>3, <1>7, <2>1 DEF Used, Held
  <2>4. LoopMoved(c) BY <1>3, <2>1, BrokerAssumption DEF LoopMoved
  <2> QED BY <1>1, <1>2, <1>4, <1>10, <2>1, <2>2, <2>3, <2>4, MovesKept
<1>5. CASE /\ loop[c].pc = "malformed_ack" /\ Loop(c, "poll", Nil, 0)
           /\ Lose({entry[loop[c].id].op} \ setup.malformed, "misread")
  <2>1. /\ loop' \in [Consumers -> LoopType] /\ loop'[c].id = Nil /\ loop'[c].pc = "poll"
        /\ \A d \in Consumers \ {c} : loop'[d] = loop[d]
    <3>1. "poll" \in LoopLabels /\ Nil \in Ids \cup {Nil} /\ 0 \in Nat BY DEF LoopLabels
    <3> QED BY <1>2, <1>5, <3>1, LoopEffect
  <2>l. /\ lost' \in [Ops -> SUBSET Losses] /\ \A p \in Ops : lost[p] \subseteq lost'[p]
        /\ \A p \in Ops : p \in {entry[i].op} \ setup.malformed => lost'[p] # {}
    <3>1. "misread" \in Losses BY DEF Losses
    <3> QED BY <1>2, <1>3, <1>5, <3>1, LoseEffect
  <2>2. TypeOK' BY <1>1, <1>2, <1>7, <2>1, <2>l DEF TypeOK
  <2>3. \A j \in Ids : Used(j) => Used(j)' \/ j = i BY <1>1, <1>2, <1>3, <1>7, <2>1 DEF Used, Held
  <2>4. \A p \in Ops : p = entry[i].op => Known(p)'
    <3>1. entry[i].op \in dlq BY <1>3, <1>5 DEF LossInv, Shapes, BurialShape
    <3> QED BY <1>1, <2>l, <3>1 DEF Known, Settled
  <2>5. \A j \in Ids : Used(j) => Used(j)' \/ \A p \in Ops : p = entry[j].op => Known(p)'
    BY <2>3, <2>4
  <2>6. LoopMoved(c) BY <2>1 DEF LoopMoved
  <2> QED BY <1>1, <1>2, <1>10, <2>1, <2>2, <2>5, <2>6, <2>l, MovesKept
<1> QED BY <1>4, <1>5 DEF BuryAck

\* The effect of an error while an entry is claimed: its loop takes it for
\* malformed, and it is pending as before or acknowledged already.
LEMMA ClaimRaisesEffect ==
  ASSUME LossInv, NEW c \in Consumers, ClaimRaises(c)
  PROVE  /\ UNCHANGED <<entry, queue, due, hnd, setup, sent, trims, done, failed, slow, lost, runs>>
         /\ TypeOK' /\ loop[c].pc \in {"count", "bury", "bury_ack"}
         /\ loop[c].id \in Ids /\ Used(loop[c].id)
         /\ loop'[c].id = loop[c].id /\ loop'[c].attempt = loop[c].attempt
         /\ loop'[c].pc = "malformed" /\ \A d \in Consumers \ {c} : loop'[d] = loop[d]
         /\ dlq \subseteq dlq' /\ dlq' \subseteq sent
         /\ \A j \in Ids : pel'[j] \in {pel[j], Nil}
         /\ \A j \in Ids \ {loop[c].id} : pel'[j] = pel[j] /\ crashes'[j] = crashes[j]
         /\ \/ crashes' = crashes
            \/ /\ loop[c].pc = "count" /\ UNCHANGED pel
               /\ crashes'[loop[c].id] = crashes[loop[c].id] + 1
<1>1. /\ UNCHANGED <<entry, queue, due, hnd, setup, sent, trims, done, failed, slow, lost, runs>>
      /\ faults' = faults + 1 /\ loop[c].pc \in {"count", "bury", "bury_ack"}
      /\ loop' = [loop EXCEPT ![c].pc = "malformed"]
  BY DEF ClaimRaises, Fault
<1>2. TypeOK /\ dlq \subseteq sent BY DEF LossInv, Shapes, BurialShape
<1>3. PICK i \in Ids : i = loop[c].id /\ Used(i) /\ entry[i].op \in sent /\ entry[i].op \in Ops
  BY <1>1, InLoop
<1>4. /\ loop' \in [Consumers -> LoopType] /\ loop'[c].id = loop[c].id
      /\ loop'[c].attempt = loop[c].attempt /\ loop'[c].pc = "malformed"
      /\ \A d \in Consumers \ {c} : loop'[d] = loop[d]
  BY <1>1, <1>2 DEF TypeOK, LoopType, LoopLabels
<1>5. CASE /\ loop[c].pc = "count" /\ crashes' \in {crashes, [crashes EXCEPT ![i] = @ + 1]}
           /\ UNCHANGED <<pel, trimmed, dlq>>
  <2>1. crashes' \in [Ids -> Nat]
    <3>1. crashes \in [Ids -> Nat] /\ crashes[i] + 1 \in Nat BY <1>2 DEF TypeOK
    <3>2. CASE crashes' = [crashes EXCEPT ![i] = @ + 1] BY <3>1, <3>2
    <3> QED BY <1>5, <3>1, <3>2
  <2>2. TypeOK' BY <1>1, <1>2, <1>4, <1>5, <2>1 DEF TypeOK
  <2>3. /\ \A j \in Ids \ {i} : crashes'[j] = crashes[j]
        /\ crashes' = crashes \/ crashes'[i] = crashes[i] + 1
    BY <1>2, <1>5 DEF TypeOK
  <2> QED BY <1>1, <1>2, <1>3, <1>4, <1>5, <2>2, <2>3
<1>6. CASE dlq' \in {dlq, dlq \cup {entry[i].op}} /\ UNCHANGED <<pel, trimmed, crashes>>
  <2>1. TypeOK' BY <1>1, <1>2, <1>3, <1>4, <1>6 DEF TypeOK
  <2> QED BY <1>1, <1>2, <1>3, <1>4, <1>6, <2>1
<1>7. CASE (Acknowledge(i) \/ UNCHANGED <<pel, trimmed>>) /\ UNCHANGED <<crashes, dlq>>
  <2>1. /\ pel' \in [Ids -> Consumers \cup {Nil}] /\ trimmed' \subseteq Ids
        /\ \A j \in Ids : pel'[j] \in {pel[j], Nil}
        /\ \A j \in Ids \ {i} : pel'[j] = pel[j]
    BY <1>2, <1>7, AckEffect DEF TypeOK
  <2>2. TypeOK' BY <1>1, <1>2, <1>4, <1>7, <2>1 DEF TypeOK
  <2> QED BY <1>1, <1>2, <1>3, <1>4, <1>7, <2>1, <2>2
<1> QED BY <1>3, <1>5, <1>6, <1>7 DEF ClaimRaises

LEMMA ClaimRaisesKept == ASSUME LossInv, NEW c \in Consumers, ClaimRaises(c) PROVE LossInv'
<1>1. /\ UNCHANGED <<entry, queue, due, hnd, setup, sent, trims, done, failed, slow, lost, runs>>
      /\ TypeOK' /\ loop[c].id \in Ids /\ Used(loop[c].id)
      /\ loop'[c].id = loop[c].id /\ loop'[c].pc = "malformed"
      /\ \A d \in Consumers \ {c} : loop'[d] = loop[d]
      /\ dlq \subseteq dlq' /\ dlq' \subseteq sent
      /\ \A j \in Ids : pel'[j] \in {pel[j], Nil}
      /\ \A j \in Ids \ {loop[c].id} : pel'[j] = pel[j]
  BY ClaimRaisesEffect
<1>2. UNCHANGED Queued BY <1>1 DEF Queued
<1>3. \A j \in Ids : j \in Queued' \/ pel'[j] # Nil => Used(j) BY <1>1, <1>2 DEF Used
<1>4. \A j \in Ids : Used(j) => Used(j)' BY <1>1, <1>2 DEF Used, Held
<1>5. LoopMoved(c) BY <1>1, BrokerAssumption DEF LoopMoved
<1> QED BY <1>1, <1>3, <1>4, <1>5, MovesKept

LEMMA ReceiveRaisesKept == ASSUME LossInv, NEW c \in Consumers, ReceiveRaises(c) PROVE LossInv'
<1>1. /\ UNCHANGED <<entry, queue, pel, due, trimmed, crashes, hnd, setup, sent, trims, done, failed, slow, runs>>
      /\ faults' = faults + 1 /\ loop[c].pc \in {"requeue", "malformed", "malformed_ack"}
      /\ Loop(c, "poll", Nil, 0)
  BY DEF ReceiveRaises, Fault
<1>2. TypeOK /\ dlq \subseteq sent /\ UNCHANGED Queued /\ "misread" \in Losses
  BY <1>1 DEF LossInv, Shapes, BurialShape, Queued, Losses
<1>3. PICK i \in Ids : i = loop[c].id /\ entry[i].op \in sent /\ entry[i].op \in Ops
  BY <1>1, InLoop
<1>4. dlq \subseteq dlq' /\ dlq' \subseteq sent /\ dlq' \subseteq Ops
  BY <1>2, <1>3 DEF ReceiveRaises, TypeOK
<1>5. /\ lost' \in [Ops -> SUBSET Losses] /\ \A p \in Ops : lost[p] \subseteq lost'[p]
      /\ \A p \in Ops :
           p \in (IF pel[i] = Nil THEN {entry[i].op} \ (done \cup failed) ELSE {}) => lost'[p] # {}
  BY <1>2, <1>3, LoseEffect DEF ReceiveRaises
<1>6. /\ loop' \in [Consumers -> LoopType] /\ loop'[c].id = Nil /\ loop'[c].pc = "poll"
      /\ \A d \in Consumers \ {c} : loop'[d] = loop[d]
  <2>1. "poll" \in LoopLabels /\ Nil \in Ids \cup {Nil} /\ 0 \in Nat BY DEF LoopLabels
  <2> QED BY <1>1, <1>2, <2>1, LoopEffect
<1>7. TypeOK' BY <1>1, <1>2, <1>4, <1>5, <1>6 DEF TypeOK
<1>8. \A j \in Ids : j \in Queued' \/ pel'[j] # Nil => Used(j) BY <1>1, <1>2 DEF Used
<1>9. \A j \in Ids : Used(j) => Used(j)' \/ (j = i /\ pel[i] = Nil)
  BY <1>1, <1>2, <1>3, <1>6 DEF Used, Held
<1>10. pel[i] = Nil => \A p \in Ops : p = entry[i].op => Known(p)'
  BY <1>1, <1>5 DEF Known, Settled
<1>11. \A j \in Ids : Used(j) => Used(j)' \/ \A p \in Ops : p = entry[j].op => Known(p)'
  BY <1>9, <1>10
<1>12. LoopMoved(c) BY <1>6 DEF LoopMoved
<1> QED BY <1>1, <1>4, <1>5, <1>6, <1>7, <1>8, <1>11, <1>12, MovesKept

LEMMA DispatchKept == ASSUME LossInv, NEW c \in Consumers, Dispatch(c) PROVE LossInv'
<1>1. /\ UNCHANGED <<streamVars, setup, history>> /\ loop[c].pc = "yield" /\ Loop(c, "poll", Nil, 0)
  BY DEF Dispatch
<1>2. TypeOK /\ dlq \subseteq sent /\ UNCHANGED Queued
  BY <1>1 DEF LossInv, Shapes, BurialShape, Queued, streamVars
<1>3. PICK i \in Ids : i = loop[c].id /\ Used(i) /\ entry[i].op \in Ops BY <1>1, InLoop
<1>4. PICK h \in Handles :
        /\ hnd[h] = NoHandle
        /\ hnd' = [hnd EXCEPT ![h] = [pc |-> "ready", owner |-> c, id |-> i, op |-> entry[i].op,
                                     attempt |-> loop[c].attempt]]
  BY <1>3 DEF Dispatch
<1>5. /\ hnd' \in [Handles -> HandleType] /\ hnd'[h].pc = "ready" /\ hnd'[h].owner = c
      /\ hnd'[h].id = i /\ hnd'[h].op = entry[i].op
      /\ \A g \in Handles \ {h} : hnd'[g] = hnd[g]
  <2>1. loop[c].attempt \in Nat BY <1>2, LoopTypes
  <2> QED BY <1>2, <1>3, <1>4, <2>1 DEF TypeOK, HandleType, HandleLabels
<1>6. /\ loop' \in [Consumers -> LoopType] /\ loop'[c].id = Nil /\ loop'[c].pc = "poll"
      /\ \A d \in Consumers \ {c} : loop'[d] = loop[d]
  <2>1. "poll" \in LoopLabels /\ Nil \in Ids \cup {Nil} /\ 0 \in Nat BY DEF LoopLabels
  <2> QED BY <1>1, <1>2, <2>1, LoopEffect
<1>7. TypeOK' BY <1>1, <1>2, <1>5, <1>6 DEF TypeOK, history, streamVars
<1>8. \A j \in Ids : j \in Queued' \/ pel'[j] # Nil => Used(j) BY <1>1, <1>2 DEF Used, streamVars
<1>9. \A j \in Ids : Used(j) => Used(j)'
  <2>1. NoHandle.id = Nil BY DEF NoHandle
  <2>2. \A j \in Ids : Held(j) => Held(j)'
    BY <1>3, <1>4, <1>5, <1>6, <2>1, BrokerAssumption DEF Held
  <2> QED BY <1>1, <1>2, <2>2 DEF Used, streamVars
<1>10. LoopMoved(c) BY <1>6 DEF LoopMoved
<1>11. HandleMoved(h) BY <1>3, <1>5 DEF HandleMoved
<1> QED BY <1>1, <1>2, <1>5, <1>6, <1>7, <1>8, <1>9, <1>10, <1>11, MovesKept DEF history, streamVars

LEMMA VanishKept ==
  ASSUME LossInv, NEW c \in Consumers, NEW l \in {"stopping", "down"}, Vanish(c, l) PROVE LossInv'
<1>1. /\ UNCHANGED <<streamVars, setup, sent, trims, done, failed, slow, runs>> /\ faults' = faults + 1
      /\ loop' = [loop EXCEPT ![c] = AtRest(l)] /\ Lose(OnlyInMemory(c), "killed")
      /\ hnd' = [h \in Handles |-> IF hnd[h].owner = c THEN NoHandle ELSE hnd[h]]
  BY DEF Vanish, Fault
<1>2. TypeOK /\ dlq \subseteq sent /\ UNCHANGED Queued /\ "killed" \in Losses
  BY <1>1 DEF LossInv, Shapes, BurialShape, Queued, streamVars, Losses
<1>3. /\ loop' \in [Consumers -> LoopType] /\ loop'[c].id = Nil /\ loop'[c].pc = l
      /\ \A d \in Consumers \ {c} : loop'[d] = loop[d]
  BY <1>1, <1>2 DEF TypeOK, LoopType, LoopLabels, AtRest
<1>4. /\ hnd' \in [Handles -> HandleType] /\ \A h \in Handles : hnd'[h] \in {hnd[h], NoHandle}
      /\ \A h \in Handles : hnd[h].owner # c => hnd'[h] = hnd[h]
  BY <1>1, <1>2 DEF TypeOK, HandleType, HandleLabels, NoHandle
<1>5. /\ lost' \in [Ops -> SUBSET Losses] /\ \A p \in Ops : lost[p] \subseteq lost'[p]
      /\ \A p \in Ops : p \in OnlyInMemory(c) => lost'[p] # {}
  BY <1>1, <1>2, LoseEffect
<1>6. TypeOK' BY <1>1, <1>2, <1>3, <1>4, <1>5 DEF TypeOK, streamVars
<1>7. \A j \in Ids : j \in Queued' \/ pel'[j] # Nil => Used(j) BY <1>1, <1>2 DEF Used, streamVars
<1>8. ASSUME NEW j \in Ids, Used(j), ~Used(j)' PROVE \A p \in Ops : p = entry[j].op => Known(p)'
  <2>1. pel[j] = Nil /\ Held(j) /\ ~Held(j)' BY <1>1, <1>2, <1>8 DEF Used, streamVars
  <2>2. j \in InHand(c) BY <1>3, <1>4, <2>1 DEF Held, InHand
  <2>3. entry[j].op \in done \cup failed \/ entry[j].op \in OnlyInMemory(c)
    BY <2>1, <2>2 DEF OnlyInMemory
  <2> QED BY <1>1, <1>5, <2>3 DEF Known, Settled
<1>9. LoopMoved(c) BY <1>3 DEF LoopMoved
<1>10. \A h \in Handles : hnd'[h] = hnd[h] \/ HandleMoved(h) BY <1>4 DEF HandleMoved
<1> QED BY <1>1, <1>2, <1>3, <1>5, <1>6, <1>7, <1>8, <1>9, <1>10, MovesKept DEF streamVars

LEMMA DeregisterKept == ASSUME LossInv, NEW c \in Consumers, Deregister(c) PROVE LossInv'
<1>1. /\ UNCHANGED <<entry, queue, due, crashes, dlq, hnd, setup, sent, faults, trims, done, failed, slow, runs>>
      /\ loop[c].pc = "stopping" /\ Loop(c, "down", Nil, 0)
      /\ pel' = [i \in Ids |-> IF i \in Pending(c) THEN Nil ELSE pel[i]]
      /\ trimmed' = trimmed \ Pending(c) /\ Lose({entry[i].op : i \in Pending(c)}, "deregistered")
  BY DEF Deregister
<1>2. TypeOK /\ dlq \subseteq sent /\ UNCHANGED Queued /\ "deregistered" \in Losses
  BY <1>1 DEF LossInv, Shapes, BurialShape, Queued, Losses
<1>3. /\ loop' \in [Consumers -> LoopType] /\ loop'[c].id = Nil /\ loop'[c].pc = "down"
      /\ \A d \in Consumers \ {c} : loop'[d] = loop[d]
  <2>1. "down" \in LoopLabels /\ Nil \in Ids \cup {Nil} /\ 0 \in Nat BY DEF LoopLabels
  <2> QED BY <1>1, <1>2, <2>1, LoopEffect
<1>4. /\ pel' \in [Ids -> Consumers \cup {Nil}] /\ trimmed' \subseteq Ids
      /\ \A j \in Ids : pel'[j] = pel[j] \/ (pel'[j] = Nil /\ j \in Pending(c))
  BY <1>1, <1>2 DEF TypeOK
<1>5. /\ lost' \in [Ops -> SUBSET Losses] /\ \A p \in Ops : lost[p] \subseteq lost'[p]
      /\ \A p \in Ops : p \in {entry[i].op : i \in Pending(c)} => lost'[p] # {}
  BY <1>1, <1>2, LoseEffect
<1>6. TypeOK' BY <1>1, <1>2, <1>3, <1>4, <1>5 DEF TypeOK
<1>7. \A j \in Ids : j \in Queued' \/ pel'[j] # Nil => Used(j) BY <1>1, <1>2, <1>4 DEF Used
<1>8. ASSUME NEW j \in Ids, Used(j), ~Used(j)' PROVE \A p \in Ops : p = entry[j].op => Known(p)'
  <2>1. loop[c].id = Nil BY <1>1 DEF LossInv, Shapes, LoopShape
  <2>2. Held(j) => Held(j)' BY <1>1, <1>3, <2>1, BrokerAssumption DEF Held
  <2>3. j \in Pending(c) BY <1>2, <1>4, <1>8, <2>2 DEF Used
  <2> QED BY <1>5, <2>3 DEF Known
<1>9. LoopMoved(c) BY <1>3 DEF LoopMoved
<1> QED BY <1>1, <1>2, <1>3, <1>5, <1>6, <1>7, <1>8, <1>9, MovesKept

LEMMA RestartKept == ASSUME LossInv, NEW c \in Consumers, Restart(c) PROVE LossInv'
<1>1. UNCHANGED <<streamVars, hnd, setup, history>> /\ loop[c].pc = "down" /\ Loop(c, "poll", Nil, 0)
  BY DEF Restart
<1>2. TypeOK /\ dlq \subseteq sent /\ UNCHANGED Queued
  BY <1>1 DEF LossInv, Shapes, BurialShape, Queued, streamVars
<1>3. /\ loop' \in [Consumers -> LoopType] /\ loop'[c].id = Nil /\ loop'[c].pc = "poll"
      /\ \A d \in Consumers \ {c} : loop'[d] = loop[d]
  <2>1. "poll" \in LoopLabels /\ Nil \in Ids \cup {Nil} /\ 0 \in Nat BY DEF LoopLabels
  <2> QED BY <1>1, <1>2, <2>1, LoopEffect
<1>4. TypeOK' BY <1>1, <1>2, <1>3 DEF TypeOK, streamVars, history
<1>5. loop[c].id = Nil BY <1>1 DEF LossInv, Shapes, LoopShape
<1>6. \A j \in Ids : (j \in Queued' \/ pel'[j] # Nil => Used(j)) /\ (Used(j) => Used(j)')
  BY <1>1, <1>2, <1>3, <1>5, BrokerAssumption DEF Used, Held, streamVars
<1>7. LoopMoved(c) BY <1>3 DEF LoopMoved
<1> QED BY <1>1, <1>2, <1>3, <1>4, <1>6, <1>7, MovesKept DEF streamVars, history

LEMMA LossInit == Init => LossInv
<1> SUFFICES ASSUME Init PROVE LossInv OBVIOUS
<1>1. TypeOK
  <2>1. loop \in [Consumers -> LoopType] BY DEF Init, LoopType, AtRest, LoopLabels
  <2>2. hnd \in [Handles -> HandleType] BY DEF Init, HandleType, NoHandle, HandleLabels
  <2>3. setup \in [adapterMax : Nat, malformed : SUBSET Ops] BY BrokerAssumption DEF Init
  <2>4. entry \in [Ids -> EntryType] BY DEF Init, EntryType
  <2>5. queue \in Seq(Ids) BY DEF Init
  <2> QED BY <2>1, <2>2, <2>3, <2>4, <2>5 DEF Init, TypeOK
<1>2. \A i \in Ids : ~Used(i)
  BY BrokerAssumption DEF Init, Used, Held, Queued, AtRest, NoHandle
<1>3. LoopShape /\ HandleShape BY DEF Init, LoopShape, HandleShape, AtRest
<1>4. UsedWasSent /\ BurialShape BY <1>2 DEF Init, UsedWasSent, BurialShape, AtRest
<1>5. Justified BY DEF Init, Justified, NoHandle
<1>6. \A p \in sent : Known(p) BY DEF Init
<1> QED BY <1>1, <1>3, <1>4, <1>5, <1>6 DEF LossInv, Shapes

LEMMA LossStep == LossInv /\ [Next]_vars => LossInv'
<1> SUFFICES ASSUME LossInv, [Next]_vars PROVE LossInv' OBVIOUS
<1>1. ASSUME NEW p \in Ops, RunTask(p) PROVE LossInv' BY <1>1, RunTaskKept
<1>2. ASSUME NEW i \in Ids, BecomeDue(i) PROVE LossInv' BY <1>2, BecomeDueKept
<1>3. ASSUME NEW i \in Ids, Trim(i) PROVE LossInv' BY <1>3, TrimKept
<1>4. ASSUME NEW c \in Consumers, ClaimStale(c) PROVE LossInv' BY <1>4, ClaimStaleKept
<1>5. ASSUME NEW c \in Consumers, ReadNew(c) PROVE LossInv' BY <1>5, ReadNewKept
<1>6. ASSUME NEW c \in Consumers, ReceiveStep(c) PROVE LossInv'
  BY <1>6, RequeueNotDueKept, CountClaimKept, BuryKept, BuryAckKept, DispatchKept,
     ClaimRaisesKept, ReceiveRaisesKept DEF ReceiveStep
<1>7. ASSUME NEW c \in Consumers, Kill(c) \/ Stop(c) PROVE LossInv'
  <2>1. \E l \in {"stopping", "down"} : Vanish(c, l) BY <1>7 DEF Kill, Stop
  <2> QED BY <2>1, VanishKept
<1>8. ASSUME NEW c \in Consumers, Deregister(c) PROVE LossInv' BY <1>8, DeregisterKept
<1>9. ASSUME NEW c \in Consumers, Restart(c) PROVE LossInv' BY <1>9, RestartKept
<1>10. ASSUME NEW h \in Handles, HandleStep(h) PROVE LossInv'
  BY <1>10, StartKept, FinishKept, RaiseKept, NackBuryKept, NackAckKept, NackAddKept,
     MarkFailedKept, AckKept DEF HandleStep
<1>11. ASSUME NEW h \in Handles, NackRaises(h) \/ AckRaises(h) PROVE LossInv'
  BY <1>11, NackRaisesKept, AckKept
<1>12. CASE UNCHANGED vars
  <2>1. UNCHANGED <<streamVars, loop, hnd, setup, history>> BY <1>12 DEF vars
  <2>2. /\ UNCHANGED <<entry, queue, pel, due, trimmed, crashes, dlq, loop, hnd, setup>>
        /\ UNCHANGED <<sent, faults, trims, done, failed, slow, lost, runs>>
    BY <2>1 DEF streamVars, history
  <2>3. UNCHANGED <<TypeOK, Shapes>>
    BY <2>2 DEF TypeOK, Shapes, LoopShape, HandleShape, UsedWasSent, BurialShape, Justified, Used, Held, Queued
  <2>4. \A p \in sent : Known(p) => Known(p)' BY <2>2 DEF Known, Settled, Used, Held, Queued
  <2> QED BY <2>2, <2>3, <2>4 DEF LossInv
<1> QED BY <1>1, <1>2, <1>3, <1>4, <1>5, <1>6, <1>7, <1>8, <1>9, <1>10, <1>11, <1>12 DEF Next

LEMMA LossInvariant == Spec => []LossInv
BY LossInit, LossStep, PTL DEF Spec

\* What is in use is in the stream, pending, or in the hands of a process.
LEMMA UsedInFlight == ASSUME LossInv, NEW i \in Ids, Used(i) PROVE \A p : entry[i].op = p => InFlight(p)
<1>1. CASE i \in Queued \/ pel[i] # Nil BY <1>1 DEF InFlight
<1>2. CASE \E c \in Consumers : loop[c].id = i BY <1>2, BrokerAssumption DEF InFlight
<1>3. CASE \E h \in Handles : hnd[h].id = i
  BY <1>3, BrokerAssumption DEF InFlight, LossInv, Shapes, HandleShape, NoHandle
<1> QED BY <1>1, <1>2, <1>3 DEF Used, Held

\* The variables of the broker keep their types.
THEOREM BrokerTypeCorrect == Spec => []TypeOK
<1>1. LossInv => TypeOK BY DEF LossInv
<1> QED BY <1>1, LossInvariant, PTL

\* run_task's operations are lost in no way but the named ones, whatever
\* processes die, stop, restart, claim or retry, for every retry limit.
THEOREM NoSilentLoss == Spec => []OnlyKnownLosses
<1>1. LossInv => OnlyKnownLosses
  <2> SUFFICES ASSUME LossInv, NEW p \in sent
               PROVE  \/ Settled(p) \/ InFlight(p) \/ lost[p] # {}
                      \/ setup.adapterMax > MaxRetries /\ p \in dlq
    BY DEF OnlyKnownLosses
  <2> QED BY UsedInFlight DEF LossInv, Known
<1> QED BY <1>1, LossInvariant, PTL

\* With max_retries of the adapter at most that of the broker, a dead letter
\* whose payload is sound gets its failed mark, is on the way to it, or was
\* lost in a named way.
THEOREM DeadLettersGetMarked == Spec => []DeadLettersMarked
<1>1. LossInv => DeadLettersMarked
  <2> SUFFICES ASSUME LossInv, setup.adapterMax <= MaxRetries, NEW p \in dlq \ setup.malformed
               PROVE  p \in done \cup failed \/ InFlight(p) \/ lost[p] # {}
    BY DEF DeadLettersMarked
  <2>1. p \in sent BY DEF LossInv, Shapes, BurialShape
  <2>2. setup.adapterMax \in Nat /\ MaxRetries \in Nat BY BrokerAssumption DEF LossInv, TypeOK
  <2>3. ~(setup.adapterMax > MaxRetries) BY <2>2
  <2> QED BY <2>1, <2>3, UsedInFlight DEF LossInv, Known, Settled
<1> QED BY <1>1, LossInvariant, PTL

-----------------------------------------------------------------------------
(* Bounded runs                                                            *)

Yielding == {"yield", "bury", "bury_ack"}

\* A step that adds no place where entry j is, and no claim about it.
LoopEases(c, j) ==
  \/ loop'[c] = loop[c] \/ loop'[c].id # j
  \/ /\ loop'[c].id = loop[c].id /\ loop'[c].attempt = loop[c].attempt
     /\ loop'[c].pc # "requeue"
     /\ loop'[c].pc \in Yielding => loop[c].pc \in Yielding

HandleEases(h, j) ==
  \/ hnd'[h] = hnd[h] \/ hnd'[h].id # j
  \/ /\ hnd'[h].id = hnd[h].id /\ hnd'[h].attempt = hnd[h].attempt
     /\ hnd'[h].pc \notin {"ready", "nack_add"} /\ (Working(h)' => Working(h))

Eases(j) ==
  /\ entry'[j] = entry[j] /\ crashes'[j] = crashes[j] /\ pel'[j] \in {pel[j], Nil}
  /\ (j \in Queued' => j \in Queued) /\ (j \in due => j \in due')
  /\ Once(queue, j) => Once(queue', j)
  /\ \A c \in Consumers : LoopEases(c, j)
  /\ \A h \in Handles : HandleEases(h, j)

LEMMA EasesKept ==
  ASSUME NEW j \in Ids, Eases(j)
  PROVE  /\ Active(j)' => Active(j) /\ (Fresh(j)' => Fresh(j))
         /\ Held(j)' => Held(j)
         /\ Exclusive(j) => Exclusive(j)'
         /\ Paid(j) /\ (Active(j)' => runs'[entry[j].op] = runs[entry[j].op]) => Paid(j)'
<1>1. \A c \in Consumers : loop'[c].id = j =>
        /\ loop[c].id = j /\ loop'[c].attempt = loop[c].attempt
        /\ loop'[c].pc \in Yielding => loop[c].pc \in Yielding
        /\ loop'[c].pc = "requeue" => loop[c].pc = "requeue"
  BY DEF Eases, LoopEases
<1>2. \A h \in Handles : hnd'[h].id = j =>
        /\ hnd[h].id = j /\ hnd'[h].attempt = hnd[h].attempt /\ (Working(h)' => Working(h))
        /\ hnd'[h].pc = "ready" => hnd[h].pc = "ready"
        /\ hnd'[h].pc = "nack_add" => hnd[h].pc = "nack_add"
  BY DEF Eases, HandleEases, Working
<1>3. /\ entry'[j] = entry[j] /\ crashes'[j] = crashes[j] /\ pel'[j] \in {pel[j], Nil}
      /\ (j \in Queued' => j \in Queued) /\ (j \in due => j \in due')
      /\ Once(queue, j) => Once(queue', j)
  BY DEF Eases
<1>4. Held(j)' => Held(j) BY <1>1, <1>2 DEF Held
<1>5. Active(j)' => Active(j) BY <1>1, <1>2, <1>3 DEF Active
<1>6. Fresh(j)' => Fresh(j)
  <2>1. \A c \in Consumers : loop'[c].id = j /\ loop'[c].pc \in {"requeue", "yield", "bury", "bury_ack"} =>
          loop[c].id = j /\ loop[c].pc \in {"requeue", "yield", "bury", "bury_ack"}
    BY <1>1 DEF Yielding
  <2> QED BY <1>2, <1>3, <2>1 DEF Fresh
<1>7. Exclusive(j) => Exclusive(j)'
  <2> SUFFICES ASSUME Exclusive(j) PROVE Exclusive(j)' OBVIOUS
  <2>1. j \in Queued' => pel'[j] = Nil /\ ~Held(j)' BY <1>3, <1>4 DEF Exclusive
  <2>2. Once(queue', j) BY <1>3 DEF Exclusive
  <2>3. \A c, d \in Consumers : loop'[c].id = j /\ loop'[d].id = j => c = d BY <1>1 DEF Exclusive
  <2>4. \A g, h \in Handles : hnd'[g].id = j /\ hnd'[h].id = j => g = h BY <1>2 DEF Exclusive
  <2>5. \A c \in Consumers, h \in Handles : ~(loop'[c].id = j /\ hnd'[h].id = j)
    BY <1>1, <1>2 DEF Exclusive
  <2>6. \A h \in Handles : hnd'[h].id = j /\ hnd'[h].pc = "nack_add" => pel'[j] = Nil
    BY <1>2, <1>3 DEF Exclusive
  <2> QED BY <2>1, <2>2, <2>3, <2>4, <2>5, <2>6 DEF Exclusive
<1>8. Paid(j) /\ (Active(j)' => runs'[entry[j].op] = runs[entry[j].op]) => Paid(j)'
  <2> SUFFICES ASSUME Paid(j), Active(j)' => runs'[entry[j].op] = runs[entry[j].op] PROVE Paid(j)'
    OBVIOUS
  <2>e. Effective(j)' = Effective(j) BY <1>3 DEF Effective
  <2>1. /\ Active(j)' => runs'[entry'[j].op] <= Effective(j)'
        /\ Active(j)' /\ Fresh(j)' => runs'[entry'[j].op] < Effective(j)'
    BY <1>3, <1>5, <1>6, <2>e DEF Paid
  <2>2. j \in Queued' => crashes'[j] = 0 BY <1>3 DEF Paid
  <2>3. \A c \in Consumers :
          loop'[c].id = j /\ loop'[c].pc \in {"yield", "bury", "bury_ack"} =>
            loop'[c].attempt = Effective(j)'
    BY <1>1, <2>e DEF Paid, Yielding
  <2>4. \A c \in Consumers : loop'[c].id = j /\ loop'[c].pc = "requeue" => crashes'[j] = 0
    BY <1>1, <1>3 DEF Paid
  <2>5. \A h \in Handles : hnd'[h].id = j /\ Working(h)' => hnd'[h].attempt = Effective(j)'
    BY <1>2, <2>e DEF Paid
  <2> QED BY <2>1, <2>2, <2>3, <2>4, <2>5 DEF Paid
<1> QED BY <1>4, <1>5, <1>6, <1>7, <1>8

\* Entries outside S are eased, those in S are shown by the action at hand.
LEMMA RunStep ==
  ASSUME RunInv, NEW S \in SUBSET Ids, UNCHANGED setup,
         \A j \in Ids \ S : Eases(j),
         \A p \in Ops : slow'[p] = 0 => slow[p] = 0,
         DueShape', \A p \in Ops \ sent' : runs'[p] = 0,
         \A p \in Ops : slow'[p] = 0 => runs'[p] <= setup.adapterMax,
         \A p \in Ops : slow'[p] = 0 =>
           \/ runs'[p] = runs[p]
           \/ \A j \in Ids \ S : ~(Active(j) /\ entry[j].op = p),
         \A i \in S, p \in Ops : slow'[p] = 0 /\ entry'[i].op = p =>
           /\ Exclusive(i)' /\ Paid(i)'
           /\ Active(i)' => \/ Active(i) /\ entry[i].op = p
                            \/ \A j \in Ids : Active(j)' /\ entry'[j].op = p => j = i
  PROVE  RunInv'
<1>1. ASSUME NEW p \in Ops, slow'[p] = 0 PROVE Undisturbed(p)'
  <2>1. Undisturbed(p) BY <1>1 DEF RunInv
  <2>2. \A j \in Ids \ S : entry'[j].op = p /\ Active(j)' => Active(j) /\ entry[j].op = p
    BY EasesKept DEF Eases
  <2>3. \A j \in Ids \ S : entry'[j].op = p => Exclusive(j)' /\ Paid(j)'
    <3> SUFFICES ASSUME NEW j \in Ids \ S, entry'[j].op = p PROVE Exclusive(j)' /\ Paid(j)' OBVIOUS
    <3>1. entry[j].op = p /\ Exclusive(j) /\ Paid(j) BY <2>1 DEF Undisturbed, Eases
    <3>2. Active(j)' => runs'[entry[j].op] = runs[entry[j].op] BY <1>1, <2>2, <3>1
    <3> QED BY <3>1, <3>2, EasesKept
  <2>4. \A i, j \in Ids :
          Active(i)' /\ Active(j)' /\ entry'[i].op = p /\ entry'[j].op = p => i = j
    <3> SUFFICES ASSUME NEW i \in Ids, NEW j \in Ids, Active(i)', Active(j)',
                        entry'[i].op = p, entry'[j].op = p, i # j
                 PROVE  FALSE
      OBVIOUS
    <3>1. Active(i) /\ entry[i].op = p BY <1>1, <2>2
    <3>2. Active(j) /\ entry[j].op = p BY <1>1, <2>2
    <3> QED BY <2>1, <3>1, <3>2 DEF Undisturbed
  <2>5. \A i \in Ids : entry'[i].op = p => Exclusive(i)' /\ Paid(i)' BY <1>1, <2>3
  <2>6. runs'[p] <= setup'.adapterMax BY <1>1
  <2> QED BY <2>4, <2>5, <2>6 DEF Undisturbed
<1> QED BY <1>1 DEF RunInv

\* Steps after which every entry is eased and no run was started.
LEMMA EasedKept ==
  ASSUME RunInv, UNCHANGED <<setup, sent, slow, runs>>, \A j \in Ids : Eases(j), DueShape'
  PROVE  RunInv'
<1>1. \A p \in Ops : slow'[p] = 0 => runs'[p] <= setup.adapterMax BY DEF RunInv, Undisturbed
<1>2. \A p \in Ops \ sent' : runs'[p] = 0 BY DEF RunInv
<1>3. PICK S \in SUBSET Ids : S = {} OBVIOUS
<1>4. \A i \in S, p \in Ops : slow'[p] = 0 /\ entry'[i].op = p =>
        /\ Exclusive(i)' /\ Paid(i)'
        /\ Active(i)' => \/ Active(i) /\ entry[i].op = p
                         \/ \A j \in Ids : Active(j)' /\ entry'[j].op = p => j = i
  BY <1>3
<1>5. \A p \in Ops : slow'[p] = 0 => slow[p] = 0 OBVIOUS
<1>6. \A p \in Ops : slow'[p] = 0 =>
        runs'[p] = runs[p] \/ \A j \in Ids \ S : ~(Active(j) /\ entry[j].op = p)
  OBVIOUS
<1> QED BY <1>1, <1>2, <1>3, <1>4, <1>5, <1>6, RunStep

LEMMA DueStep ==
  ASSUME DueShape, due \subseteq due', \A i \in Ids : crashes'[i] = crashes[i],
         \A c \in Consumers : \/ loop'[c] = loop[c]
                              \/ loop'[c].pc \notin {"count", "yield", "bury", "bury_ack"}
                              \/ loop'[c].id \in due,
         \A h \in Handles : hnd'[h] = hnd[h] \/ hnd'[h].pc = "free" \/ hnd'[h].id \in due
  PROVE  DueShape'
BY DEF DueShape

LEMMA BecomeDueRuns == ASSUME LossInv, RunInv, NEW i \in Ids, BecomeDue(i) PROVE RunInv'
<1>1. UNCHANGED <<entry, queue, pel, trimmed, crashes, dlq, loop, hnd, setup, history>>
      /\ due' = due \cup {i}
  BY DEF BecomeDue
<1>2. DueShape' BY <1>1, DueStep DEF RunInv
<1>3. \A j \in Ids : Eases(j) BY <1>1 DEF Eases, LoopEases, HandleEases, Queued, Once
<1> QED BY <1>1, <1>2, <1>3, EasedKept DEF history

LEMMA TrimRuns == ASSUME LossInv, RunInv, NEW i \in Ids, Trim(i) PROVE RunInv'
<1>1. UNCHANGED <<entry, pel, due, crashes, dlq, loop, hnd, setup, sent, faults, done, failed, slow, runs>>
  BY DEF Trim
<1>2. DueShape' BY <1>1, DueStep DEF RunInv
<1>3. \A j \in Ids : (j \in Queued' => j \in Queued) /\ (Once(queue, j) => Once(queue', j))
  <2>1. CASE \E n \in DOMAIN queue : queue[n] = i /\ queue' = RemoveAt(queue, n)
    BY <2>1, RemoveEffect DEF LossInv
  <2>2. CASE UNCHANGED queue BY <2>2 DEF Queued
  <2> QED BY <2>1, <2>2 DEF Trim
<1>4. \A j \in Ids : Eases(j) BY <1>1, <1>3 DEF Eases, LoopEases, HandleEases
<1> QED BY <1>1, <1>2, <1>4, EasedKept

LEMMA VanishRuns ==
  ASSUME LossInv, RunInv, NEW c \in Consumers, NEW l \in {"stopping", "down"}, Vanish(c, l) PROVE RunInv'
<1>1. /\ UNCHANGED <<entry, queue, pel, due, trimmed, crashes, dlq, setup, sent, slow, runs>>
      /\ loop' = [loop EXCEPT ![c] = AtRest(l)]
      /\ hnd' = [h \in Handles |-> IF hnd[h].owner = c THEN NoHandle ELSE hnd[h]]
  BY DEF Vanish, streamVars
<1>2. /\ loop'[c].id = Nil /\ loop'[c].pc = l /\ \A d \in Consumers \ {c} : loop'[d] = loop[d]
  BY <1>1 DEF LossInv, TypeOK, AtRest
<1>3. \A h \in Handles : hnd'[h] = hnd[h] \/ (hnd'[h].id = Nil /\ hnd'[h].pc = "free")
  BY <1>1 DEF NoHandle
<1>4. DueShape' BY <1>1, <1>2, <1>3, DueStep DEF RunInv
<1>5. \A j \in Ids : Eases(j)
  BY <1>1, <1>2, <1>3, BrokerAssumption DEF Eases, LoopEases, HandleEases, Queued
<1> QED BY <1>1, <1>4, <1>5, EasedKept

\* A loop that puts down its entry, or goes on with its burial.
LEMMA DeregisterRuns == ASSUME LossInv, RunInv, NEW c \in Consumers, Deregister(c) \/ Restart(c) PROVE RunInv'
<1>1. /\ UNCHANGED <<entry, queue, due, crashes, hnd, setup, sent, slow, runs>>
      /\ \E l \in {"down", "poll"} : Loop(c, l, Nil, 0)
      /\ \A i \in Ids : pel'[i] \in {pel[i], Nil}
  BY DEF Deregister, Restart, streamVars, history
<1>2. /\ loop'[c].id = Nil /\ loop'[c].pc \in {"poll", "down"} /\ \A d \in Consumers \ {c} : loop'[d] = loop[d]
  BY <1>1 DEF LossInv, TypeOK, Loop
<1>3. DueShape' BY <1>1, <1>2, DueStep DEF RunInv
<1>4. \A j \in Ids : Eases(j)
  BY <1>1, <1>2, BrokerAssumption DEF Eases, LoopEases, HandleEases, Queued
<1> QED BY <1>1, <1>3, <1>4, EasedKept

LEMMA BuryRuns == ASSUME LossInv, RunInv, NEW c \in Consumers, Bury(c) \/ BuryAck(c) PROVE RunInv'
<1>1. /\ UNCHANGED <<entry, queue, due, crashes, hnd, setup, sent, slow, runs>>
      /\ loop[c].pc \notin {"poll", "stopping", "down"}
  BY DEF Bury, BuryAck, history
<1>2. loop[c].id \in Ids /\ TypeOK BY <1>1, InLoop DEF LossInv
<1>3. \A i \in Ids : pel'[i] \in {pel[i], Nil}
  BY <1>2, AckEffect DEF Bury, BuryAck
<1>4. /\ \A d \in Consumers \ {c} : loop'[d] = loop[d]
      /\ \/ loop'[c].id = Nil /\ loop'[c].pc = "poll"
         \/ /\ loop'[c].id = loop[c].id /\ loop'[c].attempt = loop[c].attempt
            /\ \/ loop'[c].pc = "malformed_ack"
               \/ loop[c].pc \in {"bury", "bury_ack"} /\ loop'[c].pc \in {"bury_ack", "yield"}
  <2>1. CASE Bury(c) BY <1>2, <2>1 DEF Bury, TypeOK, LoopType
  <2>2. CASE BuryAck(c) BY <1>2, <2>2 DEF BuryAck, Loop, TypeOK, LoopType
  <2> QED BY <2>1, <2>2
<1>5. DueShape'
  <2>1. loop[c].pc \in {"bury", "bury_ack"} => loop[c].id \in due BY DEF RunInv, DueShape
  <2> QED BY <1>1, <1>4, <2>1, DueStep DEF RunInv
<1>6. \A j \in Ids : LoopEases(c, j) BY <1>4, BrokerAssumption DEF LoopEases, Yielding
<1>7. \A j \in Ids : Eases(j)
  BY <1>1, <1>3, <1>4, <1>6 DEF Eases, LoopEases, HandleEases, Queued
<1> QED BY <1>1, <1>5, <1>7, EasedKept

\* Handles that finish, fail or give up, acknowledging or not.
LEMMA HandleRuns ==
  ASSUME LossInv, RunInv, NEW h \in Handles,
         UNCHANGED <<entry, queue, due, crashes, loop, setup, sent, slow, runs>>,
         \A i \in Ids : pel'[i] \in {pel[i], Nil}, hnd[h].pc # "free",
         \/ Release(h)
         \/ \E l \in HandleLabels : Step(h, l) /\ (l \in {"failing", "ack", "bury_ack"} \/ (l \in {"finished", "nack"} /\ Working(h)))
  PROVE  RunInv'
<1>1. TypeOK BY DEF LossInv
<1>2. /\ \A g \in Handles \ {h} : hnd'[g] = hnd[g]
      /\ \/ hnd'[h].id = Nil /\ hnd'[h].pc = "free"
         \/ /\ hnd'[h].id = hnd[h].id /\ hnd'[h].attempt = hnd[h].attempt
            /\ hnd'[h].pc \notin {"ready", "nack_add"} /\ (Working(h)' => Working(h))
  <2>1. CASE Release(h) BY <1>1, <2>1, ReleaseEffect DEF NoHandle
  <2>2. CASE ~Release(h)
    <3>1. PICK l \in HandleLabels :
            /\ Step(h, l)
            /\ l \in {"failing", "ack", "bury_ack"} \/ (l \in {"finished", "nack"} /\ Working(h))
      BY <2>2
    <3>2. /\ hnd'[h].pc = l /\ hnd'[h].id = hnd[h].id /\ hnd'[h].attempt = hnd[h].attempt
          /\ \A g \in Handles \ {h} : hnd'[g] = hnd[g]
      BY <1>1, <3>1, StepEffect
    <3>3. Working(h)' => Working(h) BY <3>1, <3>2 DEF Working
    <3> QED BY <3>1, <3>2, <3>3
  <2> QED BY <2>1, <2>2
<1>3. hnd[h].id \in due BY DEF RunInv, DueShape
<1>4. DueShape' BY <1>2, <1>3, DueStep DEF RunInv
<1>5. \A j \in Ids : HandleEases(h, j) BY <1>2, BrokerAssumption DEF HandleEases
<1>6. \A j \in Ids : Eases(j) BY <1>2, <1>5 DEF Eases, LoopEases, HandleEases, Queued
<1> QED BY <1>4, <1>6, EasedKept

LEMMA ActiveUsed == ASSUME NEW i \in Ids, Active(i) PROVE Used(i)
BY DEF Active, Used, Held

\* An undisturbed entry: what RunInv says of it.
LEMMA Calm ==
  ASSUME RunInv, NEW i \in Ids, NEW p \in Ops, entry[i].op = p, slow[p] = 0
  PROVE  /\ Exclusive(i) /\ Paid(i) /\ runs[p] <= setup.adapterMax
         /\ \A j \in Ids : Active(i) /\ Active(j) /\ entry[j].op = p => i = j
BY DEF RunInv, Undisturbed

\* An entry that has just been added, or put back.
LEMMA NewEntry ==
  ASSUME TypeOK', NEW i \in Ids, ~Held(i)', pel'[i] = Nil, Once(queue', i), crashes'[i] = 0,
         NEW p \in Ops, entry'[i].op = p, runs'[p] < entry'[i].attempt
  PROVE  Exclusive(i)' /\ Paid(i)'
<1>1. Exclusive(i)' BY DEF Exclusive, Held
<1>2. Effective(i)' = entry'[i].attempt /\ runs'[p] \in Nat /\ entry'[i].attempt \in Nat
  BY DEF Effective, TypeOK, EntryType
<1>3. \A c \in Consumers : loop'[c].id # i BY DEF Held
<1>4. \A h \in Handles : hnd'[h].id # i BY DEF Held
<1>5. runs'[p] <= Effective(i)' /\ runs'[p] < Effective(i)' BY <1>2
<1> QED BY <1>1, <1>3, <1>4, <1>5 DEF Paid

LEMMA OnlyInLoop ==
  ASSUME NEW i \in Ids, NEW c \in Consumers, \A d \in Consumers \ {c} : loop'[d].id # i,
         \A h \in Handles : hnd'[h].id # i, i \notin Queued'
  PROVE  Exclusive(i)'
BY DEF Exclusive, Queued, Once

LEMMA OnlyInHandle ==
  ASSUME NEW i \in Ids, NEW h \in Handles, \A d \in Consumers : loop'[d].id # i,
         \A g \in Handles \ {h} : hnd'[g].id # i, i \notin Queued',
         hnd'[h].pc = "nack_add" => pel'[i] = Nil
  PROVE  Exclusive(i)'
BY DEF Exclusive, Queued, Once

LEMMA RunTaskRuns == ASSUME LossInv, RunInv, NEW p \in Ops, RunTask(p) PROVE RunInv'
<1>0. PICK i \in FreeIds : Add(i, p, 1, TRUE) BY DEF RunTask
<1>1. TypeOK /\ TypeOK' /\ i \in Ids /\ ~Used(i) BY FreeIsUnused, RunTaskKept DEF LossInv
<1>2. /\ entry'[i].op = p /\ entry'[i].attempt = 1
      /\ \A j \in Ids \ {i} : entry'[j] = entry[j] /\ crashes'[j] = crashes[j]
      /\ Queued' = Queued \cup {i} /\ Once(queue', i)
      /\ \A j \in Ids \ {i} : Once(queue, j) => Once(queue', j)
      /\ due' = due \cup {i} /\ crashes'[i] = 0
  <2>1. /\ 1 \in Nat /\ entry' = [entry EXCEPT ![i] = [op |-> p, attempt |-> 1]]
        /\ queue' = Append(queue, i) /\ crashes' = [crashes EXCEPT ![i] = 0] /\ due' = due \cup {i}
    BY <1>0 DEF Add
  <2>2. i \notin Queued BY <1>1 DEF Used
  <2> QED BY <1>1, <2>1, <2>2, AddEffect
<1>3. UNCHANGED <<pel, loop, hnd, setup, slow, runs>> /\ sent' = sent \cup {p} /\ p \notin sent
  BY DEF RunTask
<1>4. ~Held(i) /\ ~Held(i)' /\ pel'[i] = Nil BY <1>1, <1>3 DEF Used, Held
<1>5. runs'[p] = 0 BY <1>3 DEF RunInv
<1>6. Exclusive(i)' /\ Paid(i)'
  <2>1. runs'[p] < entry'[i].attempt BY <1>2, <1>5
  <2> QED BY <1>1, <1>2, <1>4, <2>1, NewEntry
<1>7. \A j \in Ids \ {i} : Eases(j) BY <1>2, <1>3 DEF Eases, LoopEases, HandleEases
<1>8. \A j \in Ids : Active(j)' /\ entry'[j].op = p => j = i
  <2> SUFFICES ASSUME NEW j \in Ids \ {i}, Active(j)', entry'[j].op = p PROVE FALSE OBVIOUS
  <2>1. Active(j) /\ entry[j].op = p BY <1>2, <1>7, EasesKept
  <2> QED BY <1>3, <2>1, ActiveUsed DEF LossInv, Shapes, UsedWasSent
<1>9. DueShape' BY <1>2, <1>3 DEF RunInv, DueShape
<1>10. \A q \in Ops \ sent' : runs'[q] = 0 BY <1>3 DEF RunInv
<1>11. \A q \in Ops : slow'[q] = 0 => runs'[q] <= setup.adapterMax BY <1>3 DEF RunInv, Undisturbed
<1>12. PICK S \in SUBSET Ids : S = {i} BY <1>1
<1>13. \A k \in S, q \in Ops : slow'[q] = 0 /\ entry'[k].op = q =>
        /\ Exclusive(k)' /\ Paid(k)'
        /\ Active(k)' => \/ Active(k) /\ entry[k].op = q
                         \/ \A j \in Ids : Active(j)' /\ entry'[j].op = q => j = k
  BY <1>2, <1>6, <1>8, <1>12
<1> QED BY <1>3, <1>7, <1>9, <1>10, <1>11, <1>12, <1>13, RunStep

\* The common case: one entry moves, its operation stays, no run starts.
LEMMA OneMoves ==
  ASSUME LossInv, RunInv, NEW i \in Ids, UNCHANGED <<setup, sent, runs>>, entry'[i].op = entry[i].op,
         \A j \in Ids \ {i} : Eases(j), Active(i)' => Active(i), DueShape',
         \A p \in Ops : slow'[p] = 0 => slow[p] = 0,
         \A p \in Ops : slow'[p] = 0 /\ slow[p] = 0 /\ entry[i].op = p => Exclusive(i)' /\ Paid(i)'
  PROVE  RunInv'
<1>1. \A q \in Ops \ sent' : runs'[q] = 0 BY DEF RunInv
<1>2. \A q \in Ops : slow'[q] = 0 => runs'[q] <= setup.adapterMax BY DEF RunInv, Undisturbed
<1>3. PICK S \in SUBSET Ids : S = {i} OBVIOUS
<1>4. \A k \in S, q \in Ops : slow'[q] = 0 /\ entry'[k].op = q =>
        /\ Exclusive(k)' /\ Paid(k)'
        /\ Active(k)' => \/ Active(k) /\ entry[k].op = q
                         \/ \A j \in Ids : Active(j)' /\ entry'[j].op = q => j = k
  BY <1>3
<1> QED BY <1>1, <1>2, <1>3, <1>4, RunStep

LEMMA ClaimStaleRuns == ASSUME LossInv, RunInv, NEW c \in Consumers, ClaimStale(c) PROVE RunInv'
<1>1. /\ UNCHANGED <<entry, queue, due, crashes, dlq, hnd, setup, sent, faults, trims, done, failed, runs>>
      /\ loop[c].pc = "poll"
  BY DEF ClaimStale
<1>2. TypeOK /\ TypeOK' /\ UNCHANGED Queued BY <1>1, ClaimStaleKept DEF LossInv, Queued
<1>3. PICK i \in Ids, n \in {0, 1} :
        /\ pel[i] # Nil
        /\ \/ Acknowledge(i) /\ Lose({entry[i].op}, "trimmed") /\ UNCHANGED <<loop, slow>>
           \/ /\ pel' = [pel EXCEPT ![i] = c]
              /\ Loop(c, IF i \notin due THEN "requeue"
                         ELSE IF entry[i].op \in setup.malformed THEN "malformed"
                         ELSE "count", i, entry[i].attempt)
              /\ slow' \in [Ops -> Nat] /\ slow'[entry[i].op] = slow[entry[i].op] + n
              /\ \A p \in Ops \ {entry[i].op} : slow'[p] = slow[p]
              /\ n = 0 => ~Held(i)
              /\ UNCHANGED <<trimmed, lost>>
  BY ClaimCases
<1>4. CASE Acknowledge(i) /\ UNCHANGED <<loop, slow>>
  <2>1. \A j \in Ids : pel'[j] \in {pel[j], Nil} BY <1>2, <1>4, AckEffect
  <2>2. \A j \in Ids : Eases(j) BY <1>1, <1>2, <1>4, <2>1 DEF Eases, LoopEases, HandleEases
  <2>3. DueShape' BY <1>1, <1>4, DueStep DEF RunInv
  <2> QED BY <1>1, <1>4, <2>2, <2>3, EasedKept
<1>5. CASE /\ pel' = [pel EXCEPT ![i] = c]
           /\ Loop(c, IF i \notin due THEN "requeue"
                      ELSE IF entry[i].op \in setup.malformed THEN "malformed"
                      ELSE "count", i, entry[i].attempt)
           /\ slow' \in [Ops -> Nat] /\ slow'[entry[i].op] = slow[entry[i].op] + n
           /\ \A p \in Ops \ {entry[i].op} : slow'[p] = slow[p]
           /\ n = 0 => ~Held(i)
  <2>1. PICK l \in {"requeue", "malformed", "count"} :
          /\ Loop(c, l, i, entry[i].attempt)
          /\ l = "requeue" => i \notin due
          /\ l = "count" => i \in due
    BY <1>5
  <2>2. /\ loop'[c].pc = l /\ loop'[c].id = i /\ \A d \in Consumers \ {c} : loop'[d] = loop[d]
    <3>1. l \in LoopLabels /\ i \in Ids \cup {Nil} BY DEF LoopLabels
    <3>2. entry[i].attempt \in Nat BY <1>2, EntryTypes
    <3> QED BY <1>2, <2>1, <3>1, <3>2, LoopEffect
  <2>3. \A j \in Ids \ {i} : pel'[j] = pel[j] BY <1>5 DEF LossInv, TypeOK
  <2>4. \A j \in Ids \ {i} : Eases(j)
    BY <1>1, <1>2, <2>2, <2>3 DEF Eases, LoopEases, HandleEases
  <2>5. entry[i].op \in Ops BY <1>3 DEF LossInv, Shapes, UsedWasSent, Used, TypeOK
  <2>6. \A p \in Ops : slow'[p] = 0 => slow[p] = 0 /\ (p = entry[i].op => n = 0)
    <3>1. slow \in [Ops -> Nat] /\ n \in Nat BY <1>2 DEF TypeOK
    <3>2. slow[entry[i].op] + n = 0 => slow[entry[i].op] = 0 /\ n = 0 BY <2>5, <3>1
    <3> QED BY <1>5, <3>2
  <2>7. Active(i) BY <1>3 DEF Active
  <2>8. DueShape' BY <1>1, <2>1, <2>2, DueStep DEF RunInv
  <2>9. ASSUME NEW p \in Ops, slow'[p] = 0, slow[p] = 0, entry[i].op = p PROVE Exclusive(i)' /\ Paid(i)'
    <3>1. Exclusive(i) /\ Paid(i) /\ ~Held(i) BY <1>5, <2>6, <2>9, Calm
    <3>2. i \notin Queued' BY <1>2, <1>3, <3>1 DEF Exclusive
    <3>3. /\ \A d \in Consumers \ {c} : loop'[d].id # i
          /\ \A h \in Handles : hnd'[h].id # i
      BY <1>1, <2>2, <3>1 DEF Held
    <3>4. Exclusive(i)' BY <3>2, <3>3, OnlyInLoop
    <3>5. Effective(i)' = Effective(i) /\ entry'[i].op = p BY <1>1, <2>9 DEF Effective
    <3>6. Fresh(i)' => Fresh(i) BY <1>1, <2>1, <2>2, <3>2, <3>3 DEF Fresh
    <3>7. l = "requeue" => crashes'[i] = 0 BY <1>1, <2>1 DEF RunInv, DueShape
    <3>8. /\ runs'[p] <= Effective(i)' /\ (Fresh(i)' => runs'[p] < Effective(i)')
      BY <1>1, <2>7, <2>9, <3>1, <3>5, <3>6 DEF Paid
    <3> QED BY <2>1, <2>2, <3>2, <3>3, <3>4, <3>5, <3>7, <3>8 DEF Paid
  <2> QED BY <1>1, <2>4, <2>6, <2>7, <2>8, <2>9, OneMoves
<1> QED BY <1>3, <1>4, <1>5

LEMMA ReadNewRuns == ASSUME LossInv, RunInv, NEW c \in Consumers, ReadNew(c) PROVE RunInv'
<1>1. /\ UNCHANGED <<entry, due, trimmed, crashes, dlq, hnd, setup, sent, slow, runs>>
      /\ loop[c].pc = "poll" /\ queue # <<>> /\ queue' = Tail(queue)
      /\ pel' = [pel EXCEPT ![Head(queue)] = c]
  BY DEF ReadNew, history
<1>2. TypeOK /\ queue \in Seq(Ids) BY DEF LossInv, TypeOK
<1>3. PICK i \in Ids : /\ i = Head(queue) /\ 1 \in DOMAIN queue /\ i = queue[1]
                       /\ queue' = RemoveAt(queue, 1)
  BY <1>1, <1>2, TailElems
<1>4. /\ Queued' \subseteq Queued /\ Queued \subseteq Queued' \cup {i} /\ i \in Queued
      /\ Once(queue, i) => i \notin Queued'
      /\ \A j \in Ids : Once(queue, j) => Once(queue', j)
  BY <1>2, <1>3, RemoveEffect
<1>5. PICK l \in {"requeue", "malformed", "yield"} :
        /\ Loop(c, l, i, entry[i].attempt)
        /\ l = "requeue" => i \notin due
        /\ l = "yield" => i \in due
  BY <1>3 DEF ReadNew
<1>6. /\ loop'[c].pc = l /\ loop'[c].id = i /\ loop'[c].attempt = entry[i].attempt
      /\ \A d \in Consumers \ {c} : loop'[d] = loop[d]
  <2>1. l \in LoopLabels /\ i \in Ids \cup {Nil} BY DEF LoopLabels
  <2>2. entry[i].attempt \in Nat BY <1>2, EntryTypes
  <2> QED BY <1>2, <1>5, <2>1, <2>2, LoopEffect
<1>7. \A j \in Ids \ {i} : pel'[j] = pel[j] BY <1>1, <1>2, <1>3 DEF TypeOK
<1>8. \A j \in Ids \ {i} : Eases(j) BY <1>1, <1>4, <1>6, <1>7 DEF Eases, LoopEases, HandleEases
<1>9. DueShape' BY <1>1, <1>5, <1>6, DueStep DEF RunInv
<1>10. Active(i) BY <1>4 DEF Active
<1>11. ASSUME NEW p \in Ops, slow[p] = 0, entry[i].op = p PROVE Exclusive(i)' /\ Paid(i)'
  <2>1. Exclusive(i) /\ Paid(i) BY <1>11, Calm
  <2>2. ~Held(i) /\ i \notin Queued' BY <1>4, <2>1 DEF Exclusive
  <2>3. /\ \A d \in Consumers \ {c} : loop'[d].id # i
        /\ \A h \in Handles : hnd'[h].id # i
    BY <1>1, <1>6, <2>2 DEF Held
  <2>4. Exclusive(i)' BY <2>2, <2>3, OnlyInLoop
  <2>5. crashes'[i] = 0 /\ Effective(i)' = Effective(i) /\ Effective(i) = entry[i].attempt /\ entry'[i].op = p
    <3>1. crashes[i] = 0 BY <1>4, <2>1 DEF Paid
    <3>2. entry[i].attempt \in Nat BY <1>2, EntryTypes
    <3> QED BY <1>1, <1>11, <3>1, <3>2 DEF Effective
  <2>6. runs'[p] <= Effective(i)' /\ runs'[p] < Effective(i)'
    BY <1>1, <1>4, <1>10, <1>11, <2>1, <2>5 DEF Paid, Fresh
  <2> QED BY <1>6, <2>2, <2>3, <2>4, <2>5, <2>6 DEF Paid
<1> QED BY <1>1, <1>8, <1>9, <1>10, <1>11, OneMoves

LEMMA RequeueNotDueRuns == ASSUME LossInv, RunInv, NEW c \in Consumers, RequeueNotDue(c) PROVE RunInv'
<1>1. /\ UNCHANGED <<entry, due, dlq, hnd, setup, sent, slow, runs>> /\ loop[c].pc = "requeue"
      /\ Loop(c, "poll", Nil, 0)
  BY DEF RequeueNotDue, history
<1>2. TypeOK /\ TypeOK' /\ queue \in Seq(Ids) BY RequeueNotDueKept DEF LossInv, TypeOK
<1>3. PICK i \in Ids : i = loop[c].id BY <1>1, InLoop
<1>4. /\ queue' = Append(queue, i) /\ Acknowledge(i) /\ crashes' = [crashes EXCEPT ![i] = 0]
  BY <1>3 DEF RequeueNotDue
<1>5. /\ Queued' = Queued \cup {i} /\ (i \notin Queued => Once(queue', i))
      /\ \A j \in Ids \ {i} : Once(queue, j) => Once(queue', j)
  <2>1. /\ Elems(queue') = Elems(queue) \cup {i} /\ (i \notin Elems(queue) => Once(queue', i))
        /\ \A j \in Ids \ {i} : Once(queue, j) => Once(queue', j)
    BY <1>2, <1>4, AppendElems
  <2> QED BY <2>1 DEF Queued, Elems
<1>6. loop'[c].pc = "poll" /\ loop'[c].id = Nil /\ \A d \in Consumers \ {c} : loop'[d] = loop[d]
  BY <1>1, <1>2 DEF Loop, TypeOK
<1>7. /\ pel'[i] = Nil /\ (\A j \in Ids \ {i} : pel'[j] = pel[j] /\ crashes'[j] = crashes[j])
      /\ crashes'[i] = 0
  BY <1>2, <1>4, AckEffect DEF TypeOK
<1>8. \A j \in Ids \ {i} : Eases(j)
  BY <1>1, <1>5, <1>6, <1>7, BrokerAssumption DEF Eases, LoopEases, HandleEases
<1>9. DueShape' BY <1>1, <1>6, <1>7 DEF RunInv, DueShape
<1>10. Active(i) BY <1>3 DEF Active
<1>11. ASSUME NEW p \in Ops, slow[p] = 0, entry[i].op = p PROVE Exclusive(i)' /\ Paid(i)'
  <2>1. Exclusive(i) /\ Paid(i) BY <1>11, Calm
  <2>2. i \notin Queued BY <1>3, <2>1 DEF Exclusive, Held
  <2>3. ~Held(i)'
    BY <1>1, <1>3, <1>6, <2>1, BrokerAssumption DEF Held, Exclusive
  <2>4. runs'[p] < entry'[i].attempt
    <3>1. Fresh(i) /\ crashes[i] = 0 BY <1>1, <1>3, <2>1 DEF Fresh, Paid
    <3>2. entry[i].attempt \in Nat BY <1>2, EntryTypes
    <3>3. Effective(i) = entry[i].attempt BY <3>1, <3>2 DEF Effective
    <3> QED BY <1>1, <1>10, <1>11, <2>1, <3>1, <3>3 DEF Paid
  <2> QED BY <1>1, <1>2, <1>5, <1>7, <1>11, <2>2, <2>3, <2>4, NewEntry
<1> QED BY <1>1, <1>8, <1>9, <1>10, <1>11, OneMoves

LEMMA CountClaimRuns == ASSUME LossInv, RunInv, NEW c \in Consumers, CountClaim(c) PROVE RunInv'
<1>1. /\ UNCHANGED <<entry, queue, pel, due, trimmed, dlq, hnd, setup, sent, slow, runs>> /\ loop[c].pc = "count"
  BY DEF CountClaim, history
<1>2. TypeOK /\ UNCHANGED Queued BY <1>1 DEF LossInv, Queued
<1>3. PICK i \in Ids : i = loop[c].id BY <1>1, InLoop
<1>t. crashes[i] \in Nat /\ entry[i].attempt \in Nat BY <1>2, EntryTypes DEF TypeOK
<1>4. PICK l \in {"bury", "yield"} : Loop(c, l, i, entry[i].attempt + crashes[i] + 1)
  BY <1>3 DEF CountClaim
<1>5. crashes'[i] = crashes[i] + 1 /\ \A j \in Ids \ {i} : crashes'[j] = crashes[j]
  BY <1>2, <1>3 DEF CountClaim, TypeOK
<1>6. /\ loop'[c].pc = l /\ loop'[c].id = i /\ loop'[c].attempt = entry[i].attempt + crashes[i] + 1
      /\ \A d \in Consumers \ {c} : loop'[d] = loop[d]
  <2>1. l \in LoopLabels /\ i \in Ids \cup {Nil} BY DEF LoopLabels
  <2>2. entry[i].attempt + crashes[i] + 1 \in Nat BY <1>t
  <2> QED BY <1>2, <1>4, <2>1, <2>2, LoopEffect
<1>7. i \in due BY <1>1, <1>3 DEF RunInv, DueShape
<1>8. \A j \in Ids \ {i} : Eases(j)
  BY <1>1, <1>2, <1>5, <1>6 DEF Eases, LoopEases, HandleEases
<1>9. DueShape' BY <1>1, <1>5, <1>6, <1>7 DEF RunInv, DueShape
<1>10. Active(i) BY <1>3 DEF Active
<1>11. ASSUME NEW p \in Ops, slow[p] = 0, entry[i].op = p PROVE Exclusive(i)' /\ Paid(i)'
  <2>1. Exclusive(i) /\ Paid(i) BY <1>11, Calm
  <2>2. i \notin Queued' BY <1>2, <1>3, <2>1 DEF Exclusive, Held
  <2>3. /\ \A d \in Consumers \ {c} : loop'[d].id # i
        /\ \A h \in Handles : hnd'[h].id # i
    BY <1>1, <1>3, <1>6, <2>1 DEF Exclusive
  <2>4. Exclusive(i)' BY <2>2, <2>3, OnlyInLoop
  <2>5. Effective(i)' = loop'[c].attempt /\ entry'[i].op = p
    BY <1>1, <1>5, <1>6, <1>11, <1>t DEF Effective
  <2>6. runs'[p] <= Effective(i)' /\ runs'[p] < Effective(i)'
    <3>1. runs[p] <= Effective(i) BY <1>10, <1>11, <2>1 DEF Paid
    <3>2. runs[p] \in Nat BY <1>2 DEF TypeOK
    <3> QED BY <1>1, <1>5, <1>t, <3>1, <3>2 DEF Effective
  <2> QED BY <1>4, <1>6, <2>2, <2>3, <2>4, <2>5, <2>6 DEF Paid
<1> QED BY <1>1, <1>8, <1>9, <1>10, <1>11, OneMoves

\* An error while an entry is claimed starts nothing; a crash that was counted
\* all the same only pays for more.
LEMMA ClaimRaisesRuns == ASSUME LossInv, RunInv, NEW c \in Consumers, ClaimRaises(c) PROVE RunInv'
<1>1. /\ UNCHANGED <<entry, queue, due, hnd, setup, sent, slow, runs>>
      /\ TypeOK' /\ loop[c].pc \in {"count", "bury", "bury_ack"}
      /\ loop'[c].id = loop[c].id /\ loop'[c].attempt = loop[c].attempt
      /\ loop'[c].pc = "malformed" /\ \A d \in Consumers \ {c} : loop'[d] = loop[d]
      /\ \A j \in Ids : pel'[j] \in {pel[j], Nil}
  BY ClaimRaisesEffect
<1>2. PICK i \in Ids : i = loop[c].id BY ClaimRaisesEffect
<1>3. /\ \A j \in Ids \ {i} : crashes'[j] = crashes[j]
      /\ crashes' = crashes \/ (crashes'[i] = crashes[i] + 1 /\ UNCHANGED pel)
  BY <1>2, ClaimRaisesEffect
<1>4. TypeOK /\ UNCHANGED Queued BY <1>1 DEF LossInv, Queued
<1>5. \A j \in Ids : LoopEases(c, j) BY <1>1 DEF LoopEases, Yielding
<1>6. \A j \in Ids : crashes'[j] = crashes[j] => Eases(j)
  BY <1>1, <1>4, <1>5 DEF Eases, LoopEases, HandleEases
<1>7. CASE crashes' = crashes
  <2>1. DueShape' BY <1>1, <1>7, DueStep DEF RunInv
  <2> QED BY <1>1, <1>6, <1>7, <2>1, EasedKept
<1>8. CASE crashes'[i] = crashes[i] + 1 /\ UNCHANGED pel
  <2>1. i \in due BY <1>1, <1>2 DEF RunInv, DueShape
  <2>2. DueShape' BY <1>1, <1>3, <2>1 DEF RunInv, DueShape
  <2>3. \A j \in Ids \ {i} : Eases(j) BY <1>3, <1>6
  <2>4. Active(i) BY <1>2 DEF Active
  <2>t. crashes[i] \in Nat /\ entry[i].attempt \in Nat BY <1>4, EntryTypes DEF TypeOK
  <2>5. ASSUME NEW p \in Ops, slow[p] = 0, entry[i].op = p PROVE Exclusive(i)' /\ Paid(i)'
    <3>1. Exclusive(i) /\ Paid(i) BY <2>5, Calm
    <3>2. i \notin Queued' BY <1>2, <1>4, <3>1 DEF Exclusive, Held
    <3>3. /\ \A d \in Consumers \ {c} : loop'[d].id # i
          /\ \A h \in Handles : hnd'[h].id # i
      BY <1>1, <1>2, <3>1 DEF Exclusive
    <3>4. Exclusive(i)' BY <3>2, <3>3, OnlyInLoop
    <3>5. runs'[p] <= Effective(i)' /\ runs'[p] < Effective(i)' /\ entry'[i].op = p
      <4>1. runs[p] <= Effective(i) BY <2>4, <2>5, <3>1 DEF Paid
      <4>2. runs[p] \in Nat BY <1>4 DEF TypeOK
      <4> QED BY <1>1, <1>8, <2>5, <2>t, <4>1, <4>2 DEF Effective
    <3> QED BY <1>1, <3>2, <3>3, <3>4, <3>5 DEF Paid
  <2> QED BY <1>1, <2>2, <2>3, <2>4, <2>5, OneMoves
<1> QED BY <1>3, <1>7, <1>8

LEMMA ReceiveRaisesRuns == ASSUME LossInv, RunInv, NEW c \in Consumers, ReceiveRaises(c) PROVE RunInv'
<1>1. /\ UNCHANGED <<entry, queue, pel, due, crashes, hnd, setup, sent, slow, runs>> /\ Loop(c, "poll", Nil, 0)
  BY DEF ReceiveRaises
<1>2. /\ loop'[c].id = Nil /\ loop'[c].pc = "poll" /\ \A d \in Consumers \ {c} : loop'[d] = loop[d]
  BY <1>1 DEF LossInv, TypeOK, Loop
<1>3. DueShape' BY <1>1, <1>2, DueStep DEF RunInv
<1>4. \A j \in Ids : Eases(j)
  BY <1>1, <1>2, BrokerAssumption DEF Eases, LoopEases, HandleEases, Queued
<1> QED BY <1>1, <1>3, <1>4, EasedKept

LEMMA DispatchRuns == ASSUME LossInv, RunInv, NEW c \in Consumers, Dispatch(c) PROVE RunInv'
<1>1. /\ UNCHANGED <<entry, queue, pel, due, trimmed, crashes, dlq, setup, sent, slow, runs>>
      /\ loop[c].pc = "yield" /\ Loop(c, "poll", Nil, 0)
  BY DEF Dispatch, streamVars, history
<1>2. TypeOK /\ UNCHANGED Queued BY <1>1 DEF LossInv, Queued
<1>3. PICK i \in Ids : i = loop[c].id BY <1>1, InLoop
<1>4. PICK h \in Handles :
        /\ hnd[h] = NoHandle
        /\ hnd' = [hnd EXCEPT ![h] = [pc |-> "ready", owner |-> c, id |-> i, op |-> entry[i].op,
                                     attempt |-> loop[c].attempt]]
  BY <1>3 DEF Dispatch
<1>5. /\ hnd'[h].pc = "ready" /\ hnd'[h].id = i /\ hnd'[h].attempt = loop[c].attempt
      /\ \A g \in Handles \ {h} : hnd'[g] = hnd[g]
  BY <1>2, <1>4 DEF TypeOK
<1>6. loop'[c].id = Nil /\ loop'[c].pc = "poll" /\ \A d \in Consumers \ {c} : loop'[d] = loop[d]
  BY <1>1, <1>2 DEF Loop, TypeOK
<1>7. i \in due BY <1>1, <1>3 DEF RunInv, DueShape
<1>8. \A j \in Ids \ {i} : Eases(j)
  BY <1>1, <1>2, <1>5, <1>6, BrokerAssumption DEF Eases, LoopEases, HandleEases
<1>9. DueShape' BY <1>1, <1>5, <1>6, <1>7, DueStep DEF RunInv
<1>10. Active(i) BY <1>3 DEF Active
<1>11. ASSUME NEW p \in Ops, slow[p] = 0, entry[i].op = p PROVE Exclusive(i)' /\ Paid(i)'
  <2>1. Exclusive(i) /\ Paid(i) BY <1>11, Calm
  <2>2. i \notin Queued' BY <1>2, <1>3, <2>1 DEF Exclusive, Held
  <2>3. /\ \A d \in Consumers : loop'[d].id # i
        /\ \A g \in Handles \ {h} : hnd'[g].id # i
    BY <1>3, <1>5, <1>6, <2>1, BrokerAssumption DEF Exclusive
  <2>4. Exclusive(i)' BY <1>5, <2>2, <2>3, OnlyInHandle
  <2>5. Effective(i)' = Effective(i) /\ entry'[i].op = p /\ hnd'[h].attempt = Effective(i)
    BY <1>1, <1>3, <1>5, <1>11, <2>1 DEF Effective, Paid
  <2>6. runs'[p] <= Effective(i)' /\ runs'[p] < Effective(i)'
    BY <1>1, <1>3, <1>10, <1>11, <2>1, <2>5 DEF Paid, Fresh
  <2> QED BY <1>5, <2>2, <2>3, <2>4, <2>5, <2>6 DEF Paid
<1> QED BY <1>1, <1>8, <1>9, <1>10, <1>11, OneMoves

\* An entry in the hands of a working handle is nowhere else but in a pending
\* list, and has reached its delivery.
LEMMA InOneHandle ==
  ASSUME LossInv, RunInv, NEW h \in Handles, NEW i \in Ids, hnd[h].id = i, Exclusive(i)
  PROVE  /\ i \notin Queued /\ (\A d \in Consumers : loop[d].id # i)
         /\ \A g \in Handles \ {h} : hnd[g].id # i
         /\ hnd[h].pc # "free" => i \in due
BY DEF Exclusive, Held, RunInv, DueShape

LEMMA NackAckRuns == ASSUME LossInv, RunInv, NEW h \in Handles, NackAck(h) PROVE RunInv'
<1>1. /\ UNCHANGED <<entry, queue, due, crashes, dlq, loop, setup, sent, slow, runs>>
      /\ hnd[h].pc = "nack" /\ Step(h, "nack_add") /\ "nack_add" \in HandleLabels
  BY DEF NackAck, history, HandleLabels
<1>2. TypeOK /\ UNCHANGED Queued BY <1>1 DEF LossInv, Queued
<1>3. PICK i \in Ids : i = hnd[h].id /\ Acknowledge(i) BY <1>1, InUse DEF NackAck
<1>4. /\ hnd'[h].pc = "nack_add" /\ hnd'[h].id = i /\ hnd'[h].attempt = hnd[h].attempt
      /\ \A g \in Handles \ {h} : hnd'[g] = hnd[g]
  BY <1>1, <1>2, <1>3, StepEffect
<1>5. pel'[i] = Nil /\ \A j \in Ids \ {i} : pel'[j] = pel[j] BY <1>2, <1>3, AckEffect
<1>6. \A j \in Ids \ {i} : Eases(j)
  BY <1>1, <1>2, <1>4, <1>5 DEF Eases, LoopEases, HandleEases
<1>7. DueShape'
  <2>1. i \in due BY <1>1, <1>3 DEF RunInv, DueShape
  <2> QED BY <1>1, <1>4, <2>1, DueStep DEF RunInv
<1>8. Active(i) BY <1>1, <1>3 DEF Active, Working
<1>9. ASSUME NEW p \in Ops, slow[p] = 0, entry[i].op = p PROVE Exclusive(i)' /\ Paid(i)'
  <2>1. Exclusive(i) /\ Paid(i) BY <1>9, Calm
  <2>2. /\ i \notin Queued' /\ (\A d \in Consumers : loop'[d].id # i) /\ i \in due'
        /\ \A g \in Handles \ {h} : hnd'[g].id # i
    BY <1>1, <1>2, <1>3, <1>4, <2>1, InOneHandle
  <2>3. Exclusive(i)' BY <1>5, <2>2, OnlyInHandle
  <2>4. Effective(i)' = Effective(i) /\ entry'[i].op = p /\ hnd'[h].attempt = Effective(i)
    BY <1>1, <1>3, <1>4, <1>9, <2>1 DEF Effective, Paid, Working
  <2>5. ~Fresh(i)' BY <1>4, <2>2 DEF Fresh
  <2>6. runs'[p] <= Effective(i)' BY <1>1, <1>8, <1>9, <2>1, <2>4 DEF Paid
  <2> QED BY <1>4, <2>2, <2>3, <2>4, <2>5, <2>6 DEF Paid
<1> QED BY <1>1, <1>6, <1>7, <1>8, <1>9, OneMoves

\* User code is started: the run is paid for by the attempt of the handle.
LEMMA StartRuns == ASSUME LossInv, RunInv, NEW h \in Handles, Start(h) PROVE RunInv'
<1>1. /\ UNCHANGED <<entry, queue, pel, due, trimmed, crashes, dlq, loop, setup, sent, slow>>
      /\ hnd[h].pc = "ready"
  BY DEF Start, streamVars
<1>2. TypeOK /\ UNCHANGED Queued BY <1>1 DEF LossInv, Queued
<1>3. CASE Step(h, "failing") /\ UNCHANGED runs
  <2>1. "failing" \in HandleLabels BY DEF HandleLabels
  <2> QED BY <1>1, <1>3, <2>1, HandleRuns
<1>4. CASE /\ hnd[h].attempt <= setup.adapterMax /\ Step(h, "running")
           /\ runs' = [runs EXCEPT ![hnd[h].op] = @ + 1]
  <2>1. PICK i \in Ids, q \in Ops : i = hnd[h].id /\ q = hnd[h].op /\ entry[i].op = q /\ q \in sent
    BY <1>1, InUse
  <2>2. /\ hnd'[h].pc = "running" /\ hnd'[h].id = i /\ hnd'[h].attempt = hnd[h].attempt
        /\ \A g \in Handles \ {h} : hnd'[g] = hnd[g]
    <3>1. "running" \in HandleLabels BY DEF HandleLabels
    <3> QED BY <1>2, <1>4, <2>1, <3>1, StepEffect
  <2>3. runs'[q] = runs[q] + 1 /\ \A p \in Ops \ {q} : runs'[p] = runs[p]
    BY <1>2, <1>4, <2>1 DEF TypeOK
  <2>4. Active(i) /\ Fresh(i) BY <1>1, <2>1 DEF Active, Fresh, Working
  <2>5. \A j \in Ids \ {i} : Eases(j)
    BY <1>1, <1>2, <2>2 DEF Eases, LoopEases, HandleEases
  <2>6. DueShape'
    <3>1. i \in due BY <1>1, <2>1 DEF RunInv, DueShape
    <3> QED BY <1>1, <2>2, <3>1, DueStep DEF RunInv
  <2>7. ASSUME slow[q] = 0
        PROVE  /\ Exclusive(i)' /\ Paid(i)' /\ runs'[q] <= setup.adapterMax
               /\ \A j \in Ids \ {i} : ~(Active(j) /\ entry[j].op = q)
    <3>1. /\ Exclusive(i) /\ Paid(i)
          /\ \A j \in Ids : Active(i) /\ Active(j) /\ entry[j].op = q => i = j
      BY <2>1, <2>7, Calm
    <3>2. /\ i \notin Queued' /\ (\A d \in Consumers : loop'[d].id # i) /\ i \in due'
          /\ \A g \in Handles \ {h} : hnd'[g].id # i
      BY <1>1, <1>2, <2>1, <2>2, <3>1, InOneHandle
    <3>3. Exclusive(i)' BY <2>2, <3>2, OnlyInHandle
    <3>4. Effective(i)' = Effective(i) /\ entry'[i].op = q /\ hnd'[h].attempt = Effective(i)
      BY <1>1, <2>1, <2>2, <3>1 DEF Effective, Paid, Working
    <3>5. ~Fresh(i)' BY <2>2, <3>2 DEF Fresh
    <3>6. runs[q] < Effective(i) BY <2>1, <2>4, <3>1 DEF Paid
    <3>7. /\ runs[q] \in Nat /\ crashes[i] \in Nat /\ entry[i].attempt \in Nat
          /\ setup.adapterMax \in Nat
      BY <1>2, EntryTypes DEF TypeOK
    <3>8. Effective(i) \in Nat BY <3>7 DEF Effective
    <3>9. runs'[q] <= Effective(i) /\ runs'[q] <= setup.adapterMax
      BY <1>4, <2>2, <2>3, <3>4, <3>6, <3>7, <3>8
    <3>10. Paid(i)' BY <2>2, <3>2, <3>4, <3>5, <3>9 DEF Paid
    <3> QED BY <2>4, <3>1, <3>3, <3>9, <3>10
  <2>8. \A p \in Ops \ sent' : runs'[p] = 0 BY <1>1, <2>1, <2>3 DEF RunInv
  <2>9. \A p \in Ops : slow'[p] = 0 => runs'[p] <= setup.adapterMax
    BY <1>1, <2>3, <2>7 DEF RunInv, Undisturbed
  <2>10. PICK S \in SUBSET Ids : S = {i} OBVIOUS
  <2>11. \A k \in S, p \in Ops : slow'[p] = 0 /\ entry'[k].op = p =>
           /\ Exclusive(k)' /\ Paid(k)'
           /\ Active(k)' => \/ Active(k) /\ entry[k].op = p
                            \/ \A j \in Ids : Active(j)' /\ entry'[j].op = p => j = k
    BY <1>1, <2>1, <2>4, <2>7, <2>10
  <2>12. \A p \in Ops : slow'[p] = 0 =>
           runs'[p] = runs[p] \/ \A j \in Ids \ S : ~(Active(j) /\ entry[j].op = p)
    BY <1>1, <2>3, <2>7, <2>10
  <2> QED BY <1>1, <2>5, <2>6, <2>8, <2>9, <2>10, <2>11, <2>12, RunStep
<1> QED BY <1>3, <1>4 DEF Start

\* The retry takes the place of the entry its handle held.
LEMMA RetryRuns ==
  ASSUME LossInv, LossInv', RunInv, NEW h \in Handles, hnd[h].pc = "nack_add", NEW i \in FreeIds,
         Add(i, hnd[h].op, hnd[h].attempt + 1, FALSE), Release(h) \/ Step(h, "failing"),
         UNCHANGED <<pel, trimmed, dlq, loop, setup, history>>
  PROVE  RunInv'
<1>1. TypeOK /\ TypeOK' /\ i \in Ids /\ ~Used(i) /\ ~Held(i) /\ pel[i] = Nil /\ i \notin Queued
  BY FreeIsUnused DEF LossInv, Used
<1>2. PICK k \in Ids, q \in Ops :
        k = hnd[h].id /\ q = hnd[h].op /\ entry[k].op = q /\ hnd[h].attempt \in Nat
  BY InUse
<1>3. /\ entry'[i].op = q /\ entry'[i].attempt = hnd[h].attempt + 1
      /\ \A j \in Ids \ {i} : entry'[j] = entry[j] /\ crashes'[j] = crashes[j]
      /\ Queued' = Queued \cup {i} /\ Once(queue', i)
      /\ \A j \in Ids \ {i} : Once(queue, j) => Once(queue', j)
      /\ due' = due \ {i} /\ crashes'[i] = 0
  <2>1. PICK n \in Nat : n = hnd[h].attempt + 1 BY <1>2
  <2>2. /\ entry' = [entry EXCEPT ![i] = [op |-> q, attempt |-> n]]
        /\ queue' = Append(queue, i) /\ crashes' = [crashes EXCEPT ![i] = 0] /\ due' = due \ {i}
    BY <1>2, <2>1 DEF Add
  <2>3. /\ entry'[i].op = q /\ entry'[i].attempt = n
        /\ \A j \in Ids \ {i} : entry'[j] = entry[j] /\ crashes'[j] = crashes[j]
        /\ Queued' = Queued \cup {i} /\ Once(queue', i)
        /\ \A j \in Ids \ {i} : Once(queue, j) => Once(queue', j)
        /\ crashes'[i] = 0
    BY <1>1, <2>2, AddEffect
  <2> QED BY <2>1, <2>2, <2>3
<1>4. /\ \A g \in Handles \ {h} : hnd'[g] = hnd[g]
      /\ \/ hnd'[h].id = Nil /\ hnd'[h].pc = "free"
         \/ hnd'[h].pc = "failing" /\ hnd'[h].id = k /\ hnd'[h].attempt = hnd[h].attempt
  <2>1. "failing" \in HandleLabels BY DEF HandleLabels
  <2> QED BY <1>1, <1>2, <2>1, ReleaseEffect, StepEffect DEF NoHandle
<1>5. UNCHANGED <<pel, loop, setup, sent, slow, runs>> BY DEF history
<1>6. k # i /\ \A g \in Handles : hnd[g].id # i BY <1>1, <1>2 DEF Held
<1>7. ~Held(i)' /\ pel'[i] = Nil
  BY <1>1, <1>2, <1>4, <1>5, <1>6, BrokerAssumption DEF Held
<1>8. \A j \in Ids \ {i} : Eases(j)
  <2>1. \A j \in Ids \ {i} : HandleEases(h, j)
    BY <1>2, <1>4, BrokerAssumption DEF HandleEases, Working
  <2> QED BY <1>3, <1>4, <1>5, <2>1 DEF Eases, LoopEases, HandleEases
<1>9. DueShape'
  <2>1. \A j \in Ids : j \notin due' => crashes'[j] = 0 BY <1>3 DEF RunInv, DueShape
  <2>2. \A c \in Consumers : loop[c].id # i BY <1>1 DEF Held
  <2>3. \A c \in Consumers :
          loop'[c].pc \in {"count", "yield", "bury", "bury_ack"} => loop'[c].id \in due'
    BY <1>3, <1>5, <2>2 DEF RunInv, DueShape
  <2>4. k \in due BY <1>2 DEF RunInv, DueShape
  <2>5. \A g \in Handles : hnd'[g].pc # "free" => hnd'[g].id \in due'
    BY <1>3, <1>4, <1>6, <2>4 DEF RunInv, DueShape
  <2> QED BY <2>1, <2>3, <2>5 DEF DueShape
<1>10. ASSUME slow[q] = 0
       PROVE  /\ Exclusive(i)' /\ Paid(i)'
              /\ \A j \in Ids : Active(j)' /\ entry'[j].op = q => j = i
  <2>0. Active(k) BY <1>2 DEF Active, Working
  <2>1. /\ Exclusive(k) /\ Paid(k)
        /\ \A j \in Ids : Active(j) /\ entry[j].op = q => k = j
    BY <1>2, <1>10, <2>0, Calm
  <2>2. ~Active(k)'
    <3>1. /\ k \notin Queued /\ (\A d \in Consumers : loop[d].id # k)
          /\ (\A g \in Handles \ {h} : hnd[g].id # k)
      BY <1>2, <2>1, InOneHandle
    <3>2. pel[k] = Nil BY <1>2, <2>1 DEF Exclusive
    <3> QED BY <1>3, <1>4, <1>5, <1>6, <3>1, <3>2, BrokerAssumption DEF Active, Working
  <2>3. \A j \in Ids : Active(j)' /\ entry'[j].op = q => j = i
    <3> SUFFICES ASSUME NEW j \in Ids \ {i}, Active(j)', entry'[j].op = q PROVE FALSE OBVIOUS
    <3>1. Active(j) /\ entry[j].op = q BY <1>3, <1>8, EasesKept
    <3> QED BY <2>1, <2>2, <3>1
  <2>4. runs'[q] < entry'[i].attempt
    <3>1. hnd[h].attempt = Effective(k) BY <1>2, <2>1 DEF Paid, Working
    <3>2. runs[q] <= Effective(k) BY <1>2, <2>0, <2>1 DEF Paid
    <3>3. runs[q] \in Nat BY <1>1 DEF TypeOK
    <3> QED BY <1>2, <1>3, <1>5, <3>1, <3>2, <3>3
  <2>5. Exclusive(i)' /\ Paid(i)' BY <1>1, <1>3, <1>7, <2>4, NewEntry
  <2> QED BY <2>3, <2>5
<1>11. \A p \in Ops \ sent' : runs'[p] = 0 BY <1>5 DEF RunInv
<1>12. \A p \in Ops : slow'[p] = 0 => runs'[p] <= setup.adapterMax BY <1>5 DEF RunInv, Undisturbed
<1>13. PICK S \in SUBSET Ids : S = {i} BY <1>1
<1>14. \A n \in S, p \in Ops : slow'[p] = 0 /\ entry'[n].op = p =>
        /\ Exclusive(n)' /\ Paid(n)'
        /\ Active(n)' => \/ Active(n) /\ entry[n].op = p
                         \/ \A j \in Ids : Active(j)' /\ entry'[j].op = p => j = n
  BY <1>3, <1>5, <1>10, <1>13
<1> QED BY <1>5, <1>8, <1>9, <1>11, <1>12, <1>13, <1>14, RunStep

LEMMA SettlingRuns ==
  ASSUME LossInv, RunInv, NEW h \in Handles,
         Finish(h) \/ Raise(h) \/ NackBury(h) \/ MarkFailed(h) \/ Ack(h) \/ AckRaises(h)
  PROVE  RunInv'
<1>1. TypeOK /\ {"failing", "ack", "bury_ack", "finished", "nack"} \subseteq HandleLabels
  BY DEF LossInv, HandleLabels
<1>2. /\ UNCHANGED <<entry, queue, due, crashes, loop, setup, sent, slow, runs>> /\ hnd[h].pc # "free"
  BY DEF Finish, Raise, NackBury, MarkFailed, Ack, AckRaises, streamVars, history
<1>3. \A i \in Ids : pel'[i] \in {pel[i], Nil}
  BY <1>1, <1>2, InUse, AckEffect DEF Finish, Raise, NackBury, MarkFailed, Ack, AckRaises, streamVars
<1>4. \/ Release(h)
      \/ \E l \in {"failing", "ack", "bury_ack", "finished", "nack"} :
           Step(h, l) /\ (l \in {"finished", "nack"} => Working(h))
  BY DEF Finish, Raise, NackBury, MarkFailed, Ack, AckRaises, Working
<1>5. CASE Release(h) BY <1>2, <1>3, <1>5, HandleRuns
<1>6. CASE ~Release(h)
  <2>1. PICK l \in {"failing", "ack", "bury_ack", "finished", "nack"} :
          Step(h, l) /\ (l \in {"finished", "nack"} => Working(h))
    BY <1>4, <1>6
  <2>2. l \in HandleLabels BY <1>1
  <2> QED BY <1>2, <1>3, <2>1, <2>2, HandleRuns
<1> QED BY <1>5, <1>6

LEMMA RetriesRuns == ASSUME LossInv, RunInv, NEW h \in Handles, NackAdd(h) \/ NackRaises(h) PROVE RunInv'
<1>0. LossInv' BY NackAddKept, NackRaisesKept
<1>1. CASE /\ hnd[h].pc = "nack_add" /\ UNCHANGED <<pel, trimmed, dlq, loop, setup, history>>
           /\ \E i \in FreeIds : Add(i, hnd[h].op, hnd[h].attempt + 1, FALSE)
           /\ Release(h) \/ Step(h, "failing")
  BY <1>0, <1>1, RetryRuns
<1>2. CASE /\ hnd[h].pc \in {"nack", "nack_add", "bury_ack"} /\ Step(h, "failing")
           /\ UNCHANGED <<entry, queue, due, crashes, pel, trimmed, dlq, loop, setup, history>>
  <2>1. "failing" \in HandleLabels BY DEF HandleLabels
  <2> QED BY <1>2, <2>1, HandleRuns DEF history
<1> QED BY <1>1, <1>2 DEF NackAdd, NackRaises

LEMMA RunInit == Init => RunInv
<1> SUFFICES ASSUME Init PROVE RunInv OBVIOUS
<1>1. LossInv BY LossInit
<1>2. \A i \in Ids : entry[i].op \notin Ops BY BrokerAssumption DEF Init
<1>3. DueShape BY DEF Init, DueShape, AtRest, NoHandle
<1>4. \A p \in Ops : runs[p] = 0 /\ runs[p] <= setup.adapterMax BY <1>1 DEF Init, LossInv, TypeOK
<1> QED BY <1>2, <1>3, <1>4 DEF RunInv, Undisturbed

LEMMA RunNext == LossInv /\ RunInv /\ [Next]_vars => RunInv'
<1> SUFFICES ASSUME LossInv, RunInv, [Next]_vars PROVE RunInv' OBVIOUS
<1>1. ASSUME NEW p \in Ops, RunTask(p) PROVE RunInv' BY <1>1, RunTaskRuns
<1>2. ASSUME NEW i \in Ids, BecomeDue(i) PROVE RunInv' BY <1>2, BecomeDueRuns
<1>3. ASSUME NEW i \in Ids, Trim(i) PROVE RunInv' BY <1>3, TrimRuns
<1>4. ASSUME NEW c \in Consumers, ClaimStale(c) PROVE RunInv' BY <1>4, ClaimStaleRuns
<1>5. ASSUME NEW c \in Consumers, ReadNew(c) PROVE RunInv' BY <1>5, ReadNewRuns
<1>6. ASSUME NEW c \in Consumers, ReceiveStep(c) PROVE RunInv'
  BY <1>6, RequeueNotDueRuns, CountClaimRuns, BuryRuns, DispatchRuns, ClaimRaisesRuns,
     ReceiveRaisesRuns DEF ReceiveStep
<1>7. ASSUME NEW c \in Consumers, Kill(c) \/ Stop(c) PROVE RunInv'
  <2>1. \E l \in {"stopping", "down"} : Vanish(c, l) BY <1>7 DEF Kill, Stop
  <2> QED BY <2>1, VanishRuns
<1>8. ASSUME NEW c \in Consumers, Deregister(c) \/ Restart(c) PROVE RunInv' BY <1>8, DeregisterRuns
<1>9. ASSUME NEW h \in Handles, HandleStep(h) PROVE RunInv'
  BY <1>9, StartRuns, SettlingRuns, NackAckRuns, RetriesRuns DEF HandleStep
<1>10. ASSUME NEW h \in Handles, NackRaises(h) \/ AckRaises(h) PROVE RunInv'
  BY <1>10, RetriesRuns, SettlingRuns
<1>11. CASE UNCHANGED vars
  <2>1. UNCHANGED <<streamVars, loop, hnd, setup, history>> BY <1>11 DEF vars
  <2>2. UNCHANGED <<entry, queue, pel, due, crashes, loop, hnd, setup, sent, slow, runs>>
    BY <2>1 DEF streamVars, history
  <2>3. \A j \in Ids : Eases(j) BY <2>2 DEF Eases, LoopEases, HandleEases, Queued
  <2>4. DueShape' BY <2>2, DueStep DEF RunInv
  <2> QED BY <2>2, <2>3, <2>4, EasedKept
<1> QED BY <1>1, <1>2, <1>3, <1>4, <1>5, <1>6, <1>7, <1>8, <1>9, <1>10, <1>11 DEF Next

\* Crashes, redeliveries, retries and acknowledgements that raise never start
\* user code more often than the adapter allows, and never put two handlers on
\* one operation, unless a run outlasted the claim timeout.
THEOREM RunsAreBounded == Spec => []RunsBounded
<1>1. LossInv /\ RunInv => RunsBounded
  <2> SUFFICES ASSUME LossInv, RunInv, NEW p \in Ops, slow[p] = 0
               PROVE  /\ runs[p] <= setup.adapterMax
                      /\ \A g, h \in Handles :
                           hnd[g].op = p /\ hnd[h].op = p /\ Working(g) /\ Working(h) => g = h
    BY DEF RunsBounded
  <2>1. Undisturbed(p) BY DEF RunInv
  <2>2. ASSUME NEW g \in Handles, NEW h \in Handles, hnd[g].op = p, hnd[h].op = p, Working(g), Working(h)
        PROVE  g = h
    <3>1. hnd[g].id \in Ids /\ entry[hnd[g].id].op = p BY <2>2, InUse DEF Working
    <3>2. hnd[h].id \in Ids /\ entry[hnd[h].id].op = p BY <2>2, InUse DEF Working
    <3>3. Active(hnd[g].id) /\ Active(hnd[h].id) BY <2>2 DEF Active
    <3>4. hnd[g].id = hnd[h].id BY <2>1, <3>1, <3>2, <3>3 DEF Undisturbed
    <3> QED BY <2>1, <3>1, <3>4 DEF Undisturbed, Exclusive
  <2> QED BY <2>1, <2>2 DEF Undisturbed
<1>2. Spec => []RunInv BY RunInit, RunNext, LossInvariant, PTL DEF Spec
<1> QED BY <1>1, <1>2, LossInvariant, PTL
=============================================================================
