------------------------ MODULE MemoryEventBusProofs ------------------------
(***************************************************************************)
(* Proofs about MemoryEventBus, for any number of clients, publishers and  *)
(* events and any size of the buffers: events reach a client in the order  *)
(* of publication, and it misses only what is known to be lost.            *)
(***************************************************************************)
EXTENDS MemoryEventBus, SequenceTheorems, TLAPS

-----------------------------------------------------------------------------
(* The invariant                                                           *)

Member(s, x) == \E i \in DOMAIN s : s[i] = x
Distinct(s) == \A i, j \in DOMAIN s : s[i] = s[j] => i = j
Before(s, x, y) == \E i, j \in DOMAIN s : i < j /\ s[i] = x /\ s[j] = y
Rising(s) == \A i, j \in DOMAIN s : i < j => s[i].n < s[j].n
Numbers(s) == {s[i].n : i \in DOMAIN s}

\* How many events had been published when the ids last restarted: a later
\* event has its number less this as its id.
Off == published - counter

Pending == {p \in Publishers : task[p] = "publish"}
PendingNumbers == {sending[p].n : p \in Pending}

Connected == {"registered", "loaded", "reading"}

Types ==
  /\ counter \in Nat /\ published \in Nat /\ counter <= published
  /\ replay \in Seq(Events)
  /\ deadline \in {"none", "armed", "due"}
  /\ task \in [Publishers -> {"idle", "publish", "cleanup"}]
  /\ sending \in [Publishers -> Events]
  /\ phase \in [Clients -> Phases]
  /\ resumed \subseteq Clients /\ subs \subseteq Clients
  /\ stream \in [Clients -> Seq(Events)]
  /\ batch \in [Clients -> Seq(Events)]
  /\ yielded \in [Clients -> Nat] /\ lastId \in [Clients -> Nat]
  /\ base \in [Clients -> Nat] /\ seen \in [Clients -> Seq(Nat)]
  /\ lost \in [Clients -> SUBSET Nat]
  /\ stalled \subseteq outdated

\* An event that was published, by its number and its id.
Genuine(e) ==
  /\ e \in Events /\ e.n \in 1 .. published /\ e.id >= 1
  /\ e.n > Off => e.id = e.n - Off

Proper(s) == \A i \in DOMAIN s : Genuine(s[i])

\* Consecutive events that end with number n and id d.
Run(s, d, n) ==
  /\ Len(s) <= d
  /\ \A i \in DOMAIN s : s[i].n = n - Len(s) + i /\ s[i].id = d - Len(s) + i

\* The ring buffer holds the last events, in order.
Ring == Run(replay, counter, published)

\* Who is in the queue of the lock is known by what they are doing.
Queue ==
  /\ lock \in Seq(Clients \cup Publishers) /\ Distinct(lock)
  /\ \A p \in Publishers : Member(lock, p) <=> task[p] # "idle"
  /\ \A c \in Clients : Member(lock, c) <=> phase[c] \in {"subscribing", "leaving"}

\* Events are fanned out in the order they were published, and no id restarts
\* while one is under way.
Sending ==
  /\ \A p \in Pending : Genuine(sending[p]) /\ sending[p].n > Off
  /\ \A p, q \in Pending : Before(lock, p, q) => sending[p].n < sending[q].n
  /\ deadline = "due" => Pending = {}

\* What a client holds are events in order, its stream ahead of what is still
\* to be fanned out, and it knows the id of the last event it received.
Holding(c) ==
  /\ Proper(stream[c]) /\ Rising(stream[c])
  /\ \A i \in DOMAIN stream[c], p \in Pending : stream[c][i].n < sending[p].n
  /\ Proper(batch[c]) /\ Rising(batch[c])
  /\ phase[c] \in {"away", "subscribing", "registered", "loaded"} => batch[c] = <<>>
  /\ \A i \in DOMAIN seen[c] : seen[c][i] \in 1 .. published
  /\ seen[c] = <<>> <=> lastId[c] = 0
  /\ seen[c] # <<>> /\ Last(seen[c]) > Off => lastId[c] = Last(seen[c]) - Off
  /\ c \in resumed => seen[c] # <<>>
  /\ base[c] <= published

Common ==
  Types /\ Ring /\ Queue /\ Sending /\ \A c \in Clients : Holding(c)

Top(c) == IF seen[c] = <<>> THEN 0 ELSE Last(seen[c])

\* The id up to which a connection will skip live events, and the number of
\* the last event it will have received by then.
Horizon(c) == IF batch[c] = <<>> THEN yielded[c] ELSE Last(batch[c]).id
Reach(c) == IF batch[c] = <<>> THEN Top(c) ELSE Last(batch[c]).n

\* Whatever a client may receive next is newer than all it has received.
Ordered(c) ==
  /\ Increasing(seen[c])
  /\ phase[c] \in {"away", "subscribing"} => \A p \in Pending : sending[p].n > Top(c)
  /\ phase[c] = "leaving" =>
       \A p \in Pending : Before(lock, c, p) => sending[p].n > Top(c)
  /\ \A i \in DOMAIN batch[c] : batch[c][i].n > Top(c)
  /\ phase[c] \in Connected =>
       /\ \A i \in DOMAIN stream[c] :
            stream[c][i].id > Horizon(c) => stream[c][i].n > Reach(c)
       /\ \A p \in Pending : sending[p].id > Horizon(c) => sending[p].n > Reach(c)
  /\ phase[c] \in {"registered", "loaded"} /\ c \in resumed =>
       yielded[c] = 0 /\ \A i \in DOMAIN stream[c] : stream[c][i].n > Off

\* What a client received or is known to miss, and what it has fetched.
Got(c) == ToSet(seen[c]) \cup lost[c] \cup skipped
Have(c) == Got(c) \cup Numbers(batch[c])

\* All the client holds has an id of the current counter.
Fresh(c) ==
  /\ yielded[c] <= counter
  /\ seen[c] # <<>> => Last(seen[c]) > Off
  /\ \A i \in DOMAIN stream[c] : stream[c][i].n > Off
  /\ \A i \in DOMAIN batch[c] : batch[c][i].n > Off

\* Everything from the snapshot to the last event is with the client or known
\* to be lost.
Accounted(c) ==
  /\ seen[c] # <<>> => base[c] + 1 .. Last(seen[c]) \subseteq Got(c)
  /\ batch[c] # <<>> => base[c] + 1 .. Last(batch[c]).n \subseteq Have(c)

\* What the live phase skips is with the client already.
Covered(c) ==
  /\ \A i \in DOMAIN stream[c] : stream[c][i].id <= Horizon(c) =>
       stream[c][i].n <= base[c] \/ stream[c][i].n \in Have(c)
  /\ \A p \in Pending : sending[p].id <= Horizon(c) =>
       sending[p].n <= base[c] \/ sending[p].n \in Have(c)

\* What is not with the client is on its way.
OnTheWay(c) ==
  /\ c \in subs =>
       base[c] + 1 .. published \subseteq
         Have(c) \cup Numbers(stream[c]) \cup PendingNumbers
  /\ \A i \in DOMAIN stream[c] :
       base[c] + 1 .. stream[c][i].n \subseteq Have(c) \cup Numbers(stream[c])

\* Everything since the snapshot is accounted for or will be.
Complete(c) ==
  /\ Fresh(c) /\ Accounted(c)
  /\ phase[c] \in Connected => Covered(c)
  /\ phase[c] \in Connected /\ (c \notin resumed \/ phase[c] = "reading") => OnTheWay(c)

\* What is known of a client: the order fails only after a restart of the ids
\* while it waited to read, completeness only after a restart.
Known(c) ==
  /\ Holding(c)
  /\ c \notin stalled => Ordered(c)
  /\ c \notin outdated => Complete(c)

BusInv == Common /\ \A c \in Clients : Known(c)

-----------------------------------------------------------------------------
(* The queue of the lock                                                   *)

\* Joining the queue: the newcomer is behind everybody.
LEMMA Joins ==
  ASSUME NEW S, NEW s \in Seq(S), NEW x \in S, Distinct(s), ~Member(s, x)
  PROVE  /\ Append(s, x) \in Seq(S) /\ Distinct(Append(s, x))
         /\ \A y : Member(Append(s, x), y) <=> (Member(s, y) \/ y = x)
         /\ \A y, z : Before(Append(s, x), y, z) =>
                        (Before(s, y, z) \/ (Member(s, y) /\ z = x))
<1> DEFINE t == Append(s, x)
<1>1. t \in Seq(S) /\ Len(t) = Len(s) + 1 /\ DOMAIN t = 1 .. Len(s) + 1
      /\ DOMAIN s = 1 .. Len(s) /\ Len(s) \in Nat
      /\ t[Len(s) + 1] = x /\ \A i \in 1 .. Len(s) : t[i] = s[i]
  OBVIOUS
<1> HIDE DEF t
<1>2. \A i \in DOMAIN t : i \in DOMAIN s \/ i = Len(s) + 1
  BY <1>1
<1>3. Distinct(t)
  BY <1>1, <1>2 DEF Distinct, Member
<1>4. \A y : Member(t, y) <=> (Member(s, y) \/ y = x)
  <2>1. DOMAIN s \subseteq DOMAIN t /\ Len(s) + 1 \in DOMAIN t
    BY <1>1
  <2> QED
    BY <1>1, <1>2, <2>1 DEF Member
<1>5. \A y, z : Before(t, y, z) => (Before(s, y, z) \/ (Member(s, y) /\ z = x))
  <2> SUFFICES ASSUME NEW y, NEW z, Before(t, y, z)
               PROVE  Before(s, y, z) \/ (Member(s, y) /\ z = x)
    OBVIOUS
  <2>1. PICK i, j \in DOMAIN t : i < j /\ t[i] = y /\ t[j] = z
    BY DEF Before
  <2>2. i \in DOMAIN s
    BY <1>1, <2>1
  <2> QED
    BY <1>1, <1>2, <2>1, <2>2 DEF Before, Member
<1> QED
  BY <1>1, <1>3, <1>4, <1>5 DEF t

\* The head leaves: it was before everybody else.
LEMMA Leaves ==
  ASSUME NEW S, NEW s \in Seq(S), s # <<>>, Distinct(s)
  PROVE  /\ Tail(s) \in Seq(S) /\ Distinct(Tail(s))
         /\ \A y : Member(Tail(s), y) <=> (Member(s, y) /\ y # Head(s))
         /\ \A y, z : Before(Tail(s), y, z) => Before(s, y, z)
         /\ \A y : Member(s, y) /\ y # Head(s) => Before(s, Head(s), y)
         /\ Member(s, Head(s))
<1> DEFINE t == Tail(s)
<1>1. t \in Seq(S) /\ Len(t) = Len(s) - 1 /\ DOMAIN t = 1 .. Len(s) - 1
      /\ DOMAIN s = 1 .. Len(s) /\ Len(s) \in Nat \ {0}
      /\ Head(s) = s[1] /\ \A i \in 1 .. Len(s) - 1 : t[i] = s[i + 1]
  OBVIOUS
<1> HIDE DEF t
<1>2. 1 \in DOMAIN s
  BY <1>1
<1>3. \A i \in DOMAIN t : i \in Nat /\ i + 1 \in DOMAIN s /\ i + 1 # 1
  BY <1>1
<1>4. \A i \in DOMAIN s : i # 1 => i - 1 \in DOMAIN t /\ t[i - 1] = s[i]
  BY <1>1
<1>5. Distinct(t)
  BY <1>1, <1>3 DEF Distinct
<1>6. \A y : Member(t, y) <=> (Member(s, y) /\ y # Head(s))
  <2>1. \A i \in DOMAIN t : t[i] = s[i + 1] /\ t[i] # s[1]
    BY <1>1, <1>2, <1>3 DEF Distinct
  <2> QED
    BY <1>1, <1>2, <1>3, <1>4, <2>1 DEF Member
<1>7. \A y, z : Before(t, y, z) => Before(s, y, z)
  BY <1>1, <1>3 DEF Before
<1>8. \A y : Member(s, y) /\ y # Head(s) => Before(s, Head(s), y)
  BY <1>1, <1>2 DEF Member, Before
<1>9. Member(s, Head(s))
  BY <1>1, <1>2 DEF Member
<1> QED
  BY <1>1, <1>5, <1>6, <1>7, <1>8, <1>9 DEF t

\* A part of a sequence.
LEMMA Slice ==
  ASSUME NEW S, NEW s \in Seq(S), NEW m \in Nat \ {0}, NEW n \in 0 .. Len(s), m <= n + 1
  PROVE  /\ SubSeq(s, m, n) \in Seq(S) /\ Len(SubSeq(s, m, n)) = n - m + 1
         /\ \A x \in 1 .. n - m + 1 : SubSeq(s, m, n)[x] = s[m + x - 1]
<1>1. m \in Nat /\ n \in Nat /\ m >= 1 /\ n <= Len(s) OBVIOUS
<1>2. SubSeq(s, m, n) \in Seq(S) BY <1>1
<1>3. Len(SubSeq(s, m, n)) = IF m <= n THEN n - m + 1 ELSE 0 BY <1>1
<1>4. \A x \in 1 .. n - m + 1 : SubSeq(s, m, n)[x] = s[m + x - 1] BY <1>1
<1> QED BY <1>1, <1>2, <1>3, <1>4

LEMMA Removal ==
  ASSUME NEW S, NEW s \in Seq(S), NEW k \in DOMAIN s
  PROVE  /\ RemoveAt(s, k) \in Seq(S) /\ Len(RemoveAt(s, k)) = Len(s) - 1
         /\ \A j \in 1 .. k - 1 : RemoveAt(s, k)[j] = s[j]
         /\ \A j \in k .. Len(s) - 1 : RemoveAt(s, k)[j] = s[j + 1]
<1> DEFINE r == RemoveAt(s, k)
           a == k - 1
           b == k + 1
           u == SubSeq(s, 1, a)
           v == SubSeq(s, b, Len(s))
<1>1. Len(s) \in Nat /\ DOMAIN s = 1 .. Len(s) /\ k \in 1 .. Len(s) OBVIOUS
<1>2. /\ a \in 0 .. Len(s) /\ 1 \in Nat \ {0} /\ 1 <= a + 1 /\ a = k - 1
      /\ b \in Nat \ {0} /\ Len(s) \in 0 .. Len(s) /\ b <= Len(s) + 1 /\ b = k + 1
  BY <1>1
<1>3. r = u \o v BY DEF RemoveAt
<1> HIDE DEF a, b, r
<1>4. u \in Seq(S) /\ Len(u) = a /\ \A n \in 1 .. a : u[n] = s[n]
  <2>1. /\ u \in Seq(S) /\ Len(u) = a - 1 + 1
        /\ \A n \in 1 .. a - 1 + 1 : u[n] = s[1 + n - 1]
    BY <1>2, Slice
  <2> HIDE DEF u
  <2> QED BY <1>2, <2>1
<1>5. v \in Seq(S) /\ Len(v) = Len(s) - k /\ \A n \in 1 .. Len(s) - k : v[n] = s[k + n]
  <2>1. /\ v \in Seq(S) /\ Len(v) = Len(s) - b + 1
        /\ \A n \in 1 .. Len(s) - b + 1 : v[n] = s[b + n - 1]
    BY <1>2, Slice
  <2> HIDE DEF v
  <2>2. Len(s) - b + 1 = Len(s) - k /\ \A n \in 1 .. Len(s) - k : b + n - 1 = k + n
    BY <1>1, <1>2
  <2> QED BY <2>1, <2>2
<1> HIDE DEF u, v
<1>6. /\ r \in Seq(S) /\ Len(r) = Len(u) + Len(v)
      /\ \A n \in 1 .. Len(u) + Len(v) : r[n] = IF n <= Len(u) THEN u[n] ELSE v[n - Len(u)]
  BY <1>3, <1>4, <1>5, ConcatProperties
<1>7. Len(u) + Len(v) = Len(s) - 1 BY <1>1, <1>2, <1>4, <1>5
<1>8. ASSUME NEW j \in 1 .. k - 1 PROVE r[j] = s[j]
  <2>1. j \in 1 .. Len(u) + Len(v) /\ j <= Len(u) /\ j \in 1 .. a
    BY <1>1, <1>2, <1>4, <1>7
  <2> QED BY <1>4, <1>6, <2>1
<1>9. ASSUME NEW j \in k .. Len(s) - 1 PROVE r[j] = s[j + 1]
  <2>1. j - a \in 1 .. Len(s) - k /\ k + (j - a) = j + 1 BY <1>1, <1>2
  <2>2. Len(u) = k - 1 /\ Len(u) + Len(v) = Len(s) - 1 BY <1>2, <1>4, <1>7
  <2>3. j \in 1 .. Len(u) + Len(v) /\ ~(j <= Len(u)) BY <1>1, <2>2
  <2>4. r[j] = v[j - a] BY <1>4, <1>6, <2>3
  <2>5. v[j - a] = s[k + (j - a)] BY <1>5, <2>1
  <2> QED BY <2>1, <2>4, <2>5
<1> QED BY <1>6, <1>7, <1>8, <1>9 DEF r

\* One who waits gives up.
LEMMA GivesUp ==
  ASSUME NEW S, NEW s \in Seq(S), NEW i \in DOMAIN s, Distinct(s)
  PROVE  /\ RemoveAt(s, i) \in Seq(S) /\ Distinct(RemoveAt(s, i))
         /\ \A y : Member(RemoveAt(s, i), y) <=> (Member(s, y) /\ y # s[i])
         /\ \A y, z : Before(RemoveAt(s, i), y, z) => Before(s, y, z)
<1> DEFINE t == RemoveAt(s, i)
<1>1. /\ t \in Seq(S) /\ Len(t) = Len(s) - 1 /\ DOMAIN t = 1 .. Len(s) - 1
      /\ DOMAIN s = 1 .. Len(s) /\ Len(s) \in Nat \ {0} /\ i \in 1 .. Len(s)
      /\ \A j \in 1 .. i - 1 : t[j] = s[j]
      /\ \A j \in i .. Len(s) - 1 : t[j] = s[j + 1]
  <2>1. DOMAIN s = 1 .. Len(s) /\ Len(s) \in Nat \ {0} /\ i \in 1 .. Len(s)
    OBVIOUS
  <2>2. t \in Seq(S) => DOMAIN t = 1 .. Len(t)
    OBVIOUS
  <2> QED
    BY <2>1, <2>2, Removal
<1> HIDE DEF t
<1> DEFINE f(j) == IF j < i THEN j ELSE j + 1
<1>2. \A j \in DOMAIN t : /\ j \in Nat /\ f(j) \in DOMAIN s /\ f(j) # i
                          /\ t[j] = s[f(j)]
  BY <1>1
<1>3. \A j, k \in DOMAIN t : j < k <=> f(j) < f(k)
  BY <1>1
<1>4. \A j \in DOMAIN s : j # i => \E k \in DOMAIN t : f(k) = j
  <2> SUFFICES ASSUME NEW j \in DOMAIN s, j # i PROVE \E k \in DOMAIN t : f(k) = j
    OBVIOUS
  <2>1. CASE j < i
    BY <1>1, <2>1
  <2>2. CASE j > i
    <3>1. j - 1 \in DOMAIN t /\ f(j - 1) = j
      BY <1>1, <2>2
    <3> QED BY <3>1
  <2> QED BY <1>1, <2>1, <2>2
<1>5. \A j \in DOMAIN t : f(j) \in Nat
  BY <1>1
<1>6. \A j, k \in DOMAIN t : f(j) = f(k) => j = k
  BY <1>1
<1> HIDE DEF f
<1>7. Distinct(t)
  BY <1>2, <1>6 DEF Distinct
<1>8. \A y : Member(t, y) <=> (Member(s, y) /\ y # s[i])
  BY <1>2, <1>4 DEF Member, Distinct
<1>9. \A y, z : Before(t, y, z) => Before(s, y, z)
  BY <1>2, <1>3 DEF Before
<1> QED
  BY <1>1, <1>7, <1>8, <1>9 DEF t

-----------------------------------------------------------------------------
(* The ring buffer                                                         *)

\* The next event enters the buffer, and the oldest one may leave.
LEMMA PushRun ==
  ASSUME NEW s \in Seq(Events), NEW d \in Nat, NEW n \in Nat, d <= n, Run(s, d, n),
         NEW e \in Events, e.n = n + 1, e.id = d + 1
  PROVE  Push(s, e) \in Seq(Events) /\ Run(Push(s, e), d + 1, n + 1)
<1> DEFINE b == Append(s, e)
<1>1. /\ b \in Seq(Events) /\ Len(b) = Len(s) + 1 /\ DOMAIN b = 1 .. Len(s) + 1
      /\ DOMAIN s = 1 .. Len(s) /\ Len(s) \in Nat
      /\ b[Len(s) + 1] = e /\ \A i \in 1 .. Len(s) : b[i] = s[i]
  OBVIOUS
<1>2. Run(b, d + 1, n + 1)
  <2>1. Len(b) <= d + 1
    BY <1>1 DEF Run
  <2>2. ASSUME NEW i \in DOMAIN b
        PROVE  b[i].n = n + 1 - Len(b) + i /\ b[i].id = d + 1 - Len(b) + i
    <3> HIDE DEF b
    <3>1. CASE i \in 1 .. Len(s)
      BY <1>1, <3>1 DEF Run
    <3>2. CASE i = Len(s) + 1
      BY <1>1, <3>2
    <3> QED
      BY <1>1, <3>1, <3>2
  <2> QED
    BY <2>1, <2>2 DEF Run
<1> HIDE DEF b
<1>3. b # <<>>
  BY <1>1
<1> DEFINE t == Tail(b)
<1>4. /\ t \in Seq(Events) /\ Len(t) = Len(b) - 1 /\ DOMAIN t = 1 .. Len(b) - 1
      /\ \A i \in 1 .. Len(b) - 1 : t[i] = b[i + 1]
  BY <1>1, <1>3
<1> HIDE DEF t
<1>5. Run(t, d + 1, n + 1)
  <2>1. Len(t) <= d + 1
    BY <1>1, <1>2, <1>4 DEF Run
  <2>2. ASSUME NEW i \in DOMAIN t
        PROVE  t[i].n = n + 1 - Len(t) + i /\ t[i].id = d + 1 - Len(t) + i
    <3>1. i + 1 \in DOMAIN b /\ t[i] = b[i + 1] /\ i \in Nat
      BY <1>1, <1>4
    <3>2. t[i].n = n + 1 - Len(b) + (i + 1) /\ t[i].id = d + 1 - Len(b) + (i + 1)
      BY <1>2, <3>1 DEF Run
    <3> QED
      BY <1>1, <1>4, <3>1, <3>2
  <2> QED
    BY <2>1, <2>2 DEF Run
<1>6. Push(s, e) = IF Len(b) > ReplayBuffer THEN t ELSE b
  BY DEF Push, b, t
<1> QED
  BY <1>1, <1>2, <1>4, <1>5, <1>6

\* What the replay takes from the buffer: all that has a larger id.
LEMMA BeyondRun ==
  ASSUME NEW s \in Seq(Events), NEW d \in Nat, NEW n \in Nat, d <= n, Run(s, d, n),
         NEW x \in Nat
  PROVE  /\ Beyond(s, x) \in Seq(Events) /\ Run(Beyond(s, x), d, n)
         /\ \A i \in DOMAIN Beyond(s, x) : /\ Beyond(s, x)[i].id > x
                                           /\ \E j \in DOMAIN s : Beyond(s, x)[i] = s[j]
         /\ \A i \in DOMAIN s : s[i].id > x => s[i].n \in Numbers(Beyond(s, x))
<1>1. Len(s) \in Nat /\ DOMAIN s = 1 .. Len(s) /\ Len(s) <= d
  BY DEF Run
<1> DEFINE P(k) == \A i \in DOMAIN s : i < k <=> s[i].id <= x
<1>2. \E k \in 1 .. Len(s) + 1 : P(k)
  <2>0. \A i \in DOMAIN s : s[i].id = d - Len(s) + i
    BY DEF Run
  <2>1. CASE x <= d - Len(s)
    <3>1. 1 \in 1 .. Len(s) + 1 /\ P(1)
      BY <1>1, <2>0, <2>1
    <3> QED BY <3>1
  <2>2. CASE x > d - Len(s) /\ x <= d
    <3>1. x - (d - Len(s)) + 1 \in Nat
      BY <1>1, <2>2
    <3>3. PICK k \in Nat : k = x - (d - Len(s)) + 1
      BY <3>1
    <3>2. k \in 1 .. Len(s) + 1 /\ P(k)
      BY <1>1, <2>0, <2>2, <3>3
    <3> QED BY <3>2
  <2>3. CASE x > d
    <3>1. PICK k \in Nat : k = Len(s) + 1
      BY <1>1
    <3>2. k \in 1 .. Len(s) + 1 /\ P(k)
      BY <1>1, <2>0, <2>3, <3>1
    <3> QED BY <3>2
  <2> QED
    BY <1>1, <2>1, <2>2, <2>3
<1> DEFINE k == CHOOSE k \in 1 .. Len(s) + 1 : P(k)
           t == SubSeq(s, k, Len(s))
<1>3. k \in 1 .. Len(s) + 1 /\ P(k)
  <2> HIDE DEF P
  <2> QED BY <1>2
<1>4. Beyond(s, x) = t
  BY DEF Beyond
<1> HIDE DEF k
<1>5. k \in Nat \ {0} /\ Len(s) \in 0 .. Len(s) /\ k <= Len(s) + 1
  BY <1>1, <1>3
<1>6. /\ t \in Seq(Events) /\ Len(t) = Len(s) - k + 1
      /\ \A i \in 1 .. Len(s) - k + 1 : t[i] = s[k + i - 1]
  BY <1>5, Slice
<1> HIDE DEF t
<1>7. DOMAIN t = 1 .. Len(s) - k + 1
  BY <1>6
<1>8. ASSUME NEW i \in DOMAIN t
      PROVE  /\ t[i].id > x /\ \E j \in DOMAIN s : t[i] = s[j]
             /\ t[i].n = n - Len(t) + i /\ t[i].id = d - Len(t) + i
  <2>1. PICK j \in DOMAIN s : j = k + i - 1 /\ ~(j < k)
    BY <1>1, <1>5, <1>7
  <2>2. t[i] = s[j]
    BY <1>6, <1>7, <2>1
  <2>3. s[j].n = n - Len(s) + j /\ s[j].id = d - Len(s) + j
    BY DEF Run
  <2>4. s[j].id > x
    BY <1>1, <1>3, <2>1, <2>3
  <2>5. /\ n - Len(s) + j = n - Len(t) + i
        /\ d - Len(s) + j = d - Len(t) + i
    BY <1>1, <1>5, <1>6, <1>7, <2>1
  <2> QED
    BY <2>2, <2>3, <2>4, <2>5
<1>9. ASSUME NEW i \in DOMAIN s, s[i].id > x PROVE s[i].n \in Numbers(t)
  <2>1. ~(i < k)
    BY <1>1, <1>3, <1>9 DEF Run
  <2>2. PICK j \in DOMAIN t : j = i - k + 1 /\ k + j - 1 = i
    BY <1>1, <1>5, <1>7, <2>1
  <2>3. t[j] = s[i]
    BY <1>6, <1>7, <2>2
  <2> QED
    BY <2>3 DEF Numbers
<1>10. Run(t, d, n)
  BY <1>1, <1>5, <1>6, <1>8 DEF Run
<1> QED
  BY <1>4, <1>6, <1>8, <1>9, <1>10

-----------------------------------------------------------------------------
(* What all actions keep                                                   *)

LEMMA InitCommon == Init => Common
<1> SUFFICES ASSUME Init PROVE Common OBVIOUS
<1>1. Types
  <2>1. NoEvent \in Events BY DEF NoEvent, Events, EventKinds
  <2> QED BY <2>1 DEF Init, Types, Phases
<1>2. Ring BY DEF Init, Ring, Run
<1>3. Queue BY DEF Init, Queue, Member, Distinct
<1>4. Pending = {} BY DEF Init, Pending
<1>5. Sending BY <1>4 DEF Init, Sending
<1>6. ASSUME NEW c \in Clients PROVE Holding(c)
  BY <1>4 DEF Init, Holding, Rising, Proper
<1> QED BY <1>1, <1>2, <1>3, <1>5, <1>6 DEF Common

LEMMA EventFields ==
  ASSUME NEW e \in Events
  PROVE  e.n \in Nat /\ e.id \in Nat /\ e.kind \in EventKinds
BY DEF Events

LEMMA HeadEvent ==
  ASSUME NEW s \in Seq(Events), s # <<>>
  PROVE  /\ Head(s) \in Events /\ Tail(s) \in Seq(Events)
         /\ Head(s).n \in Nat /\ Head(s).id \in Nat
<1>1. Head(s) \in Events /\ Tail(s) \in Seq(Events) OBVIOUS
<1> QED BY <1>1, EventFields

\* The event a publisher publishes, and the ring buffer it enters.
NewEvent(k) ==
  [n |-> published + 1, id |-> (IF deadline = "due" THEN 0 ELSE counter) + 1, kind |-> k]

LEMMA PublishEffect ==
  ASSUME Types, Ring, NEW p \in Publishers, Publish(p)
  PROVE  \E e \in Events :
           /\ e.n = published + 1 /\ e.id = counter' /\ published' = published + 1
           /\ counter' = IF deadline = "due" THEN 1 ELSE counter + 1
           /\ sending' = [sending EXCEPT ![p] = e]
           /\ replay' \in Seq(Events) /\ Ring'
<1>1. PICK k \in Kinds :
        /\ replay' = Push(IF deadline = "due" THEN <<>> ELSE replay, NewEvent(k))
        /\ sending' = [sending EXCEPT ![p] = NewEvent(k)]
  BY DEF Publish, NewEvent
<1> DEFINE e == NewEvent(k)
           d == IF deadline = "due" THEN 0 ELSE counter
           s == IF deadline = "due" THEN <<>> ELSE replay
<1>2. d \in Nat /\ d <= published /\ published \in Nat /\ s \in Seq(Events)
  BY DEF Types
<1>3. counter' = d + 1 /\ published' = published + 1
  BY DEF Publish
<1>4. k \in EventKinds
  BY BusAssumption
<1>5. e \in Events /\ e.n = published + 1 /\ e.id = d + 1
  BY <1>2, <1>4 DEF NewEvent, Events
<1>6. Run(s, d, published)
  <2>1. CASE deadline = "due"
    BY <2>1 DEF Run
  <2>2. CASE deadline # "due"
    BY <2>2 DEF Ring
  <2> QED BY <2>1, <2>2
<1>7. replay' = Push(s, e)
  BY <1>1
<1> HIDE DEF e, d, s
<1>8. Push(s, e) \in Seq(Events) /\ Run(Push(s, e), d + 1, published + 1)
  BY <1>2, <1>5, <1>6, PushRun
<1>9. counter' = IF deadline = "due" THEN 1 ELSE counter + 1
  BY <1>2, <1>3 DEF d
<1>10. sending' = [sending EXCEPT ![p] = e]
  BY <1>1 DEF e
<1>11. Ring'
  BY <1>3, <1>7, <1>8 DEF Ring
<1> QED
  BY <1>3, <1>5, <1>7, <1>8, <1>9, <1>10, <1>11

\* A restart of the ids: clients that wait have received something before.
LEMMA WaitingHaveIds ==
  ASSUME Common
  PROVE  Waiting \subseteq WithIds
<1> SUFFICES ASSUME NEW c \in Waiting PROVE c \in WithIds OBVIOUS
<1>1. c \in Clients /\ c \in resumed BY DEF Waiting, Common, Types
<1>2. lastId[c] # 0 /\ lastId[c] \in Nat BY <1>1 DEF Common, Types, Holding
<1> QED BY <1>1, <1>2 DEF WithIds

LEMMA PublisherTypes ==
  ASSUME Common, NEW p \in Publishers,
         Publish(p) \/ FanOut(p) \/ PublishCancelled(p) \/ Cleanup(p) \/ DropSubscribers(p)
  PROVE  Types'
<1> USE DEF Common, Types
<1>0. NoEvent \in Events BY DEF NoEvent, Events, EventKinds
<1>1. CASE Publish(p)
  <2>1. PICK e \in Events :
           /\ published' = published + 1
           /\ counter' = IF deadline = "due" THEN 1 ELSE counter + 1
           /\ sending' = [sending EXCEPT ![p] = e]
           /\ replay' \in Seq(Events)
    BY <1>1, PublishEffect
  <2>2. counter' \in Nat /\ published' \in Nat /\ counter' <= published'
    BY <2>1
  <2>3. sending' \in [Publishers -> Events]
    BY <2>1
  <2>4. stalled' \subseteq outdated'
    BY <1>1, WaitingHaveIds DEF Publish, RestartIds
  <2>5. /\ task' \in [Publishers -> {"idle", "publish", "cleanup"}]
        /\ deadline' \in {"none", "armed", "due"}
    BY <1>1 DEF Publish
  <2>6. UNCHANGED <<subs, phase, resumed, stream, batch, yielded, lastId, base, seen, lost>>
    BY <1>1 DEF Publish
  <2> QED
    BY <2>1, <2>2, <2>3, <2>4, <2>5, <2>6
<1>2. CASE FanOut(p)
  <2>1. sending[p] \in Events /\ sending[p].n \in Nat
    BY EventFields
  <2>2. stream' \in [Clients -> Seq(Events)]
    BY <1>2, <2>1 DEF FanOut
  <2>3. lost' \in [Clients -> SUBSET Nat]
    BY <1>2, <2>1 DEF FanOut
  <2>4. /\ task' \in [Publishers -> {"idle", "publish", "cleanup"}]
        /\ sending' \in [Publishers -> Events]
    BY <1>0, <1>2 DEF FanOut
  <2>5. UNCHANGED <<ringVars, subs, phase, resumed, batch, yielded, lastId, base, seen,
                    outdated, stalled, published>>
    BY <1>2 DEF FanOut
  <2> QED
    BY <2>2, <2>3, <2>4, <2>5 DEF ringVars
<1>3. CASE PublishCancelled(p)
  BY <1>0, <1>3 DEF PublishCancelled, ringVars, clientVars
<1>4. CASE Cleanup(p)
  BY <1>4 DEF Cleanup, ringVars, clientVars
<1>5. CASE DropSubscribers(p)
  BY <1>5 DEF DropSubscribers, clientVars
<1> QED BY <1>1, <1>2, <1>3, <1>4, <1>5

LEMMA ClientTypes ==
  ASSUME Common, NEW c \in Clients,
         \/ Connect(c) \/ Register(c) \/ LoadSnapshot(c) \/ StartReading(c)
         \/ YieldReplayed(c) \/ YieldLive(c) \/ Disconnect(c) \/ Unregister(c)
  PROVE  Types'
<1> USE DEF Common, Types, ringVars
<1>0. Phases = {"away", "subscribing", "registered", "loaded", "reading", "leaving"}
  BY DEF Phases
<1>1. CASE Connect(c) BY <1>0, <1>1 DEF Connect
<1>2. CASE Register(c)
  <2>1. /\ stalled' \subseteq outdated'
        /\ lost' \in [Clients -> SUBSET Nat]
        /\ yielded' \in [Clients -> Nat] /\ lastId' \in [Clients -> Nat]
        /\ base' \in [Clients -> Nat] /\ seen' \in [Clients -> Seq(Nat)]
    <3>1. CASE c \in resumed
      <4>1. /\ yielded' = [yielded EXCEPT ![c] = 0]
            /\ base' = base /\ seen' = seen /\ lost' = lost /\ lastId' = lastId
            /\ outdated' = outdated /\ stalled' = stalled
        BY <1>2, <3>1 DEF Register
      <4> QED BY <4>1
    <3>2. CASE c \notin resumed
      <4>1. /\ base' = [base EXCEPT ![c] = published]
            /\ seen' = [seen EXCEPT ![c] = <<>>]
            /\ lost' = [lost EXCEPT ![c] = {}]
            /\ lastId' = [lastId EXCEPT ![c] = 0]
            /\ yielded' = [yielded EXCEPT ![c] = counter]
            /\ outdated' = outdated \ {c} /\ stalled' = stalled \ {c}
        BY <1>2, <3>2 DEF Register
      <4> QED BY <4>1
    <3> QED BY <3>1, <3>2
  <2> QED BY <1>0, <1>2, <2>1 DEF Register
<1>3. CASE LoadSnapshot(c) BY <1>0, <1>3 DEF LoadSnapshot
<1>4. CASE StartReading(c)
  <2>1. Beyond(replay, lastId[c]) \in Seq(Events)
    <3>1. lastId[c] \in Nat OBVIOUS
    <3> QED BY <3>1, BeyondRun DEF Ring
  <2>2. Evicted(c) \subseteq Nat
    <3>1. LastSeen(c) \in Nat
      BY DEF LastSeen, Last
    <3> QED BY <3>1 DEF Evicted
  <2> QED BY <1>0, <1>4, <2>1, <2>2 DEF StartReading
<1>5. CASE YieldReplayed(c)
  <2>1. /\ Head(batch[c]).n \in Nat /\ Head(batch[c]).id \in Nat
        /\ Tail(batch[c]) \in Seq(Events)
    BY <1>5, HeadEvent DEF YieldReplayed
  <2>2. /\ seen' = [seen EXCEPT ![c] = Append(@, Head(batch[c]).n)]
        /\ lastId' = [lastId EXCEPT ![c] = Head(batch[c]).id]
        /\ yielded' = [yielded EXCEPT ![c] = Head(batch[c]).id]
        /\ batch' = [batch EXCEPT ![c] = Tail(@)]
        /\ phase' \in [Clients -> Phases]
    BY <1>0, <1>5 DEF YieldReplayed, Yield
  <2> QED BY <1>5, <2>1, <2>2 DEF YieldReplayed
<1>6. CASE YieldLive(c)
  <2>1. /\ Head(stream[c]).n \in Nat /\ Head(stream[c]).id \in Nat
        /\ Tail(stream[c]) \in Seq(Events)
    BY <1>6, HeadEvent DEF YieldLive
  <2>2. /\ \/ seen' = [seen EXCEPT ![c] = Append(@, Head(stream[c]).n)]
           \/ seen' = seen
        /\ \/ lastId' = [lastId EXCEPT ![c] = Head(stream[c]).id]
           \/ lastId' = lastId
        /\ stream' = [stream EXCEPT ![c] = Tail(@)]
        /\ phase' \in [Clients -> Phases]
    BY <1>0, <1>6 DEF YieldLive, Yield
  <2>3. seen' \in [Clients -> Seq(Nat)] /\ lastId' \in [Clients -> Nat]
    <3>1. lastId' \in [Clients -> Nat] BY <2>1, <2>2
    <3>2. Append(seen[c], Head(stream[c]).n) \in Seq(Nat)
      <4>1. seen[c] \in Seq(Nat) OBVIOUS
      <4> QED BY <2>1, <4>1
    <3>3. seen' \in [Clients -> Seq(Nat)] BY <2>2, <3>2
    <3> QED BY <3>1, <3>3
  <2>4. stream' \in [Clients -> Seq(Events)] BY <2>1, <2>2
  <2> QED BY <1>6, <2>2, <2>3, <2>4 DEF YieldLive
<1>7. CASE Disconnect(c) BY <1>0, <1>7 DEF Disconnect
<1>8. CASE Unregister(c) BY <1>0, <1>8 DEF Unregister
<1> QED BY <1>1, <1>2, <1>3, <1>4, <1>5, <1>6, <1>7, <1>8

LEMMA Joined ==
  ASSUME Queue, NEW x \in Clients \cup Publishers, ~Member(lock, x),
         lock' = Append(lock, x)
  PROVE  /\ lock' \in Seq(Clients \cup Publishers) /\ Distinct(lock')
         /\ \A y : Member(lock', y) <=> (Member(lock, y) \/ y = x)
         /\ \A y, z : Before(lock', y, z) =>
                        (Before(lock, y, z) \/ (Member(lock, y) /\ z = x))
BY Joins DEF Queue

LEMMA Left ==
  ASSUME Queue, NEW x, Holds(x), lock' = Tail(lock)
  PROVE  /\ lock' \in Seq(Clients \cup Publishers) /\ Distinct(lock')
         /\ Member(lock, x)
         /\ \A y : Member(lock', y) <=> (Member(lock, y) /\ y # x)
         /\ \A y, z : Before(lock', y, z) => Before(lock, y, z)
         /\ \A y : Member(lock, y) /\ y # x => Before(lock, x, y)
BY Leaves DEF Queue, Holds

LEMMA GaveUp ==
  ASSUME Queue, NEW x, \E i \in DOMAIN lock : lock[i] = x /\ lock' = RemoveAt(lock, i)
  PROVE  /\ lock' \in Seq(Clients \cup Publishers) /\ Distinct(lock')
         /\ \A y : Member(lock', y) <=> (Member(lock, y) /\ y # x)
         /\ \A y, z : Before(lock', y, z) => Before(lock, y, z)
<1>1. PICK i \in DOMAIN lock : lock[i] = x /\ lock' = RemoveAt(lock, i)
  OBVIOUS
<1> QED
  BY <1>1, GivesUp DEF Queue

\* Clients and publishers are different coroutines.
LEMMA Apart ==
  ASSUME NEW c \in Clients, NEW p \in Publishers
  PROVE  c # p
BY BusAssumption

LEMMA PublisherQueue ==
  ASSUME Types, Queue, NEW p \in Publishers,
         Publish(p) \/ FanOut(p) \/ PublishCancelled(p) \/ Cleanup(p) \/ DropSubscribers(p)
  PROVE  Queue'
<1> USE DEF Types
<1>0. phase' = phase
  BY DEF Publish, FanOut, PublishCancelled, Cleanup, DropSubscribers, clientVars
<1>1. CASE Publish(p) \/ Cleanup(p)
  <2>1. task[p] = "idle" /\ lock' = Append(lock, p) /\ task'[p] # "idle"
        /\ \A q \in Publishers : q # p => task'[q] = task[q]
    BY <1>1 DEF Publish, Cleanup
  <2>2. ~Member(lock, p)
    BY <2>1 DEF Queue
  <2>3. /\ lock' \in Seq(Clients \cup Publishers) /\ Distinct(lock')
        /\ \A y : Member(lock', y) <=> (Member(lock, y) \/ y = p)
    BY <2>1, <2>2, Joined
  <2>4. \A c \in Clients : c # p
    BY Apart
  <2> QED
    BY <1>0, <2>1, <2>3, <2>4 DEF Queue
<1>2. CASE FanOut(p) \/ PublishCancelled(p) \/ DropSubscribers(p)
  <2>1. task'[p] = "idle" /\ \A q \in Publishers : q # p => task'[q] = task[q]
    BY <1>2 DEF FanOut, PublishCancelled, DropSubscribers
  <2>2. /\ lock' \in Seq(Clients \cup Publishers) /\ Distinct(lock')
        /\ \A y : Member(lock', y) <=> (Member(lock, y) /\ y # p)
    <3>1. CASE FanOut(p) \/ DropSubscribers(p)
      BY <3>1, Left DEF FanOut, DropSubscribers
    <3>2. CASE PublishCancelled(p)
      BY <3>2, GaveUp DEF PublishCancelled
    <3> QED BY <1>2, <3>1, <3>2
  <2>3. \A c \in Clients : c # p
    BY Apart
  <2> QED
    BY <1>0, <2>1, <2>2, <2>3 DEF Queue
<1> QED BY <1>1, <1>2

LEMMA ClientQueue ==
  ASSUME Types, Queue, NEW c \in Clients,
         \/ Connect(c) \/ Register(c) \/ LoadSnapshot(c) \/ StartReading(c)
         \/ YieldReplayed(c) \/ YieldLive(c) \/ Disconnect(c) \/ Unregister(c)
  PROVE  Queue' /\ \A y : \A r \in Publishers : Before(lock', y, r) => Before(lock, y, r)
<1> USE DEF Types
<1>0. task' = task /\ \A d \in Clients : d # c => phase'[d] = phase[d]
  BY DEF Connect, Register, LoadSnapshot, StartReading, YieldReplayed, YieldLive, Yield,
         Disconnect, Unregister
<1>1. \A p \in Publishers : c # p
  BY Apart
<1>2. CASE /\ lock' = Append(lock, c) /\ phase'[c] \in {"subscribing", "leaving"}
           /\ phase[c] \notin {"subscribing", "leaving"}
  <2>1. ~Member(lock, c)
    BY <1>2 DEF Queue
  <2>2. /\ lock' \in Seq(Clients \cup Publishers) /\ Distinct(lock')
        /\ \A y : Member(lock', y) <=> (Member(lock, y) \/ y = c)
        /\ \A y, z : Before(lock', y, z) =>
                       (Before(lock, y, z) \/ (Member(lock, y) /\ z = c))
    BY <1>2, <2>1, Joined
  <2> QED
    BY <1>0, <1>1, <1>2, <2>2 DEF Queue
<1>3. CASE Holds(c) /\ lock' = Tail(lock) /\ phase'[c] \notin {"subscribing", "leaving"}
  <2>2. /\ lock' \in Seq(Clients \cup Publishers) /\ Distinct(lock')
        /\ \A y : Member(lock', y) <=> (Member(lock, y) /\ y # c)
        /\ \A y, z : Before(lock', y, z) => Before(lock, y, z)
    BY <1>3, Left
  <2> QED
    BY <1>0, <1>1, <1>3, <2>2 DEF Queue
<1>4. CASE /\ lock' = lock
           /\ phase'[c] \in {"subscribing", "leaving"}
                <=> phase[c] \in {"subscribing", "leaving"}
  BY <1>0, <1>4 DEF Queue
<1>5. CASE Connect(c) \/ Disconnect(c)
  BY <1>2, <1>5 DEF Connect, Disconnect
<1>6. CASE Register(c) \/ Unregister(c)
  BY <1>3, <1>6 DEF Register, Unregister
<1>7. CASE LoadSnapshot(c) \/ StartReading(c)
  BY <1>4, <1>7 DEF LoadSnapshot, StartReading
<1>8. CASE YieldReplayed(c) \/ YieldLive(c)
  <2>1. phase[c] = "reading"
    BY <1>8 DEF YieldReplayed, YieldLive
  <2>2. \/ phase' = [phase EXCEPT ![c] = "leaving"] /\ lock' = Append(lock, c)
        \/ phase' = phase /\ lock' = lock
    BY <1>8 DEF YieldReplayed, YieldLive, Yield
  <2> QED
    BY <1>2, <1>4, <2>1, <2>2
<1> QED
  BY <1>5, <1>6, <1>7, <1>8

\* Events keep their numbers, and their ids while the ids do not restart.
LEMMA GenuineKept ==
  ASSUME Types, Types', published' >= published,
         published' - counter' = published - counter \/ published' - counter' >= published
  PROVE  \A e : Genuine(e) => Genuine(e)'
<1> SUFFICES ASSUME NEW e, Genuine(e) PROVE Genuine(e)' OBVIOUS
<1>1. e \in Events /\ e.n \in Nat /\ e.id \in Nat /\ e.n \in 1 .. published /\ e.id >= 1
  BY EventFields DEF Genuine
<1>2. e.n > published - counter => e.id = e.n - (published - counter)
  BY DEF Genuine, Off
<1>3. e.n > published' - counter' => e.id = e.n - (published' - counter')
  <2>1. CASE published' - counter' = published - counter
    BY <1>2, <2>1
  <2>2. CASE published' - counter' >= published
    <3>1. published' - counter' \in Int /\ published \in Int /\ e.n <= published
      BY <1>1 DEF Types
    <3> QED BY <1>1, <2>2, <3>1
  <2> QED BY <2>1, <2>2
<1>4. e.n \in 1 .. published'
  BY <1>1 DEF Types
<1> QED
  BY <1>1, <1>3, <1>4 DEF Genuine, Off

LEMMA SendingKept ==
  ASSUME Types, Types', Sending, published' = published, counter' = counter,
         Pending' \subseteq Pending, \A q \in Pending' : sending'[q] = sending[q],
         \A q, r \in Pending' : Before(lock', q, r) => Before(lock, q, r),
         deadline' = "due" => (deadline = "due" \/ Pending = {})
  PROVE  Sending'
<1>1. \A e : Genuine(e) => Genuine(e)'
  BY GenuineKept DEF Types
<1>2. ASSUME NEW q \in Pending'
      PROVE  Genuine(sending[q])' /\ (sending[q].n > Off)'
  <2>1. Genuine(sending[q]) /\ sending[q].n > Off /\ sending'[q] = sending[q]
    BY DEF Sending
  <2> QED
    BY <2>1 DEF Off, Genuine
<1>3. ASSUME NEW q \in Pending', NEW r \in Pending', Before(lock', q, r)
      PROVE  sending'[q].n < sending'[r].n
  BY <1>3 DEF Sending
<1>4. deadline' = "due" => Pending' = {}
  BY DEF Sending
<1> QED
  BY <1>2, <1>3, <1>4 DEF Sending

LEMMA SendingNew ==
  ASSUME Types, Types', Queue, Sending, NEW p \in Publishers, task[p] = "idle",
         NEW e \in Events, e.n = published + 1, e.id = counter',
         published' = published + 1,
         counter' = IF deadline = "due" THEN 1 ELSE counter + 1,
         sending' = [sending EXCEPT ![p] = e],
         task' = [task EXCEPT ![p] = "publish"],
         lock' = Append(lock, p), deadline' = "none"
  PROVE  Sending' /\ Pending' = Pending \cup {p} /\ p \notin Pending /\ Genuine(e)'
<1>0. /\ published \in Nat /\ counter \in Nat /\ counter <= published
      /\ task \in [Publishers -> {"idle", "publish", "cleanup"}]
      /\ sending \in [Publishers -> Events]
  BY DEF Types
<1>1. Pending' = Pending \cup {p} /\ p \notin Pending
  BY <1>0 DEF Pending
<1>2. Genuine(e)' /\ e.n > Off'
  <2>1. e.n \in Nat /\ e.id \in Nat
    BY EventFields
  <2>2. published' - counter' = IF deadline = "due" THEN published ELSE published - counter
    BY <1>0
  <2>3. e.n > published' - counter' /\ e.id = e.n - (published' - counter') /\ e.id >= 1
        /\ e.n \in 1 .. published'
    BY <1>0, <2>1, <2>2
  <2> QED
    BY <2>1, <2>3 DEF Genuine, Off
<1>3. \A q \in Pending : sending'[q] = sending[q] /\ q \in Publishers /\ q # p
  BY <1>0, <1>1 DEF Pending
<1>4. sending'[p] = e
  BY <1>0
<1>5. ASSUME NEW q \in Pending PROVE Genuine(sending[q])' /\ (sending[q].n > Off)'
  <2>1. deadline # "due"
    BY DEF Sending
  <2>2. published' - counter' = published - counter
    BY <1>0, <2>1
  <2>3. Genuine(sending[q])'
    <3>1. \A x : Genuine(x) => Genuine(x)'
      BY <1>0, <2>2, GenuineKept
    <3>2. PICK x : x = sending[q]
      OBVIOUS
    <3>3. Genuine(x)
      BY <3>2 DEF Sending
    <3>4. Genuine(x)' /\ sending'[q] = x
      BY <1>3, <3>1, <3>2, <3>3
    <3> QED
      BY <3>4 DEF Genuine
  <2>4. sending[q].n > Off
    BY DEF Sending
  <2> QED
    BY <1>3, <2>2, <2>3, <2>4 DEF Off
<1>6. ASSUME NEW q \in Pending', NEW r \in Pending', Before(lock', q, r)
      PROVE  sending'[q].n < sending'[r].n
  <2>1. ~Member(lock, p)
    BY DEF Queue
  <2>2. Before(lock, q, r) \/ (Member(lock, q) /\ r = p)
    BY <1>6, <2>1, Joined
  <2>3. q # p
    <3>1. Before(lock, q, r) => Member(lock, q)
      BY DEF Before, Member
    <3> QED BY <2>1, <2>2, <3>1
  <2>4. q \in Pending /\ sending[q].n \in 1 .. published
    BY <1>1, <2>3 DEF Sending, Genuine
  <2>5. CASE r = p
    BY <1>0, <1>3, <1>4, <2>4, <2>5
  <2>6. CASE r # p
    BY <1>1, <1>3, <2>2, <2>4, <2>6 DEF Sending
  <2> QED BY <2>5, <2>6
<1>7. \A q \in Pending' : Genuine(sending[q])' /\ (sending[q].n > Off)'
  <2>1. Genuine(sending[p])' /\ (sending[p].n > Off)'
    BY <1>2, <1>4 DEF Genuine, Off
  <2> QED BY <1>1, <1>5, <2>1
<1> QED
  BY <1>1, <1>2, <1>6, <1>7 DEF Sending

-----------------------------------------------------------------------------
(* What others do to a client                                              *)

Still(d) ==
  /\ stream'[d] = stream[d] /\ batch'[d] = batch[d]
  /\ yielded'[d] = yielded[d] /\ lastId'[d] = lastId[d]
  /\ base'[d] = base[d] /\ seen'[d] = seen[d]
  /\ phase'[d] = phase[d]
  /\ d \in resumed' <=> d \in resumed

\* Publishers are done with their events or have a new one, the ids may
\* restart, and nobody gets behind client d in the queue but with a new event.
Moves(d) ==
  /\ published' >= published
  /\ \/ Off' = Off /\ counter' >= counter
     \/ Off' >= published
  /\ \A p \in Pending' :
       \/ p \in Pending /\ sending'[p] = sending[p]
       \/ /\ sending'[p].n > published
          /\ Off' = Off => sending'[p].id > counter
  /\ \A p \in Pending' :
       Before(lock', d, p) => (Before(lock, d, p) \/ sending'[p].n > published)

LEMMA ProperKept ==
  ASSUME Types, Types', published' >= published, Off' = Off \/ Off' >= published
  PROVE  \A s : Proper(s) => Proper(s)'
<1>1. published' - counter' = published - counter \/ published' - counter' >= published
  BY DEF Off
<1>2. \A e : Genuine(e) => Genuine(e)'
  BY <1>1, GenuineKept
<1> SUFFICES ASSUME NEW s, Proper(s) PROVE Proper(s)' OBVIOUS
<1>3. \A i \in DOMAIN s : Genuine(s[i])' BY <1>2 DEF Proper
<1> QED BY <1>3 DEF Proper

LEMMA EventNumbers ==
  ASSUME NEW s \in Seq(Events), Proper(s)
  PROVE  /\ \A i \in DOMAIN s : /\ s[i].n \in 1 .. published /\ s[i].id \in Nat /\ s[i].id >= 1
                                /\ s[i].n \in Nat
         /\ s # <<>> => Len(s) \in DOMAIN s /\ Last(s) = s[Len(s)]
<1>1. \A i \in DOMAIN s : s[i] \in Events OBVIOUS
<1>2. s # <<>> => Len(s) \in DOMAIN s OBVIOUS
<1> QED BY <1>1, <1>2, EventFields DEF Proper, Genuine, Last

LEMMA LastNumber ==
  ASSUME NEW s \in Seq(Nat), s # <<>>
  PROVE  Len(s) \in DOMAIN s /\ Last(s) = s[Len(s)] /\ Last(s) \in Nat
BY DEF Last

LEMMA HoldingKept ==
  ASSUME Types, Types', NEW d \in Clients, Holding(d), Still(d), Moves(d)
  PROVE  Holding(d)'
<1>1. \A s : Proper(s) => Proper(s)'
  BY ProperKept DEF Moves
<1>2. PICK s, b, z : s = stream[d] /\ b = batch[d] /\ z = seen[d]
  OBVIOUS
<1>3. stream'[d] = s /\ batch'[d] = b /\ seen'[d] = z
  BY <1>2 DEF Still
<1>4. s \in Seq(Events) /\ b \in Seq(Events) /\ z \in Seq(Nat) /\ lastId[d] \in Nat
      /\ base[d] \in Nat /\ published \in Nat /\ published' \in Nat /\ Off \in Int /\ Off' \in Int
  BY <1>2 DEF Types, Off
<1>5. Proper(s) /\ Rising(s) /\ Proper(b) /\ Rising(b)
  BY <1>2 DEF Holding
<1>6. (Proper(stream[d]) /\ Rising(stream[d]) /\ Proper(batch[d]) /\ Rising(batch[d]))'
  BY <1>1, <1>3, <1>5 DEF Proper, Genuine
<1>7. ASSUME NEW i \in DOMAIN s, NEW p \in Pending' PROVE s[i].n < sending'[p].n
  <2>1. CASE p \in Pending /\ sending'[p] = sending[p]
    BY <1>2, <2>1 DEF Holding
  <2>2. CASE sending'[p].n > published
    <3>1. s[i].n \in 1 .. published BY <1>4, <1>5, EventNumbers
    <3>2. sending'[p].n \in Nat
      <4>1. sending'[p] \in Events BY DEF Types, Pending
      <4> QED BY <4>1, EventFields
    <3> QED BY <1>4, <2>2, <3>1, <3>2
  <2> QED BY <2>1, <2>2 DEF Moves
<1>8. \A i \in DOMAIN z : z[i] \in 1 .. published'
  <2>1. \A i \in DOMAIN z : z[i] \in 1 .. published BY <1>2 DEF Holding
  <2> QED BY <1>4, <2>1 DEF Moves
<1>9. z # <<>> /\ Last(z) > Off' => lastId'[d] = Last(z) - Off'
  <2> SUFFICES ASSUME z # <<>>, Last(z) > Off' PROVE lastId'[d] = Last(z) - Off'
    OBVIOUS
  <2>1. Last(z) \in 1 .. published
    <3>1. Len(z) \in DOMAIN z /\ Last(z) = z[Len(z)] BY <1>4, LastNumber
    <3> QED BY <1>2, <3>1 DEF Holding
  <2>2. Off' = Off
    BY <1>4, <2>1 DEF Moves
  <2> QED BY <1>2, <2>2 DEF Holding, Still
<1>10. (phase[d] \in {"away", "subscribing", "registered", "loaded"} => batch[d] = <<>>)'
  BY DEF Holding, Still
<1>11. /\ (seen[d] = <<>> <=> lastId[d] = 0)' /\ (d \in resumed => seen[d] # <<>>)'
       /\ (base[d] <= published)'
  BY <1>4 DEF Holding, Still, Moves
<1> QED
  BY <1>3, <1>6, <1>7, <1>8, <1>9, <1>10, <1>11 DEF Holding

\* A client has received, and its connection will replay, published events.
LEMMA Bounds ==
  ASSUME Types, NEW d \in Clients, Holding(d)
  PROVE  Top(d) \in 0 .. published /\ Reach(d) \in 0 .. published /\ Horizon(d) \in Nat
<1>1. Top(d) \in 0 .. published
  <2>1. seen[d] \in Seq(Nat) /\ published \in Nat BY DEF Types
  <2>2. seen[d] # <<>> => Last(seen[d]) \in 1 .. published
    BY <2>1, LastNumber DEF Holding
  <2> QED BY <2>1, <2>2 DEF Top
<1>2. batch[d] # <<>> => Last(batch[d]).n \in 1 .. published /\ Last(batch[d]).id \in Nat
  <2>1. batch[d] \in Seq(Events) /\ Proper(batch[d]) BY DEF Types, Holding
  <2> QED BY <2>1, EventNumbers
<1>3. published \in Nat /\ yielded[d] \in Nat BY DEF Types
<1> QED BY <1>1, <1>2, <1>3 DEF Reach, Horizon

LEMMA PendingEvents ==
  ASSUME Types, NEW p \in Pending
  PROVE  p \in Publishers /\ sending[p].n \in Nat /\ sending[p].id \in Nat
<1>1. p \in Publishers /\ sending[p] \in Events BY DEF Pending, Types
<1> QED BY <1>1, EventFields

LEMMA OrderedKept ==
  ASSUME Types, Types', NEW d \in Clients, Holding(d), Ordered(d), Still(d), Moves(d),
         Off' = Off \/ d \notin Waiting
  PROVE  Ordered(d)'
<1>1. /\ Top(d)' = Top(d) /\ Horizon(d)' = Horizon(d) /\ Reach(d)' = Reach(d)
  BY DEF Top, Horizon, Reach, Still
<1>2. Top(d) \in 0 .. published /\ Reach(d) \in 0 .. published /\ published \in Nat
  BY Bounds DEF Types
<1>3. ASSUME NEW p \in Pending', sending'[p].n > published
      PROVE  sending'[p].n > Top(d) /\ sending'[p].n > Reach(d)
  <2>1. sending'[p].n \in Nat
    <3>1. sending'[p] \in Events BY DEF Types, Pending
    <3> QED BY <3>1, EventFields
  <2> QED BY <1>2, <1>3, <2>1
<1>4. Increasing(seen[d])'
  BY DEF Ordered, Still, Increasing
<1>5. (phase[d] \in {"away", "subscribing"} => \A p \in Pending : sending[p].n > Top(d))'
  BY <1>1, <1>3 DEF Ordered, Still, Moves
<1>6. (phase[d] = "leaving" =>
         \A p \in Pending : Before(lock, d, p) => sending[p].n > Top(d))'
  BY <1>1, <1>3 DEF Ordered, Still, Moves
<1>7. (\A i \in DOMAIN batch[d] : batch[d][i].n > Top(d))'
  BY <1>1 DEF Ordered, Still
<1>8. (phase[d] \in Connected =>
         \A i \in DOMAIN stream[d] :
           stream[d][i].id > Horizon(d) => stream[d][i].n > Reach(d))'
  BY <1>1 DEF Ordered, Still, Connected
<1>9. (phase[d] \in Connected =>
         \A p \in Pending : sending[p].id > Horizon(d) => sending[p].n > Reach(d))'
  BY <1>1, <1>3 DEF Ordered, Still, Moves, Connected
<1>10. (phase[d] \in {"registered", "loaded"} /\ d \in resumed =>
          yielded[d] = 0 /\ \A i \in DOMAIN stream[d] : stream[d][i].n > Off)'
  BY DEF Ordered, Still, Waiting
<1> QED
  BY <1>4, <1>5, <1>6, <1>7, <1>8, <1>9, <1>10 DEF Ordered

\* What becomes of the numbers a client may still get: another event is with
\* a publisher, and one that was is fanned out, skipped or lost.
Accounts(d) ==
  /\ skipped \subseteq skipped' /\ lost[d] \subseteq lost'[d]
  /\ d \in subs' => d \in subs
  /\ d \in subs' => PendingNumbers \cup (published + 1 .. published') \subseteq
                      PendingNumbers' \cup skipped' \cup lost'[d]

\* A connection skips no id that has not been assigned.
LEMMA HorizonAssigned ==
  ASSUME Types, NEW d \in Clients, Holding(d), Fresh(d)
  PROVE  Horizon(d) <= counter
<1>0. published \in Nat /\ counter \in Nat /\ yielded[d] \in Nat BY DEF Types
<1>1. CASE batch[d] = <<>> BY <1>1 DEF Horizon, Fresh
<1>2. CASE batch[d] # <<>>
  <2>1. batch[d] \in Seq(Events) /\ Proper(batch[d]) BY DEF Types, Holding
  <2>2. PICK i \in DOMAIN batch[d] : Last(batch[d]) = batch[d][i]
    BY <1>2, <2>1, EventNumbers
  <2>3. batch[d][i].n > Off /\ batch[d][i].n \in 1 .. published
    BY <2>1, EventNumbers DEF Fresh
  <2>4. batch[d][i].id = batch[d][i].n - Off
    BY <2>1, <2>3 DEF Proper, Genuine
  <2>5. batch[d][i].id <= counter
    BY <1>0, <2>3, <2>4 DEF Off
  <2> QED BY <1>2, <2>2, <2>5 DEF Horizon
<1> QED BY <1>1, <1>2

LEMMA CompleteKept ==
  ASSUME Types, Types', Sending', NEW d \in Clients, Holding(d), Complete(d), Still(d),
         Moves(d), Accounts(d), Off' = Off \/ d \notin WithIds
  PROVE  Complete(d)'
<1>1. Horizon(d)' = Horizon(d) /\ Horizon(d) \in Nat /\ Horizon(d) <= counter
  BY Bounds, HorizonAssigned DEF Horizon, Still, Complete
<1>2. Got(d) \subseteq Got(d)' /\ Have(d) \subseteq Have(d)'
  BY DEF Got, Have, Still, Accounts
<1>3. /\ published \in Nat /\ published' \in Nat /\ counter \in Nat /\ counter' \in Nat
      /\ published <= published' /\ Off \in Int /\ Off' \in Int
      /\ yielded[d] \in Nat /\ base[d] \in Nat /\ yielded'[d] = yielded[d]
      /\ stream[d] \in Seq(Events) /\ batch[d] \in Seq(Events) /\ seen[d] \in Seq(Nat)
  BY DEF Types, Off, Moves, Still
<1>4. d \notin WithIds =>
        /\ yielded[d] = 0 /\ stream[d] = <<>> /\ batch[d] = <<>> /\ seen[d] = <<>>
        /\ Horizon(d) = 0
  <2> SUFFICES ASSUME d \notin WithIds
               PROVE  /\ yielded[d] = 0 /\ stream[d] = <<>> /\ batch[d] = <<>>
                      /\ seen[d] = <<>> /\ Horizon(d) = 0
    OBVIOUS
  <2>1. ~(yielded[d] > 0) /\ ~(lastId[d] > 0) /\ stream[d] = <<>> /\ batch[d] = <<>>
    BY DEF WithIds
  <2>2. yielded[d] = 0 /\ lastId[d] = 0
    BY <1>3, <2>1 DEF Types
  <2> QED BY <2>1, <2>2 DEF Holding, Horizon
<1>5. Fresh(d)'
  <2>1. CASE d \notin WithIds
    BY <1>3, <1>4, <2>1 DEF Fresh, Still
  <2>2. CASE Off' = Off /\ counter' >= counter
    BY <1>3, <2>2 DEF Fresh, Still, Complete
  <2>3. CASE Off' = Off /\ Off' >= published
    <3>1. published - counter >= published
      BY <2>3 DEF Off
    <3>2. counter' >= counter
      BY <1>3, <3>1
    <3> QED BY <1>3, <2>3, <3>2 DEF Fresh, Still, Complete
  <2> QED BY <2>1, <2>2, <2>3 DEF Moves
<1>6. Accounted(d)'
  BY <1>2 DEF Accounted, Complete, Still
<1>7. phase[d] \in Connected => Covered(d)'
  <2> SUFFICES ASSUME phase[d] \in Connected PROVE Covered(d)' OBVIOUS
  <2>1. ASSUME NEW p \in Pending', sending'[p].id <= Horizon(d)
        PROVE  sending'[p].n <= base[d] \/ sending'[p].n \in Have(d)'
    <3>1. sending'[p].id \in Nat /\ sending'[p].id >= 1
      <4>1. Genuine(sending[p])' BY DEF Sending
      <4>2. sending'[p] \in Events /\ sending'[p].id >= 1 BY <4>1 DEF Genuine
      <4> QED BY <4>2, EventFields
    <3>2. d \in WithIds
      BY <1>4, <2>1, <3>1
    <3>3. ~(sending'[p].id > counter)
      BY <1>1, <1>3, <2>1, <3>1
    <3>4. p \in Pending /\ sending'[p] = sending[p]
      BY <3>2, <3>3 DEF Moves
    <3> QED
      BY <1>2, <2>1, <3>4 DEF Complete, Covered
  <2>2. \A i \in DOMAIN stream[d] : stream[d][i].id <= Horizon(d) =>
          stream[d][i].n <= base[d] \/ stream[d][i].n \in Have(d)'
    BY <1>2 DEF Complete, Covered
  <2> QED
    BY <1>1, <2>1, <2>2 DEF Covered, Still
<1>8. phase[d] \in Connected /\ (d \notin resumed \/ phase[d] = "reading") => OnTheWay(d)'
  <2> SUFFICES ASSUME OnTheWay(d) PROVE OnTheWay(d)' BY DEF Complete
  <2>1. \A i \in DOMAIN stream[d] :
          base[d] + 1 .. stream[d][i].n \subseteq Have(d)' \cup Numbers(stream[d])
    BY <1>2 DEF OnTheWay
  <2>2. ASSUME d \in subs'
        PROVE  base[d] + 1 .. published' \subseteq
                 Have(d)' \cup Numbers(stream[d]) \cup PendingNumbers'
    <3> SUFFICES ASSUME NEW n \in base[d] + 1 .. published'
                 PROVE  n \in Have(d)' \cup Numbers(stream[d]) \cup PendingNumbers'
      OBVIOUS
    <3>1. skipped' \cup lost'[d] \subseteq Have(d)'
      BY DEF Have, Got
    <3>2. n \in base[d] + 1 .. published \/ n \in published + 1 .. published'
      BY <1>3
    <3>3. CASE n \in base[d] + 1 .. published
      BY <1>2, <2>2, <3>1, <3>3 DEF OnTheWay, Accounts
    <3>4. CASE n \in published + 1 .. published'
      BY <2>2, <3>1, <3>4 DEF Accounts
    <3> QED BY <3>2, <3>3, <3>4
  <2> QED
    BY <2>1, <2>2 DEF OnTheWay, Still
<1> QED
  BY <1>5, <1>6, <1>7, <1>8 DEF Complete, Still

LEMMA KeptOutside ==
  ASSUME Types, Types', Sending', NEW d \in Clients, Known(d),
         Still(d), Moves(d), Accounts(d),
         d \in stalled => d \in stalled', d \in outdated => d \in outdated',
         Off' = Off \/ (/\ d \in Waiting => d \in stalled'
                        /\ d \in WithIds => d \in outdated')
  PROVE  Known(d)'
<1>1. Holding(d)' BY HoldingKept DEF Known
<1>2. d \notin stalled' => Ordered(d)' BY OrderedKept DEF Known
<1>3. d \notin outdated' => Complete(d)' BY CompleteKept DEF Known
<1> QED BY <1>1, <1>2, <1>3 DEF Known

\* An action that only moves the queue, and may take publishers' events away.
LEMMA KeptQuiet ==
  ASSUME Types, Types', Sending', NEW d \in Clients, Known(d), Still(d),
         published' = published, counter' = counter, Pending' \subseteq Pending,
         \A p \in Pending' : sending'[p] = sending[p],
         \A p \in Pending' : Before(lock', d, p) => Before(lock, d, p),
         Accounts(d), d \in stalled => d \in stalled', d \in outdated => d \in outdated'
  PROVE  Known(d)'
<1>1. Off' = Off BY DEF Off
<1>2. Moves(d) BY <1>1 DEF Moves, Types
<1> QED BY <1>1, <1>2, KeptOutside

LEMMA NothingPending ==
  ASSUME Types, published' = published, NEW d \in Clients, PendingNumbers' = PendingNumbers,
         skipped' = skipped, lost'[d] = lost[d], d \in subs' => d \in subs
  PROVE  Accounts(d)
<1>1. published + 1 .. published' = {} BY DEF Types
<1> QED BY <1>1 DEF Accounts

LEMMA PublishKnown ==
  ASSUME Common, Types', NEW p \in Publishers, Publish(p),
         \A d \in Clients : Known(d)
  PROVE  Ring' /\ Sending' /\ \A d \in Clients : Known(d)'
<1>0. /\ task[p] = "idle" /\ deadline' = "none" /\ lock' = Append(lock, p)
      /\ task' = [task EXCEPT ![p] = "publish"]
      /\ UNCHANGED <<subs, phase, resumed, stream, batch, yielded, lastId, base, seen,
                     lost, skipped>>
      /\ IF deadline = "due" THEN RestartIds ELSE UNCHANGED <<outdated, stalled>>
  BY DEF Publish
<1>1. PICK e \in Events :
        /\ e.n = published + 1 /\ e.id = counter' /\ published' = published + 1
        /\ counter' = IF deadline = "due" THEN 1 ELSE counter + 1
        /\ sending' = [sending EXCEPT ![p] = e]
        /\ Ring'
  BY PublishEffect DEF Common
<1>2. Sending' /\ Pending' = Pending \cup {p} /\ p \notin Pending /\ Genuine(e)'
  BY <1>0, <1>1, SendingNew DEF Common
<1>3. /\ published \in Nat /\ counter \in Nat /\ counter <= published
      /\ published' \in Nat /\ counter' \in Nat
      /\ sending \in [Publishers -> Events]
  BY DEF Common, Types
<1>4. sending'[p] = e /\ \A q \in Pending : sending'[q] = sending[q]
  BY <1>1, <1>2, <1>3 DEF Pending
<1>5. /\ Off' = IF deadline = "due" THEN published ELSE Off
      /\ deadline # "due" => counter' = counter + 1
  BY <1>1, <1>3 DEF Off
<1>6. ASSUME NEW d \in Clients PROVE Known(d)'
  <2>1. Still(d) BY <1>0 DEF Still
  <2>2. Moves(d)
    <3>1. published' >= published
      BY <1>1, <1>3
    <3>2. (Off' = Off /\ counter' >= counter) \/ Off' >= published
      BY <1>3, <1>5
    <3>3. /\ e.n > published
          /\ Off' = Off => e.id > counter
      <4>1. e.n > published BY <1>1, <1>3
      <4>2. CASE deadline # "due"
        <5>1. e.id = counter + 1 BY <1>1, <1>5, <4>2
        <5>2. e.id > counter BY <1>3, <5>1
        <5> QED BY <4>1, <5>2
      <4>3. CASE deadline = "due"
        <5>0. Off' = published BY <1>5, <4>3
        <5>2. Off = published - counter BY DEF Off
        <5>1. Off' = Off => counter = 0 BY <1>3, <5>0, <5>2
        <5> QED BY <1>1, <1>3, <4>1, <4>3, <5>1
      <4> QED BY <4>2, <4>3
    <3>4. \A q \in Pending' : Before(lock', d, q) =>
             (Before(lock, d, q) \/ sending'[q].n > published)
      <4>1. ~Member(lock, p) BY <1>0 DEF Common, Queue
      <4>2. \A q : Before(lock', d, q) => (Before(lock, d, q) \/ q = p)
        BY <1>0, <4>1, Joined DEF Common
      <4> QED BY <1>4, <3>3, <4>2
    <3> QED
      BY <1>2, <1>4, <3>1, <3>2, <3>3, <3>4 DEF Moves
  <2>3. Accounts(d)
    <3>1. PendingNumbers \cup {e.n} \subseteq PendingNumbers'
      BY <1>2, <1>4 DEF PendingNumbers
    <3>2. published + 1 .. published' = {e.n}
      BY <1>1, <1>3
    <3> QED BY <1>0, <3>1, <3>2 DEF Accounts
  <2>4. d \in stalled => d \in stalled' BY <1>0 DEF RestartIds
  <2>5. d \in outdated => d \in outdated' BY <1>0 DEF RestartIds
  <2>6. Off' = Off \/ (/\ d \in Waiting => d \in stalled'
                       /\ d \in WithIds => d \in outdated')
    BY <1>0, <1>5 DEF RestartIds
  <2> QED
    BY <1>2, <2>1, <2>2, <2>3, <2>4, <2>5, <2>6, KeptOutside DEF Common
<1> QED BY <1>1, <1>2, <1>6

LEMMA PurgeKnown ==
  ASSUME Common, PurgeExpired, \A d \in Clients : Known(d)
  PROVE  Types' /\ Ring' /\ Queue' /\ Sending' /\ \A d \in Clients : Known(d)'
<1>0. /\ deadline = "due" /\ deadline' = "none" /\ counter' = 0 /\ replay' = <<>>
      /\ RestartIds
      /\ UNCHANGED <<subs, lock, task, sending, phase, resumed, stream, batch, yielded,
                     lastId, base, seen, lost, published, skipped>>
  BY DEF PurgeExpired
<1>1. Types'
  <2>1. stalled' \subseteq outdated' BY <1>0, WaitingHaveIds DEF RestartIds, Common, Types
  <2> QED BY <1>0, <2>1 DEF Common, Types
<1>2. Ring' BY <1>0 DEF Ring, Run
<1>3. Queue' BY <1>0 DEF Queue, Common
<1>4. Pending = {} /\ Pending' = {}
  BY <1>0 DEF Common, Sending, Pending
<1>5. Sending' BY <1>4 DEF Sending
<1>6. Off' = published /\ published \in Nat
  BY <1>0 DEF Off, Common, Types
<1>7. ASSUME NEW d \in Clients PROVE Known(d)'
  <2>1. Still(d) BY <1>0 DEF Still
  <2>2. Moves(d) BY <1>0, <1>4, <1>6 DEF Moves
  <2>3. Accounts(d)
    <3>1. PendingNumbers' = PendingNumbers BY <1>4 DEF PendingNumbers
    <3> QED BY <1>0, <3>1, NothingPending DEF Common
  <2>4. /\ d \in stalled => d \in stalled'
        /\ d \in outdated => d \in outdated'
        /\ d \in Waiting => d \in stalled'
        /\ d \in WithIds => d \in outdated'
    BY <1>0 DEF RestartIds
  <2> QED BY <1>1, <1>5, <2>1, <2>2, <2>3, <2>4, KeptOutside DEF Common
<1> QED BY <1>1, <1>2, <1>3, <1>5, <1>7

LEMMA CancelledKnown ==
  ASSUME Common, Types', NEW p \in Publishers, PublishCancelled(p),
         \A d \in Clients : Known(d)
  PROVE  Ring' /\ Sending' /\ \A d \in Clients : Known(d)'
<1>0. /\ task[p] = "publish" /\ skipped' = skipped \cup {sending[p].n}
      /\ task' = [task EXCEPT ![p] = "idle"] /\ sending' = [sending EXCEPT ![p] = NoEvent]
      /\ UNCHANGED <<ringVars, subs, clientVars, published>>
      /\ \E i \in DOMAIN lock : lock[i] = p /\ lock' = RemoveAt(lock, i)
  BY DEF PublishCancelled
<1>1. \A y, z : Before(lock', y, z) => Before(lock, y, z)
  BY <1>0, GaveUp DEF Common
<1>2. Pending' = Pending \ {p} /\ p \in Pending /\ \A q \in Pending' : sending'[q] = sending[q]
  BY <1>0 DEF Pending, Common, Types
<1>3. published' = published /\ counter' = counter /\ replay' = replay /\ deadline' = deadline
  BY <1>0 DEF ringVars
<1>4. Ring' BY <1>3 DEF Ring, Common
<1>5. Sending' BY <1>1, <1>2, <1>3, SendingKept DEF Common
<1>6. ASSUME NEW d \in Clients PROVE Known(d)'
  <2>1. Still(d) /\ stalled' = stalled /\ outdated' = outdated /\ lost' = lost
    BY <1>0 DEF Still, clientVars
  <2>2. PendingNumbers \subseteq PendingNumbers' \cup {sending[p].n}
    BY <1>2 DEF PendingNumbers
  <2>3. published + 1 .. published' = {}
    BY <1>3 DEF Common, Types
  <2>4. Accounts(d)
    BY <1>0, <2>1, <2>2, <2>3 DEF Accounts
  <2> QED BY <1>1, <1>2, <1>3, <1>5, <2>1, <2>4, KeptQuiet DEF Common
<1> QED BY <1>4, <1>5, <1>6

LEMMA CleanupKnown ==
  ASSUME Common, Types', NEW p \in Publishers, Cleanup(p) \/ DropSubscribers(p),
         \A d \in Clients : Known(d)
  PROVE  Ring' /\ Sending' /\ \A d \in Clients : Known(d)'
<1>0. /\ UNCHANGED <<counter, replay, sending, clientVars, published, skipped>>
      /\ task[p] # "publish" /\ task'[p] # "publish"
      /\ \A q \in Publishers : q # p => task'[q] = task[q]
      /\ subs' \subseteq subs
  BY DEF Cleanup, DropSubscribers, ringVars, Common, Types
<1>1. Pending' = Pending /\ p \notin Pending
  BY <1>0 DEF Pending
<1>2. \A y, z : Before(lock', y, z) => (Before(lock, y, z) \/ z = p)
  <2>1. CASE Cleanup(p)
    <3>1. ~Member(lock, p) /\ lock' = Append(lock, p) BY <2>1 DEF Cleanup, Common, Queue
    <3> QED BY <3>1, Joined DEF Common
  <2>2. CASE DropSubscribers(p) BY <2>2, Left DEF DropSubscribers, Common
  <2> QED BY <2>1, <2>2
<1>3. deadline' = "due" => deadline = "due"
  BY DEF Cleanup, DropSubscribers, ringVars
<1>4. Ring' BY <1>0 DEF Ring, Common
<1>5. Sending' BY <1>0, <1>1, <1>2, <1>3, SendingKept DEF Common
<1>6. ASSUME NEW d \in Clients PROVE Known(d)'
  <2>1. Still(d) /\ stalled' = stalled /\ outdated' = outdated /\ lost' = lost
    BY <1>0 DEF Still, clientVars
  <2>2. PendingNumbers' = PendingNumbers BY <1>0, <1>1 DEF PendingNumbers
  <2>3. Accounts(d) BY <1>0, <2>1, <2>2, NothingPending DEF Common
  <2> QED BY <1>0, <1>1, <1>2, <1>5, <2>1, <2>3, KeptQuiet DEF Common
<1> QED BY <1>4, <1>5, <1>6

LEMMA GraceKnown ==
  ASSUME Common, GraceElapses, \A d \in Clients : Known(d)
  PROVE  Types' /\ Ring' /\ Queue' /\ Sending' /\ \A d \in Clients : Known(d)'
<1>0. /\ lock = <<>> /\ deadline' = "due"
      /\ UNCHANGED <<counter, replay, subs, lock, task, sending, clientVars, published,
                     skipped>>
  BY DEF GraceElapses
<1>1. Types' BY <1>0 DEF clientVars, Common, Types
<1>2. Ring' /\ Queue' BY <1>0 DEF Ring, Queue, Common, clientVars
<1>3. Pending = {} /\ Pending' = Pending
  <2>1. \A p \in Publishers : task[p] = "idle" BY <1>0 DEF Common, Queue, Member
  <2> QED BY <1>0, <2>1 DEF Pending
<1>4. Sending' BY <1>3 DEF Sending
<1>5. ASSUME NEW d \in Clients PROVE Known(d)'
  <2>1. Still(d) /\ stalled' = stalled /\ outdated' = outdated /\ lost' = lost
    BY <1>0 DEF Still, clientVars
  <2>2. PendingNumbers' = PendingNumbers BY <1>0, <1>3 DEF PendingNumbers
  <2>3. Accounts(d) BY <1>0, <2>1, <2>2, NothingPending DEF Common
  <2> QED BY <1>0, <1>1, <1>3, <1>4, <2>1, <2>3, KeptQuiet DEF Common
<1> QED BY <1>1, <1>2, <1>4, <1>5

\* An event at the end of a stream.
LEMMA StreamAppend ==
  ASSUME NEW s \in Seq(Events), NEW e \in Events
  PROVE  /\ Append(s, e) \in Seq(Events) /\ Append(s, e) # <<>>
         /\ DOMAIN s \subseteq DOMAIN Append(s, e)
         /\ \A i \in DOMAIN s : Append(s, e)[i] = s[i]
         /\ \A i \in DOMAIN Append(s, e) :
              \/ i \in DOMAIN s
              \/ Append(s, e)[i] = e /\ i = Len(s) + 1
         /\ Numbers(Append(s, e)) = Numbers(s) \cup {e.n}
<1> DEFINE t == Append(s, e)
<1>1. /\ t \in Seq(Events) /\ DOMAIN t = 1 .. Len(s) + 1 /\ DOMAIN s = 1 .. Len(s)
      /\ Len(s) \in Nat /\ t[Len(s) + 1] = e /\ \A i \in 1 .. Len(s) : t[i] = s[i]
  OBVIOUS
<1> HIDE DEF t
<1>2. DOMAIN t = DOMAIN s \cup {Len(s) + 1} /\ t # <<>>
  BY <1>1
<1>3. Numbers(t) = Numbers(s) \cup {e.n}
  BY <1>1, <1>2 DEF Numbers
<1> QED BY <1>1, <1>2, <1>3 DEF t

\* The fan-out reaches client d: the event is the oldest one under way.
LEMMA Received ==
  ASSUME Types, Types', Sending, NEW d \in Clients, Known(d),
         NEW p \in Pending, NEW e, e = sending[p], Pending' = Pending \ {p},
         \A q \in Pending' : sending'[q] = sending[q] /\ e.n < sending[q].n,
         published' = published, counter' = counter, d \in subs,
         stream'[d] = Append(stream[d], e), batch'[d] = batch[d],
         yielded'[d] = yielded[d], lastId'[d] = lastId[d], base'[d] = base[d],
         seen'[d] = seen[d], phase'[d] = phase[d], resumed' = resumed,
         lost'[d] = lost[d], skipped' = skipped, stalled' = stalled, outdated' = outdated,
         \A q : Before(lock', d, q) => Before(lock, d, q)
  PROVE  Known(d)'
<1>0. /\ Off' = Off /\ published \in Nat /\ stream[d] \in Seq(Events) /\ base[d] \in Nat
      /\ \A s : Proper(s) => Proper(s)'
  <2>1. Off' = Off /\ published' >= published BY DEF Off, Types
  <2> QED BY <2>1, ProperKept DEF Types
<1>1. e \in Events /\ Genuine(e) /\ e.n > Off /\ e.n \in 1 .. published
  BY DEF Sending, Genuine
<1>2. PICK s, t : s = stream[d] /\ t = stream'[d]
  OBVIOUS
<1>3. /\ t \in Seq(Events) /\ DOMAIN s \subseteq DOMAIN t
      /\ \A i \in DOMAIN s : t[i] = s[i]
      /\ \A i \in DOMAIN t : i \in DOMAIN s \/ (t[i] = e /\ i = Len(s) + 1)
      /\ Numbers(t) = Numbers(s) \cup {e.n}
  BY <1>0, <1>1, <1>2, StreamAppend
<1>4. \A i \in DOMAIN s : s[i].n < e.n
  BY <1>2 DEF Known, Holding
<1>5. Holding(d)'
  <2>1. Proper(t)'
    <3>1. Proper(s) BY <1>2 DEF Known, Holding
    <3>2. Proper(t) BY <1>1, <1>3, <3>1 DEF Proper
    <3> QED BY <1>0, <3>2
  <2>2. Rising(t)
    <3>1. Rising(s) BY <1>2 DEF Known, Holding
    <3>2. Len(s) \in Nat /\ DOMAIN s = 1 .. Len(s) /\ DOMAIN t \subseteq Nat BY <1>0, <1>2, <1>3
    <3> SUFFICES ASSUME NEW i \in DOMAIN t, NEW j \in DOMAIN t, i < j PROVE t[i].n < t[j].n
      BY DEF Rising
    <3>3. CASE j \in DOMAIN s
      <4>1. i \in DOMAIN s BY <1>3, <3>2, <3>3
      <4> QED BY <1>3, <3>1, <3>3, <4>1 DEF Rising
    <3>4. CASE j \notin DOMAIN s
      <4>1. t[j] = e /\ i \in DOMAIN s BY <1>3, <3>2, <3>4
      <4> QED BY <1>3, <1>4, <4>1
    <3> QED BY <3>3, <3>4
  <2>3. \A i \in DOMAIN t, q \in Pending' : t[i].n < sending'[q].n
    BY <1>2, <1>3 DEF Known, Holding
  <2>4. Proper(batch[d])' /\ Rising(batch'[d])
    <3>1. PICK b : b = batch[d] OBVIOUS
    <3>2. Proper(b)' /\ Rising(b) BY <1>0, <3>1 DEF Known, Holding
    <3> QED BY <3>1, <3>2 DEF Proper, Genuine
  <2>5. Proper(stream[d])' /\ Rising(stream'[d])
    BY <1>2, <2>1, <2>2 DEF Proper, Genuine
  <2> QED BY <1>0, <1>2, <2>3, <2>4, <2>5 DEF Known, Holding
<1>6. ASSUME d \notin stalled PROVE Ordered(d)'
  <2>0. Ordered(d) BY <1>6 DEF Known
  <2>1. Top(d)' = Top(d) /\ Horizon(d)' = Horizon(d) /\ Reach(d)' = Reach(d)
    BY DEF Top, Horizon, Reach
  <2>2. phase[d] \in Connected =>
          \A i \in DOMAIN t : t[i].id > Horizon(d) => t[i].n > Reach(d)
    BY <1>2, <1>3, <2>0 DEF Ordered
  <2>3. phase[d] \in {"registered", "loaded"} /\ d \in resumed =>
          \A i \in DOMAIN t : t[i].n > Off
    BY <1>1, <1>2, <1>3, <2>0 DEF Ordered
  <2> QED BY <1>0, <1>2, <2>0, <2>1, <2>2, <2>3 DEF Ordered
<1>7. ASSUME d \notin outdated PROVE Complete(d)'
  <2>0. Complete(d) BY <1>7 DEF Known
  <2>1. Horizon(d)' = Horizon(d) /\ Got(d)' = Got(d) /\ Have(d)' = Have(d)
    BY DEF Horizon, Got, Have
  <2>2. Fresh(d)'
    <3>1. \A i \in DOMAIN t : t[i].n > Off BY <1>1, <1>2, <1>3, <2>0 DEF Complete, Fresh
    <3> QED BY <1>0, <1>2, <2>0, <3>1 DEF Complete, Fresh
  <2>3. Accounted(d)'
    BY <2>0, <2>1 DEF Complete, Accounted
  <2>4. Covered(d) => Covered(d)'
    <3>1. Covered(d) => \A i \in DOMAIN t : t[i].id <= Horizon(d) =>
                          t[i].n <= base[d] \/ t[i].n \in Have(d)
      BY <1>2, <1>3 DEF Covered
    <3> QED BY <1>2, <2>1, <3>1 DEF Covered
  <2>5. ASSUME OnTheWay(d) PROVE OnTheWay(d)'
    <3>1. PendingNumbers \subseteq PendingNumbers' \cup {e.n}
      BY DEF PendingNumbers
    <3>2. base[d] + 1 .. published \subseteq Have(d) \cup Numbers(s) \cup PendingNumbers
      BY <1>2, <2>5 DEF OnTheWay
    <3>3. base[d] + 1 .. published \subseteq Have(d) \cup Numbers(t) \cup PendingNumbers'
      BY <1>3, <3>1, <3>2
    <3>4. \A n \in PendingNumbers : n \in Nat /\ n >= e.n
      <4>1. \A q \in Pending : sending[q].n \in Nat BY PendingEvents
      <4>2. \A q \in Pending : q # p => e.n < sending[q].n OBVIOUS
      <4>3. e.n \in Nat BY <1>1, EventFields
      <4> QED BY <4>1, <4>2, <4>3 DEF PendingNumbers
    <3>5. base[d] + 1 .. e.n \subseteq Have(d) \cup Numbers(t)
      <4> SUFFICES ASSUME NEW n \in base[d] + 1 .. e.n PROVE n \in Have(d) \cup Numbers(t)
        OBVIOUS
      <4>1. n \in base[d] + 1 .. published BY <1>0, <1>1
      <4>2. n \in PendingNumbers => n = e.n BY <1>0, <1>1, <3>4
      <4> QED BY <1>3, <3>2, <4>1, <4>2
    <3>6. \A i \in DOMAIN t : base[d] + 1 .. t[i].n \subseteq Have(d) \cup Numbers(t)
      <4>1. \A i \in DOMAIN s : base[d] + 1 .. t[i].n \subseteq Have(d) \cup Numbers(t)
        BY <1>2, <1>3, <2>5 DEF OnTheWay
      <4> QED BY <1>3, <3>5, <4>1
    <3> QED BY <1>2, <2>1, <3>3, <3>6 DEF OnTheWay
  <2> QED BY <2>0, <2>2, <2>3, <2>4, <2>5 DEF Complete
<1> QED BY <1>5, <1>6, <1>7 DEF Known

LEMMA FanOutKnown ==
  ASSUME Common, Types', NEW p \in Publishers, FanOut(p), \A d \in Clients : Known(d)
  PROVE  Ring' /\ Sending' /\ \A d \in Clients : Known(d)'
<1>0. /\ Holds(p) /\ task[p] = "publish"
      /\ task' = [task EXCEPT ![p] = "idle"] /\ sending' = [sending EXCEPT ![p] = NoEvent]
      /\ lock' = Tail(lock)
      /\ UNCHANGED <<ringVars, subs, phase, resumed, batch, yielded, lastId, base,
                     seen, outdated, stalled, published, skipped>>
  BY DEF FanOut
<1>1. /\ \A y, z : Before(lock', y, z) => Before(lock, y, z)
      /\ \A y : Member(lock, y) /\ y # p => Before(lock, p, y)
  BY <1>0, Left DEF Common
<1>2. Pending' = Pending \ {p} /\ p \in Pending /\ \A q \in Pending' : sending'[q] = sending[q]
  BY <1>0 DEF Pending, Common, Types
<1>3. published' = published /\ counter' = counter /\ replay' = replay /\ deadline' = deadline
  BY <1>0 DEF ringVars
<1>4. Ring' BY <1>3 DEF Ring, Common
<1>5. Sending' BY <1>1, <1>2, <1>3, SendingKept DEF Common
<1>6. \A q \in Pending' : sending[p].n < sending[q].n
  <2>1. \A q \in Pending : Member(lock, q) BY DEF Pending, Common, Queue
  <2> QED BY <1>1, <1>2, <2>1 DEF Common, Sending
<1>7. ASSUME NEW d \in Clients PROVE Known(d)'
  <2>1. CASE d \in subs /\ HasRoom(d)
    <3>1. stream'[d] = Append(stream[d], sending[p]) /\ lost'[d] = lost[d]
      BY <2>1 DEF FanOut
    <3> QED BY <1>0, <1>1, <1>2, <1>3, <1>6, <2>1, <3>1, Received DEF Common
  <2>2. CASE ~(d \in subs /\ HasRoom(d))
    <3>1. /\ stream'[d] = stream[d]
          /\ lost'[d] = IF d \in subs THEN lost[d] \cup {sending[p].n} ELSE lost[d]
      BY <2>2 DEF FanOut
    <3>2. Still(d) BY <1>0, <3>1 DEF Still
    <3>3. PendingNumbers \subseteq PendingNumbers' \cup {sending[p].n}
      BY <1>2 DEF PendingNumbers
    <3>4. published + 1 .. published' = {}
      BY <1>3 DEF Common, Types
    <3>5. Accounts(d)
      BY <1>0, <3>1, <3>3, <3>4 DEF Accounts
    <3> QED BY <1>0, <1>1, <1>2, <1>3, <1>5, <3>2, <3>5, KeptQuiet DEF Common
  <2> QED BY <2>1, <2>2
<1> QED BY <1>4, <1>5, <1>7

-----------------------------------------------------------------------------
(* What a client does                                                      *)

ClientStep(c) ==
  \/ Connect(c) \/ Register(c) \/ LoadSnapshot(c) \/ StartReading(c)
  \/ YieldReplayed(c) \/ YieldLive(c) \/ Disconnect(c) \/ Unregister(c)

LEMMA ClientFrame ==
  ASSUME Types, NEW c \in Clients, ClientStep(c)
  PROVE  /\ published' = published /\ counter' = counter /\ replay' = replay
         /\ deadline' = deadline /\ skipped' = skipped /\ sending' = sending
         /\ Off' = Off /\ Pending' = Pending /\ PendingNumbers' = PendingNumbers
         /\ \A s : Proper(s) => Proper(s)'
<1>1. UNCHANGED <<ringVars, task, sending, published, skipped>>
  BY DEF ClientStep, Connect, Register, LoadSnapshot, StartReading, YieldReplayed, YieldLive,
         Disconnect, Unregister
<1>2. published' = published /\ counter' = counter /\ replay' = replay
      /\ deadline' = deadline /\ skipped' = skipped /\ sending' = sending /\ task' = task
  BY <1>1 DEF ringVars
<1>3. Off' = Off /\ Pending' = Pending /\ PendingNumbers' = PendingNumbers
  BY <1>2 DEF Off, Pending, PendingNumbers
<1>4. \A e : Genuine(e) => Genuine(e)'
  BY <1>2, <1>3 DEF Genuine
<1>5. \A s : Proper(s) => Proper(s)'
  BY <1>4 DEF Proper
<1> QED BY <1>2, <1>3, <1>5

LEMMA OthersKnown ==
  ASSUME Common, Types', NEW c \in Clients, ClientStep(c), \A d \in Clients : Known(d)
  PROVE  Ring' /\ Queue' /\ Sending' /\ \A d \in Clients \ {c} : Known(d)'
<1>0. /\ published' = published /\ counter' = counter /\ replay' = replay
      /\ deadline' = deadline /\ skipped' = skipped /\ sending' = sending
      /\ Pending' = Pending /\ PendingNumbers' = PendingNumbers
  BY ClientFrame DEF Common
<1>1. Queue' /\ \A y : \A r \in Publishers : Before(lock', y, r) => Before(lock, y, r)
  BY ClientQueue DEF Common, ClientStep
<1>2. Sending'
  <2>1. \A q \in Pending' : q \in Publishers BY <1>0 DEF Pending
  <2> QED BY <1>0, <1>1, <2>1, SendingKept DEF Common
<1>3. Ring' BY <1>0 DEF Common, Ring
<1>4. ASSUME NEW d \in Clients \ {c} PROVE Known(d)'
  <2> USE DEF Common, Types
  <2> DEFINE Unmoved == /\ Still(d) /\ lost'[d] = lost[d]
                        /\ d \in subs' => d \in subs
                        /\ d \in stalled => d \in stalled'
                        /\ d \in outdated => d \in outdated'
  <2>1. ASSUME \/ Connect(c) \/ LoadSnapshot(c) \/ StartReading(c)
               \/ Disconnect(c) \/ Unregister(c)
        PROVE  Unmoved
    <3>1. Still(d)
      BY <2>1 DEF Connect, LoadSnapshot, StartReading, Disconnect, Unregister, Still
    <3> QED BY <2>1, <3>1 DEF Connect, LoadSnapshot, StartReading, Disconnect, Unregister
  <2>2. ASSUME Register(c) PROVE Unmoved
    <3>1. /\ stream' = [stream EXCEPT ![c] = <<>>] /\ batch' = batch /\ resumed' = resumed
          /\ phase' = [phase EXCEPT ![c] = "registered"] /\ subs' = subs \cup {c}
      BY <2>2 DEF Register
    <3>2. /\ yielded'[d] = yielded[d] /\ lastId'[d] = lastId[d] /\ base'[d] = base[d]
          /\ seen'[d] = seen[d] /\ lost'[d] = lost[d]
          /\ d \in stalled => d \in stalled'
          /\ d \in outdated => d \in outdated'
      <4>1. CASE c \in resumed BY <2>2, <4>1 DEF Register
      <4>2. CASE c \notin resumed
        <5>1. /\ base' = [base EXCEPT ![c] = published]
              /\ seen' = [seen EXCEPT ![c] = <<>>]
              /\ lost' = [lost EXCEPT ![c] = {}]
              /\ lastId' = [lastId EXCEPT ![c] = 0]
              /\ yielded' = [yielded EXCEPT ![c] = counter]
              /\ outdated' = outdated \ {c} /\ stalled' = stalled \ {c}
          BY <2>2, <4>2 DEF Register
        <5> QED BY <5>1
      <4> QED BY <4>1, <4>2
    <3> QED BY <3>1, <3>2 DEF Still
  <2>3. ASSUME YieldReplayed(c) PROVE Unmoved
    <3>1. seen'[d] = seen[d] /\ lastId'[d] = lastId[d] /\ phase'[d] = phase[d]
      BY <2>3 DEF YieldReplayed, Yield
    <3>2. yielded'[d] = yielded[d] /\ batch'[d] = batch[d]
      BY <2>3 DEF YieldReplayed
    <3>3. UNCHANGED <<subs, resumed, stream, base, lost, outdated, stalled>>
      BY <2>3 DEF YieldReplayed
    <3> QED BY <3>1, <3>2, <3>3 DEF Still
  <2>4. ASSUME YieldLive(c) PROVE Unmoved
    <3>1. seen'[d] = seen[d] /\ lastId'[d] = lastId[d] /\ phase'[d] = phase[d]
      BY <2>4 DEF YieldLive, Yield
    <3>2. stream'[d] = stream[d]
      BY <2>4 DEF YieldLive
    <3>3. UNCHANGED <<subs, resumed, batch, yielded, base, lost, outdated, stalled>>
      BY <2>4 DEF YieldLive
    <3> QED BY <3>1, <3>2, <3>3 DEF Still
  <2>5. Unmoved
    BY <2>1, <2>2, <2>3, <2>4 DEF ClientStep
  <2>6. Accounts(d)
    BY <1>0, <2>5, NothingPending
  <2>7. \A p \in Pending' : Before(lock', d, p) => Before(lock, d, p)
    BY <1>0, <1>1 DEF Pending
  <2> QED
    BY <1>0, <1>2, <2>5, <2>6, <2>7, KeptQuiet
<1> QED BY <1>1, <1>2, <1>3, <1>4

\* Connect, LoadSnapshot and Disconnect leave the client's events alone.
LEMMA PhaseKnown ==
  ASSUME Common, Types', Queue', NEW c \in Clients, Known(c),
         Connect(c) \/ LoadSnapshot(c) \/ Disconnect(c)
  PROVE  Known(c)'
<1>0. /\ published' = published /\ counter' = counter /\ skipped' = skipped
      /\ sending' = sending /\ Off' = Off /\ Pending' = Pending
      /\ PendingNumbers' = PendingNumbers /\ \A s : Proper(s) => Proper(s)'
  BY ClientFrame DEF Common, ClientStep
<1>1. UNCHANGED <<subs, stream, batch, yielded, lastId, base, seen, lost, outdated, stalled>>
  BY DEF Connect, LoadSnapshot, Disconnect
<1>2. /\ Top(c)' = Top(c) /\ Horizon(c)' = Horizon(c) /\ Reach(c)' = Reach(c)
      /\ Got(c)' = Got(c) /\ Have(c)' = Have(c)
  BY <1>0, <1>1 DEF Top, Horizon, Reach, Got, Have
<1>3. \/ phase[c] = "away" /\ phase'[c] = "subscribing" /\ Connect(c)
      \/ phase[c] = "registered" /\ phase'[c] = "loaded" /\ resumed' = resumed
      \/ phase[c] \in Connected /\ phase'[c] = "leaving" /\ resumed' = resumed
  BY DEF Connect, LoadSnapshot, Disconnect, Common, Types, Connected
<1>4. phase'[c] = "leaving" => \A p \in Pending : ~Before(lock', c, p)
  <2> SUFFICES ASSUME phase'[c] = "leaving", NEW p \in Pending, Before(lock', c, p)
               PROVE  FALSE
    OBVIOUS
  <2>1. Before(lock, c, p)
    BY ClientQueue DEF Common, Pending
  <2>2. Member(lock, c)
    BY <2>1 DEF Before, Member
  <2> QED
    BY <1>3, <2>2 DEF Common, Queue, Connected
<1>5. Holding(c)'
  <2>1. Proper(stream[c])' /\ Proper(batch[c])'
    <3>1. PICK s, b : s = stream[c] /\ b = batch[c] OBVIOUS
    <3>2. Proper(s)' /\ Proper(b)' BY <1>0, <3>1 DEF Known, Holding
    <3> QED BY <1>1, <3>1, <3>2 DEF Proper, Genuine
  <2>2. c \in resumed' => seen[c] # <<>>
    BY <1>3 DEF Connect, Known, Holding
  <2>3. phase'[c] \in {"away", "subscribing", "registered", "loaded"} => batch[c] = <<>>
    BY <1>3 DEF Known, Holding
  <2> QED BY <1>0, <1>1, <2>1, <2>2, <2>3 DEF Known, Holding
<1>6. ASSUME c \notin stalled PROVE Ordered(c)'
  <2>0. Ordered(c) BY <1>6 DEF Known
  <2>1. CASE phase'[c] = "subscribing"
    BY <1>0, <1>1, <1>2, <1>3, <2>0, <2>1 DEF Ordered, Connected
  <2>2. CASE phase'[c] = "loaded"
    BY <1>0, <1>1, <1>2, <1>3, <2>0, <2>2 DEF Ordered, Connected
  <2>3. CASE phase'[c] = "leaving"
    BY <1>0, <1>1, <1>2, <1>3, <1>4, <2>0, <2>3 DEF Ordered, Connected
  <2> QED BY <1>3, <2>1, <2>2, <2>3
<1>7. ASSUME c \notin outdated PROVE Complete(c)'
  <2>0. Complete(c) BY <1>7 DEF Known
  <2>1. Fresh(c)' BY <1>0, <1>1, <2>0 DEF Complete, Fresh
  <2>2. Accounted(c)' BY <1>1, <1>2, <2>0 DEF Complete, Accounted
  <2>3. Covered(c) => Covered(c)' BY <1>0, <1>1, <1>2 DEF Covered
  <2>4. OnTheWay(c) => OnTheWay(c)' BY <1>0, <1>1, <1>2 DEF OnTheWay
  <2> QED BY <1>3, <2>0, <2>1, <2>2, <2>3, <2>4 DEF Complete, Connected
<1> QED BY <1>1, <1>5, <1>6, <1>7 DEF Known

\* The client is at the head of the queue: what is still to be fanned out was
\* published after all it has received.
LEMMA UnregisterKnown ==
  ASSUME Common, Types', NEW c \in Clients, Known(c), Unregister(c)
  PROVE  Known(c)'
<1>0. /\ published' = published /\ counter' = counter /\ skipped' = skipped
      /\ sending' = sending /\ Off' = Off /\ Pending' = Pending
  BY ClientFrame DEF Common, ClientStep
<1>1. /\ phase[c] = "leaving" /\ phase'[c] = "away" /\ resumed' = resumed
      /\ stream'[c] = <<>> /\ batch'[c] = <<>> /\ yielded'[c] = 0
      /\ UNCHANGED <<lastId, base, seen, lost, outdated, stalled>>
  BY DEF Unregister, Common, Types
<1>2. Top(c)' = Top(c) /\ Got(c)' = Got(c)
  BY <1>0, <1>1 DEF Top, Got
<1>3. \A p \in Pending : Before(lock, c, p)
  <2>1. \A y : Member(lock, y) /\ y # c => Before(lock, c, y)
    BY Left DEF Unregister, Common
  <2>2. \A p \in Pending : Member(lock, p) /\ p # c
    BY Apart DEF Pending, Common, Queue
  <2> QED BY <2>1, <2>2
<1>4. Holding(c)'
  BY <1>0, <1>1 DEF Known, Holding, Proper, Rising
<1>5. ASSUME c \notin stalled PROVE Ordered(c)'
  <2>0. Ordered(c) BY <1>5 DEF Known
  <2> QED BY <1>0, <1>1, <1>2, <1>3, <2>0 DEF Ordered, Connected
<1>6. ASSUME c \notin outdated PROVE Complete(c)'
  <2>0. Complete(c) BY <1>6 DEF Known
  <2>1. Fresh(c)' BY <1>0, <1>1, <2>0 DEF Complete, Fresh, Common, Types
  <2>2. Accounted(c)' BY <1>1, <1>2, <2>0 DEF Complete, Accounted
  <2> QED BY <1>1, <2>1, <2>2 DEF Complete, Connected
<1> QED BY <1>1, <1>4, <1>5, <1>6 DEF Known

LEMMA RegisterKnown ==
  ASSUME Common, Types', NEW c \in Clients, Known(c), Register(c)
  PROVE  Known(c)'
<1>0. /\ published' = published /\ counter' = counter /\ skipped' = skipped
      /\ sending' = sending /\ Off' = Off /\ Pending' = Pending
  BY ClientFrame DEF Common, ClientStep
<1>1. /\ phase[c] = "subscribing" /\ phase'[c] = "registered" /\ resumed' = resumed
      /\ stream'[c] = <<>> /\ batch' = batch /\ batch[c] = <<>>
  BY DEF Register, Common, Types, Known, Holding
<1>2. /\ published \in Nat /\ counter \in Nat /\ lastId[c] \in Nat
      /\ seen[c] \in Seq(Nat)
  BY DEF Common, Types
<1>3. \A p \in Pending : /\ sending[p].n \in 1 .. published /\ sending[p].id >= 1
                         /\ sending[p].n \in Nat /\ sending[p].id \in Nat
  BY PendingEvents DEF Common, Sending, Genuine
<1>4. CASE c \in resumed
  <2>1. /\ yielded'[c] = 0
        /\ UNCHANGED <<base, seen, lost, lastId, outdated, stalled>>
    BY <1>4 DEF Register, Common, Types
  <2>2. Top(c)' = Top(c) /\ Horizon(c)' = 0 /\ Reach(c)' = Top(c) /\ Got(c)' = Got(c)
    BY <1>0, <1>1, <2>1 DEF Top, Horizon, Reach, Got
  <2>3. Holding(c)'
    BY <1>0, <1>1, <2>1 DEF Known, Holding, Proper, Rising
  <2>4. ASSUME c \notin stalled PROVE Ordered(c)'
    <3>0. Ordered(c) BY <2>4 DEF Known
    <3>1. \A p \in Pending : sending[p].n > Top(c) BY <1>1, <3>0 DEF Ordered
    <3> QED BY <1>0, <1>1, <2>1, <2>2, <3>0, <3>1 DEF Ordered, Connected
  <2>5. ASSUME c \notin outdated PROVE Complete(c)'
    <3>0. Complete(c) BY <2>5 DEF Known
    <3>1. Fresh(c)' BY <1>0, <1>1, <1>2, <2>1, <3>0 DEF Complete, Fresh
    <3>2. Accounted(c)' BY <1>1, <2>1, <2>2, <3>0 DEF Complete, Accounted
    <3>3. Covered(c)' BY <1>0, <1>1, <1>3, <2>2 DEF Covered
    <3> QED BY <1>1, <1>4, <3>1, <3>2, <3>3 DEF Complete
  <2> QED BY <2>1, <2>3, <2>4, <2>5 DEF Known
<1>5. CASE c \notin resumed
  <2>1. /\ yielded'[c] = counter /\ base'[c] = published /\ seen'[c] = <<>>
        /\ lost'[c] = {} /\ lastId'[c] = 0
    BY <1>5 DEF Register, Common, Types
  <2>2. Top(c)' = 0 /\ Horizon(c)' = counter /\ Reach(c)' = 0
    BY <1>1, <2>1 DEF Top, Horizon, Reach
  <2>3. Holding(c)'
    BY <1>0, <1>1, <1>2, <1>5, <2>1 DEF Holding, Proper, Rising
  <2>4. Ordered(c)'
    <3>1. \A p \in Pending : sending[p].n > 0 BY <1>2, <1>3
    <3> QED BY <1>0, <1>1, <1>5, <2>1, <2>2, <3>1 DEF Ordered, Connected, Increasing
  <2>5. Fresh(c)' BY <1>0, <1>1, <1>2, <2>1 DEF Fresh
  <2>6. Accounted(c)' BY <1>1, <2>1 DEF Accounted
  <2>7. Covered(c)'
    <3>1. \A p \in Pending : sending[p].n <= published BY <1>2, <1>3
    <3> QED BY <1>0, <1>1, <2>1, <3>1 DEF Covered
  <2>8. OnTheWay(c)'
    <3>1. published + 1 .. published = {} BY <1>2
    <3> QED BY <1>0, <1>1, <2>1, <3>1 DEF OnTheWay
  <2> QED BY <2>3, <2>4, <2>5, <2>6, <2>7, <2>8 DEF Known, Complete
<1> QED BY <1>4, <1>5

\* The ring buffer holds events in order, all with ids of the current counter.
LEMMA RunEvents ==
  ASSUME Types, NEW s \in Seq(Events), Run(s, counter, published)
  PROVE  /\ Proper(s) /\ Rising(s)
         /\ \A i \in DOMAIN s : s[i].n > Off /\ s[i].id = s[i].n - Off
         /\ s # <<>> => Last(s).n = published /\ Last(s).id = counter
<1>1. /\ published \in Nat /\ counter \in Nat /\ counter <= published /\ Len(s) <= counter
      /\ Len(s) \in Nat /\ DOMAIN s = 1 .. Len(s) /\ Off = published - counter
  BY DEF Types, Run, Off
<1>2. ASSUME NEW i \in DOMAIN s
      PROVE  /\ s[i].n = published - Len(s) + i /\ s[i].id = counter - Len(s) + i
             /\ s[i].n > Off /\ s[i].id = s[i].n - Off /\ s[i].n \in 1 .. published
             /\ s[i].id >= 1 /\ s[i] \in Events
  <2>1. s[i].n = published - Len(s) + i /\ s[i].id = counter - Len(s) + i /\ s[i] \in Events
    BY DEF Run
  <2> QED BY <1>1, <2>1
<1>3. Proper(s) BY <1>2 DEF Proper, Genuine
<1>4. Rising(s)
  <2> SUFFICES ASSUME NEW i \in DOMAIN s, NEW j \in DOMAIN s, i < j PROVE s[i].n < s[j].n
    BY DEF Rising
  <2>1. s[i].n = published - Len(s) + i /\ s[j].n = published - Len(s) + j BY <1>2
  <2> QED BY <1>1, <2>1
<1>5. s # <<>> => Last(s).n = published /\ Last(s).id = counter
  <2> SUFFICES ASSUME s # <<>> PROVE Last(s).n = published /\ Last(s).id = counter OBVIOUS
  <2>1. PICK i \in DOMAIN s : i = Len(s) /\ Last(s) = s[i] BY DEF Last
  <2>2. s[i].n = published - Len(s) + i /\ s[i].id = counter - Len(s) + i BY <1>2
  <2> QED BY <1>1, <2>1, <2>2
<1> QED BY <1>2, <1>3, <1>4, <1>5

LEMMA StartKnown ==
  ASSUME Common, Types', NEW c \in Clients, Known(c), StartReading(c)
  PROVE  Known(c)'
<1>0. /\ published' = published /\ counter' = counter /\ skipped' = skipped
      /\ sending' = sending /\ Off' = Off /\ Pending' = Pending
      /\ PendingNumbers' = PendingNumbers /\ \A s : Proper(s) => Proper(s)'
  BY ClientFrame DEF Common, ClientStep
<1>1. /\ phase[c] = "loaded" /\ phase'[c] = "reading" /\ batch[c] = <<>>
      /\ UNCHANGED <<subs, resumed, stream, yielded, lastId, base, seen, outdated, stalled>>
  BY DEF StartReading, Common, Types, Known, Holding
<1>2. /\ published \in Nat /\ counter \in Nat /\ Off \in Int /\ Off = published - counter
      /\ lastId[c] \in Nat /\ base[c] \in Nat /\ seen[c] \in Seq(Nat)
      /\ stream[c] \in Seq(Events)
  BY DEF Common, Types, Off
<1>3. PICK b, s : b = batch'[c] /\ s = stream[c]
  OBVIOUS
<1>4. Proper(s) /\ Rising(s) /\ Proper(s)'
  BY <1>0, <1>3 DEF Known, Holding
<1>5. Top(c)' = Top(c) /\ Top(c) \in 0 .. published
  BY <1>1, Bounds DEF Top, Common, Known
<1>6. CASE c \notin resumed
  <2>1. b = <<>> /\ lost'[c] = lost[c]
    BY <1>3, <1>6 DEF StartReading, Common, Types
  <2>2. /\ Horizon(c)' = Horizon(c) /\ Reach(c)' = Reach(c)
        /\ Got(c)' = Got(c) /\ Have(c)' = Have(c)
    BY <1>0, <1>1, <1>3, <2>1 DEF Horizon, Reach, Top, Got, Have
  <2>3. Holding(c)'
    <3>1. Proper(stream[c])' BY <1>1, <1>3, <1>4 DEF Proper, Genuine
    <3> QED BY <1>0, <1>1, <1>3, <2>1, <3>1 DEF Known, Holding, Proper, Rising
  <2>4. c \notin stalled => Ordered(c)'
    BY <1>0, <1>1, <1>3, <1>5, <2>1, <2>2 DEF Known, Ordered, Connected
  <2>5. ASSUME c \notin outdated PROVE Complete(c)'
    <3>0. Complete(c) BY <2>5 DEF Known
    <3>1. Fresh(c)' BY <1>0, <1>1, <1>3, <2>1, <3>0 DEF Complete, Fresh
    <3>2. Accounted(c)' BY <1>1, <1>3, <2>1, <2>2, <3>0 DEF Complete, Accounted
    <3>3. Covered(c)' BY <1>0, <1>1, <2>2, <3>0 DEF Complete, Covered, Connected
    <3>4. OnTheWay(c)' BY <1>0, <1>1, <1>6, <2>2, <3>0 DEF Complete, OnTheWay, Connected
    <3> QED BY <3>1, <3>2, <3>3, <3>4 DEF Complete
  <2> QED BY <1>1, <2>3, <2>4, <2>5 DEF Known
<1>7. CASE c \in resumed
  <2>1. b = Beyond(replay, lastId[c]) /\ lost'[c] = lost[c] \cup Evicted(c)
    BY <1>3, <1>7 DEF StartReading, Common, Types
  <2>2. /\ b \in Seq(Events) /\ Run(b, counter, published)
        /\ \A i \in DOMAIN b : b[i].id > lastId[c]
        /\ \A i \in DOMAIN replay : replay[i].id > lastId[c] => replay[i].n \in Numbers(b)
    BY <1>2, <2>1, BeyondRun DEF Common, Types, Ring
  <2>3. /\ Proper(b) /\ Rising(b)
        /\ \A i \in DOMAIN b : b[i].n > Off /\ b[i].id = b[i].n - Off
        /\ b # <<>> => Last(b).n = published /\ Last(b).id = counter
    BY <2>2, RunEvents DEF Common
  <2>4. seen[c] # <<>> /\ Top(c) = Last(seen[c])
    BY <1>7 DEF Known, Holding, Top
  <2>5. Holding(c)'
    <3>1. Proper(stream[c])' BY <1>1, <1>3, <1>4 DEF Proper, Genuine
    <3>2. Proper(batch[c])' /\ Rising(batch'[c])
      <4>1. Proper(b)' BY <1>0, <2>3
      <4> QED BY <1>3, <2>3, <4>1 DEF Proper, Genuine
    <3> QED BY <1>0, <1>1, <1>3, <3>1, <3>2 DEF Known, Holding
  <2>6. ASSUME c \notin stalled PROVE Ordered(c)'
    <3>0. Ordered(c) BY <2>6 DEF Known
    <3>1. ASSUME NEW i \in DOMAIN b PROVE b[i].n > Top(c)
      <4>1. b[i].id > lastId[c] /\ b[i].n > Off /\ b[i].id = b[i].n - Off /\ b[i].n \in Nat
        BY <2>2, <2>3, EventNumbers
      <4>2. CASE Top(c) > Off
        <5>1. lastId[c] = Top(c) - Off BY <2>4, <4>2 DEF Known, Holding
        <5> QED BY <1>2, <1>5, <4>1, <5>1
      <4>3. CASE ~(Top(c) > Off) BY <1>2, <1>5, <4>1, <4>3
      <4> QED BY <4>2, <4>3
    <3>2. CASE b = <<>>
      <4>1. Horizon(c)' = Horizon(c) /\ Reach(c)' = Reach(c)
        BY <1>1, <1>3, <3>2 DEF Horizon, Reach, Top
      <4> QED BY <1>0, <1>1, <1>3, <1>5, <3>0, <3>2, <4>1 DEF Ordered, Connected
    <3>3. CASE b # <<>>
      <4>1. Horizon(c)' = counter BY <1>3, <2>3, <3>3 DEF Horizon
      <4>2. \A i \in DOMAIN s : ~(s[i].id > counter)
        <5> SUFFICES ASSUME NEW i \in DOMAIN s PROVE ~(s[i].id > counter) OBVIOUS
        <5>1. s[i].n > Off BY <1>1, <1>3, <1>7, <3>0 DEF Ordered
        <5>2. s[i].id = s[i].n - Off /\ s[i].n \in 1 .. published
          BY <1>4, <5>1 DEF Proper, Genuine
        <5> QED BY <1>2, <5>2
      <4>3. \A p \in Pending : ~(sending[p].id > counter)
        <5> SUFFICES ASSUME NEW p \in Pending PROVE ~(sending[p].id > counter) OBVIOUS
        <5>1. sending[p].id = sending[p].n - Off /\ sending[p].n \in 1 .. published
          BY DEF Common, Sending, Genuine
        <5> QED BY <1>2, <5>1
      <4> QED BY <1>0, <1>1, <1>3, <1>5, <3>0, <3>1, <4>1, <4>2, <4>3 DEF Ordered, Connected
    <3> QED BY <3>2, <3>3
  <2>7. ASSUME c \notin outdated PROVE Complete(c)'
    <3>0. Complete(c) BY <2>7 DEF Known
    <3>1. Fresh(c)' BY <1>0, <1>1, <1>3, <2>3, <3>0 DEF Complete, Fresh
    <3>2. Got(c) \subseteq Got(c)' /\ Evicted(c) \subseteq Got(c)'
      BY <1>0, <1>1, <2>1 DEF Got
    <3>3. Got(c)' \subseteq Have(c)' /\ Numbers(b) \subseteq Have(c)'
      BY <1>3 DEF Have
    <3>4. base[c] + 1 .. Last(seen[c]) \subseteq Got(c) /\ Last(seen[c]) > Off
      BY <2>4, <3>0 DEF Complete, Accounted, Fresh
    <3>5. lastId[c] = Last(seen[c]) - Off
      BY <2>4, <3>4 DEF Known, Holding
    <3>6. base[c] + 1 .. published \subseteq Have(c)'
      <4> SUFFICES ASSUME NEW n \in base[c] + 1 .. published PROVE n \in Have(c)'
        OBVIOUS
      <4>1. Last(seen[c]) \in 0 .. published BY <1>5, <2>4
      <4>2. CASE n <= Last(seen[c])
        BY <1>2, <3>2, <3>3, <3>4, <4>1, <4>2
      <4>3. CASE n > Last(seen[c])
        <5>1. LastSeen(c) = Last(seen[c]) BY <2>4 DEF LastSeen
        <5>2. n \in LastSeen(c) + 1 .. published BY <1>2, <4>1, <4>3, <5>1
        <5>3. CASE n \in Evicted(c) BY <3>2, <3>3, <5>3
        <5>4. CASE n \notin Evicted(c)
          <6>1. PICK i \in DOMAIN replay : replay[i].n = n
            BY <5>2, <5>4 DEF Evicted
          <6>2. replay[i].id = replay[i].n - Off
            BY RunEvents DEF Common, Types, Ring
          <6>3. replay[i].id > lastId[c]
            BY <1>2, <3>4, <3>5, <4>1, <4>3, <6>1, <6>2
          <6> QED BY <2>2, <3>3, <6>1, <6>3
        <5> QED BY <5>3, <5>4
      <4> QED BY <1>2, <4>1, <4>2, <4>3
    <3>7. Accounted(c)'
      <4>1. b # <<>> => Last(b).n = published BY <2>3
      <4> QED BY <1>0, <1>1, <1>3, <3>2, <3>4, <3>6, <4>1 DEF Accounted
    <3>8. \A n \in 1 .. published : n <= base[c] \/ n \in Have(c)'
      BY <1>2, <3>6
    <3>9. Covered(c)'
      <4>1. \A i \in DOMAIN s : s[i].n \in 1 .. published BY <1>4 DEF Proper, Genuine
      <4>2. \A p \in Pending : sending[p].n \in 1 .. published BY DEF Common, Sending, Genuine
      <4> QED BY <1>0, <1>1, <1>3, <3>8, <4>1, <4>2 DEF Covered
    <3>10. OnTheWay(c)'
      <4>1. \A i \in DOMAIN s : base[c] + 1 .. s[i].n \subseteq base[c] + 1 .. published
        <5>1. \A i \in DOMAIN s : s[i].n \in 1 .. published BY <1>4 DEF Proper, Genuine
        <5> QED BY <1>2, <5>1
      <4> QED BY <1>0, <1>1, <1>3, <3>6, <4>1 DEF OnTheWay
    <3> QED BY <3>1, <3>7, <3>9, <3>10 DEF Complete
  <2> QED BY <1>1, <2>5, <2>6, <2>7 DEF Known
<1> QED BY <1>6, <1>7

\* The first event leaves a stream or a batch.
LEMMA StreamTail ==
  ASSUME NEW s \in Seq(Events), s # <<>>, Proper(s), Rising(s)
  PROVE  /\ Tail(s) \in Seq(Events) /\ Proper(Tail(s)) /\ Rising(Tail(s))
         /\ 1 \in DOMAIN s /\ s[1] = Head(s) /\ Genuine(Head(s))
         /\ \A i \in DOMAIN Tail(s) : /\ Tail(s)[i].n > Head(s).n
                                      /\ \E j \in DOMAIN s : Tail(s)[i] = s[j]
         /\ Numbers(s) = Numbers(Tail(s)) \cup {Head(s).n}
         /\ Tail(s) # <<>> => Last(Tail(s)) = Last(s)
         /\ Tail(s) = <<>> => Last(s) = Head(s)
<1> DEFINE t == Tail(s)
<1>1. /\ t \in Seq(Events) /\ Len(t) = Len(s) - 1 /\ DOMAIN t = 1 .. Len(s) - 1
      /\ DOMAIN s = 1 .. Len(s) /\ Len(s) \in Nat \ {0}
      /\ Head(s) = s[1] /\ \A i \in 1 .. Len(s) - 1 : t[i] = s[i + 1]
  OBVIOUS
<1> HIDE DEF t
<1>2. t = <<>> => Len(t) = 0 OBVIOUS
<1>3. t # <<>> => Len(t) # 0 BY <1>1
<1>4. 1 \in DOMAIN s /\ \A i \in DOMAIN t : /\ i + 1 \in DOMAIN s /\ t[i] = s[i + 1]
                                            /\ 1 < i + 1 /\ i \in Nat
  BY <1>1
<1>5. Proper(t) /\ Genuine(Head(s)) BY <1>1, <1>4 DEF Proper
<1>6. ASSUME NEW i \in DOMAIN t, NEW j \in DOMAIN t, i < j PROVE t[i].n < t[j].n
  <2>1. i + 1 < j + 1 BY <1>4, <1>6
  <2> QED BY <1>4, <2>1 DEF Rising
<1>7. ASSUME NEW i \in DOMAIN t
      PROVE  t[i].n > Head(s).n /\ \E j \in DOMAIN s : t[i] = s[j]
  <2>1. s[1].n < s[i + 1].n BY <1>4 DEF Rising
  <2>2. s[1].n \in Nat /\ s[i + 1].n \in Nat BY <1>4, EventNumbers
  <2> QED BY <1>1, <1>4, <2>1, <2>2
<1>8. Numbers(s) = Numbers(t) \cup {Head(s).n}
  <2>1. \A i \in DOMAIN s : i = 1 \/ (i - 1 \in DOMAIN t /\ t[i - 1] = s[i]) BY <1>1
  <2> QED BY <1>1, <1>4, <2>1 DEF Numbers
<1>9. t # <<>> => Last(t) = Last(s) BY <1>1, <1>3 DEF Last
<1>10. t = <<>> => Last(s) = Head(s) BY <1>1, <1>2 DEF Last
<1> QED BY <1>1, <1>4, <1>5, <1>6, <1>7, <1>8, <1>9, <1>10 DEF t, Rising

\* The client receives event number n.
LEMMA SeenAppend ==
  ASSUME NEW z \in Seq(Nat), NEW n \in Nat
  PROVE  /\ Append(z, n) # <<>> /\ Last(Append(z, n)) = n
         /\ ToSet(Append(z, n)) = ToSet(z) \cup {n}
         /\ \A i \in DOMAIN Append(z, n) : i \in DOMAIN z \/ Append(z, n)[i] = n
         /\ \A i \in DOMAIN z : Append(z, n)[i] = z[i]
         /\ (Increasing(z) /\ (z # <<>> => Last(z) < n)) => Increasing(Append(z, n))
<1> DEFINE t == Append(z, n)
<1>1. /\ t \in Seq(Nat) /\ Len(t) = Len(z) + 1 /\ DOMAIN t = 1 .. Len(z) + 1
      /\ DOMAIN z = 1 .. Len(z) /\ Len(z) \in Nat
      /\ t[Len(z) + 1] = n /\ \A i \in 1 .. Len(z) : t[i] = z[i]
  OBVIOUS
<1> HIDE DEF t
<1>2. DOMAIN t = DOMAIN z \cup {Len(z) + 1} /\ t # <<>> BY <1>1
<1>3. Last(t) = n BY <1>1 DEF Last
<1>4. ToSet(t) = ToSet(z) \cup {n}
  <2>1. ToSet(t) \subseteq ToSet(z) \cup {n} BY <1>1, <1>2 DEF ToSet
  <2>2. ToSet(z) \subseteq ToSet(t) BY <1>1, <1>2 DEF ToSet
  <2>3. n \in ToSet(t) BY <1>1, <1>2 DEF ToSet
  <2> QED BY <2>1, <2>2, <2>3
<1>5. ASSUME Increasing(z), z # <<>> => Last(z) < n PROVE Increasing(t)
  <2> SUFFICES ASSUME NEW i \in DOMAIN t, NEW j \in DOMAIN t, i < j PROVE t[i] < t[j]
    BY DEF Increasing
  <2>1. i \in DOMAIN z BY <1>1, <1>2
  <2>2. CASE j \in DOMAIN z BY <1>1, <1>5, <2>1, <2>2 DEF Increasing
  <2>3. CASE j \notin DOMAIN z
    <3>1. t[j] = n /\ z # <<>> BY <1>1, <1>2, <2>1, <2>3
    <3>2. Len(z) \in DOMAIN z /\ Last(z) = z[Len(z)] BY <3>1, LastNumber
    <3>3. i = Len(z) \/ i < Len(z) BY <1>1, <2>1
    <3>4. z[i] = Last(z) \/ z[i] < Last(z) BY <1>5, <2>1, <3>2, <3>3 DEF Increasing
    <3>5. z[i] \in Nat /\ Last(z) \in Nat BY <2>1, <3>1, LastNumber
    <3> QED BY <1>1, <1>5, <2>1, <3>1, <3>4, <3>5
  <2> QED BY <2>2, <2>3
<1> QED BY <1>1, <1>2, <1>3, <1>4, <1>5 DEF t

\* A client that leaves is behind everybody in the queue.
LEMMA LeavesLast ==
  ASSUME Common, NEW c \in Clients, ClientStep(c), phase[c] = "reading"
  PROVE  \A p \in Pending : ~Before(lock', c, p)
<1> SUFFICES ASSUME NEW p \in Pending, Before(lock', c, p) PROVE FALSE OBVIOUS
<1>1. Before(lock, c, p) BY ClientQueue DEF Common, Pending, ClientStep
<1>2. Member(lock, c) BY <1>1 DEF Before, Member
<1> QED BY <1>2 DEF Common, Queue

LEMMA ReplayedKnown ==
  ASSUME Common, Types', NEW c \in Clients, Known(c), YieldReplayed(c)
  PROVE  Known(c)'
<1>0. /\ published' = published /\ counter' = counter /\ skipped' = skipped
      /\ sending' = sending /\ Off' = Off /\ Pending' = Pending
      /\ PendingNumbers' = PendingNumbers /\ \A s : Proper(s) => Proper(s)'
  BY ClientFrame DEF Common, ClientStep
<1>1. /\ phase[c] = "reading" /\ batch[c] # <<>>
      /\ UNCHANGED <<subs, resumed, stream, base, lost, outdated, stalled>>
  BY DEF YieldReplayed
<1>2. PICK b, t, h, z : b = batch[c] /\ t = Tail(b) /\ h = Head(b) /\ z = seen[c]
  OBVIOUS
<1>3. /\ seen'[c] = Append(z, h.n) /\ lastId'[c] = h.id /\ yielded'[c] = h.id
      /\ batch'[c] = t /\ phase'[c] \in {"reading", "leaving"}
  BY <1>1, <1>2 DEF YieldReplayed, Yield, Common, Types
<1>4. /\ published \in Nat /\ counter \in Nat /\ Off \in Int /\ Off = published - counter
      /\ base[c] \in Nat /\ z \in Seq(Nat) /\ b \in Seq(Events) /\ b # <<>>
      /\ stream[c] \in Seq(Events)
  BY <1>1, <1>2 DEF Common, Types, Off
<1>5. /\ t \in Seq(Events) /\ Proper(t) /\ Rising(t) /\ Genuine(h)
      /\ 1 \in DOMAIN b /\ b[1] = h
      /\ \A i \in DOMAIN t : t[i].n > h.n /\ \E j \in DOMAIN b : t[i] = b[j]
      /\ Numbers(b) = Numbers(t) \cup {h.n}
      /\ t # <<>> => Last(t) = Last(b)
      /\ t = <<>> => Last(b) = h
  <2>1. Proper(b) /\ Rising(b) BY <1>2 DEF Known, Holding
  <2> QED BY <1>2, <1>4, <2>1, StreamTail
<1>6. h \in Events /\ h.n \in 1 .. published /\ h.n \in Nat /\ h.id \in Nat /\ h.id >= 1
  BY <1>5, EventFields DEF Genuine
<1>7. /\ Append(z, h.n) # <<>> /\ Last(Append(z, h.n)) = h.n
      /\ ToSet(Append(z, h.n)) = ToSet(z) \cup {h.n}
      /\ \A i \in DOMAIN Append(z, h.n) : i \in DOMAIN z \/ Append(z, h.n)[i] = h.n
      /\ \A i \in DOMAIN z : Append(z, h.n)[i] = z[i]
      /\ (Increasing(z) /\ (z # <<>> => Last(z) < h.n)) => Increasing(Append(z, h.n))
  BY <1>4, <1>6, SeenAppend
<1>8. /\ Top(c)' = h.n /\ Horizon(c)' = Horizon(c) /\ Reach(c)' = Reach(c)
  BY <1>1, <1>2, <1>3, <1>5, <1>7 DEF Top, Horizon, Reach
<1>9. Holding(c)'
  <2>1. Proper(stream[c])' /\ Rising(stream'[c])
    <3>1. PICK s : s = stream[c] OBVIOUS
    <3>2. Proper(s)' /\ Rising(s) BY <1>0, <3>1 DEF Known, Holding
    <3> QED BY <1>1, <3>1, <3>2 DEF Proper, Genuine
  <2>2. Proper(batch[c])' /\ Rising(batch'[c])
    <3>1. Proper(t)' BY <1>0, <1>5
    <3> QED BY <1>3, <1>5, <3>1 DEF Proper, Genuine
  <2>3. \A i \in DOMAIN seen'[c] : seen'[c][i] \in 1 .. published
    BY <1>2, <1>3, <1>6, <1>7 DEF Known, Holding
  <2>4. seen'[c] # <<>> /\ lastId'[c] # 0 BY <1>3, <1>6, <1>7
  <2>5. Last(seen'[c]) > Off => lastId'[c] = Last(seen'[c]) - Off
    BY <1>3, <1>5, <1>7 DEF Genuine
  <2> QED BY <1>0, <1>1, <1>3, <2>1, <2>2, <2>3, <2>4, <2>5 DEF Known, Holding
<1>10. ASSUME c \notin stalled PROVE Ordered(c)'
  <2>0. Ordered(c) BY <1>10 DEF Known
  <2>1. h.n > Top(c) BY <1>2, <1>5, <2>0 DEF Ordered
  <2>2. Increasing(seen'[c])
    <3>1. z # <<>> => Last(z) < h.n BY <1>2, <1>4, <1>6, <2>1, LastNumber DEF Top
    <3> QED BY <1>2, <1>3, <1>7, <2>0, <3>1 DEF Ordered
  <2>3. phase'[c] = "leaving" => \A p \in Pending : ~Before(lock', c, p)
    BY <1>1, LeavesLast DEF ClientStep
  <2>4. \A i \in DOMAIN batch'[c] : batch'[c][i].n > h.n BY <1>3, <1>5
  <2> QED BY <1>0, <1>1, <1>3, <1>8, <2>0, <2>2, <2>3, <2>4 DEF Ordered, Connected
<1>11. ASSUME c \notin outdated PROVE Complete(c)'
  <2>0. Complete(c) BY <1>11 DEF Known
  <2>1. h.n > Off /\ h.id = h.n - Off
    <3>1. h.n > Off BY <1>2, <1>5, <2>0 DEF Complete, Fresh
    <3> QED BY <1>5, <3>1 DEF Genuine
  <2>2. Fresh(c)'
    <3>1. h.id <= counter BY <1>4, <1>6, <2>1
    <3>2. \A i \in DOMAIN t : t[i].n > Off BY <1>2, <1>5, <2>0 DEF Complete, Fresh
    <3> QED BY <1>0, <1>1, <1>3, <1>7, <2>0, <2>1, <3>1, <3>2 DEF Complete, Fresh
  <2>3. Got(c)' = Got(c) \cup {h.n}
    BY <1>0, <1>1, <1>2, <1>3, <1>7 DEF Got
  <2>4. Have(c)' = Have(c)
    BY <1>2, <1>3, <1>5, <2>3 DEF Have
  <2>5. base[c] + 1 .. Last(b).n \subseteq Have(c) BY <1>1, <1>2, <2>0 DEF Complete, Accounted
  <2>6. base[c] + 1 .. h.n \subseteq Got(c)'
    <3> SUFFICES ASSUME NEW n \in base[c] + 1 .. h.n PROVE n \in Got(c)' OBVIOUS
    <3>1. h.n <= Last(b).n /\ Last(b).n \in Nat
      <4>1. CASE t = <<>> BY <1>5, <1>6, <4>1
      <4>2. CASE t # <<>>
        <5>1. PICK i \in DOMAIN t : Last(t) = t[i] BY <1>5, <4>2, EventNumbers
        <5>2. t[i].n \in Nat BY <1>5, EventNumbers
        <5>3. t[i].n > h.n BY <1>5
        <5> QED BY <1>5, <1>6, <4>2, <5>1, <5>2, <5>3
      <4> QED BY <4>1, <4>2
    <3>2. n \in base[c] + 1 .. Last(b).n BY <1>4, <1>6, <3>1
    <3>3. n \in Got(c) \cup Numbers(b) BY <1>2, <2>5, <3>2 DEF Have
    <3>4. n \notin Numbers(t)
      <4>1. \A i \in DOMAIN t : t[i].n > h.n /\ t[i].n \in Nat BY <1>5, EventNumbers
      <4>2. \A i \in DOMAIN t : t[i].n # n BY <1>4, <1>6, <4>1
      <4> QED BY <4>2 DEF Numbers
    <3> QED BY <1>5, <2>3, <3>3, <3>4
  <2>7. Accounted(c)'
    BY <1>1, <1>3, <1>5, <1>7, <2>4, <2>5, <2>6 DEF Accounted
  <2>8. Covered(c)' BY <1>0, <1>1, <1>8, <2>0, <2>4 DEF Complete, Covered, Connected
  <2>9. OnTheWay(c)' BY <1>0, <1>1, <2>0, <2>4 DEF Complete, OnTheWay, Connected
  <2> QED BY <2>2, <2>7, <2>8, <2>9 DEF Complete
<1> QED BY <1>1, <1>9, <1>10, <1>11 DEF Known

LEMMA LiveKnown ==
  ASSUME Common, Types', NEW c \in Clients, Known(c), YieldLive(c)
  PROVE  Known(c)'
<1>0. /\ published' = published /\ counter' = counter /\ skipped' = skipped
      /\ sending' = sending /\ Off' = Off /\ Pending' = Pending
      /\ PendingNumbers' = PendingNumbers /\ \A s : Proper(s) => Proper(s)'
  BY ClientFrame DEF Common, ClientStep
<1>1. /\ phase[c] = "reading" /\ batch[c] = <<>> /\ stream[c] # <<>>
      /\ UNCHANGED <<subs, resumed, batch, yielded, base, lost, outdated, stalled>>
  BY DEF YieldLive
<1>2. PICK s, t, h, z : s = stream[c] /\ t = Tail(s) /\ h = Head(s) /\ z = seen[c]
  OBVIOUS
<1>3. /\ stream'[c] = t /\ phase'[c] \in {"reading", "leaving"}
      /\ \/ /\ h.id <= yielded[c] /\ seen'[c] = z /\ lastId'[c] = lastId[c]
            /\ phase'[c] = "reading"
         \/ /\ ~(h.id <= yielded[c]) /\ seen'[c] = Append(z, h.n) /\ lastId'[c] = h.id
  <2>1. stream'[c] = t BY <1>2 DEF YieldLive, Common, Types
  <2>2. CASE h.id <= yielded[c]
    BY <1>1, <1>2, <2>1, <2>2 DEF YieldLive
  <2>3. CASE ~(h.id <= yielded[c])
    <3>1. Yield(c, h) BY <1>2, <2>3 DEF YieldLive
    <3> QED BY <1>1, <1>2, <2>1, <2>3, <3>1 DEF Yield, Common, Types
  <2> QED BY <2>2, <2>3
<1>4. /\ published \in Nat /\ counter \in Nat /\ Off \in Int /\ Off = published - counter
      /\ base[c] \in Nat /\ z \in Seq(Nat) /\ s \in Seq(Events) /\ s # <<>>
      /\ yielded[c] \in Nat
  BY <1>1, <1>2 DEF Common, Types, Off
<1>5. /\ t \in Seq(Events) /\ Proper(t) /\ Rising(t) /\ Genuine(h)
      /\ 1 \in DOMAIN s /\ s[1] = h
      /\ \A i \in DOMAIN t : t[i].n > h.n /\ \E j \in DOMAIN s : t[i] = s[j]
      /\ Numbers(s) = Numbers(t) \cup {h.n}
  <2>1. Proper(s) /\ Rising(s) BY <1>2 DEF Known, Holding
  <2> QED BY <1>2, <1>4, <2>1, StreamTail
<1>6. h \in Events /\ h.n \in 1 .. published /\ h.n \in Nat /\ h.id \in Nat /\ h.id >= 1
  BY <1>5, EventFields DEF Genuine
<1>7. /\ Append(z, h.n) # <<>> /\ Last(Append(z, h.n)) = h.n
      /\ ToSet(Append(z, h.n)) = ToSet(z) \cup {h.n}
      /\ \A i \in DOMAIN Append(z, h.n) : i \in DOMAIN z \/ Append(z, h.n)[i] = h.n
      /\ \A i \in DOMAIN z : Append(z, h.n)[i] = z[i]
      /\ (Increasing(z) /\ (z # <<>> => Last(z) < h.n)) => Increasing(Append(z, h.n))
  BY <1>4, <1>6, SeenAppend
<1>8. Horizon(c)' = yielded[c] /\ Horizon(c) = yielded[c] /\ Reach(c) = Top(c)
      /\ Reach(c)' = Top(c)'
  BY <1>1 DEF Horizon, Reach
<1>9. Proper(stream[c])' /\ Rising(stream'[c])
  <2>1. Proper(t)' BY <1>0, <1>5
  <2> QED BY <1>3, <1>5, <2>1 DEF Proper, Genuine
<1>10. \A i \in DOMAIN t, p \in Pending : t[i].n < sending[p].n
  BY <1>2, <1>5 DEF Known, Holding
<1>11. Holding(c)'
  <2>1. CASE seen'[c] = z /\ lastId'[c] = lastId[c]
    BY <1>0, <1>1, <1>2, <1>3, <1>9, <1>10, <2>1 DEF Known, Holding, Proper
  <2>2. CASE seen'[c] = Append(z, h.n) /\ lastId'[c] = h.id
    <3>1. \A i \in DOMAIN seen'[c] : seen'[c][i] \in 1 .. published
      BY <1>2, <1>6, <1>7, <2>2 DEF Known, Holding
    <3>2. seen'[c] # <<>> /\ lastId'[c] # 0 BY <1>6, <1>7, <2>2
    <3>3. Last(seen'[c]) > Off => lastId'[c] = Last(seen'[c]) - Off
      BY <1>5, <1>7, <2>2 DEF Genuine
    <3> QED BY <1>0, <1>1, <1>3, <1>9, <1>10, <3>1, <3>2, <3>3 DEF Known, Holding, Proper
  <2> QED BY <1>3, <2>1, <2>2
<1>12. ASSUME c \notin stalled PROVE Ordered(c)'
  <2>0. Ordered(c) BY <1>12 DEF Known
  <2>1. CASE seen'[c] = z
    <3>1. Top(c)' = Top(c) BY <1>2, <2>1 DEF Top
    <3>2. \A i \in DOMAIN t : t[i].id > Horizon(c) => t[i].n > Reach(c)
      BY <1>1, <1>2, <1>5, <2>0 DEF Ordered, Connected
    <3>3. phase'[c] = "leaving" => \A p \in Pending : ~Before(lock', c, p)
      BY <1>1, LeavesLast DEF ClientStep
    <3> QED BY <1>0, <1>1, <1>2, <1>3, <1>8, <2>0, <2>1, <3>1, <3>2, <3>3
            DEF Ordered, Connected
  <2>2. CASE ~(h.id <= yielded[c]) /\ seen'[c] = Append(z, h.n)
    <3>1. Top(c)' = h.n BY <1>7, <2>2 DEF Top
    <3>2. h.n > Top(c)
      <4>1. h.id > Horizon(c) BY <1>4, <1>6, <1>8, <2>2
      <4> QED BY <1>1, <1>2, <1>5, <1>8, <2>0, <4>1 DEF Ordered, Connected
    <3>3. Increasing(seen'[c])
      <4>1. z # <<>> => Last(z) < h.n BY <1>2, <1>4, <1>6, <3>2, LastNumber DEF Top
      <4> QED BY <1>2, <1>7, <2>0, <2>2, <4>1 DEF Ordered
    <3>4. phase'[c] = "leaving" => \A p \in Pending : ~Before(lock', c, p)
      BY <1>1, LeavesLast DEF ClientStep
    <3>5. \A p \in Pending : sending[p].n > h.n
      <4>1. \A p \in Pending : h.n < sending[p].n BY <1>2, <1>5 DEF Known, Holding
      <4>2. \A p \in Pending : sending[p].n \in Nat BY PendingEvents DEF Common
      <4> QED BY <1>6, <4>1, <4>2
    <3>6. \A i \in DOMAIN t : t[i].n > h.n BY <1>5
    <3> QED BY <1>0, <1>1, <1>3, <1>8, <3>1, <3>3, <3>4, <3>5, <3>6 DEF Ordered, Connected
  <2> QED BY <1>3, <2>1, <2>2
<1>13. ASSUME c \notin outdated PROVE Complete(c)'
  <2>0. Complete(c) /\ Covered(c) /\ OnTheWay(c)
    BY <1>1, <1>13 DEF Known, Complete, Connected
  <2>1. Have(c) = Got(c) /\ Have(c)' = Got(c)'
    BY <1>1 DEF Have, Numbers
  <2>2. /\ Got(c) \subseteq Got(c)'
        /\ seen'[c] = Append(z, h.n) => h.n \in Got(c)'
    BY <1>0, <1>1, <1>2, <1>3, <1>7 DEF Got
  <2>3. h.n > Off BY <1>2, <1>5, <2>0 DEF Complete, Fresh
  <2>4. Fresh(c)'
    <3>1. \A i \in DOMAIN t : t[i].n > Off BY <1>2, <1>5, <2>0 DEF Complete, Fresh
    <3> QED BY <1>0, <1>1, <1>2, <1>3, <1>7, <2>0, <2>3, <3>1 DEF Complete, Fresh
  <2>5. base[c] + 1 .. h.n \subseteq Got(c) \cup {h.n}
    <3> SUFFICES ASSUME NEW n \in base[c] + 1 .. h.n PROVE n \in Got(c) \cup {h.n} OBVIOUS
    <3>1. n \in Got(c) \cup Numbers(s) BY <1>2, <1>5, <2>0, <2>1 DEF OnTheWay
    <3>2. n \notin Numbers(t)
      <4>1. \A i \in DOMAIN t : t[i].n > h.n /\ t[i].n \in Nat BY <1>5, EventNumbers
      <4>2. \A i \in DOMAIN t : t[i].n # n BY <1>4, <1>6, <4>1
      <4> QED BY <4>2 DEF Numbers
    <3> QED BY <1>5, <3>1, <3>2
  <2>6. Accounted(c)'
    <3>1. CASE seen'[c] = z BY <1>1, <1>2, <2>0, <2>2, <3>1 DEF Complete, Accounted
    <3>2. CASE seen'[c] = Append(z, h.n) BY <1>1, <1>7, <2>2, <2>5, <3>2 DEF Accounted
    <3> QED BY <1>3, <3>1, <3>2
  <2>7. Covered(c)'
    <3>1. \A i \in DOMAIN t : t[i].id <= Horizon(c) => t[i].n <= base[c] \/ t[i].n \in Have(c)
      BY <1>2, <1>5, <2>0 DEF Covered
    <3> QED BY <1>0, <1>1, <1>3, <1>8, <2>0, <2>1, <2>2, <3>1 DEF Covered
  <2>8. h.n <= base[c] \/ h.n \in Got(c)'
    <3>1. CASE h.id <= yielded[c]
      BY <1>2, <1>5, <1>8, <2>0, <2>1, <2>2, <3>1 DEF Covered
    <3>2. CASE ~(h.id <= yielded[c]) BY <1>3, <2>2, <3>2
    <3> QED BY <3>1, <3>2
  <2>9. \A n \in Nat : n \in base[c] + 1 .. n /\ n \in Have(c) \cup Numbers(s) =>
                         n \in Have(c)' \cup Numbers(t)
    <3> SUFFICES ASSUME NEW n \in Nat, n \in base[c] + 1 .. n, n \in Have(c) \cup Numbers(s)
                 PROVE  n \in Have(c)' \cup Numbers(t)
      OBVIOUS
    <3>1. ~(n <= base[c]) BY <1>4
    <3> QED BY <1>5, <2>1, <2>2, <2>8, <3>1
  <2>10. OnTheWay(c)'
    <3>1. ASSUME c \in subs, NEW n \in base[c] + 1 .. published
          PROVE  n \in Have(c)' \cup Numbers(t) \cup PendingNumbers
      <4>1. n \in Nat /\ n \in base[c] + 1 .. n BY <1>4
      <4>2. n \in Have(c) \cup Numbers(s) \cup PendingNumbers
        BY <1>2, <2>0, <3>1 DEF OnTheWay
      <4> QED BY <2>9, <4>1, <4>2
    <3>2. ASSUME NEW i \in DOMAIN t, NEW n \in base[c] + 1 .. t[i].n
          PROVE  n \in Have(c)' \cup Numbers(t)
      <4>1. t[i].n \in Nat BY <1>5, EventNumbers
      <4>2. n \in Nat /\ n \in base[c] + 1 .. n BY <1>4, <4>1
      <4>3. n \in Have(c) \cup Numbers(s) BY <1>2, <1>5, <2>0 DEF OnTheWay
      <4> QED BY <2>9, <4>2, <4>3
    <3> QED BY <1>0, <1>1, <1>3, <3>1, <3>2 DEF OnTheWay
  <2> QED BY <2>4, <2>6, <2>7, <2>10 DEF Complete
<1> QED BY <1>1, <1>11, <1>12, <1>13 DEF Known

-----------------------------------------------------------------------------
(* The theorems                                                            *)

LEMMA InitBus == Init => BusInv
<1> SUFFICES ASSUME Init PROVE BusInv OBVIOUS
<1>1. Common BY InitCommon
<1>2. Pending = {} BY DEF Init, Pending
<1>3. ASSUME NEW c \in Clients PROVE Known(c)
  <2>1. /\ phase[c] = "away" /\ stream[c] = <<>> /\ batch[c] = <<>> /\ seen[c] = <<>>
        /\ yielded[c] = 0 /\ counter = 0
    BY DEF Init
  <2>2. Ordered(c) BY <1>2, <2>1 DEF Ordered, Increasing, Connected
  <2>3. Complete(c) BY <2>1 DEF Complete, Fresh, Accounted, Connected
  <2> QED BY <1>1, <2>2, <2>3 DEF Known, Common
<1> QED BY <1>1, <1>3 DEF BusInv

LEMMA NextBus == BusInv /\ [Next]_vars => BusInv'
<1> SUFFICES ASSUME BusInv, [Next]_vars PROVE BusInv' OBVIOUS
<1>0. Common /\ \A d \in Clients : Known(d) BY DEF BusInv
<1>1. SUFFICES Types' /\ Ring' /\ Queue' /\ Sending' /\ \A d \in Clients : Known(d)'
  BY DEF BusInv, Common, Known
<1>2. ASSUME NEW p \in Publishers,
             Publish(p) \/ FanOut(p) \/ PublishCancelled(p) \/ Cleanup(p) \/ DropSubscribers(p)
      PROVE  Types' /\ Ring' /\ Queue' /\ Sending' /\ \A d \in Clients : Known(d)'
  <2>1. Types' BY <1>0, <1>2, PublisherTypes
  <2>2. Queue' BY <1>0, <1>2, PublisherQueue DEF Common
  <2> QED
    BY <1>0, <1>2, <2>1, <2>2, PublishKnown, FanOutKnown, CancelledKnown, CleanupKnown
<1>3. CASE GraceElapses BY <1>0, <1>3, GraceKnown
<1>4. CASE PurgeExpired BY <1>0, <1>4, PurgeKnown
<1>5. ASSUME NEW c \in Clients, ClientStep(c)
      PROVE  Types' /\ Ring' /\ Queue' /\ Sending' /\ \A d \in Clients : Known(d)'
  <2>1. Types' BY <1>0, <1>5, ClientTypes DEF ClientStep
  <2>2. Ring' /\ Queue' /\ Sending' /\ \A d \in Clients \ {c} : Known(d)'
    BY <1>0, <1>5, <2>1, OthersKnown
  <2>3. Known(c)'
    BY <1>0, <1>5, <2>1, <2>2, PhaseKnown, RegisterKnown, StartKnown, ReplayedKnown, LiveKnown,
       UnregisterKnown DEF ClientStep
  <2> QED BY <2>1, <2>2, <2>3
<1>6. CASE UNCHANGED vars
  <2>0. UNCHANGED <<counter, replay, deadline, subs, lock, task, sending, published, skipped,
                    phase, resumed, stream, batch, yielded, lastId, base, seen, lost,
                    outdated, stalled>>
    BY <1>6 DEF vars, ringVars, clientVars
  <2>1. Types' BY <1>0, <2>0 DEF Common, Types
  <2>2. Ring' /\ Queue' BY <1>0, <2>0 DEF Common, Ring, Queue
  <2>3. Pending' = Pending /\ PendingNumbers' = PendingNumbers
    BY <2>0 DEF Pending, PendingNumbers
  <2>4. Sending' BY <1>0, <2>0, <2>1, <2>3, SendingKept DEF Common
  <2>5. ASSUME NEW d \in Clients PROVE Known(d)'
    <3>1. Still(d) BY <2>0 DEF Still
    <3>2. Accounts(d) BY <1>0, <2>0, <2>3, NothingPending DEF Common
    <3> QED BY <1>0, <2>0, <2>1, <2>3, <2>4, <3>1, <3>2, KeptQuiet DEF Common
  <2> QED BY <2>1, <2>2, <2>4, <2>5
<1> QED
  BY <1>2, <1>3, <1>4, <1>5, <1>6 DEF Next, ClientStep

\* The inductive invariant of the bus.
THEOREM BusInvariant == Spec => []BusInv
BY InitBus, NextBus, PTL DEF Spec

\* InMemoryEventBus yields events in the order of publication and none twice,
\* for any sizes of the stream and the ring buffer, unless the ids restarted
\* while a resumed connection had registered and not begun to read.
THEOREM BusInOrder == Spec => []InPublicationOrder
<1>1. BusInv => InPublicationOrder
  BY DEF BusInv, Known, Ordered, InPublicationOrder
<1> QED
  BY <1>1, BusInvariant, PTL

\* A client of InMemoryEventBus misses, up to the last event it received, only
\* what its full stream dropped, what had left the ring buffer and what was
\* never fanned out, unless the ids restarted since its snapshot.
THEOREM BusLossesKnown == Spec => []OnlyKnownLosses
<1>1. BusInv => OnlyKnownLosses
  <2> SUFFICES ASSUME BusInv, NEW c \in Clients \ outdated
               PROVE  (base[c] + 1) .. LastSeen(c) \subseteq
                        ToSet(seen[c]) \cup lost[c] \cup skipped
    BY DEF OnlyKnownLosses
  <2>1. Complete(c) BY DEF BusInv, Known
  <2>2. CASE seen[c] = <<>>
    <3>1. LastSeen(c) = base[c] /\ base[c] \in Nat
      BY <2>2 DEF LastSeen, BusInv, Common, Types
    <3>2. (base[c] + 1) .. base[c] = {} BY <3>1
    <3> QED BY <3>1, <3>2
  <2>3. CASE seen[c] # <<>>
    BY <2>1, <2>3 DEF LastSeen, Complete, Accounted, Got
  <2> QED BY <2>2, <2>3
<1> QED
  BY <1>1, BusInvariant, PTL
=============================================================================
