------------------------- MODULE RedisSignalsProofs -------------------------
(***************************************************************************)
(* Proofs about RedisSignals, for any number of readers, writers, scopes,  *)
(* cancel requests and events: cancellations are not missed by a scope     *)
(* that starts, and readers get events in order and none twice.            *)
(***************************************************************************)
EXTENDS RedisSignals, TLAPS

-----------------------------------------------------------------------------
(* Cancellation                                                            *)

\* A scope listens before it looks at the key a second time, and goes on
\* listening until it is signalled.
Listens ==
  \A s \in Scopes :
    /\ scope[s] = "recheck" => s \in listening
    /\ scope[s] = "started" => s \in signal \cup listening

ScopeInv ==
  /\ ScopeTypeOK
  /\ Listens
  /\ CancelReachesScope

\* Every step of the registry or of a scope keeps the invariant.
LEMMA ScopeStep == ScopeInv /\ ScopeNext => ScopeInv'
<1> SUFFICES ASSUME ScopeInv, ScopeNext PROVE ScopeInv' OBVIOUS
<1> USE DEF ScopeInv
<1>t. /\ scope \in [Scopes -> ScopeLabels]
      /\ request \in [Cancellers -> {"idle", "publish", "done"}]
      /\ cancelKey \in BOOLEAN /\ released \in BOOLEAN
      /\ retried \subseteq Scopes /\ listening \subseteq Scopes
      /\ inbox \subseteq Scopes /\ signal \subseteq Scopes
  BY DEF ScopeTypeOK
<1>1. ASSUME NEW q \in Cancellers, RequestSet(q) PROVE ScopeInv'
  <2>1. ScopeTypeOK' BY <1>1, <1>t DEF RequestSet, ScopeTypeOK
  <2>2. request'[q] = "publish" BY <1>1, <1>t DEF RequestSet
  <2>3. Listens' /\ CancelReachesScope' BY <1>1, <2>2 DEF RequestSet, Listens, CancelReachesScope
  <2> QED BY <2>1, <2>3
<1>2. ASSUME NEW q \in Cancellers, RequestPublish(q) PROVE ScopeInv'
  <2>1. ScopeTypeOK' BY <1>2, <1>t DEF RequestPublish, ScopeTypeOK
  <2>2. Listens' BY <1>2 DEF RequestPublish, Listens
  <2>3. CancelReachesScope' BY <1>2 DEF RequestPublish, Listens, CancelReachesScope
  <2> QED BY <2>1, <2>2, <2>3
<1>3. ASSUME NEW s \in Scopes,
             \/ OnCancel(s) \/ StartStep(s) \/ StartFails(s) \/ ListenerDies(s)
      PROVE  ScopeInv'
  <2> USE DEF At
  <2>l. {"check", "subscribe", "recheck", "started", "failed", "deaf"} \subseteq ScopeLabels
    BY DEF ScopeLabels
  <2>1. ScopeTypeOK'
    <3>1. scope' \in [Scopes -> ScopeLabels]
      BY <1>3, <1>t, <2>l DEF OnCancel, StartStep, CheckKey, SubscribeChannel, RecheckKey,
         WaitRetries, Listen, StartFails, ListenerDies
    <3>2. /\ retried' \subseteq Scopes /\ listening' \subseteq Scopes
          /\ inbox' \subseteq Scopes /\ signal' \subseteq Scopes
      BY <1>3, <1>t DEF OnCancel, StartStep, CheckKey, SubscribeChannel, RecheckKey,
         WaitRetries, Listen, StartFails, ListenerDies
    <3>3. UNCHANGED <<cancelKey, request, released>>
      BY <1>3 DEF OnCancel, StartStep, CheckKey, SubscribeChannel, RecheckKey,
         WaitRetries, Listen, StartFails, ListenerDies
    <3> QED BY <1>t, <3>1, <3>2, <3>3 DEF ScopeTypeOK
  <2>2. CASE OnCancel(s) BY <2>1, <2>2, <1>t DEF OnCancel, Listens, CancelReachesScope
  <2>3. CASE CheckKey(s) BY <2>1, <2>3, <1>t DEF CheckKey, Listens, CancelReachesScope
  <2>4. CASE SubscribeChannel(s)
    BY <2>1, <2>4, <1>t DEF SubscribeChannel, Listens, CancelReachesScope
  <2>5. CASE RecheckKey(s) BY <2>1, <2>5, <1>t DEF RecheckKey, Listens, CancelReachesScope
  <2>6. CASE WaitRetries(s) BY <2>1, <2>6, <1>t DEF WaitRetries, Listens, CancelReachesScope
  <2>7. CASE Listen(s) BY <2>1, <2>7, <1>t DEF Listen, Listens, CancelReachesScope
  <2>8. CASE StartFails(s) BY <2>1, <2>8, <1>t DEF StartFails, Listens, CancelReachesScope
  <2>9. CASE ListenerDies(s) BY <2>1, <2>9, <1>t DEF ListenerDies, Listens, CancelReachesScope
  <2> QED BY <1>3, <2>2, <2>3, <2>4, <2>5, <2>6, <2>7, <2>8, <2>9 DEF StartStep
<1>4. ASSUME NEW ss \in SUBSET Scopes, CleanupScopes(ss) PROVE ScopeInv'
  <2>1. ScopeTypeOK'
    BY <1>4, <1>t DEF CleanupScopes, DeleteKey, ScopeTypeOK, ScopeLabels
  <2>2. Listens' BY <1>4, <1>t DEF CleanupScopes, Listens
  <2>3. CancelReachesScope' BY <1>4, <1>t DEF CleanupScopes, DeleteKey, CancelReachesScope
  <2> QED BY <2>1, <2>2, <2>3
<1>5. ASSUME KeyExpires PROVE ScopeInv'
  BY <1>5, <1>t DEF KeyExpires, DeleteKey, ScopeTypeOK, Listens, CancelReachesScope
<1> QED BY <1>1, <1>2, <1>3, <1>4, <1>5 DEF ScopeNext

\* The registry starts without keys and scopes.
LEMMA ScopeStart == ScopeInit => ScopeInv
BY DEF ScopeInit, ScopeInv, ScopeTypeOK, ScopeLabels, Listens, CancelReachesScope

\* Subscribing first and looking at the key again leaves no gap: a cancel
\* request that has returned has reached every scope that came up, however
\* requests, starts, failures and clean-ups interleave.
THEOREM CancelReaches == Spec => []CancelReachesScope
<1>1. Init => ScopeInv BY ScopeStart DEF Init
<1>2. ScopeInv /\ [Next]_allVars => ScopeInv'
  <2> SUFFICES ASSUME ScopeInv, [Next]_allVars PROVE ScopeInv' OBVIOUS
  <2>1. CASE CancelStep BY <2>1, ScopeStep DEF CancelStep
  <2>2. CASE UNCHANGED scopeVars
    BY <2>2 DEF scopeVars, ScopeInv, ScopeTypeOK, Listens, CancelReachesScope
  <2>3. CASE EventStep BY <2>2, <2>3 DEF EventStep
  <2>4. CASE UNCHANGED allVars BY <2>2, <2>4 DEF allVars
  <2> QED BY <2>1, <2>3, <2>4 DEF Next
<1>3. ScopeInv => CancelReachesScope BY DEF ScopeInv
<1> QED BY <1>1, <1>2, <1>3, PTL DEF Spec

-----------------------------------------------------------------------------
(* Event order                                                             *)

Increasing(s) == \A i, j \in DOMAIN s : i < j => s[i] < s[j]
AllAbove(s, n) == \A i \in DOMAIN s : s[i] > n
AllUpTo(s, n) == \A i \in DOMAIN s : s[i] <= n

Reading == {"bookmarked", "replay", "gap", "live"}

ReaderTypes ==
  /\ log \in Seq(EventKinds) /\ low \in Nat
  /\ phase \in [Readers -> Phases]
  /\ last \in [Readers -> Nat] /\ lastId \in [Readers -> Nat]
  /\ batch \in [Readers -> Seq(Nat)] /\ seen \in [Readers -> Seq(Nat)]

\* What a reader has fetched is ahead of last_seen_id, what its client has
\* received is not, and neither is ahead of the id the client would resume
\* from.
Ordered(r) ==
  /\ Increasing(batch[r]) /\ AllAbove(batch[r], last[r])
  /\ phase[r] \notin {"replay", "gap", "live"} => batch[r] = <<>>
  /\ Increasing(seen[r]) /\ AllUpTo(seen[r], lastId[r])
  /\ phase[r] \in Reading => AllUpTo(seen[r], last[r])

OrderInv == ReaderTypes /\ \A r \in Readers : Ordered(r)

\* The larger of two numbers.
LEMMA MaxOfTwo ==
  ASSUME NEW a \in Nat, NEW b \in Nat
  PROVE  Max({a, b}) \in Nat /\ Max({a, b}) >= a /\ Max({a, b}) >= b
<1>1. \E x \in {a, b} : \A y \in {a, b} : x >= y
  <2>1. CASE a >= b BY <2>1
  <2>2. CASE ~(a >= b) BY <2>2
  <2> QED BY <2>1, <2>2
<1>2. Max({a, b}) \in {a, b} /\ \A y \in {a, b} : Max({a, b}) >= y BY <1>1 DEF Max
<1> QED BY <1>2

\* XRANGE returns a run of ids beyond last_seen_id, in order.
LEMMA EntriesFollow ==
  ASSUME ReaderTypes, NEW r \in Readers
  PROVE  /\ Entries(r) \in Seq(Nat)
         /\ Increasing(Entries(r)) /\ AllAbove(Entries(r), last[r])
<1> DEFINE m == Max({last[r] + 1, low})
           len == Len(log) - (m - 1)
<1>1. last[r] \in Nat /\ low \in Nat /\ Len(log) \in Nat BY DEF ReaderTypes
<1>2. m \in Nat /\ m >= last[r] + 1 BY <1>1, MaxOfTwo
<1>3. Entries(r) = [k \in 1 .. len |-> m - 1 + k] BY DEF Entries
<1> HIDE DEF m
<1>4. \A k \in 1 .. len : m - 1 + k \in Nat /\ m - 1 + k > last[r] BY <1>1, <1>2
<1>5. len \in Int BY <1>1, <1>2
<1> HIDE DEF len
<1>6. Entries(r) \in Seq(Nat)
  <2>1. CASE len >= 0 BY <1>3, <1>4, <1>5, <2>1
  <2>2. CASE ~(len >= 0)
    <3>1. 1 .. len = {} BY <1>5, <2>2
    <3>2. Entries(r) = <<>> BY <1>3, <3>1
    <3> QED BY <3>2
  <2> QED BY <2>1, <2>2
<1>7. DOMAIN Entries(r) = 1 .. len BY <1>3
<1>8. \A k \in 1 .. len : Entries(r)[k] = m - 1 + k BY <1>3
<1>9. Increasing(Entries(r)) BY <1>2, <1>5, <1>7, <1>8 DEF Increasing
<1> QED BY <1>4, <1>6, <1>7, <1>8, <1>9 DEF AllAbove

\* The rest of an increasing batch is beyond its head.
LEMMA TailFollows ==
  ASSUME NEW s \in Seq(Nat), s # <<>>, Increasing(s), NEW n \in Nat, AllAbove(s, n)
  PROVE  /\ Head(s) \in Nat /\ Head(s) > n /\ Tail(s) \in Seq(Nat)
         /\ Increasing(Tail(s)) /\ AllAbove(Tail(s), Head(s)) /\ AllAbove(Tail(s), n)
<1>1. Len(s) \in Nat /\ Len(s) >= 1 /\ DOMAIN s = 1 .. Len(s) /\ Head(s) = s[1] OBVIOUS
<1>2. /\ Tail(s) \in Seq(Nat) /\ DOMAIN Tail(s) = 1 .. Len(s) - 1
      /\ \A i \in 1 .. Len(s) - 1 : Tail(s)[i] = s[i + 1]
  OBVIOUS
<1>3. \A i \in 1 .. Len(s) : s[i] \in Nat BY <1>1
<1>4. \A i \in 1 .. Len(s) - 1 : i + 1 \in 1 .. Len(s) /\ 1 < i + 1 BY <1>1
<1>5. 1 \in 1 .. Len(s) BY <1>1
<1>6. \A i \in 1 .. Len(s) - 1 : Tail(s)[i] > s[1] /\ Tail(s)[i] > n
  BY <1>1, <1>2, <1>3, <1>4, <1>5 DEF Increasing, AllAbove
<1>7. Increasing(Tail(s))
  <2> SUFFICES ASSUME NEW i \in 1 .. Len(s) - 1, NEW j \in 1 .. Len(s) - 1, i < j
               PROVE  Tail(s)[i] < Tail(s)[j]
    BY <1>2 DEF Increasing
  <2>1. i + 1 < j + 1 BY <1>1
  <2> QED BY <1>1, <1>2, <1>4, <2>1 DEF Increasing
<1> QED BY <1>1, <1>2, <1>3, <1>5, <1>6, <1>7 DEF AllAbove

\* A larger number at the end.
LEMMA AppendFollows ==
  ASSUME NEW s \in Seq(Nat), Increasing(s), NEW n \in Nat, NEW m \in Nat, AllUpTo(s, m), m < n
  PROVE  /\ Append(s, n) \in Seq(Nat) /\ Increasing(Append(s, n)) /\ AllUpTo(Append(s, n), n)
<1>1. /\ Append(s, n) \in Seq(Nat) /\ Len(s) \in Nat /\ DOMAIN s = 1 .. Len(s)
      /\ DOMAIN Append(s, n) = 1 .. Len(s) + 1
      /\ \A i \in 1 .. Len(s) : Append(s, n)[i] = s[i] /\ s[i] \in Nat
      /\ Append(s, n)[Len(s) + 1] = n
  OBVIOUS
<1>2. \A i \in 1 .. Len(s) : s[i] < n BY <1>1 DEF AllUpTo
<1>3. \A i \in 1 .. Len(s) + 1 : i \in 1 .. Len(s) \/ i = Len(s) + 1 BY <1>1
<1>4. AllUpTo(Append(s, n), n) BY <1>1, <1>2, <1>3 DEF AllUpTo
<1>5. Increasing(Append(s, n))
  <2> SUFFICES ASSUME NEW i \in 1 .. Len(s) + 1, NEW j \in 1 .. Len(s) + 1, i < j
               PROVE  Append(s, n)[i] < Append(s, n)[j]
    BY <1>1 DEF Increasing
  <2>1. i \in 1 .. Len(s) BY <1>1
  <2>2. CASE j = Len(s) + 1 BY <1>1, <1>2, <2>1, <2>2
  <2>3. CASE j \in 1 .. Len(s) BY <1>1, <2>1, <2>3 DEF Increasing
  <2> QED BY <1>3, <2>2, <2>3
<1> QED BY <1>1, <1>4, <1>5

\* A reader that fetches.
LEMMA FetchKept ==
  ASSUME OrderInv, NEW r \in Readers, NEW label \in {"replay", "gap", "live"},
         phase[r] \in Reading, Fetch(r, label)
  PROVE  OrderInv'
<1>1. ReaderTypes BY DEF OrderInv
<1>2. /\ Entries(r) \in Seq(Nat) /\ Increasing(Entries(r)) /\ AllAbove(Entries(r), last[r])
  BY <1>1, EntriesFollow
<1>3. label \in Phases BY DEF Phases
<1>4. ReaderTypes' BY <1>1, <1>2, <1>3 DEF ReaderTypes, Fetch
<1>5. ASSUME NEW p \in Readers \ {r} PROVE Ordered(p)'
  BY <1>1 DEF OrderInv, Ordered, Fetch, ReaderTypes
<1>6. Ordered(r)'
  <2>1. /\ batch'[r] = Entries(r) /\ phase'[r] = label
        /\ last' = last /\ seen' = seen /\ lastId' = lastId
    BY <1>1 DEF Fetch, ReaderTypes
  <2>2. Ordered(r) BY DEF OrderInv
  <2> QED BY <1>2, <2>1, <2>2 DEF Ordered
<1> QED BY <1>4, <1>5, <1>6 DEF OrderInv

\* A reader that yields the next entry, or skips one it cannot read.
LEMMA YieldKept ==
  ASSUME OrderInv, NEW r \in Readers, YieldNext(r)
  PROVE  OrderInv'
<1> DEFINE n == Head(batch[r])
<1>1. /\ ReaderTypes /\ Ordered(r) /\ batch[r] # <<>> /\ batch[r] \in Seq(Nat)
      /\ last[r] \in Nat /\ seen[r] \in Seq(Nat) /\ lastId[r] \in Nat
  BY DEF OrderInv, ReaderTypes, YieldNext
<1>2. /\ n \in Nat /\ n > last[r] /\ Tail(batch[r]) \in Seq(Nat)
      /\ Increasing(Tail(batch[r])) /\ AllAbove(Tail(batch[r]), n)
      /\ AllAbove(Tail(batch[r]), last[r])
  BY <1>1, TailFollows DEF Ordered
<1>e. \A k \in Nat : <<>> \in Seq(Nat) /\ Increasing(<<>>) /\ AllAbove(<<>>, k)
  BY DEF Increasing, AllAbove
<1>p. phase[r] \in {"replay", "gap", "live"} /\ AllUpTo(seen[r], last[r])
  BY <1>1 DEF Ordered, Reading
<1>3. CASE log[n] = "unreadable"
  <2>1. UNCHANGED <<phase, lastId, seen, log, low>> BY <1>3 DEF YieldNext
  <2>2. CASE phase[r] = "live"
    <3>1. last' = [last EXCEPT ![r] = n] /\ batch' = [batch EXCEPT ![r] = <<>>]
      BY <1>3, <2>2 DEF YieldNext
    <3>2. ReaderTypes' BY <1>1, <1>2, <1>e, <2>1, <3>1 DEF ReaderTypes
    <3>3. last'[r] = n /\ batch'[r] = <<>> BY <1>1, <3>1 DEF ReaderTypes
    <3>4. AllUpTo(seen[r], n)
      <4>1. \A i \in DOMAIN seen[r] : seen[r][i] \in Nat BY <1>1
      <4> QED BY <1>1, <1>2, <1>p, <4>1 DEF AllUpTo
    <3>5. Ordered(r)' BY <1>1, <1>2, <1>e, <2>1, <3>3, <3>4 DEF Ordered
    <3>6. ASSUME NEW p \in Readers \ {r} PROVE Ordered(p)'
      BY <1>1, <2>1, <3>1 DEF OrderInv, Ordered, ReaderTypes
    <3> QED BY <3>2, <3>5, <3>6 DEF OrderInv
  <2>3. CASE phase[r] # "live"
    <3>1. last' = last /\ batch' = [batch EXCEPT ![r] = Tail(batch[r])]
      BY <1>3, <2>3 DEF YieldNext
    <3>2. ReaderTypes' BY <1>1, <1>2, <2>1, <3>1 DEF ReaderTypes
    <3>3. batch'[r] = Tail(batch[r]) BY <1>1, <3>1 DEF ReaderTypes
    <3>5. Ordered(r)' BY <1>1, <1>2, <1>p, <2>1, <3>1, <3>3 DEF Ordered
    <3>6. ASSUME NEW p \in Readers \ {r} PROVE Ordered(p)'
      BY <1>1, <2>1, <3>1 DEF OrderInv, Ordered, ReaderTypes
    <3> QED BY <3>2, <3>5, <3>6 DEF OrderInv
  <2> QED BY <2>2, <2>3
<1>4. CASE log[n] # "unreadable"
  <2> DEFINE rest == IF log[n] = "end" THEN <<>> ELSE Tail(batch[r])
             next == IF log[n] = "end" THEN "ended" ELSE phase[r]
  <2>1. /\ last' = [last EXCEPT ![r] = n] /\ lastId' = [lastId EXCEPT ![r] = n]
        /\ seen' = [seen EXCEPT ![r] = Append(seen[r], n)]
        /\ batch' = [batch EXCEPT ![r] = rest] /\ phase' = [phase EXCEPT ![r] = next]
        /\ log' = log /\ low' = low
    BY <1>4 DEF YieldNext
  <2>2. rest \in Seq(Nat) /\ Increasing(rest) /\ AllAbove(rest, n) /\ next \in Phases
    BY <1>1, <1>2, <1>e DEF ReaderTypes, Phases
  <2>3. next \notin {"replay", "gap", "live"} => rest = <<>> BY <1>p
  <2> HIDE DEF rest, next
  <2>4. /\ Append(seen[r], n) \in Seq(Nat) /\ Increasing(Append(seen[r], n))
        /\ AllUpTo(Append(seen[r], n), n)
    BY <1>1, <1>2, <1>p, AppendFollows DEF Ordered
  <2>5. ReaderTypes' BY <1>1, <1>2, <2>1, <2>2, <2>4 DEF ReaderTypes
  <2>6. /\ last'[r] = n /\ lastId'[r] = n /\ seen'[r] = Append(seen[r], n)
        /\ batch'[r] = rest /\ phase'[r] = next
    BY <1>1, <2>1 DEF ReaderTypes
  <2>7. Ordered(r)' BY <2>2, <2>3, <2>4, <2>6 DEF Ordered
  <2>8. ASSUME NEW p \in Readers \ {r} PROVE Ordered(p)'
    BY <1>1, <2>1 DEF OrderInv, Ordered, ReaderTypes
  <2> QED BY <2>5, <2>7, <2>8 DEF OrderInv
<1> QED BY <1>3, <1>4

\* Every step of the bus keeps the order.
LEMMA OrderStep == OrderInv /\ BusNext => OrderInv'
<1> SUFFICES ASSUME OrderInv, BusNext PROVE OrderInv' OBVIOUS
<1>0. ReaderTypes /\ \A r \in Readers : Ordered(r) BY DEF OrderInv
<1>1. ASSUME NEW p \in Writers, PublishAdd(p) PROVE OrderInv'
  <2>1. UNCHANGED <<phase, last, lastId, batch, seen>> BY <1>1 DEF PublishAdd
  <2>2. log' \in Seq(EventKinds) BY <1>0, <1>1 DEF PublishAdd, ReaderTypes
  <2>3. low' \in Nat
    <3>1. CASE low' = low BY <1>0, <3>1 DEF ReaderTypes
    <3>2. CASE low' # low
      <4>1. low' = Max({low, Len(log) + 2 - StreamMaxLen}) BY <1>1, <3>2 DEF PublishAdd, Forget
      <4>2. CASE Len(log) + 2 - StreamMaxLen \in Nat
        BY <1>0, <4>1, <4>2, MaxOfTwo DEF ReaderTypes
      <4>3. CASE Len(log) + 2 - StreamMaxLen \notin Nat
        <5>1. low \in Nat /\ Len(log) + 2 - StreamMaxLen \in Int
          BY <1>0, RedisBusAssumption DEF ReaderTypes
        <5>2. low >= Len(log) + 2 - StreamMaxLen BY <4>3, <5>1
        <5>3. Max({low, Len(log) + 2 - StreamMaxLen}) \in {low, Len(log) + 2 - StreamMaxLen}
              /\ Max({low, Len(log) + 2 - StreamMaxLen}) >= low
          <6>1. \E x \in {low, Len(log) + 2 - StreamMaxLen} :
                  \A y \in {low, Len(log) + 2 - StreamMaxLen} : x >= y
            BY <5>1, <5>2
          <6> QED BY <6>1 DEF Max
        <5> QED BY <4>1, <4>3, <5>1, <5>3
      <4> QED BY <4>2, <4>3
    <3> QED BY <3>1, <3>2
  <2> QED BY <1>0, <2>1, <2>2, <2>3 DEF OrderInv, ReaderTypes, Ordered
<1>2. ASSUME UNCHANGED <<log, low, phase, last, lastId, batch, seen>> PROVE OrderInv'
  BY <1>0, <1>2 DEF OrderInv, ReaderTypes, Ordered
<1>3. ASSUME NEW p \in Writers, PublishWake(p) PROVE OrderInv' BY <1>2, <1>3 DEF PublishWake
<1>4. CASE Cleanup BY <1>2, <1>4 DEF Cleanup, readerVars
<1>5. CASE StreamExpires
  <2>1. low' \in Nat BY <1>0, <1>5 DEF StreamExpires, Forget, ReaderTypes
  <2> QED BY <1>0, <1>5, <2>1 DEF StreamExpires, OrderInv, ReaderTypes, Ordered
<1>6. ASSUME NEW r \in Readers, Connect(r) PROVE OrderInv'
  <2>1. /\ UNCHANGED <<log, low, last, lastId, batch, seen>>
        /\ phase[r] = "away" /\ phase' = [phase EXCEPT ![r] = "subscribed"]
    BY <1>6 DEF Connect
  <2>2. ReaderTypes' BY <1>0, <2>1 DEF ReaderTypes, Phases
  <2>3. ASSUME NEW p \in Readers PROVE Ordered(p)'
    BY <1>0, <2>1 DEF Ordered, ReaderTypes, Reading
  <2> QED BY <2>2, <2>3 DEF OrderInv
<1>7. ASSUME NEW r \in Readers, Disconnect(r) PROVE OrderInv'
  <2>1. /\ UNCHANGED <<log, low, last, lastId, seen>>
        /\ phase' = [phase EXCEPT ![r] = "away"] /\ batch' = [batch EXCEPT ![r] = <<>>]
    BY <1>7 DEF Disconnect
  <2>2. ReaderTypes' BY <1>0, <2>1 DEF ReaderTypes, Phases
  <2>3. ASSUME NEW p \in Readers PROVE Ordered(p)'
    BY <1>0, <2>1 DEF Ordered, ReaderTypes, Reading, Increasing, AllAbove
  <2> QED BY <2>2, <2>3 DEF OrderInv
<1>8. ASSUME NEW r \in Readers, Bookmark(r) PROVE OrderInv'
  <2>0. /\ UNCHANGED <<log, low, lastId, batch>>
        /\ phase[r] = "subscribed" /\ phase' = [phase EXCEPT ![r] = "bookmarked"]
    BY <1>8 DEF Bookmark
  <2>b. batch[r] = <<>> /\ Increasing(batch[r]) /\ \A k \in Nat : AllAbove(batch[r], k)
    BY <1>0, <2>0 DEF Ordered, AllAbove
  <2>1. CASE last' = [last EXCEPT ![r] = lastId[r]] /\ seen' = seen
    <3>1. ReaderTypes' BY <1>0, <2>0, <2>1 DEF ReaderTypes, Phases
    <3>2. last'[r] = lastId[r] BY <1>0, <2>1 DEF ReaderTypes
    <3>3. Ordered(r)' BY <1>0, <2>0, <2>1, <2>b, <3>2 DEF Ordered, ReaderTypes
    <3>4. ASSUME NEW p \in Readers \ {r} PROVE Ordered(p)'
      BY <1>0, <2>0, <2>1 DEF Ordered, ReaderTypes
    <3> QED BY <3>1, <3>3, <3>4 DEF OrderInv
  <2>2. CASE seen' = [seen EXCEPT ![r] = <<>>]
             /\ \E k \in Nat : last' = [last EXCEPT ![r] = k]
    <3>1. ReaderTypes' BY <1>0, <2>0, <2>2 DEF ReaderTypes, Phases
    <3>2. last'[r] \in Nat /\ seen'[r] = <<>> BY <1>0, <2>2 DEF ReaderTypes
    <3>3. \A k \in Nat : Increasing(<<>>) /\ AllUpTo(<<>>, k) BY DEF Increasing, AllUpTo
    <3>4. lastId[r] \in Nat BY <1>0 DEF ReaderTypes
    <3>5. Ordered(r)' BY <2>0, <2>b, <3>2, <3>3, <3>4 DEF Ordered
    <3>6. ASSUME NEW p \in Readers \ {r} PROVE Ordered(p)'
      BY <1>0, <2>0, <2>2 DEF Ordered, ReaderTypes
    <3> QED BY <3>1, <3>5, <3>6 DEF OrderInv
  <2>3. Len(log) \in Nat BY <1>0 DEF ReaderTypes
  <2> QED BY <1>8, <2>1, <2>2, <2>3 DEF Bookmark
<1>9. ASSUME NEW r \in Readers, Replay(r) \/ GapFill(r) \/ ReadLive(r) \/ SafetyPoll(r)
      PROVE  OrderInv'
  <2>1. phase[r] \in Reading /\ \E label \in {"replay", "gap", "live"} : Fetch(r, label)
    BY <1>9 DEF Replay, GapFill, ReadLive, SafetyPoll, Reading
  <2> QED BY <2>1, FetchKept
<1>10. ASSUME NEW r \in Readers, YieldNext(r) PROVE OrderInv' BY <1>10, YieldKept
<1> QED BY <1>1, <1>3, <1>4, <1>5, <1>6, <1>7, <1>8, <1>9, <1>10 DEF BusNext, ReaderStep

\* Events reach every client in stream order and none twice, over any number of
\* reconnections, lost wakeups, trimmed streams and repeated reads.
THEOREM RedisOrdered == Spec => []RedisInOrder
<1>1. Init => OrderInv
  BY DEF Init, BusInit, OrderInv, ReaderTypes, Ordered, Phases, Reading, Increasing, AllAbove,
     AllUpTo
<1>2. OrderInv /\ [Next]_allVars => OrderInv'
  <2> SUFFICES ASSUME OrderInv, [Next]_allVars PROVE OrderInv' OBVIOUS
  <2>1. CASE EventStep BY <2>1, OrderStep DEF EventStep
  <2>2. CASE UNCHANGED busVars
    BY <2>2 DEF busVars, readerVars, OrderInv, ReaderTypes, Ordered
  <2>3. CASE CancelStep BY <2>2, <2>3 DEF CancelStep
  <2>4. CASE UNCHANGED allVars BY <2>2, <2>4 DEF allVars
  <2> QED BY <2>1, <2>3, <2>4 DEF Next
<1>3. OrderInv => RedisInOrder BY DEF OrderInv, Ordered, Increasing, RedisInOrder
<1> QED BY <1>1, <1>2, <1>3, PTL DEF Spec

-----------------------------------------------------------------------------
(* Event losses                                                            *)

\* An event the client received, the stream gave up first, or nobody can read.
Accounted(l, s, g, n) == n \in ToSet(s) \/ n \in g \/ l[n] = "unreadable"

\* All events after b up to m are accounted for.
Cover(l, s, g, b, m) == \A n \in b + 1 .. m : Accounted(l, s, g, n)
Covered(r, m) == Cover(log, seen[r], gone[r], base[r], m)

Consecutive(s) == \A i \in DOMAIN s : i + 1 \in DOMAIN s => s[i + 1] = s[i] + 1

LossTypes ==
  /\ low <= Len(log) + 1
  /\ base \in [Readers -> Nat] /\ gone \in [Readers -> SUBSET Nat]
  /\ \A r \in Readers : last[r] <= Len(log) /\ lastId[r] <= Len(log)
                         /\ AllUpTo(batch[r], Len(log))

\* A reader's position, the id its client would resume from, the lower end of
\* the stream and the next fetched entry all lie where everything before them
\* is accounted for.
Known(r) ==
  /\ Covered(r, last[r]) /\ Covered(r, lastId[r]) /\ Covered(r, low - 1)
  /\ batch[r] # <<>> => Covered(r, Head(batch[r]) - 1)
  /\ Consecutive(batch[r])
  /\ seen[r] # <<>> => seen[r][Len(seen[r])] = lastId[r]

KnownInv == OrderInv /\ LossTypes /\ \A r \in Readers : Known(r)

\* The types of one reader's part of the state.
LEMMA ReaderParts ==
  ASSUME KnownInv, NEW r \in Readers
  PROVE  /\ log \in Seq(EventKinds) /\ Len(log) \in Nat /\ low \in Nat /\ low <= Len(log) + 1
         /\ last[r] \in Nat /\ last[r] <= Len(log) /\ lastId[r] \in Nat /\ lastId[r] <= Len(log)
         /\ base[r] \in Nat /\ gone[r] \in SUBSET Nat
         /\ batch[r] \in Seq(Nat) /\ seen[r] \in Seq(Nat)
         /\ AllUpTo(batch[r], Len(log)) /\ Ordered(r) /\ Known(r)
BY DEF KnownInv, OrderInv, ReaderTypes, LossTypes

\* What is accounted for stays so when the log and what was given up grow.
LEMMA CoverGrows ==
  ASSUME NEW l \in Seq(EventKinds), NEW k \in Seq(EventKinds), NEW s, NEW g, NEW h, g \subseteq h,
         NEW b \in Nat, NEW m \in Int, m <= Len(l), Cover(l, s, g, b, m),
         \A n \in 1 .. Len(l) : k[n] = l[n]
  PROVE  Cover(k, s, h, b, m)
<1> SUFFICES ASSUME NEW n \in b + 1 .. m PROVE Accounted(k, s, h, n) BY DEF Cover
<1>1. Accounted(l, s, g, n) BY DEF Cover
<1>2. n \in 1 .. Len(l) OBVIOUS
<1> QED BY <1>1, <1>2 DEF Accounted

\* One more event.
LEMMA CoverNext ==
  ASSUME NEW l, NEW s, NEW g, NEW b \in Nat, NEW m \in Nat,
         Cover(l, s, g, b, m - 1), Accounted(l, s, g, m)
  PROVE  Cover(l, s, g, b, m)
<1> SUFFICES ASSUME NEW n \in b + 1 .. m PROVE Accounted(l, s, g, n) BY DEF Cover
<1>1. CASE n = m BY <1>1
<1>2. CASE n # m
  <2>1. n \in b + 1 .. m - 1 BY <1>2
  <2> QED BY <2>1 DEF Cover
<1> QED BY <1>1, <1>2

\* A client that receives one more event.
LEMMA CoverAppend ==
  ASSUME NEW l, NEW s \in Seq(Nat), NEW g, NEW b \in Nat, NEW m \in Int, NEW e \in Nat,
         Cover(l, s, g, b, m)
  PROVE  Cover(l, Append(s, e), g, b, m) /\ Accounted(l, Append(s, e), g, e)
<1>1. /\ DOMAIN s = 1 .. Len(s) /\ DOMAIN Append(s, e) = 1 .. Len(s) + 1 /\ Len(s) \in Nat
      /\ \A i \in 1 .. Len(s) : Append(s, e)[i] = s[i]
      /\ Append(s, e)[Len(s) + 1] = e
  OBVIOUS
<1>2. ToSet(s) \subseteq ToSet(Append(s, e)) /\ e \in ToSet(Append(s, e))
  BY <1>1 DEF ToSet
<1>3. ASSUME NEW n \in b + 1 .. m PROVE Accounted(l, Append(s, e), g, n)
  <2>1. Accounted(l, s, g, n) BY DEF Cover
  <2> QED BY <2>1, <1>2 DEF Accounted
<1> QED BY <1>2, <1>3 DEF Cover, Accounted

\* The stream grows, or gives up its events below k.
LEMMA ForgetKept ==
  ASSUME KnownInv, NEW k \in Nat, low <= k, k <= Len(log) + 1, Forget(k),
         log' \in Seq(EventKinds), Len(log') >= Len(log),
         \A n \in 1 .. Len(log) : log'[n] = log[n],
         UNCHANGED <<last, batch, lastId, base, seen>>
  PROVE  LossTypes' /\ \A r \in Readers : Known(r)'
<1>0. Len(log) \in Nat /\ Len(log') \in Nat /\ low \in Nat /\ log \in Seq(EventKinds)
  BY DEF KnownInv, OrderInv, ReaderTypes
<1>k. low' = k BY DEF Forget
<1>g. \A r \in Readers : gone'[r] = gone[r] \cup {i \in low .. k - 1 : i > last[r]}
  BY DEF Forget
<1>1. LossTypes'
  <2>1. gone' \in [Readers -> SUBSET Nat]
    <3>1. gone' = [r \in Readers |-> gone[r] \cup {i \in low .. k - 1 : i > last[r]}]
      BY DEF Forget
    <3>2. ASSUME NEW r \in Readers
          PROVE  gone[r] \cup {i \in low .. k - 1 : i > last[r]} \in SUBSET Nat
      BY <1>0, ReaderParts
    <3> QED BY <3>1, <3>2
  <2>2. ASSUME NEW r \in Readers
        PROVE  /\ last[r] <= Len(log') /\ lastId[r] <= Len(log')
               /\ AllUpTo(batch[r], Len(log'))
    <3>1. /\ last[r] \in Nat /\ last[r] <= Len(log) /\ lastId[r] \in Nat
          /\ lastId[r] <= Len(log) /\ batch[r] \in Seq(Nat) /\ AllUpTo(batch[r], Len(log))
      BY ReaderParts
    <3>2. \A i \in DOMAIN batch[r] : batch[r][i] \in Nat BY <3>1
    <3> QED BY <1>0, <3>1, <3>2 DEF AllUpTo
  <2> QED BY <1>0, <1>k, <2>1, <2>2 DEF LossTypes, KnownInv
<1>2. ASSUME NEW r \in Readers PROVE Known(r)'
  <2>1. /\ last[r] \in Nat /\ last[r] <= Len(log) /\ lastId[r] \in Nat
        /\ lastId[r] <= Len(log) /\ base[r] \in Nat
        /\ batch[r] \in Seq(Nat) /\ AllUpTo(batch[r], Len(log)) /\ Known(r)
    BY ReaderParts
  <2>2. gone[r] \subseteq gone'[r] BY <1>g
  <2>3. ASSUME NEW m \in Int, m <= Len(log), Covered(r, m)
        PROVE  Cover(log', seen[r], gone'[r], base[r], m)
    BY <1>0, <2>1, <2>2, <2>3, CoverGrows DEF Covered
  <2>4. /\ Cover(log', seen[r], gone'[r], base[r], last[r])
        /\ Cover(log', seen[r], gone'[r], base[r], lastId[r])
        /\ Cover(log', seen[r], gone'[r], base[r], low - 1)
    <3>1. low - 1 \in Int /\ low - 1 <= Len(log) BY <1>0
    <3> QED BY <1>0, <2>1, <2>3, <3>1 DEF Known
  <2>5. Cover(log', seen[r], gone'[r], base[r], k - 1)
    <3> SUFFICES ASSUME NEW n \in base[r] + 1 .. k - 1
                 PROVE  Accounted(log', seen[r], gone'[r], n)
      BY DEF Cover
    <3>1. CASE n <= last[r]
      <4>1. n \in base[r] + 1 .. last[r] BY <2>1, <3>1
      <4> QED BY <2>4, <4>1 DEF Cover
    <3>2. CASE n < low
      <4>1. n \in base[r] + 1 .. low - 1 BY <1>0, <2>1, <3>2
      <4> QED BY <2>4, <4>1 DEF Cover
    <3>3. CASE ~(n <= last[r]) /\ ~(n < low)
      <4>1. n \in low .. k - 1 /\ n > last[r] BY <1>0, <2>1, <3>3
      <4> QED BY <1>g, <4>1 DEF Accounted
    <3> QED BY <3>1, <3>2, <3>3
  <2>6. batch[r] # <<>> => Cover(log', seen[r], gone'[r], base[r], Head(batch[r]) - 1)
    <3> SUFFICES ASSUME batch[r] # <<>>
                 PROVE  Cover(log', seen[r], gone'[r], base[r], Head(batch[r]) - 1)
      OBVIOUS
    <3>1. Head(batch[r]) \in Nat /\ Head(batch[r]) = batch[r][1] /\ 1 \in DOMAIN batch[r]
      BY <2>1
    <3>2. Head(batch[r]) - 1 \in Int /\ Head(batch[r]) - 1 <= Len(log)
      BY <1>0, <2>1, <3>1 DEF AllUpTo
    <3> QED BY <2>1, <2>3, <3>2 DEF Known
  <2>7. /\ Consecutive(batch[r])
        /\ seen[r] # <<>> => seen[r][Len(seen[r])] = lastId[r]
    BY <2>1 DEF Known
  <2> QED BY <1>k, <2>4, <2>5, <2>6, <2>7 DEF Known, Covered
<1> QED BY <1>1, <1>2

\* A reader that does not move while the stream stays as it is.
LEMMA KnownKept ==
  ASSUME NEW r \in Readers, Known(r), UNCHANGED <<log, low>>,
         /\ last'[r] = last[r] /\ lastId'[r] = lastId[r] /\ base'[r] = base[r]
         /\ seen'[r] = seen[r] /\ gone'[r] = gone[r] /\ batch'[r] = batch[r]
  PROVE  Known(r)'
BY DEF Known, Covered

\* What a reader fetches begins where everything before is accounted for.
LEMMA EntriesKnown ==
  ASSUME KnownInv, NEW r \in Readers
  PROVE  /\ AllUpTo(Entries(r), Len(log)) /\ Consecutive(Entries(r))
         /\ Entries(r) # <<>> => Covered(r, Head(Entries(r)) - 1)
<1> DEFINE m == Max({last[r] + 1, low})
           len == Len(log) - (m - 1)
<1>1. /\ last[r] \in Nat /\ low \in Nat /\ Len(log) \in Nat /\ base[r] \in Nat /\ Known(r)
  BY ReaderParts
<1>2. m \in Nat BY <1>1, MaxOfTwo
<1>m. m = last[r] + 1 \/ m = low
  <2>1. \E x \in {last[r] + 1, low} : \A y \in {last[r] + 1, low} : x >= y
    <3>1. CASE last[r] + 1 >= low BY <1>1, <3>1
    <3>2. CASE ~(last[r] + 1 >= low) BY <1>1, <3>2
    <3> QED BY <3>1, <3>2
  <2> QED BY <2>1 DEF Max
<1>3. Entries(r) = [k \in 1 .. len |-> m - 1 + k] BY DEF Entries
<1> HIDE DEF m
<1>4. \A k \in 1 .. len : m - 1 + k <= Len(log) BY <1>1, <1>2
<1>5. len \in Int BY <1>1, <1>2
<1> HIDE DEF len
<1>7. DOMAIN Entries(r) = 1 .. len /\ \A k \in 1 .. len : Entries(r)[k] = m - 1 + k BY <1>3
<1>8. AllUpTo(Entries(r), Len(log)) BY <1>4, <1>7 DEF AllUpTo
<1>9. Consecutive(Entries(r)) BY <1>2, <1>5, <1>7 DEF Consecutive
<1>10. ASSUME Entries(r) # <<>> PROVE Covered(r, Head(Entries(r)) - 1)
  <2>1. Entries(r) \in Seq(Nat) BY EntriesFollow DEF KnownInv, OrderInv
  <2>2. Head(Entries(r)) = Entries(r)[1] /\ 1 \in DOMAIN Entries(r) BY <1>10, <2>1
  <2>3. Head(Entries(r)) = m BY <1>2, <1>7, <2>2
  <2>4. Covered(r, m - 1)
    <3>1. CASE m = last[r] + 1
      <4>1. m - 1 = last[r] BY <1>1, <3>1
      <4> QED BY <1>1, <4>1 DEF Known
    <3>2. CASE m = low BY <1>1, <3>2 DEF Known
    <3> QED BY <1>m, <3>1, <3>2
  <2> QED BY <2>3, <2>4
<1> QED BY <1>8, <1>9, <1>10

\* A reader that fetches.
LEMMA FetchKnown ==
  ASSUME KnownInv, NEW r \in Readers, NEW label, Fetch(r, label)
  PROVE  LossTypes' /\ \A p \in Readers : Known(p)'
<1>1. /\ UNCHANGED <<log, low, last, lastId, base, seen, gone>>
      /\ batch' = [batch EXCEPT ![r] = Entries(r)]
  BY DEF Fetch
<1>2. batch \in [Readers -> Seq(Nat)] BY DEF KnownInv, OrderInv, ReaderTypes
<1>3. batch'[r] = Entries(r) /\ \A p \in Readers \ {r} : batch'[p] = batch[p] BY <1>1, <1>2
<1>4. /\ AllUpTo(Entries(r), Len(log)) /\ Consecutive(Entries(r))
      /\ Entries(r) # <<>> => Covered(r, Head(Entries(r)) - 1)
  BY EntriesKnown
<1>5. LossTypes' BY <1>1, <1>3, <1>4 DEF LossTypes, KnownInv
<1>6. Known(r)' BY <1>1, <1>3, <1>4 DEF Known, Covered, KnownInv
<1>7. ASSUME NEW p \in Readers \ {r} PROVE Known(p)'
  BY <1>1, <1>3, KnownKept DEF KnownInv
<1> QED BY <1>5, <1>6, <1>7

\* The rest of a batch goes on with the next number.
LEMMA TailConsecutive ==
  ASSUME NEW s \in Seq(Nat), s # <<>>, Consecutive(s), NEW m \in Nat, AllUpTo(s, m)
  PROVE  /\ Head(s) \in Nat /\ Head(s) <= m
         /\ Consecutive(Tail(s)) /\ AllUpTo(Tail(s), m)
         /\ Tail(s) # <<>> => Head(Tail(s)) - 1 = Head(s)
<1>1. Len(s) \in Nat /\ Len(s) >= 1 /\ DOMAIN s = 1 .. Len(s) /\ Head(s) = s[1] OBVIOUS
<1>2. /\ Tail(s) \in Seq(Nat) /\ DOMAIN Tail(s) = 1 .. Len(s) - 1
      /\ \A i \in 1 .. Len(s) - 1 : Tail(s)[i] = s[i + 1]
  OBVIOUS
<1>3. \A i \in 1 .. Len(s) : s[i] \in Nat /\ s[i] <= m BY <1>1 DEF AllUpTo
<1>4. \A i \in 1 .. Len(s) - 1 : i + 1 \in 1 .. Len(s) BY <1>1
<1>5. AllUpTo(Tail(s), m) BY <1>2, <1>3, <1>4 DEF AllUpTo
<1>6. Consecutive(Tail(s))
  <2> SUFFICES ASSUME NEW i \in 1 .. Len(s) - 1, i + 1 \in 1 .. Len(s) - 1
               PROVE  Tail(s)[i + 1] = Tail(s)[i] + 1
    BY <1>2 DEF Consecutive
  <2>1. i + 1 \in DOMAIN s /\ (i + 1) + 1 \in DOMAIN s BY <1>1
  <2>2. s[(i + 1) + 1] = s[i + 1] + 1 BY <2>1 DEF Consecutive
  <2> QED BY <1>2, <2>2
<1>7. ASSUME Tail(s) # <<>> PROVE Head(Tail(s)) - 1 = Head(s)
  <2>1. Len(s) >= 2 /\ Head(Tail(s)) = Tail(s)[1] BY <1>2, <1>7
  <2>2. 1 \in DOMAIN s /\ 1 + 1 \in DOMAIN s BY <1>1, <2>1
  <2>3. s[1 + 1] = s[1] + 1 BY <2>2 DEF Consecutive
  <2>4. Tail(s)[1] = s[1 + 1] BY <1>1, <1>2, <2>1
  <2>5. s[1] \in Nat BY <1>1, <1>3
  <2> QED BY <1>1, <2>1, <2>3, <2>4, <2>5
<1> QED BY <1>1, <1>3, <1>5, <1>6, <1>7

\* A reader that yields the next entry, or skips one it cannot read.
LEMMA YieldKnown ==
  ASSUME KnownInv, NEW r \in Readers, YieldNext(r)
  PROVE  LossTypes' /\ \A p \in Readers : Known(p)'
<1> DEFINE n == Head(batch[r])
<1>1. /\ Len(log) \in Nat /\ batch[r] # <<>> /\ batch[r] \in Seq(Nat) /\ Known(r)
      /\ AllUpTo(batch[r], Len(log)) /\ seen[r] \in Seq(Nat) /\ base[r] \in Nat
      /\ last[r] \in Nat /\ lastId[r] \in Nat /\ low \in Nat
      /\ LossTypes
  BY ReaderParts DEF YieldNext, KnownInv
<1>2. /\ n \in Nat /\ n <= Len(log) /\ Consecutive(Tail(batch[r]))
      /\ AllUpTo(Tail(batch[r]), Len(log))
      /\ Tail(batch[r]) # <<>> => Head(Tail(batch[r])) - 1 = n
  BY <1>1, TailConsecutive DEF Known
<1>3. Covered(r, n - 1) BY <1>1 DEF Known
<1>4. UNCHANGED <<log, low, base, gone>> BY DEF YieldNext
<1>t. /\ last \in [Readers -> Nat] /\ lastId \in [Readers -> Nat]
      /\ batch \in [Readers -> Seq(Nat)] /\ seen \in [Readers -> Seq(Nat)]
  BY DEF KnownInv, OrderInv, ReaderTypes
<1>e. Consecutive(<<>>) /\ AllUpTo(<<>>, Len(log)) BY DEF Consecutive, AllUpTo
<1>5. CASE log[n] = "unreadable"
  <2>1. Covered(r, n) BY <1>1, <1>2, <1>3, <1>5, CoverNext DEF Covered, Accounted
  <2>2. lastId' = lastId /\ seen' = seen BY <1>5 DEF YieldNext
  <2>3. CASE phase[r] = "live"
    <3>1. last' = [last EXCEPT ![r] = n] /\ batch' = [batch EXCEPT ![r] = <<>>]
      BY <1>5, <2>3 DEF YieldNext
    <3> HIDE DEF n
    <3>2. /\ last'[r] = n /\ batch'[r] = <<>>
          /\ \A p \in Readers \ {r} : last'[p] = last[p] /\ batch'[p] = batch[p]
      BY <1>t, <3>1
    <3>3. LossTypes' BY <1>1, <1>2, <1>4, <1>e, <2>2, <3>2 DEF LossTypes
    <3>4. Known(r)' BY <1>1, <1>4, <1>e, <2>1, <2>2, <3>2 DEF Known, Covered
    <3>5. ASSUME NEW p \in Readers \ {r} PROVE Known(p)'
      BY <1>4, <2>2, <3>2, KnownKept DEF KnownInv
    <3> QED BY <3>3, <3>4, <3>5
  <2>4. CASE phase[r] # "live"
    <3>1. last' = last /\ batch' = [batch EXCEPT ![r] = Tail(batch[r])]
      BY <1>5, <2>4 DEF YieldNext
    <3> HIDE DEF n
    <3>2. /\ batch'[r] = Tail(batch[r]) /\ \A p \in Readers \ {r} : batch'[p] = batch[p]
      BY <1>t, <3>1
    <3>3. LossTypes' BY <1>1, <1>2, <1>4, <2>2, <3>1, <3>2 DEF LossTypes
    <3>4. Known(r)' BY <1>1, <1>2, <1>4, <2>1, <2>2, <3>1, <3>2 DEF Known, Covered
    <3>5. ASSUME NEW p \in Readers \ {r} PROVE Known(p)'
      BY <1>4, <2>2, <3>1, <3>2, KnownKept DEF KnownInv
    <3> QED BY <3>3, <3>4, <3>5
  <2> QED BY <2>3, <2>4
<1>6. CASE log[n] # "unreadable"
  <2> DEFINE rest == IF log[n] = "end" THEN <<>> ELSE Tail(batch[r])
             more == Append(seen[r], n)
  <2>1. /\ last' = [last EXCEPT ![r] = n] /\ lastId' = [lastId EXCEPT ![r] = n]
        /\ seen' = [seen EXCEPT ![r] = more] /\ batch' = [batch EXCEPT ![r] = rest]
    BY <1>6 DEF YieldNext
  <2>2. /\ Consecutive(rest) /\ AllUpTo(rest, Len(log))
        /\ rest # <<>> => Head(rest) - 1 = n
    BY <1>2, <1>e
  <2> HIDE DEF n, rest
  <2>3. /\ last'[r] = n /\ lastId'[r] = n /\ seen'[r] = more /\ batch'[r] = rest
        /\ \A p \in Readers \ {r} :
             /\ last'[p] = last[p] /\ lastId'[p] = lastId[p]
             /\ seen'[p] = seen[p] /\ batch'[p] = batch[p]
    BY <1>t, <2>1
  <2>4. ASSUME NEW m \in Int, Covered(r, m)
        PROVE  Cover(log, more, gone[r], base[r], m) /\ Accounted(log, more, gone[r], n)
    BY <1>1, <1>2, <2>4, CoverAppend DEF Covered
  <2>5. /\ Cover(log, more, gone[r], base[r], n - 1) /\ Accounted(log, more, gone[r], n)
        /\ Cover(log, more, gone[r], base[r], low - 1)
    <3>1. n - 1 \in Int /\ low - 1 \in Int BY <1>1, <1>2
    <3> QED BY <1>1, <1>3, <2>4, <3>1 DEF Known
  <2>6. Cover(log, more, gone[r], base[r], n) BY <1>1, <1>2, <2>5, CoverNext
  <2>7. more[Len(more)] = n BY <1>1, <1>2
  <2> HIDE DEF more
  <2>8. LossTypes' BY <1>1, <1>2, <1>4, <2>2, <2>3 DEF LossTypes
  <2>9. Known(r)' BY <1>4, <2>2, <2>3, <2>5, <2>6, <2>7 DEF Known, Covered
  <2>10. ASSUME NEW p \in Readers \ {r} PROVE Known(p)'
    BY <1>4, <2>3, KnownKept DEF KnownInv
  <2> QED BY <2>8, <2>9, <2>10
<1> QED BY <1>5, <1>6

\* A reader that takes its bookmark: with a Last-Event-ID everything up to
\* that id is accounted for, without one the snapshot stands for the log.
LEMMA BookmarkKnown ==
  ASSUME KnownInv, NEW r \in Readers, Bookmark(r)
  PROVE  LossTypes' /\ \A p \in Readers : Known(p)'
<1>1. /\ Len(log) \in Nat /\ batch[r] = <<>> /\ Known(r) /\ LossTypes
      /\ last[r] \in Nat /\ lastId[r] \in Nat /\ lastId[r] <= Len(log) /\ low \in Nat
      /\ low <= Len(log) + 1
  BY ReaderParts DEF Bookmark, Ordered, KnownInv
<1>2. UNCHANGED <<log, low, lastId, batch>> BY DEF Bookmark
<1>t. /\ last \in [Readers -> Nat] /\ seen \in [Readers -> Seq(Nat)]
      /\ base \in [Readers -> Nat] /\ gone \in [Readers -> SUBSET Nat]
  BY DEF KnownInv, OrderInv, ReaderTypes, LossTypes
<1>3. CASE last' = [last EXCEPT ![r] = lastId[r]] /\ UNCHANGED <<base, seen, gone>>
  <2>1. last'[r] = lastId[r] /\ \A p \in Readers \ {r} : last'[p] = last[p] BY <1>3, <1>t
  <2>2. LossTypes' BY <1>1, <1>2, <1>3, <2>1 DEF LossTypes
  <2>3. Known(r)' BY <1>1, <1>2, <1>3, <2>1 DEF Known, Covered
  <2>4. ASSUME NEW p \in Readers \ {r} PROVE Known(p)'
    BY <1>2, <1>3, <2>1, KnownKept DEF KnownInv
  <2> QED BY <2>2, <2>3, <2>4
<1>4. CASE /\ \E n \in {0, IF low <= Len(log) THEN Len(log) ELSE 0} :
                last' = [last EXCEPT ![r] = n]
           /\ base' = [base EXCEPT ![r] = Len(log)]
           /\ seen' = [seen EXCEPT ![r] = <<>>] /\ gone' = [gone EXCEPT ![r] = {}]
  <2>0. {0, IF low <= Len(log) THEN Len(log) ELSE 0} \subseteq 0 .. Len(log) BY <1>1
  <2>1. PICK n \in 0 .. Len(log) : last' = [last EXCEPT ![r] = n] BY <1>4, <2>0
  <2>2. /\ last'[r] = n /\ base'[r] = Len(log) /\ seen'[r] = <<>> /\ gone'[r] = {}
        /\ \A p \in Readers \ {r} :
             /\ last'[p] = last[p] /\ base'[p] = base[p]
             /\ seen'[p] = seen[p] /\ gone'[p] = gone[p]
    BY <1>4, <1>t, <2>1
  <2>3. base' \in [Readers -> Nat] /\ gone' \in [Readers -> SUBSET Nat] BY <1>1, <1>4, <1>t
  <2>4. LossTypes' BY <1>1, <1>2, <2>1, <2>2, <2>3 DEF LossTypes
  <2>5. ASSUME NEW m \in Int, m <= Len(log) PROVE Cover(log, <<>>, {}, Len(log), m)
    BY <1>1, <2>5 DEF Cover
  <2>6. /\ Cover(log, <<>>, {}, Len(log), n) /\ Cover(log, <<>>, {}, Len(log), lastId[r])
        /\ Cover(log, <<>>, {}, Len(log), low - 1)
    <3>1. low - 1 \in Int /\ low - 1 <= Len(log) BY <1>1
    <3> QED BY <1>1, <2>1, <2>5, <3>1
  <2>7. Known(r)' BY <1>1, <1>2, <2>2, <2>6 DEF Known, Covered
  <2>8. ASSUME NEW p \in Readers \ {r} PROVE Known(p)'
    BY <1>2, <2>2, KnownKept DEF KnownInv
  <2> QED BY <2>4, <2>7, <2>8
<1> QED BY <1>3, <1>4 DEF Bookmark

\* Every step of the bus keeps the losses known.
LEMMA KnownStep == KnownInv /\ BusNext => KnownInv'
<1> SUFFICES ASSUME KnownInv, BusNext PROVE KnownInv' OBVIOUS
<1>o. OrderInv' BY OrderStep DEF KnownInv
<1> SUFFICES LossTypes' /\ \A r \in Readers : Known(r)' BY <1>o DEF KnownInv
<1>0. /\ log \in Seq(EventKinds) /\ Len(log) \in Nat /\ low \in Nat /\ low <= Len(log) + 1
  BY DEF KnownInv, OrderInv, ReaderTypes, LossTypes
<1>1. ASSUME NEW p \in Writers, PublishAdd(p) PROVE LossTypes' /\ \A r \in Readers : Known(r)'
  <2>1. PICK k \in EventKinds : log' = Append(log, k) BY <1>1 DEF PublishAdd
  <2>2. /\ log' \in Seq(EventKinds) /\ Len(log') >= Len(log)
        /\ \A n \in 1 .. Len(log) : log'[n] = log[n]
    BY <1>0, <2>1
  <2>3. PICK n \in {low, Max({low, Len(log) + 2 - StreamMaxLen})} : Forget(n)
    BY <1>1 DEF PublishAdd
  <2>4. n \in Nat /\ low <= n /\ n <= Len(log) + 1
    <3>1. CASE n = low BY <1>0, <3>1
    <3>2. CASE n = Max({low, Len(log) + 2 - StreamMaxLen})
      <4> DEFINE e == Len(log) + 2 - StreamMaxLen
      <4>1. e \in Int /\ e <= Len(log) + 1 BY <1>0, RedisBusAssumption
      <4> HIDE DEF e
      <4>2. \E x \in {low, e} : \A y \in {low, e} : x >= y
        <5>1. CASE low >= e BY <1>0, <4>1, <5>1
        <5>2. CASE ~(low >= e) BY <1>0, <4>1, <5>2
        <5> QED BY <5>1, <5>2
      <4>3. Max({low, e}) \in {low, e} /\ Max({low, e}) >= low BY <4>2 DEF Max
      <4> QED BY <1>0, <3>2, <4>1, <4>3 DEF e
    <3> QED BY <3>1, <3>2
  <2>5. UNCHANGED <<last, batch, lastId, base, seen>> BY <1>1 DEF PublishAdd
  <2> QED BY <2>2, <2>3, <2>4, <2>5, ForgetKept
<1>2. ASSUME UNCHANGED <<log, low, last, lastId, base, batch, seen, gone>>
      PROVE  LossTypes' /\ \A r \in Readers : Known(r)'
  BY <1>2 DEF KnownInv, LossTypes, Known, Covered
<1>3. ASSUME NEW p \in Writers, PublishWake(p) PROVE LossTypes' /\ \A r \in Readers : Known(r)'
  BY <1>2, <1>3 DEF PublishWake
<1>4. CASE Cleanup BY <1>2, <1>4 DEF Cleanup, readerVars
<1>5. CASE StreamExpires
  <2>1. Forget(Len(log) + 1) /\ UNCHANGED <<log, last, batch, lastId, base, seen>>
    BY <1>5 DEF StreamExpires
  <2>2. PICK k \in Nat : k = Len(log) + 1 BY <1>0
  <2>3. Forget(k) /\ low <= k /\ k <= Len(log) + 1 BY <1>0, <2>1, <2>2
  <2>4. /\ log' \in Seq(EventKinds) /\ Len(log') >= Len(log)
        /\ \A n \in 1 .. Len(log) : log'[n] = log[n]
    BY <1>0, <2>1
  <2> QED BY <2>1, <2>3, <2>4, ForgetKept
<1>6. ASSUME NEW r \in Readers, Connect(r) PROVE LossTypes' /\ \A p \in Readers : Known(p)'
  BY <1>2, <1>6 DEF Connect
<1>7. ASSUME NEW r \in Readers, Disconnect(r) PROVE LossTypes' /\ \A p \in Readers : Known(p)'
  <2>1. /\ UNCHANGED <<log, low, last, lastId, base, seen, gone>>
        /\ batch' = [batch EXCEPT ![r] = <<>>]
    BY <1>7 DEF Disconnect
  <2>2. batch'[r] = <<>> /\ \A p \in Readers \ {r} : batch'[p] = batch[p]
    BY <2>1 DEF KnownInv, OrderInv, ReaderTypes
  <2>3. Consecutive(<<>>) /\ AllUpTo(<<>>, Len(log)) BY DEF Consecutive, AllUpTo
  <2>4. LossTypes' BY <2>1, <2>2, <2>3 DEF LossTypes, KnownInv
  <2>5. Known(r)' BY <2>1, <2>2, <2>3 DEF Known, Covered, KnownInv
  <2>6. ASSUME NEW p \in Readers \ {r} PROVE Known(p)'
    BY <2>1, <2>2, KnownKept DEF KnownInv
  <2> QED BY <2>4, <2>5, <2>6
<1>8. ASSUME NEW r \in Readers, Bookmark(r) PROVE LossTypes' /\ \A p \in Readers : Known(p)'
  BY <1>8, BookmarkKnown
<1>9. ASSUME NEW r \in Readers, Replay(r) \/ GapFill(r) \/ ReadLive(r) \/ SafetyPoll(r)
      PROVE  LossTypes' /\ \A p \in Readers : Known(p)'
  <2>1. \E label \in {"replay", "gap", "live"} : Fetch(r, label)
    BY <1>9 DEF Replay, GapFill, ReadLive, SafetyPoll
  <2> QED BY <2>1, FetchKnown
<1>10. ASSUME NEW r \in Readers, YieldNext(r) PROVE LossTypes' /\ \A p \in Readers : Known(p)'
  BY <1>10, YieldKnown
<1> QED BY <1>1, <1>3, <1>4, <1>5, <1>6, <1>7, <1>8, <1>9, <1>10 DEF BusNext, ReaderStep

\* Between its snapshot and the last event it received a client misses only
\* what the stream gave up before it was read and what nobody can read,
\* whatever trims, expiries, reconnections and skipped entries come between.
THEOREM RedisLossesKnown == Spec => []RedisOnlyKnownLosses
<1>1. Init => KnownInv
  <2> SUFFICES ASSUME Init PROVE KnownInv OBVIOUS
  <2>1. OrderInv
    BY DEF Init, BusInit, OrderInv, ReaderTypes, Ordered, Phases, Reading, Increasing, AllAbove,
       AllUpTo
  <2>2. LossTypes BY DEF Init, BusInit, LossTypes, AllUpTo
  <2>3. \A r \in Readers : Known(r)
    BY DEF Init, BusInit, Known, Covered, Cover, Consecutive
  <2> QED BY <2>1, <2>2, <2>3 DEF KnownInv
<1>2. KnownInv /\ [Next]_allVars => KnownInv'
  <2> SUFFICES ASSUME KnownInv, [Next]_allVars PROVE KnownInv' OBVIOUS
  <2>1. CASE EventStep BY <2>1, KnownStep DEF EventStep
  <2>2. CASE UNCHANGED busVars
    <3>1. OrderInv' BY <2>2 DEF busVars, readerVars, KnownInv, OrderInv, ReaderTypes, Ordered
    <3>2. LossTypes' /\ \A r \in Readers : Known(r)'
      BY <2>2 DEF busVars, readerVars, KnownInv, LossTypes, Known, Covered
    <3> QED BY <3>1, <3>2 DEF KnownInv
  <2>3. CASE CancelStep BY <2>2, <2>3 DEF CancelStep
  <2>4. CASE UNCHANGED allVars BY <2>2, <2>4 DEF allVars
  <2> QED BY <2>1, <2>3, <2>4 DEF Next
<1>3. KnownInv => RedisOnlyKnownLosses
  <2> SUFFICES ASSUME KnownInv, NEW r \in Readers, NEW n \in base[r] + 1 .. LastSeen(r)
               PROVE  n \in ToSet(seen[r]) \cup gone[r] \/ log[n] = "unreadable"
    BY DEF RedisOnlyKnownLosses
  <2>1. base[r] \in Nat /\ Known(r) BY ReaderParts
  <2>2. seen[r] # <<>> BY <2>1 DEF LastSeen
  <2>3. LastSeen(r) = lastId[r] BY <2>1, <2>2 DEF LastSeen, Known
  <2> QED BY <2>1, <2>3 DEF Known, Covered, Cover, Accounted
<1> QED BY <1>1, <1>2, <1>3, PTL DEF Spec
=============================================================================
