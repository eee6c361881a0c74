---------------------------- MODULE RedisEventBus ----------------------------
(***************************************************************************)
(* RedisEventBus for one task: a replay stream that keeps the payloads and *)
(* a Pub/Sub channel that only wakes the readers up.  Commands of a        *)
(* pipeline without a transaction are steps of their own, and Pub/Sub      *)
(* delivers at most once.                                                  *)
(*                                                                         *)
(* An event is known by its number, which is also its stream id: XADD      *)
(* orders both.  The numbers below low are no longer in the stream.        *)
(***************************************************************************)
EXTENDS Integers, Sequences, SequencesExt, FiniteSetsExt

CONSTANTS
  Readers,       \* SSE clients; each holds one connection at a time
  Writers,       \* coroutines that publish
  StreamMaxLen,  \* approximate MAXLEN of the replay stream
  MaxPublished   \* bound: how many events are published

ASSUME RedisBusAssumption ==
  StreamMaxLen \in Nat \ {0} /\ MaxPublished \in Nat

\* An ordinary event, a TerminalMarker, and a payload that this version of
\* the server cannot deserialize.
EventKinds == {"event", "end", "unreadable"}

VARIABLES
  log,       \* the kinds of the events XADDed so far
  low,       \* the first number the stream still holds
  expiring,  \* EXPIRE 60 is running
  waking,    \* writers that have added an event and not published the wakeup
  phase,     \* where the connection of each reader is
  resumes,   \* readers that connected with a Last-Event-ID
  wakeup,    \* readers with a wakeup in their Pub/Sub connection
  last,      \* last_seen_id
  batch,     \* entries an XRANGE returned that are not yielded yet
  lastId,    \* the id of the last event the client received, 0 for none
  base,      \* what the client's snapshot stands for: events up to here
  seen,      \* the events the client received since
  gone       \* events that left the stream before the reader yielded them

readerVars == <<phase, resumes, wakeup, last, batch, lastId, base, seen, gone>>
busVars == <<log, low, expiring, waking, readerVars>>

Phases == {"away", "subscribed", "bookmarked", "replay", "gap", "live", "ended"}

BusTypeOK ==
  /\ log \in Seq(EventKinds)
  /\ low \in 1 .. Len(log) + 1
  /\ expiring \in BOOLEAN
  /\ waking \subseteq Writers
  /\ phase \in [Readers -> Phases]
  /\ resumes \subseteq Readers /\ wakeup \subseteq Readers
  /\ last \in [Readers -> Nat] /\ lastId \in [Readers -> Nat]
  /\ base \in [Readers -> Nat]
  /\ batch \in [Readers -> Seq(1 .. Len(log))]
  /\ seen \in [Readers -> Seq(1 .. Len(log))]
  /\ gone \in [Readers -> SUBSET (1 .. Len(log))]

BusInit ==
  /\ log = <<>> /\ low = 1 /\ expiring = FALSE
  /\ waking = {}
  /\ phase = [r \in Readers |-> "away"]
  /\ resumes = {} /\ wakeup = {}
  /\ last = [r \in Readers |-> 0] /\ lastId = [r \in Readers |-> 0]
  /\ base = [r \in Readers |-> 0]
  /\ batch = [r \in Readers |-> <<>>]
  /\ seen = [r \in Readers |-> <<>>]
  /\ gone = [r \in Readers |-> {}]

-----------------------------------------------------------------------------
(* publish and cleanup                                                     *)

\* The stream gives up the events below n.
Forget(n) ==
  /\ low' = n
  /\ gone' = [r \in Readers |-> gone[r] \cup {i \in low .. n - 1 : i > last[r]}]

\* XADD with an approximate MAXLEN, and EXPIRE 86400 instead of a shorter one.
PublishAdd(p) ==
  /\ p \notin waking
  /\ Len(log) < MaxPublished
  /\ \E k \in EventKinds : log' = Append(log, k)
  /\ \E n \in {low, Max({low, Len(log) + 2 - StreamMaxLen})} : Forget(n)
  /\ expiring' = FALSE
  /\ waking' = waking \cup {p}
  /\ UNCHANGED <<phase, resumes, wakeup, last, batch, lastId, base, seen>>

Subscribed == {r \in Readers : phase[r] \notin {"away", "ended"}}

\* PUBLISH of the wakeup, which may be lost on the way to anybody.
PublishWake(p) ==
  /\ p \in waking
  /\ waking' = waking \ {p}
  /\ \E rs \in SUBSET Subscribed : wakeup' = wakeup \cup rs
  /\ UNCHANGED <<log, low, expiring, phase, resumes, last, batch, lastId, base,
                 seen, gone>>

\* cleanup: EXPIRE 60 ...
Cleanup ==
  /\ log # <<>> /\ low <= Len(log)
  /\ expiring' = TRUE
  /\ UNCHANGED <<log, low, waking, readerVars>>

\* ... which deletes the stream unless another event extends it again.
StreamExpires ==
  /\ expiring
  /\ Forget(Len(log) + 1)
  /\ expiring' = FALSE
  /\ UNCHANGED <<log, waking, phase, resumes, wakeup, last, batch, lastId, base,
                 seen>>

-----------------------------------------------------------------------------
(* subscribe and _iter_events of reader r                                  *)

\* SUBSCRIBE to the channel, with or without a Last-Event-ID.
Connect(r) ==
  /\ phase[r] = "away"
  /\ phase' = [phase EXCEPT ![r] = "subscribed"]
  /\ wakeup' = wakeup \ {r}
  /\ \/ lastId[r] > 0 /\ resumes' = resumes \cup {r}
     \/ resumes' = resumes \ {r}
  /\ UNCHANGED <<log, low, expiring, waking, last, batch, lastId, base, seen,
                 gone>>

\* Mutant: a client that resumes starts from the end of the stream.
Bookmark_IgnoresId(r) ==
  /\ phase[r] = "subscribed"
  /\ phase' = [phase EXCEPT ![r] = "bookmarked"]
  /\ last' = [last EXCEPT ![r] = Len(log)]
  /\ UNCHANGED <<log, low, expiring, waking, resumes, wakeup, batch, lastId, base,
                 seen, gone>>

\* Without a Last-Event-ID the end of the stream is the bookmark ("0-0" when
\* the stream is empty, or when XREVRANGE fails); the caller loads its
\* snapshot next.  An id that Redis rejects has the same effect as "0-0".  A
\* client that resumes starts from the id it sent.
Bookmark(r) ==
  /\ phase[r] = "subscribed"
  /\ phase' = [phase EXCEPT ![r] = "bookmarked"]
  /\ \/ /\ r \in resumes
        /\ last' = [last EXCEPT ![r] = lastId[r]]
        /\ UNCHANGED <<base, seen, gone>>
     \/ /\ r \notin resumes
        /\ \E n \in {0, IF low <= Len(log) THEN Len(log) ELSE 0} :
             last' = [last EXCEPT ![r] = n]
        /\ base' = [base EXCEPT ![r] = Len(log)]
        /\ seen' = [seen EXCEPT ![r] = <<>>]
        /\ gone' = [gone EXCEPT ![r] = {}]
  /\ UNCHANGED <<log, low, expiring, waking, resumes, wakeup, batch, lastId>>

\* Mutant: the range includes last_seen_id.
Entries_Inclusive(r) == [k \in 1 .. Len(log) - (Max({last[r], low}) - 1) |->
                           Max({last[r], low}) - 1 + k]

\* XRANGE (last_seen_id +: what the stream holds beyond it.
Entries(r) == [k \in 1 .. Len(log) - (Max({last[r] + 1, low}) - 1) |->
                 Max({last[r] + 1, low}) - 1 + k]

Fetch(r, label) ==
  /\ phase' = [phase EXCEPT ![r] = label]
  /\ batch' = [batch EXCEPT ![r] = Entries(r)]
  /\ UNCHANGED <<log, low, expiring, waking, resumes, last, lastId, base, seen,
                 gone>>

\* Phase 1, only with a Last-Event-ID.
Replay(r) ==
  /\ phase[r] = "bookmarked"
  /\ r \in resumes
  /\ Fetch(r, "replay")
  /\ UNCHANGED wakeup

\* Phase 2.
GapFill(r) ==
  /\ \/ phase[r] = "bookmarked" /\ r \notin resumes
     \/ phase[r] = "replay" /\ batch[r] = <<>>
  /\ Fetch(r, "gap")
  /\ UNCHANGED wakeup

\* The gap is filled: from here on the stream is read when a wakeup comes ...
ReadLive(r) ==
  /\ phase[r] \in {"gap", "live"}
  /\ batch[r] = <<>>
  /\ r \in wakeup
  /\ Fetch(r, "live")
  /\ wakeup' = wakeup \ {r}

\* Mutant: no polling besides the wakeups.
SafetyPoll_Never(r) == FALSE /\ UNCHANGED busVars

\* ... or after thirty timeouts without one.
SafetyPoll(r) ==
  /\ phase[r] \in {"gap", "live"}
  /\ batch[r] = <<>>
  /\ r \notin wakeup
  /\ Fetch(r, "live")
  /\ UNCHANGED wakeup

\* Yield the next entry.  A marker ends the stream.  An unreadable payload is
\* skipped during replay and gap-fill; in the live phase it costs the rest of
\* the batch, which the next read fetches again.
YieldNext(r) ==
  /\ batch[r] # <<>>
  /\ LET n == Head(batch[r])
     IN \/ /\ log[n] = "unreadable"
           /\ IF phase[r] = "live"
              THEN /\ last' = [last EXCEPT ![r] = n]
                   /\ batch' = [batch EXCEPT ![r] = <<>>]
              ELSE /\ batch' = [batch EXCEPT ![r] = Tail(@)]
                   /\ UNCHANGED last
           /\ UNCHANGED <<phase, lastId, seen>>
        \/ /\ log[n] # "unreadable"
           /\ last' = [last EXCEPT ![r] = n]
           /\ lastId' = [lastId EXCEPT ![r] = n]
           /\ seen' = [seen EXCEPT ![r] = Append(@, n)]
           /\ batch' = [batch EXCEPT ![r] = IF log[n] = "end" THEN <<>> ELSE Tail(@)]
           /\ phase' = [phase EXCEPT ![r] = IF log[n] = "end" THEN "ended" ELSE @]
  /\ UNCHANGED <<log, low, expiring, waking, resumes, wakeup, base, gone>>

\* The connection breaks, or the client goes away.
Disconnect(r) ==
  /\ phase[r] # "away"
  /\ phase' = [phase EXCEPT ![r] = "away"]
  /\ batch' = [batch EXCEPT ![r] = <<>>]
  /\ wakeup' = wakeup \ {r}
  /\ UNCHANGED <<log, low, expiring, waking, resumes, last, lastId, base, seen,
                 gone>>

ReaderStep(r) ==
  \/ Bookmark(r) \/ Replay(r) \/ GapFill(r) \/ ReadLive(r) \/ SafetyPoll(r)
  \/ YieldNext(r)

BusNext ==
  \/ \E p \in Writers : PublishAdd(p) \/ PublishWake(p)
  \/ Cleanup \/ StreamExpires
  \/ \E r \in Readers : Connect(r) \/ ReaderStep(r) \/ Disconnect(r)

-----------------------------------------------------------------------------
LastSeen(r) == IF seen[r] = <<>> THEN base[r] ELSE seen[r][Len(seen[r])]

\* Events reach a client in stream order and none twice: across reconnections
\* with a Last-Event-ID, the hand-over from replay to gap-fill to live reads
\* that may all return the same entries, and unreadable payloads in between.
RedisInOrder ==
  \A r \in Readers : \A i, j \in DOMAIN seen[r] : i < j => seen[r][i] < seen[r][j]

\* Between its snapshot and the last event it received a client misses only
\* what was trimmed or had expired before it was read, and what no server of
\* this version can read.
RedisOnlyKnownLosses ==
  \A r \in Readers :
    \A n \in base[r] + 1 .. LastSeen(r) :
      \/ n \in ToSet(seen[r]) \cup gone[r]
      \/ log[n] = "unreadable"

\* A client that stays connected gets every event the stream keeps, although
\* wakeups may be lost: the safety poll finds what Pub/Sub did not announce.
RedisDelivers ==
  \A r \in Readers, n \in 1 .. MaxPublished :
    [](phase[r] = "live" /\ n \in low .. Len(log) /\ n > last[r] =>
       <>(n \in ToSet(seen[r]) \cup gone[r] \/ last[r] >= n
          \/ phase[r] \in {"away", "ended"}))
=============================================================================
