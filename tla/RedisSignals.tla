---------------------------- MODULE RedisSignals ----------------------------
(***************************************************************************)
(* The two users of Redis Pub/Sub side by side: the event bus and the      *)
(* cancel registry share nothing but the server they talk to, so a         *)
(* behaviour is about one of them.                                         *)
(***************************************************************************)
EXTENDS RedisEventBus, RedisCancelScope

VARIABLE subject   \* "events" or "cancel"

allVars == <<busVars, scopeVars, subject>>

Init == BusInit /\ ScopeInit /\ subject \in {"events", "cancel"}

EventStep == subject = "events" /\ BusNext /\ UNCHANGED <<scopeVars, subject>>
CancelStep == subject = "cancel" /\ ScopeNext /\ UNCHANGED <<busVars, subject>>

Next == EventStep \/ CancelStep

ReadEvents(r) == subject = "events" /\ ReaderStep(r) /\ UNCHANGED <<scopeVars, subject>>
WatchCancel(s) == subject = "cancel" /\ StartStep(s) /\ UNCHANGED <<busVars, subject>>
PublishCancel(q) == subject = "cancel" /\ RequestPublish(q) /\ UNCHANGED <<busVars, subject>>

\* Redis answers and the event loop resumes readers, scopes and requests that
\* have begun.  Nobody has to publish, cancel or connect.
Spec ==
  /\ Init /\ [][Next]_allVars
  /\ \A r \in Readers : WF_allVars(ReadEvents(r))
  /\ \A s \in Scopes : WF_allVars(WatchCancel(s))
  /\ \A q \in Cancellers : WF_allVars(PublishCancel(q))

\* The types of both parts.
TypeOK == BusTypeOK /\ ScopeTypeOK
=============================================================================
