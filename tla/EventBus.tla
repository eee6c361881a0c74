------------------------------ MODULE EventBus ------------------------------
(***************************************************************************)
(* The event bus of one task as the request handlers and the workers see   *)
(* it (event_bus/memory.py): status events fan out to the subscribers that *)
(* are registered when they are published, a TerminalMarker ends the       *)
(* stream of everybody who receives it, a subscriber whose stream is full  *)
(* does not receive it, and cleanup drops the subscriber list without      *)
(* closing the streams of those still listening.                           *)
(***************************************************************************)
EXTENDS TaskStore

CONSTANT Listeners   \* the requests that may hold a subscription

\* A listener's stream: not subscribed; registered; dropped by cleanup while
\* still waiting; registered after a TerminalMarker it had no room for; dropped
\* by cleanup after such a loss; ended by a TerminalMarker; closed after the
\* snapshot of a terminal task; given up by the blocking timeout.
Ended == {"final", "snapshot", "timeout"}
StreamStates == {"off", "open", "orphaned", "missed", "overrun"} \cup Ended

VARIABLES
  stream,     \* the state of each listener's stream
  lastEvent,  \* the state carried by the last status event published
  finals      \* how many TerminalMarkers of a terminal state were published

busVars == <<stream, lastEvent, finals>>

BusTypeOK ==
  /\ stream \in [Listeners -> StreamStates]
  /\ lastEvent \in TaskStates
  /\ finals \in Nat

BusInit ==
  /\ stream = [l \in Listeners |-> "off"]
  /\ lastEvent = "absent"
  /\ finals = 0

-----------------------------------------------------------------------------
\* subscribe: the send stream is appended to the task's subscriber list.
Subscribe(l) ==
  /\ stream' = [stream EXCEPT ![l] = "open"]
  /\ UNCHANGED <<lastEvent, finals>>

\* publish of a bare TaskStatusUpdateEvent: streams stay open.
PublishStatus(st) ==
  /\ lastEvent' = st
  /\ UNCHANGED <<stream, finals>>

Registered == {l \in Listeners : stream[l] \in {"open", "missed"}}

\* publish of a TerminalMarker: every registered stream with room for it ends.
\* Those that are full (WouldBlock) lose it and go on waiting.
PublishMarker(st) ==
  /\ lastEvent' = st
  /\ finals' = IF st \in Terminal THEN finals + 1 ELSE finals
  /\ \E full \in SUBSET Registered :
       stream' = [l \in Listeners |-> IF l \in full THEN "missed"
                                     ELSE IF l \in Registered THEN "final"
                                     ELSE stream[l]]

\* A listener leaves its subscription context in state st.
Unsubscribe(l, st) ==
  /\ stream' = [stream EXCEPT ![l] = st]
  /\ UNCHANGED <<lastEvent, finals>>

\* cleanup: the subscriber list is popped.  The popped streams are not
\* closed, so a listener still waiting never hears of the task again.
CleanupBus ==
  /\ stream' = [l \in Listeners |-> IF stream[l] = "open" THEN "orphaned"
                                   ELSE IF stream[l] = "missed" THEN "overrun"
                                   ELSE stream[l]]
  /\ UNCHANGED <<lastEvent, finals>>
=============================================================================
