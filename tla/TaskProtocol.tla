---------------------------- MODULE TaskProtocol ----------------------------
(***************************************************************************)
(* What a client of a2akit is promised about one task: the state machine   *)
(* of the task lifecycle.  A task is created by its first message, a       *)
(* worker takes it up once per turn, a turn ends in a terminal state or in *)
(* a pause, a pause is ended by exactly one client message, and a terminal *)
(* state is never left.                                                    *)
(***************************************************************************)
EXTENDS Naturals, Sequences

CONSTANTS
  Messages,   \* message ids that clients use
  Terminal,   \* terminal states
  Paused      \* states in which the task waits for its client

VARIABLES
  state,      \* the task's state, "absent" before it is created
  accepted    \* the client messages accepted so far, in order

vars == <<state, accepted>>

Init == state = "absent" /\ accepted = <<>>

Fresh(m) == \A i \in DOMAIN accepted : accepted[i] # m

Create(m) ==
  /\ state = "absent"
  /\ state' = "submitted"
  /\ accepted' = <<m>>

BeginTurn ==
  /\ state = "submitted"
  /\ state' = "working"
  /\ UNCHANGED accepted

EndTurn(s) ==
  /\ state = "working"
  /\ state' = s
  /\ UNCHANGED accepted

\* A user message ends the pause and starts the next turn.
Resume(m) ==
  /\ state \in Paused
  /\ Fresh(m)
  /\ state' = "submitted"
  /\ accepted' = Append(accepted, m)

\* A message of role agent may be added while the task is active.
Note(m) ==
  /\ state \in {"submitted", "working"}
  /\ Fresh(m)
  /\ accepted' = Append(accepted, m)
  /\ UNCHANGED state

\* Cancellation is possible in every non-terminal state.
Cancel ==
  /\ state \notin Terminal \cup {"absent"}
  /\ state' = "canceled"
  /\ UNCHANGED accepted

\* The broker did not take the operation.
FailUnstarted ==
  /\ state = "submitted"
  /\ state' = "failed"
  /\ UNCHANGED accepted

Next ==
  \/ \E m \in Messages : Create(m) \/ Resume(m) \/ Note(m)
  \/ BeginTurn
  \/ \E s \in Terminal \cup Paused : EndTurn(s)
  \/ Cancel
  \/ FailUnstarted

Spec == Init /\ [][Next]_vars
=============================================================================
