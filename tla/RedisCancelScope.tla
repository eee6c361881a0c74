-------------------------- MODULE RedisCancelScope --------------------------
(***************************************************************************)
(* RedisCancelRegistry and RedisCancelScope for one task: a key that says  *)
(* the task is cancelled, a channel that announces it, and the scopes that *)
(* the runs of the task (in several processes, or after each other) watch. *)
(* Redis may fail at every await of a scope's start, and the listener may  *)
(* lose its connection later.                                              *)
(***************************************************************************)
EXTENDS Naturals, FiniteSets

CONSTANTS Scopes,     \* runs of the task, each with its scope
          Cancellers  \* calls of request_cancel

VARIABLES
  cancelKey,  \* the cancel key exists
  request,    \* where each request_cancel is
  scope,      \* where the start of each scope is
  retried,    \* scopes whose wait() has started them a second time
  listening,  \* scopes subscribed to the channel
  inbox,      \* scopes with an unread message in their subscription
  signal,     \* scopes whose event is set
  released    \* the key was deleted or expired after a request

scopeVars == <<cancelKey, request, scope, retried, listening, inbox, signal,
               released>>

ScopeLabels == {"none", "check", "subscribe", "recheck", "started", "failed",
                "deaf", "closed"}

ScopeTypeOK ==
  /\ cancelKey \in BOOLEAN /\ released \in BOOLEAN
  /\ request \in [Cancellers -> {"idle", "publish", "done"}]
  /\ scope \in [Scopes -> ScopeLabels]
  /\ {retried, listening, inbox, signal} \subseteq SUBSET Scopes

ScopeInit ==
  /\ cancelKey = FALSE /\ released = FALSE
  /\ request = [q \in Cancellers |-> "idle"]
  /\ scope = [s \in Scopes |-> "none"]
  /\ retried = {} /\ listening = {} /\ inbox = {} /\ signal = {}

At(s, label) == scope' = [scope EXCEPT ![s] = label]

\* request_cancel: SET of the key ...
RequestSet(q) ==
  /\ request[q] = "idle"
  /\ request' = [request EXCEPT ![q] = "publish"]
  /\ cancelKey' = TRUE
  /\ UNCHANGED <<scope, retried, listening, inbox, signal, released>>

\* ... then PUBLISH, in a pipeline without a transaction.
RequestPublish(q) ==
  /\ request[q] = "publish"
  /\ request' = [request EXCEPT ![q] = "done"]
  /\ inbox' = inbox \cup listening
  /\ UNCHANGED <<cancelKey, scope, retried, listening, signal, released>>

\* on_cancel: the scope is tracked and starts in the background.
OnCancel(s) ==
  /\ scope[s] = "none"
  /\ At(s, "check")
  /\ UNCHANGED <<cancelKey, request, retried, listening, inbox, signal, released>>

\* _start: the key may be there already.
CheckKey(s) ==
  /\ scope[s] = "check"
  /\ \/ cancelKey /\ signal' = signal \cup {s} /\ At(s, "started")
     \/ ~cancelKey /\ At(s, "subscribe") /\ UNCHANGED signal
  /\ UNCHANGED <<cancelKey, request, retried, listening, inbox, released>>

SubscribeChannel(s) ==
  /\ scope[s] = "subscribe"
  /\ listening' = listening \cup {s}
  /\ At(s, "recheck")
  /\ UNCHANGED <<cancelKey, request, retried, inbox, signal, released>>

\* Mutant: the key is not looked at again after the subscription.
RecheckKey_Skipped(s) ==
  /\ scope[s] = "recheck"
  /\ At(s, "started")
  /\ UNCHANGED <<cancelKey, request, retried, listening, inbox, signal, released>>

\* The key is looked at again, for a request between check and subscription.
RecheckKey(s) ==
  /\ scope[s] = "recheck"
  /\ At(s, "started")
  /\ \/ /\ cancelKey
        /\ signal' = signal \cup {s}
        /\ listening' = listening \ {s} /\ inbox' = inbox \ {s}
     \/ ~cancelKey /\ UNCHANGED <<signal, listening, inbox>>
  /\ UNCHANGED <<cancelKey, request, retried, released>>

\* Redis fails while the scope starts: the event stays unset.
StartFails(s) ==
  /\ scope[s] \in {"check", "subscribe", "recheck"}
  /\ At(s, "failed")
  /\ listening' = listening \ {s} /\ inbox' = inbox \ {s}
  /\ UNCHANGED <<cancelKey, request, retried, signal, released>>

\* Mutant: wait() waits for the event of a scope that never started.
WaitRetries_Never(s) == FALSE /\ UNCHANGED scopeVars

\* wait() starts a scope that failed to start, once.
WaitRetries(s) ==
  /\ scope[s] = "failed"
  /\ s \notin retried
  /\ retried' = retried \cup {s}
  /\ At(s, "check")
  /\ UNCHANGED <<cancelKey, request, listening, inbox, signal, released>>

\* _listen: the message sets the event and ends the subscription.
Listen(s) ==
  /\ scope[s] = "started"
  /\ s \in inbox
  /\ signal' = signal \cup {s}
  /\ listening' = listening \ {s} /\ inbox' = inbox \ {s}
  /\ UNCHANGED <<cancelKey, request, scope, retried, released>>

\* The listener loses its connection and is not started again.
ListenerDies(s) ==
  /\ scope[s] = "started"
  /\ s \in listening
  /\ At(s, "deaf")
  /\ listening' = listening \ {s} /\ inbox' = inbox \ {s}
  /\ UNCHANGED <<cancelKey, request, retried, signal, released>>

DeleteKey ==
  /\ cancelKey' = FALSE
  /\ released' = (released \/ cancelKey)

\* cleanup: of all scopes of the task in this process, and of the key when
\* the turn ended in a terminal state.
CleanupScopes(ss) ==
  /\ ss # {} /\ \A s \in ss : scope[s] \notin {"none", "closed"}
  /\ scope' = [s \in Scopes |-> IF s \in ss THEN "closed" ELSE scope[s]]
  /\ listening' = listening \ ss /\ inbox' = inbox \ ss
  /\ \/ DeleteKey
     \/ UNCHANGED <<cancelKey, released>>
  /\ UNCHANGED <<request, retried, signal>>

\* The TTL of the key runs out.
KeyExpires ==
  /\ cancelKey
  /\ DeleteKey
  /\ UNCHANGED <<request, scope, retried, listening, inbox, signal>>

StartStep(s) ==
  \/ CheckKey(s) \/ SubscribeChannel(s) \/ RecheckKey(s) \/ WaitRetries(s)
  \/ Listen(s)

ScopeNext ==
  \/ \E q \in Cancellers : RequestSet(q) \/ RequestPublish(q)
  \/ \E s \in Scopes : OnCancel(s) \/ StartStep(s) \/ StartFails(s) \/ ListenerDies(s)
  \/ \E ss \in SUBSET Scopes : CleanupScopes(ss)
  \/ KeyExpires

-----------------------------------------------------------------------------
\* No cancel request falls between the check and the subscription of a scope:
\* once a request_cancel has returned and while its key is there, every scope
\* that came up is signalled or has the message waiting.
CancelReachesScope ==
  \A s \in Scopes :
    scope[s] = "started" /\ cancelKey /\ ~released
      /\ (\A q \in Cancellers : request[q] # "publish")
    => s \in signal \cup inbox

\* A requested cancellation reaches a run that keeps its scope, even when the
\* start failed once; it stays unseen only when Redis failed twice, the
\* listener died, or the key was released first.
CancelIsSeen ==
  \A s \in Scopes :
    (cancelKey /\ scope[s] \in {"check", "subscribe", "recheck", "failed", "started"}) ~>
      \/ s \in signal \/ released
      \/ scope[s] \in {"deaf", "closed"} \/ (scope[s] = "failed" /\ s \in retried)
=============================================================================
