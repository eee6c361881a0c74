------------------------------ MODULE FrontEnd ------------------------------
(***************************************************************************)
(* The server's side of requests: version and envelope checks, the         *)
(* middleware pipeline around a handler, the operation, the reply, and for *)
(* streaming methods the events that follow it.  The requests of one       *)
(* client call run concurrently when a retry overtakes a slow attempt.     *)
(***************************************************************************)
EXTENDS RequestHandlers, Naturals

CONSTANTS Requests,     \* the attempts of a call
          Middlewares,  \* how many middlewares are installed
          MaxEvents     \* events a stream carries before its end

VARIABLES
  server,    \* the protocol version the server speaks
  req,       \* the requests
  tasks,     \* idempotency keys (context, message) of the tasks created
  enqueued   \* operations handed to the broker

frontVars == <<server, req, tasks, enqueued>>

Stages == {"none", "arrived", "check", "before", "work", "close", "answer",
           "respond", "sse", "done"}

\* up: middlewares whose before_dispatch completed; closed: those whose
\* after_dispatch did; lost: why the others never will be; out: the outcome;
\* ran: the operation was called with this many middlewares up; replied: a
\* reply or the head of a stream was sent; gone: the client no longer listens;
\* url: what the URL it was sent to serves, which need not be its protocol.
NoRequest ==
  [at |-> "none", url |-> "rest", proto |-> "rest", version |-> "0.3", method |-> "health",
   quiet |-> FALSE, raw |-> FALSE, key |-> 0, up |-> 0, closed |-> 0, lost |-> "", out |-> "none", ran |-> {},
   replied |-> FALSE, gone |-> FALSE, events |-> 0]

FrontInit(version) ==
  /\ server = version
  /\ req = [a \in Requests |-> NoRequest]
  /\ tasks = {} /\ enqueued = 0

HandlerFor(a) == HandlerOf(req[a].proto, req[a].version, req[a].method)
Becomes(a, r) == req' = [req EXCEPT ![a] = r]
IsRest(a) == req[a].proto = "rest"
SaysNothing == <<server, tasks, enqueued>>

\* A stream may start before the middlewares are closed, and a REST reply may
\* be sent before: FastAPI leaves the dependencies with yield afterwards, or
\* before it answers an exception.
ClosesAfterReply(a) == IsRest(a) /\ HandlerFor(a).pipeline = "router"

\* Where a request goes with its outcome.
AfterWork(a, out) ==
  CASE out = "result" /\ HandlerFor(a).sse /\ ~(HandlerFor(a).pipeline = "router" /\ ~IsRest(a))
         -> "respond"
    [] out = "result" /\ ~HandlerFor(a).sse /\ ClosesAfterReply(a) -> "answer"
    [] OTHER -> "close"

-----------------------------------------------------------------------------
\* _check_a2a_version: the client names the version of its transport.
CheckVersion(a) == req[a].version = server

\* The URL belongs to the protocol of the request.
Routed(a) == req[a].url = req[a].proto

\* A REST path of the other version does not exist, nor does one of the other
\* protocol.
Refuse(a) ==
  /\ req[a].at = "arrived" /\ ~(Routed(a) /\ CheckVersion(a))
  /\ Becomes(a, [req[a] EXCEPT !.at = "answer",
                               !.out = IF IsRest(a) \/ ~Routed(a) THEN "NoRoute" ELSE "Version"])
  /\ UNCHANGED SaysNothing

\* jsonrpc_endpoint: a malformed envelope is refused, a streaming method
\* without an id dropped; the rest goes to its handler.
Dispatch(a) ==
  /\ req[a].at = "arrived" /\ Routed(a) /\ CheckVersion(a)
  /\ \/ /\ req[a].raw /\ ~IsRest(a)
        /\ Becomes(a, [req[a] EXCEPT !.at = "answer", !.out = "Envelope"])
     \/ IF req[a].quiet /\ HandlerFor(a).sse
        THEN Becomes(a, [req[a] EXCEPT !.at = "answer", !.out = "dropped"])
        ELSE Becomes(a, [req[a] EXCEPT !.at =
               CASE HandlerFor(a).pipeline = "self" -> "check"
                 [] HandlerFor(a).pipeline = "router" -> "before"
                 [] OTHER -> "work"])
  /\ UNCHANGED SaysNothing

\* The client library sends well-formed parameters; other clients may not.
Check(a) ==
  /\ req[a].at = "check"
  /\ \/ Becomes(a, [req[a] EXCEPT !.at = IF HandlerFor(a).pipeline = "self" THEN "before"
                                         ELSE "work"])
     \/ \E e \in HandlerFor(a).checks :
          /\ e = "Validation" => req[a].raw
          /\ Becomes(a, [req[a] EXCEPT !.out = e, !.at = "close"])
  /\ UNCHANGED SaysNothing

\* Mutant: the failure of a middleware does not end the dispatch.
BeforeFails_GoesOn(a) == [req[a] EXCEPT !.at = "work"]

BeforeFails(a) == [req[a] EXCEPT !.out = "AuthRequired", !.at = "close"]

Before(a) ==
  /\ req[a].at = "before"
  /\ IF req[a].up = Middlewares
     THEN Becomes(a, [req[a] EXCEPT !.at = IF HandlerFor(a).pipeline = "self" THEN "work"
                                           ELSE "check"])
     ELSE \/ Becomes(a, [req[a] EXCEPT !.up = @ + 1])
          \/ Becomes(a, BeforeFails(a))
  /\ UNCHANGED SaysNothing

\* The TaskManager creates one task per key and enqueues a message once; an
\* unexpected error may come after either.
Submit(a, out) ==
  \/ /\ req[a].method \notin Sends \/ out \notin {"result", "Unexpected"}
     /\ UNCHANGED <<tasks, enqueued>>
  \/ /\ req[a].method \in Sends
     /\ \/ /\ out \in {"result", "Unexpected"} /\ req[a].key \notin tasks
           /\ tasks' = tasks \cup {req[a].key}
           /\ enqueued' \in IF out = "result" THEN {enqueued + 1} ELSE {enqueued, enqueued + 1}
        \/ /\ out = "Unexpected" \/ (out = "result" /\ req[a].key \in tasks)
           /\ UNCHANGED <<tasks, enqueued>>

Work(a) ==
  /\ req[a].at = "work"
  /\ \E out \in HandlerFor(a).raises \cup {"result"} :
       /\ Submit(a, out)
       /\ Becomes(a, [req[a] EXCEPT !.out = out, !.ran = {req[a].up}, !.at = AfterWork(a, out)])
  /\ UNCHANGED server

\* The request is cancelled while it waits for a middleware or for the operation,
\* wherever that had got to, or before its response starts.  The router's and
\* the streams' pipelines are closed all the same; message_send and its twins
\* catch Exception, which a cancellation is not, and a generator nobody started
\* runs nothing.
Cancelled(a) ==
  LET misses == CASE req[a].at = "respond" /\ ~IsRest(a) -> "unstarted"
                  [] req[a].at # "respond" /\ req[a].method = "send" -> "cancelled"
                  [] OTHER -> ""
  IN /\ req[a].at \in {"before", "work", "respond"}
     /\ IF req[a].at = "work" THEN Submit(a, "Unexpected") ELSE UNCHANGED <<tasks, enqueued>>
     /\ Becomes(a, [req[a] EXCEPT !.out = "Cancelled", !.lost = misses,
          !.ran = IF req[a].at = "work" THEN {req[a].up} ELSE @,
          !.at = IF misses = "" THEN "close" ELSE "done"])
     /\ UNCHANGED server

\* message_send of protocol 0.3 converts the result before it closes the
\* middlewares; a failure there leaves them open.
ConversionFails(a) ==
  /\ req[a].at = "close" /\ req[a].out = "result" /\ req[a].closed = 0
  /\ IsRest(a) /\ req[a].version = "0.3" /\ req[a].method = "send"
  /\ Becomes(a, [req[a] EXCEPT !.at = "answer", !.out = "Unexpected", !.lost = "conversion"])
  /\ UNCHANGED SaysNothing

\* No reply is still to come: it was sent, or the request is cancelled.
Settled(a) == req[a].replied \/ req[a].out = "Cancelled"

\* reversed(started): the first after_dispatch that raises, or is cancelled with
\* the connection, is the last one called.  Before the reply its error is the
\* reply's: in the JSON-RPC dispatcher it is handled by nobody.
After(a) ==
  LET next == IF Settled(a) THEN "done"
              ELSE IF req[a].out = "result" /\ HandlerFor(a).sse THEN "respond" ELSE "answer"
  IN /\ req[a].at = "close"
     /\ IF req[a].closed = req[a].up THEN Becomes(a, [req[a] EXCEPT !.at = next])
        ELSE \/ Becomes(a, [req[a] EXCEPT !.closed = @ + 1])
             \/ Becomes(a, [req[a] EXCEPT !.lost = "raised",
                  !.out = IF Settled(a) THEN @
                          ELSE IF HandlerFor(a).pipeline = "router" THEN "Crash" ELSE "Unexpected",
                  !.at = IF Settled(a) THEN "done" ELSE "answer"])
     /\ UNCHANGED SaysNothing

\* The reply; a notification gets none.
Answer(a) ==
  /\ req[a].at = "answer"
  /\ Becomes(a, [req[a] EXCEPT !.replied = TRUE,
       !.at = IF req[a].out = "result" /\ ClosesAfterReply(a) /\ ~HandlerFor(a).sse
              THEN "close" ELSE "done"])
  /\ UNCHANGED SaysNothing

\* The response starts.
Respond(a) ==
  /\ req[a].at = "respond" /\ Becomes(a, [req[a] EXCEPT !.at = "sse", !.replied = TRUE])
  /\ UNCHANGED SaysNothing

\* An event of the stream; the end marker, the end of the generator, an error
\* in it or the client's leaving ends the stream, and then come the closes.
Emit(a) ==
  /\ req[a].at = "sse"
  /\ \/ req[a].events < MaxEvents /\ Becomes(a, [req[a] EXCEPT !.events = @ + 1])
     \/ Becomes(a, [req[a] EXCEPT !.at = "close"])
  /\ UNCHANGED SaysNothing

Serve(a) ==
  \/ Refuse(a) \/ Dispatch(a) \/ Check(a) \/ Before(a) \/ Work(a) \/ Cancelled(a)
  \/ ConversionFails(a) \/ After(a) \/ Answer(a) \/ Respond(a) \/ Emit(a)
=============================================================================
