----------------------------- MODULE ClientCall -----------------------------
(***************************************************************************)
(* A client of the server: A2AClient connects over the first transport of  *)
(* the agent card that answers, then makes one call.  Requests and replies *)
(* may be lost, an answer may come too late, and a call that may be        *)
(* repeated is: the attempt the client gave up on goes on in the server.   *)
(* The server may be redeployed with the other protocol version between    *)
(* the connect and the call.                                               *)
(***************************************************************************)
EXTENDS FrontEnd, ErrorWire, Sequences, FiniteSets

CONSTANTS Cards,      \* agent cards: version and interfaces, preferred first
          MaxRetries  \* max_retries

ASSUME RequestsAssumption == MaxRetries \in Nat /\ Requests = 1..MaxRetries + 1

VARIABLES
  card,    \* the card the client fetches
  prefer,  \* the protocol the caller asked for, or "none"
  net,     \* what the endpoint at each URL does: it answers ("up"), refuses the
           \* connection ("down"), answers 5xx ("sick"), or accepts the connection
           \* and leaves the health check unanswered ("mute")
  client,  \* the client
  moved    \* the server was redeployed

clientVars == <<card, prefer, net, client, moved>>
vars == <<frontVars, clientVars>>

Protos == {"rest", "rpc"}
Supported == {"0.3", "1.0"}
Urls == {"rest", "rpc", "grpc"}
Behaviours == {"up", "down", "sick", "mute"}
Idle == [at |-> "new", i |-> 1, url |-> "rest", proto |-> "rest", version |-> "0.3", method |-> "health",
         raw |-> FALSE, quiet |-> FALSE, attempt |-> 1, result |-> "none"]

Init ==
  /\ card \in Cards /\ prefer \in {"none"} \cup Protos
  /\ net \in [Urls -> Behaviours]
  /\ \A u \in Urls : net[u] = "up" \/ \E n \in DOMAIN card.ifaces : card.ifaces[n].proto = u
  /\ client = Idle /\ moved = FALSE
  /\ FrontInit(card.version)

ClientDoes(c) == client' = c /\ UNCHANGED <<card, prefer, net, moved>>
Ends(c, result) == [c EXCEPT !.at = "done", !.result = result]

-----------------------------------------------------------------------------
(* connect() *)

\* _project_v10_card_to_v03: whatever is not JSON-RPC passes for HTTP+JSON.
ProjectToV03(transport) == IF transport = "rpc" THEN "rpc" ELSE "rest"

\* _protocol_from_transport: "rpc" is part of the name of gRPC as well.
ProtocolFromTransport(transport) == IF transport = "rest" THEN "rest" ELSE "rpc"

\* _detect_protocol: what the caller asked for goes before the card.
DetectProtocol(preference, transport) ==
  IF preference # "none" THEN preference ELSE ProtocolFromTransport(transport)

\* The interfaces of a 1.0 card the client can use; else, and for a 0.3 card,
\* every interface as one of 0.3, the first one over the protocol asked for.
BuildTransportCandidates(c, preference) ==
  LET usable == SelectSeq(c.ifaces, LAMBDA f : f.proto \in Protos)
      transport(f) == IF c.version = "1.0" THEN ProjectToV03(f.proto) ELSE f.proto
      candidate(n) ==
        [proto |-> IF n = 1 THEN DetectProtocol(preference, transport(c.ifaces[n]))
                   ELSE ProtocolFromTransport(transport(c.ifaces[n])),
         version |-> "0.3", url |-> c.ifaces[n].proto]
  IN IF c.version = "1.0" /\ usable # <<>>
     THEN [n \in DOMAIN usable |-> [proto |-> usable[n].proto, version |-> usable[n].version,
                                    url |-> usable[n].proto]]
     ELSE [n \in DOMAIN c.ifaces |-> candidate(n)]

\* Every card lists its interfaces, so the candidates are a list as well.
ASSUME CandidatesAssumption ==
  \A c \in Cards :
    /\ c.version \in Supported
    /\ \A p \in {"none"} \cup Protos :
         BuildTransportCandidates(c, p) \in Seq([proto : Protos, version : STRING, url : Urls])

Candidates == BuildTransportCandidates(card, prefer)

\* No card, a card that is no card or fails its signature, or no interface of
\* a version the client speaks.
FetchCard ==
  /\ client.at = "new"
  /\ \/ ClientDoes(Ends(client, "AgentNotFoundError"))
     \/ ClientDoes(IF \E n \in DOMAIN Candidates : Candidates[n].version \in Supported
                   THEN [client EXCEPT !.at = "trying"]
                   ELSE Ends(client, "ProtocolVersionMismatchError"))
  /\ UNCHANGED frontVars

\* Mutant: a refused connection counts as an answer.
Skipped_OnlySick(c) == net[c.url] = "sick"

\* A candidate is passed over when its endpoint answers 5xx or refuses the
\* connection; over JSON-RPC the refusal arrives as an error of the protocol,
\* which is accepted like any other: a 404, or no answer at all.
Skipped(c) == \/ net[c.url] = "sick"
              \/ net[c.url] = "down" /\ c.proto = "rest"

TryCandidate ==
  LET c == Candidates[client.i] IN
  /\ client.at = "trying"
  /\ IF client.i > Len(Candidates) THEN ClientDoes(Ends(client, "AgentNotFoundError"))
     ELSE IF c.version \notin Supported \/ Skipped(c)
     THEN ClientDoes([client EXCEPT !.i = @ + 1])
     ELSE ClientDoes([client EXCEPT !.at = "connected", !.url = c.url, !.proto = c.proto,
                                    !.version = c.version])
  /\ UNCHANGED frontVars

-----------------------------------------------------------------------------
(* a call *)

Streams == {"stream", "subscribe"}
Retried == {"send", "get", "list", "cancel"}

\* A call of the library, or a request of a client that is not the library:
\* its parameters may be wrong, and it may leave out the id.
StartCall ==
  /\ client.at = "connected"
  /\ \/ \E m \in Methods \ {"health"} :
          \/ ClientDoes([client EXCEPT !.at = "calling", !.method = m])
          \/ m \in Streams /\ ClientDoes(Ends([client EXCEPT !.method = m], "AgentCapabilityError"))
     \/ \E m \in Methods, quiet \in BOOLEAN :
          /\ quiet => client.proto = "rpc"
          /\ ClientDoes([client EXCEPT !.at = "calling", !.method = m, !.raw = TRUE,
                                       !.quiet = quiet])
  /\ UNCHANGED frontVars

\* Mutant: no context is set, so the server makes one up for each request.
BuildParams_NoContext(a) == a

\* The message id and the context of a new task are made once for a call.
BuildParams(a) == 1

MayRetry == client.method \in Retried /\ ~client.raw /\ client.attempt <= MaxRetries

\* A network error: repeated when the client may, else raised.  JSON-RPC wraps
\* it into an error of the protocol, which is never repeated.
NetworkError(retriable) ==
  IF client.proto = "rpc" /\ client.method \notin Streams THEN Ends(client, "ProtocolError")
  ELSE IF retriable /\ MayRetry
  THEN [client EXCEPT !.at = "calling", !.attempt = @ + 1]
  ELSE Ends(client, "httpx")

\* The request reaches the server, or the connection fails first.
Post ==
  LET a == client.attempt IN
  /\ client.at = "calling"
  /\ \/ /\ net[client.url] # "down" /\ ClientDoes([client EXCEPT !.at = "waiting"])
        /\ Becomes(a, [NoRequest EXCEPT !.at = "arrived", !.url = client.url,
             !.proto = client.proto, !.version = client.version, !.method = client.method, !.quiet = client.quiet,
             !.raw = client.raw, !.key = BuildParams(a)])
     \/ ClientDoes(NetworkError(TRUE)) /\ UNCHANGED req
  /\ UNCHANGED SaysNothing

\* The read timeout, which streams do not have, or a broken connection.
StopWaiting ==
  LET a == client.attempt IN
  /\ client.at = "waiting"
  /\ \/ client.method \notin Streams /\ ClientDoes(NetworkError(TRUE))
     \/ ClientDoes(NetworkError(FALSE))
  /\ Becomes(a, [req[a] EXCEPT !.gone = TRUE])
  /\ UNCHANGED SaysNothing

\* The reply of this attempt is turned into a result or an exception.
ReceiveReply ==
  LET a == client.attempt
      sse == client.method \in Streams
      raised == Raised(client.proto, client.version, sse,
                       Wire(client.proto, server, req[a].out))
  IN /\ client.at = "waiting" /\ req[a].replied
     /\ ClientDoes(IF client.raw THEN Ends(client, "raw")
                   ELSE IF sse /\ raised = "result" THEN [client EXCEPT !.at = "reading"]
                   ELSE Ends(client, raised))
     /\ UNCHANGED frontVars

\* The stream ends, breaks, or is left.
StopReading ==
  LET a == client.attempt IN
  /\ client.at = "reading" /\ ClientDoes(Ends(client, "result"))
  /\ Becomes(a, [req[a] EXCEPT !.gone = TRUE]) /\ UNCHANGED SaysNothing

Redeploy ==
  /\ client.at = "connected" /\ ~moved /\ moved' = TRUE
  /\ server' = IF server = "0.3" THEN "1.0" ELSE "0.3"
  /\ UNCHANGED <<req, tasks, enqueued, card, prefer, net, client>>

ClientStep ==
  \/ FetchCard \/ TryCandidate \/ Post \/ StopWaiting \/ ReceiveReply \/ StopReading

Next ==
  \/ ClientStep \/ StartCall \/ Redeploy
  \/ \E a \in Requests : Serve(a) /\ UNCHANGED clientVars

Spec == Init /\ [][Next]_vars

-----------------------------------------------------------------------------
\* Every middleware whose before_dispatch completed has its after_dispatch
\* called, in the reverse order, once the operation and the whole stream are
\* behind it, cancelled requests included.  It is missed after an after_dispatch
\* that raised, for a JSON-RPC stream that is cancelled before it starts, when
\* message_send of 0.3 cannot convert its result, and when message_send is
\* cancelled before its result is there.
MiddlewareUnwinds ==
  \A a \in Requests :
    /\ req[a].at \in {"check", "before", "work", "respond", "sse"} => req[a].closed = 0
    /\ req[a].at = "done" /\ req[a].closed # req[a].up =>
         \/ req[a].lost = "raised"
         \/ req[a].lost = "unstarted" /\ ~IsRest(a) /\ ~req[a].replied
         \/ req[a].lost = "conversion" /\ IsRest(a) /\ req[a].version = "0.3"
         \/ req[a].lost = "cancelled" /\ req[a].method = "send" /\ ~req[a].replied

\* Every request but the health checks passes all middlewares before the
\* TaskManager, the push store or the card provider is asked, on every binding.
WorkBehindMiddleware ==
  \A a \in Requests :
    req[a].ran # {} /\ req[a].method # "health" => req[a].ran = {Middlewares}

\* A call makes at most one task and has its message enqueued at most once,
\* however often it is repeated and whichever of its attempts is served first.
OneTaskPerCall == Cardinality(tasks) <= 1 /\ enqueued <= 1

\* The exceptions of the client that name an error of the task.
Typed == [TaskNotFoundError |-> "TaskNotFound", TaskTerminalError |-> "TaskTerminalState",
          TaskNotCancelableError |-> "TaskNotCancelable"]

\* Errors that reach the caller under another error's name.
KnownAliases ==
  [TaskTerminalError |-> IF server = "1.0" THEN {}
                         ELSE IF client.proto = "rest" THEN {"Concurrency"}
                         ELSE {"Concurrency", "UnsupportedOperation"},
   TaskNotFoundError |-> (IF client.proto = "rest" THEN {"NoRoute"} ELSE {})
                         \cup (IF server = "1.0" THEN {} ELSE {"PushConfigNotFound"})
                         \cup (IF server = "0.3" /\ client.proto = "rest" THEN {"NoCard"} ELSE {}),
   TaskNotCancelableError |-> {}]

\* What the caller learns of its task is what the server found: an unknown, a
\* finished and an uncancelable task raise their own exception on every binding,
\* and nothing else does but the errors listed.
ErrorsAgree ==
  client.at = "done" /\ ~client.raw /\ client.result # "httpx" =>
    LET out == req[client.attempt].out IN
    /\ client.result \in DOMAIN Typed =>
         out \in {Typed[client.result]} \cup KnownAliases[client.result]
    /\ \A x \in DOMAIN Typed :
         req[client.attempt].replied /\ ~req[client.attempt].gone /\ out = Typed[x] =>
           client.result = x

\* connect() passes over no transport of a version it speaks whose endpoint
\* takes the connection and does not answer 5xx, and gives up only when all are
\* passed over.  The one it settles for answers, but for two cases that pass for
\* an answer: an endpoint that leaves the health check unanswered, and a
\* JSON-RPC one that refuses connections.
FallsBack ==
  LET passed(n) == Candidates[n].version \in Supported => net[Candidates[n].url] \in {"down", "sick"}
  IN /\ client.at \notin {"new", "trying", "done"} =>
          /\ \A n \in 1..client.i - 1 : passed(n)
          /\ \/ net[client.url] \in {"up", "mute"}
             \/ client.proto = "rpc" /\ net[client.url] = "down"
     /\ client.at = "done" /\ client.i > Len(Candidates) =>
          \A n \in DOMAIN Candidates : passed(n)
=============================================================================
