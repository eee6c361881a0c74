-------------------------- MODULE ClientCallProofs --------------------------
(***************************************************************************)
(* Proofs about ClientCall: the middleware pipeline around the handlers of *)
(* the four bindings, the tasks a repeated call makes and the transport    *)
(* connect() settles for, for any number of middlewares, retries, events   *)
(* and agent cards.                                                        *)
(***************************************************************************)
EXTENDS ClientCall, FiniteSetTheorems, TLAPS

-----------------------------------------------------------------------------
(* The handlers                                                            *)

\* The errors a handler may end with.
Errors ==
  {"ContentType", "TaskNotFound", "TaskTerminalState", "ContextMismatch", "NotAcceptingMessages",
   "Concurrency", "Unexpected", "UnsupportedOperation", "TaskNotCancelable", "PushConfigInvalid",
   "PushConfigNotFound", "Validation", "NoTaskManager", "NoPush", "NoCard"}

\* What the pipeline needs to know of a handler: only the health checks run
\* without middleware, and over JSON-RPC every stream closes its own.
Sound(h, rest, m) ==
  /\ h.pipeline \in {"self", "router", "none"} /\ (h.pipeline = "none" => m = "health")
  /\ h.checks \subseteq Errors /\ h.raises \subseteq Errors
  /\ h.sse /\ ~rest => h.pipeline = "self"

LEMMA RestPipelines ==
  /\ RestPipeline("send") = "self" /\ RestPipeline("stream") = "self"
  /\ RestPipeline("health") = "none"
  /\ \A m \in Methods \ {"send", "stream", "health"} : RestPipeline(m) = "router"
BY DEF RestPipeline, SelfHandledPaths, PublicPaths, Methods

LEMMA RestSound == \A m \in Methods : Sound(Rest(m), TRUE, m)
<1> USE RestPipelines DEF Sound, Handler, Errors, Methods
<1>1. Sound(Rest("send"), TRUE, "send")
  BY DEF Rest, MessageSend, ValidateIds, GetTm, SendMessageRaises
<1>2. Sound(Rest("stream"), TRUE, "stream")
  BY DEF Rest, StreamSetup, CheckStreaming, ValidateIds, GetTm, SendMessageRaises
<1>3. Sound(Rest("subscribe"), TRUE, "subscribe")
  BY DEF Rest, SubscribeSetup, CheckStreaming, GetTm, SubscribeTaskRaises
<1>4. Sound(Rest("get"), TRUE, "get")
  BY DEF Rest, TasksGet, QueryChecks, GetTm, GetTaskRaises
<1>5. Sound(Rest("list"), TRUE, "list")
  BY DEF Rest, TasksList, QueryChecks, GetTm
<1>6. Sound(Rest("cancel"), TRUE, "cancel")
  BY DEF Rest, TasksCancel, GetTm, CancelTaskRaises
<1>7. Sound(Rest("push_set"), TRUE, "push_set")
  BY DEF Rest, PushConfigSet, PushChecks, HandleSetConfigRaises
<1>8. Sound(Rest("push_get"), TRUE, "push_get")
  BY DEF Rest, PushConfigGet, PushChecks, HandleGetConfigRaises
<1>9. Sound(Rest("push_list"), TRUE, "push_list")
  BY DEF Rest, PushConfigList, PushChecks, HandleListConfigsRaises
<1>10. Sound(Rest("push_delete"), TRUE, "push_delete")
  BY DEF Rest, PushConfigDelete, PushChecks, HandleDeleteConfigRaises
<1>11. Sound(Rest("card"), TRUE, "card")
  BY DEF Rest, ExtendedCard
<1>12. Sound(Rest("health"), TRUE, "health")
  BY DEF Rest, HealthCheck
<1> HIDE DEF Sound
<1> QED BY <1>1, <1>2, <1>3, <1>4, <1>5, <1>6, <1>7, <1>8, <1>9, <1>10, <1>11, <1>12

LEMMA RestV10Pipelines ==
  /\ RestPipelineV10("send") = "self" /\ RestPipelineV10("stream") = "self"
  /\ RestPipelineV10("health") = "none"
  /\ \A m \in Methods \ {"send", "stream", "health"} : RestPipelineV10(m) = "router"
BY DEF RestPipelineV10, SelfHandledPathsV10, PublicPathsV10, Methods

LEMMA RestV10Sound == \A m \in Methods : Sound(RestV10(m), TRUE, m)
<1> USE RestV10Pipelines DEF Sound, Handler, Errors, Methods
<1>1. Sound(RestV10("send"), TRUE, "send")
  BY DEF RestV10, MessageSendV10, ChecksV10, SendMessageRaises
<1>2. Sound(RestV10("stream"), TRUE, "stream")
  BY DEF RestV10, StreamSetupV10, ChecksV10, SendMessageRaises
<1>3. Sound(RestV10("subscribe"), TRUE, "subscribe")
  BY DEF RestV10, SubscribeSetupV10, ChecksV10, SubscribeTaskRaises
<1>4. Sound(RestV10("get"), TRUE, "get")
  BY DEF RestV10, TasksGetV10, QueryChecks, ChecksV10, GetTaskRaises
<1>5. Sound(RestV10("list"), TRUE, "list")
  BY DEF RestV10, TasksListV10, QueryChecks, ChecksV10
<1>6. Sound(RestV10("cancel"), TRUE, "cancel")
  BY DEF RestV10, TasksCancelV10, ChecksV10, CancelTaskRaises
<1>7. Sound(RestV10("push_set"), TRUE, "push_set")
  BY DEF RestV10, PushConfigV10, ChecksV10, HandleSetConfigRaises
<1>8. Sound(RestV10("push_get"), TRUE, "push_get")
  BY DEF RestV10, PushConfigV10, ChecksV10, HandleGetConfigRaises
<1>9. Sound(RestV10("push_list"), TRUE, "push_list")
  BY DEF RestV10, PushConfigV10, ChecksV10, HandleListConfigsRaises
<1>10. Sound(RestV10("push_delete"), TRUE, "push_delete")
  BY DEF RestV10, PushConfigV10, ChecksV10, HandleDeleteConfigRaises
<1>11. Sound(RestV10("card"), TRUE, "card")
  BY DEF RestV10, ExtendedCardV10
<1>12. Sound(RestV10("health"), TRUE, "health")
  BY DEF RestV10, HealthCheckV10
<1> HIDE DEF Sound
<1> QED BY <1>1, <1>2, <1>3, <1>4, <1>5, <1>6, <1>7, <1>8, <1>9, <1>10, <1>11, <1>12

LEMMA RpcPipelines ==
  /\ RpcPipeline("send") = "self" /\ RpcPipeline("stream") = "self" /\ RpcPipeline("subscribe") = "self"
  /\ RpcPipeline("health") = "none"
  /\ \A m \in Methods \ {"send", "stream", "subscribe", "health"} : RpcPipeline(m) = "router"
BY DEF RpcPipeline, SelfHandledMethods, PublicMethods, Methods

LEMMA RpcSound == \A m \in Methods : Sound(JSONRPC_DISPATCH(m), FALSE, m)
<1> USE RpcPipelines DEF Sound, Handler, Errors, Methods
<1>1. Sound(JSONRPC_DISPATCH("send"), FALSE, "send")
  BY DEF JSONRPC_DISPATCH, HandleMessageSend, SendMessageRaises
<1>2. Sound(JSONRPC_DISPATCH("stream"), FALSE, "stream")
  BY DEF JSONRPC_DISPATCH, HandleMessageSendStream, RpcCheckStreaming, SendMessageRaises
<1>3. Sound(JSONRPC_DISPATCH("subscribe"), FALSE, "subscribe")
  BY DEF JSONRPC_DISPATCH, HandleTasksResubscribe, RpcCheckStreaming, SubscribeTaskRaises
<1>4. Sound(JSONRPC_DISPATCH("get"), FALSE, "get")
  BY DEF JSONRPC_DISPATCH, HandleTasksGet, GetTaskRaises
<1>5. Sound(JSONRPC_DISPATCH("list"), FALSE, "list")
  BY DEF JSONRPC_DISPATCH, HandleTasksList
<1>6. Sound(JSONRPC_DISPATCH("cancel"), FALSE, "cancel")
  BY DEF JSONRPC_DISPATCH, HandleTasksCancel, CancelTaskRaises
<1>7. Sound(JSONRPC_DISPATCH("push_set"), FALSE, "push_set")
  BY DEF JSONRPC_DISPATCH, HandlePushSet, RpcPushChecks, HandleSetConfigRaises
<1>8. Sound(JSONRPC_DISPATCH("push_get"), FALSE, "push_get")
  BY DEF JSONRPC_DISPATCH, HandlePushGet, RpcPushChecks, HandleGetConfigRaises
<1>9. Sound(JSONRPC_DISPATCH("push_list"), FALSE, "push_list")
  BY DEF JSONRPC_DISPATCH, HandlePushList, RpcPushChecks, HandleListConfigsRaises
<1>10. Sound(JSONRPC_DISPATCH("push_delete"), FALSE, "push_delete")
  BY DEF JSONRPC_DISPATCH, HandlePushDelete, RpcPushChecks, HandleDeleteConfigRaises
<1>11. Sound(JSONRPC_DISPATCH("card"), FALSE, "card")
  BY DEF JSONRPC_DISPATCH, HandleGetExtendedCard
<1>12. Sound(JSONRPC_DISPATCH("health"), FALSE, "health")
  BY DEF JSONRPC_DISPATCH, HandleHealth
<1> HIDE DEF Sound
<1> QED BY <1>1, <1>2, <1>3, <1>4, <1>5, <1>6, <1>7, <1>8, <1>9, <1>10, <1>11, <1>12

LEMMA RpcV10Pipelines ==
  /\ RpcPipelineV10("send") = "self" /\ RpcPipelineV10("stream") = "self" /\ RpcPipelineV10("subscribe") = "self"
  /\ RpcPipelineV10("health") = "none"
  /\ \A m \in Methods \ {"send", "stream", "subscribe", "health"} : RpcPipelineV10(m) = "router"
BY DEF RpcPipelineV10, SelfHandledMethodsV10, PublicMethodsV10, Methods

LEMMA RpcV10Sound == \A m \in Methods : Sound(JSONRPC_DISPATCH_V10(m), FALSE, m)
<1> USE RpcV10Pipelines DEF Sound, Handler, Errors, Methods
<1>1. Sound(JSONRPC_DISPATCH_V10("send"), FALSE, "send")
  BY DEF JSONRPC_DISPATCH_V10, HandleSendMessageV10, SendMessageRaises
<1>2. Sound(JSONRPC_DISPATCH_V10("stream"), FALSE, "stream")
  BY DEF JSONRPC_DISPATCH_V10, HandleSendStreamingMessageV10, RpcCheckStreamingV10, SendMessageRaises
<1>3. Sound(JSONRPC_DISPATCH_V10("subscribe"), FALSE, "subscribe")
  BY DEF JSONRPC_DISPATCH_V10, HandleSubscribeToTaskV10, RpcCheckStreamingV10, SubscribeTaskRaises
<1>4. Sound(JSONRPC_DISPATCH_V10("get"), FALSE, "get")
  BY DEF JSONRPC_DISPATCH_V10, HandleGetTaskV10, GetTaskRaises
<1>5. Sound(JSONRPC_DISPATCH_V10("list"), FALSE, "list")
  BY DEF JSONRPC_DISPATCH_V10, HandleListTasksV10
<1>6. Sound(JSONRPC_DISPATCH_V10("cancel"), FALSE, "cancel")
  BY DEF JSONRPC_DISPATCH_V10, HandleCancelTaskV10, CancelTaskRaises
<1>7. Sound(JSONRPC_DISPATCH_V10("push_set"), FALSE, "push_set")
  BY DEF JSONRPC_DISPATCH_V10, HandlePushV10, HandleSetConfigRaises
<1>8. Sound(JSONRPC_DISPATCH_V10("push_get"), FALSE, "push_get")
  BY DEF JSONRPC_DISPATCH_V10, HandlePushV10, HandleGetConfigRaises
<1>9. Sound(JSONRPC_DISPATCH_V10("push_list"), FALSE, "push_list")
  BY DEF JSONRPC_DISPATCH_V10, HandlePushV10, HandleListConfigsRaises
<1>10. Sound(JSONRPC_DISPATCH_V10("push_delete"), FALSE, "push_delete")
  BY DEF JSONRPC_DISPATCH_V10, HandlePushV10, HandleDeleteConfigRaises
<1>11. Sound(JSONRPC_DISPATCH_V10("card"), FALSE, "card")
  BY DEF JSONRPC_DISPATCH_V10, HandleGetExtendedCardV10
<1>12. Sound(JSONRPC_DISPATCH_V10("health"), FALSE, "health")
  BY DEF JSONRPC_DISPATCH_V10, HandleHealthV10
<1> HIDE DEF Sound
<1> QED BY <1>1, <1>2, <1>3, <1>4, <1>5, <1>6, <1>7, <1>8, <1>9, <1>10, <1>11, <1>12

LEMMA AllSound ==
  ASSUME NEW proto \in Protos, NEW version \in Supported, NEW m \in Methods
  PROVE  Sound(HandlerOf(proto, version, m), proto = "rest", m)
<1>1. CASE proto = "rest" /\ version = "0.3"
  <2>1. HandlerOf(proto, version, m) = Rest(m) BY <1>1 DEF HandlerOf
  <2> QED BY <1>1, <2>1, RestSound DEF Sound
<1>2. CASE proto = "rest" /\ version = "1.0"
  <2>1. HandlerOf(proto, version, m) = RestV10(m) BY <1>2 DEF HandlerOf
  <2> QED BY <1>2, <2>1, RestV10Sound DEF Sound
<1>3. CASE proto = "rpc" /\ version = "0.3"
  <2>1. HandlerOf(proto, version, m) = JSONRPC_DISPATCH(m) BY <1>3 DEF HandlerOf
  <2> QED BY <1>3, <2>1, RpcSound DEF Sound
<1>4. CASE proto = "rpc" /\ version = "1.0"
  <2>1. HandlerOf(proto, version, m) = JSONRPC_DISPATCH_V10(m) BY <1>4 DEF HandlerOf
  <2> QED BY <1>4, <2>1, RpcV10Sound DEF Sound
<1> QED BY <1>1, <1>2, <1>3, <1>4 DEF Protos, Supported

-----------------------------------------------------------------------------
(* The pipeline                                                            *)

Outcomes == Errors \cup {"none", "result", "NoRoute", "Version", "Envelope", "dropped", "AuthRequired", "Crash",
                         "Cancelled"}

RequestType ==
  [at : Stages, url : Urls, proto : Protos, version : Supported, method : Methods, quiet : BOOLEAN, raw : BOOLEAN,
   key : {0, 1}, up : Nat, closed : Nat, lost : {"", "raised", "unstarted", "conversion", "cancelled"},
   out : Outcomes, ran : SUBSET Nat, replied : BOOLEAN, gone : BOOLEAN, events : Nat]

HandlerOfRequest(r) == HandlerOf(r.proto, r.version, r.method)

\* The reply is sent, and then the middlewares are closed.
Open(r) ==
  /\ r.out = "result" /\ r.proto = "rest"
  /\ HandlerOfRequest(r).pipeline = "router" /\ ~HandlerOfRequest(r).sse

\* All that were called before are closed, or known never to be.
Accounted(r) ==
  \/ r.closed = r.up \/ r.lost = "raised"
  \/ r.lost = "unstarted" /\ r.proto # "rest" /\ ~r.replied
  \/ r.lost = "conversion" /\ r.proto = "rest" /\ r.version = "0.3"
  \/ r.lost = "cancelled" /\ r.method = "send" /\ ~r.replied

\* Where a request is in the pipeline tells which middlewares are up, and
\* which closes are still to come.
Piped(r) ==
  /\ r.at # "none" => r.key = 1
  /\ r.at = "arrived" => r.up = 0
  /\ r.at \in {"arrived", "check", "before", "work", "respond", "sse"} => r.closed = 0
  /\ r.at = "check" => HandlerOfRequest(r).pipeline = "self" \/ r.up = Middlewares
  /\ r.at = "work" => HandlerOfRequest(r).pipeline = "none" \/ r.up = Middlewares
  /\ r.at = "sse" => r.replied
  /\ r.at \in {"arrived", "check", "before", "work", "respond"} => ~r.replied
  /\ r.lost \in {"unstarted", "cancelled"} => r.at = "done"
  /\ r.at = "close" /\ ~r.replied /\ r.out = "result" => ~HandlerOfRequest(r).sse
  /\ r.at = "answer" => Accounted(r) \/ Open(r)
  /\ r.at = "done" => Accounted(r)
  /\ r.ran # {} /\ r.method # "health" => r.ran = {Middlewares}

RequestOK(r) == r \in RequestType /\ Piped(r)

\* What a request is does not change on its way.
SameCall(s, r) ==
  /\ s.proto = r.proto /\ s.version = r.version /\ s.method = r.method /\ s.key = r.key
  /\ s.raw = r.raw /\ s.quiet = r.quiet

LEMMA SameHandler == ASSUME NEW r, NEW s, SameCall(s, r) PROVE HandlerOfRequest(s) = HandlerOfRequest(r)
BY DEF SameCall, HandlerOfRequest

LEMMA SoundRequest ==
  ASSUME NEW r \in RequestType PROVE Sound(HandlerOfRequest(r), r.proto = "rest", r.method)
<1>1. r.proto \in Protos /\ r.version \in Supported /\ r.method \in Methods BY DEF RequestType
<1> QED BY <1>1, AllSound DEF HandlerOfRequest

LEMMA RefuseRequest ==
  ASSUME NEW a \in Requests, req \in [Requests -> RequestType], RequestOK(req[a]), Refuse(a)
  PROVE  RequestOK(req'[a])
<1> DEFINE r == req[a] s == req'[a]
<1>1. PICK o \in {"NoRoute", "Version"} : s = [r EXCEPT !.at = "answer", !.out = o] BY DEF Refuse, Becomes
<1>2. r \in RequestType /\ Piped(r) /\ r.at = "arrived" BY DEF Refuse, RequestOK
<1> HIDE DEF r, s
<1>3. /\ s \in RequestType /\ SameCall(s, r) /\ s.at = "answer"
      /\ s.up = r.up /\ s.closed = r.closed /\ s.ran = r.ran /\ s.lost = r.lost /\ s.replied = r.replied
  BY <1>1, <1>2 DEF RequestType, SameCall, Stages, Outcomes
<1>4. Piped(s) BY <1>2, <1>3, SameHandler DEF Piped, Accounted, SameCall
<1> QED BY <1>3, <1>4 DEF RequestOK, s

LEMMA DispatchRequest ==
  ASSUME NEW a \in Requests, req \in [Requests -> RequestType], RequestOK(req[a]), Dispatch(a)
  PROVE  RequestOK(req'[a])
<1> DEFINE r == req[a] s == req'[a] h == HandlerOfRequest(r)
<1>1. \/ \E o \in {"Envelope", "dropped"} : s = [r EXCEPT !.at = "answer", !.out = o]
      \/ s = [r EXCEPT !.at = CASE h.pipeline = "self" -> "check" [] h.pipeline = "router" -> "before"
                                [] OTHER -> "work"]
  BY Zenon DEF Dispatch, Becomes, HandlerFor, HandlerOfRequest
<1>2. r \in RequestType /\ Piped(r) /\ r.at = "arrived" BY DEF Dispatch, RequestOK
<1>3. Sound(h, r.proto = "rest", r.method) BY <1>2, SoundRequest
<1> HIDE DEF r, s, h
<1>4. \/ \E o \in {"Envelope", "dropped"} : s = [r EXCEPT !.at = "answer", !.out = o]
      \/ \E x \in {"check", "before", "work"} :
           /\ s = [r EXCEPT !.at = x]
           /\ x = "check" => h.pipeline = "self"
           /\ x = "work" => h.pipeline = "none"
  BY <1>1, <1>3 DEF Sound
<1>5. ASSUME NEW o \in {"Envelope", "dropped"}, s = [r EXCEPT !.at = "answer", !.out = o]
      PROVE  s \in RequestType /\ Piped(s)
  <2>1. /\ s \in RequestType /\ SameCall(s, r) /\ s.at = "answer"
        /\ s.up = r.up /\ s.closed = r.closed /\ s.ran = r.ran /\ s.lost = r.lost /\ s.replied = r.replied
    BY <1>2, <1>5 DEF RequestType, SameCall, Stages, Outcomes
  <2> QED BY <1>2, <2>1, SameHandler DEF Piped, Accounted, SameCall
<1>6. ASSUME NEW x \in {"check", "before", "work"}, s = [r EXCEPT !.at = x],
             x = "check" => h.pipeline = "self", x = "work" => h.pipeline = "none"
      PROVE  s \in RequestType /\ Piped(s)
  <2>1. /\ s \in RequestType /\ SameCall(s, r) /\ s.at = x
        /\ s.up = r.up /\ s.closed = r.closed /\ s.ran = r.ran /\ s.lost = r.lost /\ s.replied = r.replied
    BY <1>2, <1>6 DEF RequestType, SameCall, Stages
  <2> QED BY <1>2, <1>6, <2>1, SameHandler DEF Piped, SameCall, h
<1> QED BY <1>4, <1>5, <1>6 DEF RequestOK, s

LEMMA CheckRequest ==
  ASSUME NEW a \in Requests, req \in [Requests -> RequestType], RequestOK(req[a]), Check(a)
  PROVE  RequestOK(req'[a])
<1> DEFINE r == req[a] s == req'[a] h == HandlerOfRequest(r)
<1>1. \/ s = [r EXCEPT !.at = IF h.pipeline = "self" THEN "before" ELSE "work"]
      \/ \E e \in h.checks : s = [r EXCEPT !.out = e, !.at = "close"]
  BY Zenon DEF Check, Becomes, HandlerFor, HandlerOfRequest
<1>2. r \in RequestType /\ Piped(r) /\ r.at = "check" BY DEF Check, RequestOK
<1>3. h.checks \subseteq Errors BY <1>2, SoundRequest DEF Sound
<1> HIDE DEF r, s, h
<1>4. ASSUME NEW x \in {"before", "work"}, s = [r EXCEPT !.at = x], x = "work" => h.pipeline # "self"
      PROVE  s \in RequestType /\ Piped(s)
  <2>1. /\ s \in RequestType /\ SameCall(s, r) /\ s.at = x
        /\ s.up = r.up /\ s.closed = r.closed /\ s.ran = r.ran /\ s.lost = r.lost /\ s.replied = r.replied
    BY <1>2, <1>4 DEF RequestType, SameCall, Stages
  <2> QED BY <1>2, <1>4, <2>1, SameHandler DEF Piped, SameCall, h
<1>5. ASSUME NEW e \in h.checks, s = [r EXCEPT !.out = e, !.at = "close"]
      PROVE  s \in RequestType /\ Piped(s)
  <2>1. e \in Errors /\ e \in Outcomes /\ e # "result" BY <1>3 DEF Errors, Outcomes
  <2>2. /\ s \in RequestType /\ SameCall(s, r) /\ s.at = "close" /\ s.out = e /\ s.ran = r.ran /\ s.lost = r.lost /\ s.replied = r.replied
    BY <1>2, <1>5, <2>1 DEF RequestType, SameCall, Stages
  <2> QED BY <1>2, <2>1, <2>2 DEF Piped, SameCall
<1> QED BY <1>1, <1>4, <1>5 DEF RequestOK, s

LEMMA BeforeRequest ==
  ASSUME NEW a \in Requests, req \in [Requests -> RequestType], RequestOK(req[a]), Before(a)
  PROVE  RequestOK(req'[a])
<1> DEFINE r == req[a] s == req'[a] h == HandlerOfRequest(r)
<1>1. \/ /\ r.up = Middlewares
         /\ s = [r EXCEPT !.at = IF h.pipeline = "self" THEN "work" ELSE "check"]
      \/ s = [r EXCEPT !.up = @ + 1]
      \/ s = [r EXCEPT !.out = "AuthRequired", !.at = "close"]
  BY Zenon DEF Before, BeforeFails, Becomes, HandlerFor, HandlerOfRequest
<1>2. r \in RequestType /\ Piped(r) /\ r.at = "before" BY DEF Before, RequestOK
<1> HIDE DEF r, s, h
<1>3. ASSUME NEW x \in {"work", "check"}, r.up = Middlewares, s = [r EXCEPT !.at = x]
      PROVE  s \in RequestType /\ Piped(s)
  <2>1. /\ s \in RequestType /\ SameCall(s, r) /\ s.at = x
        /\ s.up = r.up /\ s.closed = r.closed /\ s.ran = r.ran /\ s.lost = r.lost /\ s.replied = r.replied
    BY <1>2, <1>3 DEF RequestType, SameCall, Stages
  <2> QED BY <1>2, <1>3, <2>1 DEF Piped, SameCall
<1>4. ASSUME s = [r EXCEPT !.up = @ + 1] PROVE s \in RequestType /\ Piped(s)
  <2>1. /\ s \in RequestType /\ SameCall(s, r) /\ s.at = r.at /\ s.closed = r.closed /\ s.ran = r.ran /\ s.lost = r.lost /\ s.replied = r.replied
    <3>0. r.up \in Nat BY <1>2 DEF RequestType
    <3>1. r.up + 1 \in Nat BY <3>0
    <3> QED BY <1>2, <1>4, <3>1 DEF RequestType, SameCall
  <2> QED BY <1>2, <2>1 DEF Piped, SameCall
<1>5. ASSUME s = [r EXCEPT !.out = "AuthRequired", !.at = "close"] PROVE s \in RequestType /\ Piped(s)
  <2>1. /\ s \in RequestType /\ SameCall(s, r) /\ s.at = "close" /\ s.out = "AuthRequired"
        /\ s.ran = r.ran /\ s.lost = r.lost /\ s.replied = r.replied
    BY <1>2, <1>5 DEF RequestType, SameCall, Stages, Outcomes
  <2> QED BY <1>2, <2>1 DEF Piped, SameCall
<1> QED BY <1>1, <1>3, <1>4, <1>5 DEF RequestOK, s

LEMMA WorkRequest ==
  ASSUME NEW a \in Requests, req \in [Requests -> RequestType], RequestOK(req[a]), Work(a)
  PROVE  RequestOK(req'[a])
<1> DEFINE r == req[a] s == req'[a] h == HandlerOfRequest(r) rest == r.proto = "rest"
           next(out) == CASE out = "result" /\ h.sse /\ ~(h.pipeline = "router" /\ ~rest) -> "respond"
                          [] out = "result" /\ ~h.sse /\ rest /\ h.pipeline = "router" -> "answer"
                          [] OTHER -> "close"
<1>1. PICK out \in h.raises \cup {"result"} : s = [r EXCEPT !.out = out, !.ran = {r.up}, !.at = next(out)]
  BY Zenon DEF Work, AfterWork, Becomes, HandlerFor, HandlerOfRequest, ClosesAfterReply, IsRest
<1>2. r \in RequestType /\ Piped(r) /\ r.at = "work" BY DEF Work, RequestOK
<1>3. Sound(h, rest, r.method) BY <1>2, SoundRequest
<1>4. out \in Outcomes BY <1>3 DEF Sound, Outcomes
<1> HIDE DEF r, s, h, next
<1>5. PICK x \in {"respond", "answer", "close"} :
        /\ x = next(out)
        /\ x = "answer" => out = "result" /\ rest /\ h.pipeline = "router" /\ ~h.sse
        /\ x = "close" /\ out = "result" => ~h.sse
  BY <1>3 DEF next, Sound
<1>6. s = [r EXCEPT !.out = out, !.ran = {r.up}, !.at = x] BY <1>1, <1>5
<1>7. /\ s \in RequestType /\ SameCall(s, r) /\ s.at = x /\ s.out = out /\ s.ran = {r.up} /\ s.lost = r.lost /\ s.replied = r.replied
      /\ s.closed = r.closed
  <2>1. {r.up} \in SUBSET Nat /\ x \in Stages BY <1>2 DEF RequestType, Stages
  <2> QED BY <1>2, <1>4, <1>6, <2>1 DEF RequestType, SameCall
<1>8. HandlerOfRequest(s) = h /\ s.method = r.method /\ s.proto = r.proto
  BY <1>7, SameHandler DEF h, SameCall
<1>9. s.method # "health" => r.up = Middlewares BY <1>2, <1>3, <1>8 DEF Piped, Sound, h
<1>10. s.key = 1 BY <1>2, <1>7 DEF Piped, SameCall
<1>11. Piped(s) BY <1>2, <1>5, <1>7, <1>8, <1>9, <1>10 DEF Piped, Open
<1> QED BY <1>7, <1>11 DEF RequestOK, s

\* A cancelled request is closed or ends at once, and then it is known why.
LEMMA CancelledFields ==
  ASSUME NEW a \in Requests, Cancelled(a)
  PROVE  \E l \in {"", "unstarted", "cancelled"}, x \in {"close", "done"}, ran \in {req[a].ran, {req[a].up}} :
           /\ req[a].at \in {"before", "work", "respond"}
           /\ Becomes(a, [req[a] EXCEPT !.out = "Cancelled", !.lost = l, !.ran = ran, !.at = x])
           /\ ran # req[a].ran => req[a].at = "work"
           /\ l = "" <=> x = "close"
           /\ l = "unstarted" => req[a].proto # "rest"
           /\ l = "cancelled" => req[a].method = "send"
<1> DEFINE l == CASE req[a].at = "respond" /\ ~IsRest(a) -> "unstarted"
                  [] req[a].at # "respond" /\ req[a].method = "send" -> "cancelled"
                  [] OTHER -> ""
           x == IF l = "" THEN "close" ELSE "done"
           ran == IF req[a].at = "work" THEN {req[a].up} ELSE req[a].ran
<1>1. /\ req[a].at \in {"before", "work", "respond"}
      /\ Becomes(a, [req[a] EXCEPT !.out = "Cancelled", !.lost = l, !.ran = ran, !.at = x])
  BY Zenon DEF Cancelled
<1>2. /\ l \in {"", "unstarted", "cancelled"} /\ (l = "unstarted" => req[a].proto # "rest")
      /\ l = "cancelled" => req[a].method = "send"
  BY DEF IsRest
<1> HIDE DEF l
<1>3. x \in {"close", "done"} /\ (l = "" <=> x = "close") OBVIOUS
<1>4. ran \in {req[a].ran, {req[a].up}} /\ (ran # req[a].ran => req[a].at = "work") OBVIOUS
<1> HIDE DEF x, ran
<1> QED BY <1>1, <1>2, <1>3, <1>4, Zenon

LEMMA CancelledRequest ==
  ASSUME NEW a \in Requests, req \in [Requests -> RequestType], RequestOK(req[a]), Cancelled(a)
  PROVE  RequestOK(req'[a])
<1> DEFINE r == req[a] s == req'[a]
<1>1. PICK l \in {"", "unstarted", "cancelled"}, x \in {"close", "done"}, ran \in {r.ran, {r.up}} :
        /\ r.at \in {"before", "work", "respond"}
        /\ Becomes(a, [r EXCEPT !.out = "Cancelled", !.lost = l, !.ran = ran, !.at = x])
        /\ ran # r.ran => r.at = "work"
        /\ l = "" <=> x = "close"
        /\ l = "unstarted" => r.proto # "rest"
        /\ l = "cancelled" => r.method = "send"
  BY CancelledFields, Zenon
<1>0. s = [r EXCEPT !.out = "Cancelled", !.lost = l, !.ran = ran, !.at = x] BY <1>1 DEF Becomes
<1>2. r \in RequestType /\ Piped(r) /\ Sound(HandlerOfRequest(r), r.proto = "rest", r.method)
  BY SoundRequest DEF RequestOK
<1> HIDE DEF r, s
<1>3. ran \in SUBSET Nat BY <1>2 DEF RequestType
<1>4. /\ s \in RequestType /\ SameCall(s, r) /\ s.at = x /\ s.ran = ran /\ s.lost = l /\ s.up = r.up
      /\ s.closed = r.closed /\ s.replied = r.replied /\ s.out = "Cancelled"
  BY <1>0, <1>1, <1>2, <1>3 DEF RequestType, SameCall, Stages, Outcomes
<1>5. ~r.replied /\ x = "done" => Accounted(s) BY <1>1, <1>4 DEF Accounted, SameCall
<1>6. ran # {} /\ s.method # "health" => ran = {Middlewares}
  BY <1>1, <1>2, <1>4 DEF Piped, Sound, SameCall
<1>7. ~r.replied BY <1>1, <1>2 DEF Piped
<1>8. Piped(s) BY <1>1, <1>2, <1>4, <1>5, <1>6, <1>7 DEF Piped, SameCall
<1> QED BY <1>4, <1>8 DEF RequestOK, s

LEMMA ConversionRequest ==
  ASSUME NEW a \in Requests, req \in [Requests -> RequestType], RequestOK(req[a]), ConversionFails(a)
  PROVE  RequestOK(req'[a])
<1> DEFINE r == req[a] s == req'[a]
<1>1. s = [r EXCEPT !.at = "answer", !.out = "Unexpected", !.lost = "conversion"]
  BY DEF ConversionFails, Becomes
<1>2. r \in RequestType /\ Piped(r) /\ r.at = "close" /\ r.proto = "rest" /\ r.version = "0.3"
  BY DEF ConversionFails, IsRest, RequestOK
<1> HIDE DEF r, s
<1>3. s \in RequestType /\ SameCall(s, r) /\ s.at = "answer" /\ s.lost = "conversion" /\ s.ran = r.ran
  BY <1>1, <1>2 DEF RequestType, SameCall, Stages, Outcomes, Errors
<1>4. Piped(s) BY <1>2, <1>3 DEF Piped, Accounted, SameCall
<1> QED BY <1>3, <1>4 DEF RequestOK, s

LEMMA AfterRequest ==
  ASSUME NEW a \in Requests, req \in [Requests -> RequestType], RequestOK(req[a]), After(a)
  PROVE  RequestOK(req'[a])
<1> DEFINE r == req[a] s == req'[a] h == HandlerOfRequest(r)
           settled == r.replied \/ r.out = "Cancelled"
           next == IF settled THEN "done"
                   ELSE IF r.out = "result" /\ h.sse THEN "respond" ELSE "answer"
           out == IF settled THEN r.out ELSE IF h.pipeline = "router" THEN "Crash" ELSE "Unexpected"
           at == IF settled THEN "done" ELSE "answer"
<1>1. \/ r.closed = r.up /\ s = [r EXCEPT !.at = next]
      \/ s = [r EXCEPT !.closed = @ + 1]
      \/ s = [r EXCEPT !.lost = "raised", !.out = out, !.at = at]
  BY Zenon DEF After, Settled, Becomes, HandlerFor, HandlerOfRequest
<1>2. r \in RequestType /\ Piped(r) /\ r.at = "close" BY DEF After, RequestOK
<1> HIDE DEF r, s, h
<1>3. next \in {"done", "answer"} /\ at \in {"done", "answer"} BY <1>2 DEF Piped, h
<1>4. out \in Outcomes BY <1>2 DEF RequestType, Outcomes, Errors
<1> HIDE DEF next, out, at
<1>5. ASSUME r.closed = r.up, NEW x \in {"done", "answer"}, s = [r EXCEPT !.at = x]
      PROVE  s \in RequestType /\ Piped(s)
  <2>1. /\ s \in RequestType /\ SameCall(s, r) /\ s.at = x /\ s.ran = r.ran /\ s.lost = r.lost
        /\ s.up = r.up /\ s.closed = r.closed
    BY <1>2, <1>5 DEF RequestType, SameCall, Stages
  <2> QED BY <1>2, <1>5, <2>1 DEF Piped, Accounted, SameCall
<1>6. ASSUME s = [r EXCEPT !.closed = @ + 1] PROVE s \in RequestType /\ Piped(s)
  <2>1. r.closed \in Nat BY <1>2 DEF RequestType
  <2>2. r.closed + 1 \in Nat BY <2>1
  <2>3. /\ s \in RequestType /\ SameCall(s, r) /\ s.at = "close" /\ s.ran = r.ran /\ s.lost = r.lost
        /\ s.out = r.out /\ s.replied = r.replied
    BY <1>2, <1>6, <2>2 DEF RequestType, SameCall
  <2> QED BY <1>2, <2>3, SameHandler DEF Piped, SameCall
<1>7. ASSUME NEW x \in {"done", "answer"}, NEW o \in Outcomes,
             s = [r EXCEPT !.lost = "raised", !.out = o, !.at = x]
      PROVE  s \in RequestType /\ Piped(s)
  <2>1. s \in RequestType /\ SameCall(s, r) /\ s.at = x /\ s.ran = r.ran /\ s.lost = "raised"
    BY <1>2, <1>7 DEF RequestType, SameCall, Stages
  <2> QED BY <1>2, <2>1 DEF Piped, Accounted, SameCall
<1> QED BY <1>1, <1>3, <1>4, <1>5, <1>6, <1>7 DEF RequestOK, s

LEMMA AnswerRequest ==
  ASSUME NEW a \in Requests, req \in [Requests -> RequestType], RequestOK(req[a]), Answer(a)
  PROVE  RequestOK(req'[a])
<1> DEFINE r == req[a] s == req'[a]
<1>1. s = [r EXCEPT !.replied = TRUE, !.at = IF Open(r) THEN "close" ELSE "done"]
  BY Zenon DEF Answer, Becomes, HandlerFor, HandlerOfRequest, ClosesAfterReply, IsRest, Open
<1>2. r \in RequestType /\ Piped(r) /\ r.at = "answer" BY DEF Answer, RequestOK
<1> HIDE DEF r, s
<1>3. PICK x \in {"close", "done"} : s = [r EXCEPT !.replied = TRUE, !.at = x] /\ (x = "done" => ~Open(r))
  BY <1>1
<1>4. /\ s \in RequestType /\ SameCall(s, r) /\ s.at = x /\ s.ran = r.ran /\ s.lost = r.lost /\ s.replied = TRUE
      /\ s.up = r.up /\ s.closed = r.closed /\ s.lost = r.lost /\ s.gone = r.gone
  BY <1>2, <1>3 DEF RequestType, SameCall, Stages
<1>5. Piped(s) BY <1>2, <1>3, <1>4 DEF Piped, Accounted, SameCall
<1> QED BY <1>4, <1>5 DEF RequestOK, s

LEMMA RespondRequest ==
  ASSUME NEW a \in Requests, req \in [Requests -> RequestType], RequestOK(req[a]), Respond(a)
  PROVE  RequestOK(req'[a])
<1> DEFINE r == req[a] s == req'[a]
<1>1. s = [r EXCEPT !.at = "sse", !.replied = TRUE] BY DEF Respond, Becomes
<1>2. r \in RequestType /\ Piped(r) /\ r.at = "respond" BY DEF Respond, RequestOK
<1> HIDE DEF r, s
<1>3. /\ s \in RequestType /\ SameCall(s, r) /\ s.at = "sse" /\ s.ran = r.ran /\ s.lost = r.lost
      /\ s.replied = TRUE /\ s.closed = r.closed
  BY <1>1, <1>2 DEF RequestType, SameCall, Stages
<1>4. Piped(s) BY <1>2, <1>3 DEF Piped, SameCall
<1> QED BY <1>3, <1>4 DEF RequestOK, s

LEMMA EmitRequest ==
  ASSUME NEW a \in Requests, req \in [Requests -> RequestType], RequestOK(req[a]), Emit(a)
  PROVE  RequestOK(req'[a])
<1> DEFINE r == req[a] s == req'[a]
<1>1. s = [r EXCEPT !.events = @ + 1] \/ s = [r EXCEPT !.at = "close"] BY DEF Emit, Becomes
<1>2. r \in RequestType /\ Piped(r) /\ r.at = "sse" BY DEF Emit, RequestOK
<1> HIDE DEF r, s
<1>3. ASSUME s = [r EXCEPT !.events = @ + 1] PROVE s \in RequestType /\ Piped(s)
  <2>1. r.events \in Nat BY <1>2 DEF RequestType
  <2>2. r.events + 1 \in Nat BY <2>1
  <2>3. /\ s \in RequestType /\ SameCall(s, r) /\ s.at = "sse" /\ s.ran = r.ran /\ s.lost = r.lost
        /\ s.closed = r.closed /\ s.replied = r.replied
    BY <1>2, <1>3, <2>2 DEF RequestType, SameCall
  <2> QED BY <1>2, <2>3 DEF Piped, SameCall
<1>4. ASSUME s = [r EXCEPT !.at = "close"] PROVE s \in RequestType /\ Piped(s)
  <2>1. s \in RequestType /\ SameCall(s, r) /\ s.at = "close" /\ s.ran = r.ran /\ s.lost = r.lost /\ s.replied = r.replied
    BY <1>2, <1>4 DEF RequestType, SameCall, Stages
  <2> QED BY <1>2, <2>1 DEF Piped, SameCall
<1> QED BY <1>1, <1>3, <1>4 DEF RequestOK, s

\* The client stops listening.
LEMMA LeaveRequest ==
  ASSUME NEW r \in RequestType, Piped(r), NEW s, s = [r EXCEPT !.gone = TRUE]
  PROVE  RequestOK(s)
<1>1. /\ s \in RequestType /\ SameCall(s, r) /\ s.at = r.at /\ s.ran = r.ran /\ s.lost = r.lost /\ s.replied = r.replied
      /\ s.up = r.up /\ s.closed = r.closed /\ s.lost = r.lost /\ s.out = r.out /\ s.gone = TRUE
  BY DEF RequestType, SameCall
<1>2. HandlerOfRequest(s) = HandlerOfRequest(r) BY <1>1, SameHandler
<1>3. (Accounted(r) => Accounted(s)) /\ (Open(r) => Open(s)) BY <1>1, <1>2 DEF Accounted, Open, SameCall
<1>4. Piped(s) BY <1>1, <1>2, <1>3 DEF Piped, SameCall
<1> QED BY <1>1, <1>4 DEF RequestOK

LEMMA ServeRequest ==
  ASSUME NEW a \in Requests, req \in [Requests -> RequestType], RequestOK(req[a]), Serve(a)
  PROVE  RequestOK(req'[a])
BY RefuseRequest, DispatchRequest, CheckRequest, BeforeRequest, WorkRequest, CancelledRequest, ConversionRequest,
   AfterRequest, AnswerRequest, RespondRequest, EmitRequest DEF Serve

LEMMA ServeOthers ==
  ASSUME NEW a \in Requests, req \in [Requests -> RequestType], Serve(a)
  PROVE  req' = [req EXCEPT ![a] = req'[a]] /\ UNCHANGED server
<1>1. \E s : Becomes(a, s)
  BY Zenon DEF Serve, Refuse, Dispatch, Check, Before, Work, Cancelled, ConversionFails, After, Answer, Respond, Emit
<1>2. UNCHANGED server
  BY DEF Serve, Refuse, Dispatch, Check, Before, Work, Cancelled, ConversionFails, After, Answer, Respond, Emit,
         SaysNothing
<1> QED BY <1>1, <1>2 DEF Becomes

-----------------------------------------------------------------------------
(* The client                                                              *)

Results == {"none", "result", "raw", "httpx", "AgentNotFoundError", "AgentCapabilityError",
            "ProtocolVersionMismatchError", "ProtocolError", "A2AClientError", "TaskNotFoundError",
            "TaskTerminalError", "TaskNotCancelableError"}

ClientType ==
  [at : {"new", "trying", "connected", "calling", "waiting", "reading", "done"}, i : Nat \ {0},
   url : Urls, proto : Protos, version : Supported, method : Methods, raw : BOOLEAN, quiet : BOOLEAN,
   attempt : Nat \ {0}, result : Results]

Passed(n) == Candidates[n].version \in Supported => net[Candidates[n].url] \in {"down", "sick"}

\* All candidates before the one the client is at have been passed over.
Connects ==
  /\ \A n \in 1..client.i - 1 : Passed(n)
  /\ client.at \notin {"new", "trying", "done"} =>
       net[client.url] \in {"up", "mute"} \/ (client.proto = "rpc" /\ net[client.url] = "down")

\* At most one task, and nothing enqueued without it.
OneTask == tasks \subseteq {1} /\ enqueued \in {0, 1} /\ (tasks = {} => enqueued = 0)

CallInv ==
  /\ card \in Cards /\ prefer \in {"none"} \cup Protos /\ net \in [Urls -> Behaviours] /\ client \in ClientType
  /\ Connects /\ OneTask
  /\ req \in [Requests -> RequestType] /\ \A a \in Requests : Piped(req[a])

\* The request of a call, as it arrives.
Arrived(u, p, v, m, q, w) ==
  [at |-> "arrived", url |-> u, proto |-> p, version |-> v, method |-> m, quiet |-> q, raw |-> w, key |-> 1,
   up |-> 0, closed |-> 0, lost |-> "", out |-> "none", ran |-> {}, replied |-> FALSE,
   gone |-> FALSE, events |-> 0]

ArrivesAs(r, p, v, m, q, w) ==
  /\ RequestOK(r) /\ r.at = "arrived" /\ r.replied = FALSE /\ r.proto = p /\ r.version = v
  /\ r.method = m /\ r.quiet = q /\ r.raw = w /\ r.out = "none"

LEMMA ArrivedFields ==
  ASSUME NEW u \in Urls, NEW p \in Protos, NEW v \in Supported, NEW m \in Methods, NEW q \in BOOLEAN,
         NEW w \in BOOLEAN, NEW r, r = Arrived(u, p, v, m, q, w)
  PROVE  ArrivesAs(r, p, v, m, q, w)
<1>1. r \in RequestType BY DEF RequestType, Stages, Outcomes, Arrived
<1>2. /\ r.at = "arrived" /\ r.key = 1 /\ r.up = 0 /\ r.closed = 0 /\ r.ran = {} /\ r.replied = FALSE
      /\ r.lost = "" /\ r.proto = p /\ r.version = v /\ r.method = m /\ r.raw = w /\ r.quiet = q /\ r.out = "none"
  BY Zenon DEF Arrived
<1>3. Piped(r) BY <1>2 DEF Piped
<1> QED BY <1>1, <1>2, <1>3 DEF RequestOK, ArrivesAs

LEMMA ArrivedRequest ==
  ASSUME NEW c \in ClientType, NEW r, r = Arrived(c.url, c.proto, c.version, c.method, c.quiet, c.raw)
  PROVE  ArrivesAs(r, c.proto, c.version, c.method, c.quiet, c.raw)
<1>1. /\ c.url \in Urls /\ c.proto \in Protos /\ c.version \in Supported /\ c.method \in Methods
      /\ c.quiet \in BOOLEAN /\ c.raw \in BOOLEAN
  BY DEF ClientType
<1> QED BY <1>1, ArrivedFields

LEMMA FreshRequest ==
  ASSUME NEW c \in ClientType, NEW a, NEW r,
         r = [NoRequest EXCEPT !.at = "arrived", !.url = c.url, !.proto = c.proto, !.version = c.version,
                !.method = c.method, !.quiet = c.quiet, !.raw = c.raw, !.key = BuildParams(a)]
  PROVE  ArrivesAs(r, c.proto, c.version, c.method, c.quiet, c.raw)
<1>1. r = Arrived(c.url, c.proto, c.version, c.method, c.quiet, c.raw) BY DEF NoRequest, Arrived, BuildParams
<1> QED BY <1>1, ArrivedRequest, Zenon

-----------------------------------------------------------------------------
(* The steps of the client                                                 *)

LEMMA SamePassed == ASSUME UNCHANGED <<card, prefer, net>> PROVE \A n : Passed(n)' = Passed(n)
BY DEF Passed, Candidates

\* What a step of the client leaves of the invariant to be shown.
LEMMA ClientMoves ==
  ASSUME CallInv, NEW d \in ClientType, ClientDoes(d), d.i = client.i,
         d.at \notin {"new", "trying", "done"} =>
           client.at \notin {"new", "trying", "done"} /\ d.url = client.url /\ d.proto = client.proto
  PROVE  /\ card' \in Cards /\ prefer' \in {"none"} \cup Protos /\ net' \in [Urls -> Behaviours]
         /\ client' \in ClientType
         /\ Connects'
<1>1. client' = d /\ UNCHANGED <<card, prefer, net>> BY DEF ClientDoes
<1>2. \A n : Passed(n)' = Passed(n) BY <1>1, SamePassed
<1>3. Connects' BY <1>1, <1>2 DEF CallInv, Connects
<1> QED BY <1>1, <1>3 DEF CallInv

LEMMA FrontStays ==
  ASSUME CallInv, UNCHANGED req, UNCHANGED <<tasks, enqueued>>
  PROVE  OneTask' /\ req' \in [Requests -> RequestType] /\ \A b \in Requests : Piped(req[b])'
BY DEF CallInv, OneTask

LEMMA RequestBecomes ==
  ASSUME CallInv, NEW a, NEW s, Becomes(a, s), a \in Requests => RequestOK(s), UNCHANGED <<tasks, enqueued>>
  PROVE  OneTask' /\ req' \in [Requests -> RequestType] /\ \A b \in Requests : Piped(req[b])'
<1>1. req' = [req EXCEPT ![a] = s] BY DEF Becomes
<1>2. req' \in [Requests -> RequestType] /\ \A b \in Requests : Piped(req'[b])
  BY <1>1 DEF CallInv, RequestOK
<1> QED BY <1>2 DEF CallInv, OneTask

LEMMA EndsType ==
  ASSUME NEW c \in ClientType, NEW x \in Results, NEW d, d = Ends(c, x)
  PROVE  d \in ClientType /\ d.i = c.i /\ d.at = "done" /\ d.url = c.url /\ d.proto = c.proto
BY DEF Ends, ClientType

LEMMA AtType ==
  ASSUME NEW c \in ClientType, NEW x \in {"trying", "connected", "calling", "waiting", "reading"}, NEW d,
         d = [c EXCEPT !.at = x]
  PROVE  d \in ClientType /\ d.i = c.i /\ d.at = x /\ d.url = c.url /\ d.proto = c.proto
BY DEF ClientType

LEMMA InitCall == Init => CallInv
<1> SUFFICES ASSUME Init PROVE CallInv OBVIOUS
<1>1. NoRequest \in RequestType BY DEF NoRequest, RequestType, Stages, Outcomes, Urls, Protos, Supported, Methods
<1>2. NoRequest.at = "none" /\ NoRequest.ran = {} /\ NoRequest.lost = "" BY DEF NoRequest
<1>3. Piped(NoRequest) BY <1>2 DEF Piped
<1>4. client \in ClientType /\ client.at = "new" /\ client.i = 1
  BY DEF Init, Idle, ClientType, Urls, Protos, Supported, Methods, Results
<1>5. Connects BY <1>4 DEF Connects
<1>6. req = [a \in Requests |-> NoRequest] BY DEF Init, FrontInit
<1> QED BY <1>1, <1>3, <1>4, <1>5, <1>6 DEF Init, FrontInit, CallInv, OneTask

LEMMA FetchCardCall == ASSUME CallInv, FetchCard PROVE CallInv'
<1>0. client \in ClientType BY DEF CallInv
<1>1. \/ \E x \in {"AgentNotFoundError", "ProtocolVersionMismatchError"} : ClientDoes(Ends(client, x))
      \/ ClientDoes([client EXCEPT !.at = "trying"])
  BY Zenon DEF FetchCard
<1>2. OneTask' /\ req' \in [Requests -> RequestType] /\ \A b \in Requests : Piped(req[b])'
  BY FrontStays DEF FetchCard, frontVars
<1>3. ASSUME NEW x \in {"AgentNotFoundError", "ProtocolVersionMismatchError"}, NEW d, d = Ends(client, x),
             ClientDoes(d)
      PROVE  CallInv'
  <2>1. d \in ClientType /\ d.i = client.i /\ d.at = "done" BY <1>0, <1>3, EndsType DEF Results
  <2> QED BY <1>2, <1>3, <2>1, ClientMoves DEF CallInv
<1>4. ASSUME NEW d, d = [client EXCEPT !.at = "trying"], ClientDoes(d) PROVE CallInv'
  <2>1. d \in ClientType /\ d.i = client.i /\ d.at = "trying" BY <1>0, <1>4, AtType
  <2> QED BY <1>2, <1>4, <2>1, ClientMoves DEF CallInv
<1> QED BY <1>1, <1>3, <1>4, Zenon

LEMMA Element ==
  ASSUME NEW S, NEW s \in Seq(S), NEW n \in Nat, n >= 1, ~(n > Len(s)) PROVE s[n] \in S
OBVIOUS

LEMMA TryCandidateCall == ASSUME CallInv, TryCandidate PROVE CallInv'
<1> DEFINE i == client.i c == Candidates[i]
<1>0. client \in ClientType /\ client.at = "trying" /\ i \in Nat /\ i >= 1
  BY DEF CallInv, TryCandidate, ClientType
<1>1. \/ ClientDoes(Ends(client, "AgentNotFoundError"))
      \/ (c.version \notin Supported \/ Skipped(c)) /\ ClientDoes([client EXCEPT !.i = @ + 1])
      \/ /\ ~(i > Len(Candidates)) /\ c.version \in Supported /\ ~Skipped(c)
         /\ ClientDoes([client EXCEPT !.at = "connected", !.url = c.url, !.proto = c.proto, !.version = c.version])
  BY Zenon DEF TryCandidate
<1>2. OneTask' /\ req' \in [Requests -> RequestType] /\ \A b \in Requests : Piped(req[b])'
  BY FrontStays DEF TryCandidate, frontVars
<1>3. ASSUME NEW d, d = Ends(client, "AgentNotFoundError"), ClientDoes(d) PROVE CallInv'
  <2>1. d \in ClientType /\ d.i = client.i /\ d.at = "done" BY <1>0, <1>3, EndsType DEF Results
  <2> QED BY <1>2, <1>3, <2>1, ClientMoves DEF CallInv
<1>4. ASSUME c.version \notin Supported \/ Skipped(c), NEW d, d = [client EXCEPT !.i = @ + 1], ClientDoes(d)
      PROVE  CallInv'
  <2>0. i + 1 \in Nat \ {0} BY <1>0
  <2>1. d \in ClientType /\ d.i = i + 1 /\ d.at = "trying" BY <1>0, <1>4, <2>0 DEF ClientType
  <2>2. client' = d /\ UNCHANGED <<card, prefer, net>> BY <1>4 DEF ClientDoes
  <2>3. \A n : Passed(n)' = Passed(n) BY <2>2, SamePassed
  <2>4. Passed(i) BY <1>4 DEF Passed, Skipped
  <2>5. \A n \in 1..i - 1 : Passed(n) BY DEF CallInv, Connects
  <2> HIDE DEF i, c
  <2>6. \A n \in 1..client'.i - 1 : Passed(n)' BY <1>0, <2>1, <2>2, <2>3, <2>4, <2>5
  <2>7. Connects' BY <2>1, <2>2, <2>6 DEF Connects
  <2> QED BY <1>2, <2>1, <2>2, <2>7 DEF CallInv
<1>5. ASSUME ~(i > Len(Candidates)), c.version \in Supported, ~Skipped(c),
             NEW d, d = [client EXCEPT !.at = "connected", !.url = c.url, !.proto = c.proto, !.version = c.version],
             ClientDoes(d)
      PROVE  CallInv'
  <2>1. Candidates \in Seq([proto : Protos, version : STRING, url : Urls])
    BY CandidatesAssumption DEF CallInv, Candidates
  <2>2. c \in [proto : Protos, version : STRING, url : Urls] BY <1>0, <1>5, <2>1, Element
  <2>3. c.proto \in Protos /\ c.url \in Urls BY <2>2
  <2>4. d \in ClientType /\ d.i = i /\ d.at = "connected" /\ d.url = c.url /\ d.proto = c.proto
    BY <1>0, <1>5, <2>3 DEF ClientType
  <2>5. client' = d /\ UNCHANGED <<card, prefer, net>> BY <1>5 DEF ClientDoes
  <2>6. \A n : Passed(n)' = Passed(n) BY <2>5, SamePassed
  <2>7. net[c.url] \in {"up", "mute"} \/ (c.proto = "rpc" /\ net[c.url] = "down")
    <3>1. net[c.url] \in {"up", "down", "sick", "mute"} BY <2>3 DEF CallInv, Behaviours
    <3> QED BY <1>5, <2>3, <3>1 DEF Skipped, Protos
  <2>8. Connects' BY <2>4, <2>5, <2>6, <2>7 DEF CallInv, Connects
  <2> QED BY <1>2, <2>4, <2>5, <2>8 DEF CallInv
<1> QED BY <1>1, <1>3, <1>4, <1>5, Zenon

LEMMA StartCallCall == ASSUME CallInv, StartCall PROVE CallInv'
<1>0. client \in ClientType /\ client.at = "connected" BY DEF CallInv, StartCall
<1>1. \E m \in Methods :
        \/ ClientDoes([client EXCEPT !.at = "calling", !.method = m])
        \/ ClientDoes(Ends([client EXCEPT !.method = m], "AgentCapabilityError"))
        \/ \E raw \in BOOLEAN, quiet \in BOOLEAN :
             ClientDoes([client EXCEPT !.at = "calling", !.method = m, !.raw = raw, !.quiet = quiet])
  BY Zenon DEF StartCall
<1>2. OneTask' /\ req' \in [Requests -> RequestType] /\ \A b \in Requests : Piped(req[b])'
  BY FrontStays DEF StartCall, frontVars
<1>3. ASSUME NEW m \in Methods, NEW d, d = [client EXCEPT !.at = "calling", !.method = m], ClientDoes(d)
      PROVE  CallInv'
  <2>1. d \in ClientType /\ d.i = client.i /\ d.at = "calling" /\ d.url = client.url /\ d.proto = client.proto
    BY <1>0, <1>3 DEF ClientType
  <2> QED BY <1>0, <1>2, <1>3, <2>1, ClientMoves DEF CallInv
<1>4. ASSUME NEW m \in Methods, NEW d, d = Ends([client EXCEPT !.method = m], "AgentCapabilityError"),
             ClientDoes(d)
      PROVE  CallInv'
  <2>1. d \in ClientType /\ d.i = client.i /\ d.at = "done" BY <1>0, <1>4 DEF ClientType, Ends, Results
  <2> QED BY <1>2, <1>4, <2>1, ClientMoves DEF CallInv
<1>5. ASSUME NEW m \in Methods, NEW raw \in BOOLEAN, NEW quiet \in BOOLEAN, NEW d,
             d = [client EXCEPT !.at = "calling", !.method = m, !.raw = raw, !.quiet = quiet], ClientDoes(d)
      PROVE  CallInv'
  <2>1. d \in ClientType /\ d.i = client.i /\ d.at = "calling" /\ d.url = client.url /\ d.proto = client.proto
    BY <1>0, <1>5 DEF ClientType
  <2> QED BY <1>0, <1>2, <1>5, <2>1, ClientMoves DEF CallInv
<1> QED BY <1>1, <1>3, <1>4, <1>5, Zenon

LEMMA NetworkErrorType ==
  ASSUME NEW b, CallInv, NEW d, d = NetworkError(b)
  PROVE  /\ d \in ClientType /\ d.i = client.i /\ d.url = client.url /\ d.proto = client.proto
         /\ d.at \in {"calling", "done"}
<1>0. client \in ClientType BY DEF CallInv
<1>1. \/ \E x \in {"ProtocolError", "httpx"} : d = Ends(client, x)
      \/ d = [client EXCEPT !.at = "calling", !.attempt = @ + 1]
  BY Zenon DEF NetworkError
<1>2. client.attempt \in Nat \ {0} BY <1>0 DEF ClientType
<1>3. client.attempt + 1 \in Nat \ {0} BY <1>2
<1>4. ASSUME NEW x \in {"ProtocolError", "httpx"}, d = Ends(client, x)
      PROVE  d \in ClientType /\ d.i = client.i /\ d.at = "done" /\ d.url = client.url /\ d.proto = client.proto
  BY <1>0, <1>4, EndsType DEF Results
<1>5. ASSUME d = [client EXCEPT !.at = "calling", !.attempt = @ + 1]
      PROVE  d \in ClientType /\ d.i = client.i /\ d.at = "calling" /\ d.url = client.url /\ d.proto = client.proto
  BY <1>0, <1>3, <1>5 DEF ClientType
<1> QED BY <1>1, <1>4, <1>5

LEMMA PostCall == ASSUME CallInv, Post PROVE CallInv'
<1> DEFINE a == client.attempt
           r == [NoRequest EXCEPT !.at = "arrived", !.url = client.url, !.proto = client.proto,
                   !.version = client.version, !.method = client.method, !.quiet = client.quiet, !.raw = client.raw, !.key = BuildParams(a)]
<1>0. client \in ClientType /\ client.at = "calling" BY DEF CallInv, Post
<1>1. UNCHANGED <<tasks, enqueued>> BY DEF Post, SaysNothing
<1>2. \/ ClientDoes([client EXCEPT !.at = "waiting"]) /\ Becomes(a, r)
      \/ ClientDoes(NetworkError(TRUE)) /\ UNCHANGED req
  BY Zenon DEF Post
<1>3. ASSUME NEW d, d = [client EXCEPT !.at = "waiting"], ClientDoes(d), Becomes(a, r)
      PROVE  CallInv'
  <2>1. d \in ClientType /\ d.i = client.i /\ d.at = "waiting" /\ d.url = client.url /\ d.proto = client.proto
    BY <1>0, <1>3, AtType
  <2>2. ArrivesAs(r, client.proto, client.version, client.method, client.quiet, client.raw)
    BY <1>0, FreshRequest, Zenon
  <2>3. RequestOK(r) BY <2>2, Zenon DEF ArrivesAs
  <2> HIDE DEF r
  <2>4. OneTask' /\ req' \in [Requests -> RequestType] /\ \A b \in Requests : Piped(req[b])'
    BY <1>1, <1>3, <2>3, RequestBecomes
  <2> QED BY <1>0, <1>3, <2>1, <2>4, ClientMoves DEF CallInv
<1>4. ASSUME NEW d, d = NetworkError(TRUE), ClientDoes(d), UNCHANGED req
      PROVE  CallInv'
  <2>1. d \in ClientType /\ d.i = client.i /\ d.at \in {"calling", "done"} /\ d.url = client.url /\ d.proto = client.proto
    BY <1>4, NetworkErrorType
  <2> QED BY <1>0, <1>1, <1>4, <2>1, FrontStays, ClientMoves DEF CallInv
<1> QED BY <1>2, <1>3, <1>4, Zenon

LEMMA LeaveCall ==
  ASSUME CallInv, NEW a, Becomes(a, [req[a] EXCEPT !.gone = TRUE]), UNCHANGED SaysNothing
  PROVE  OneTask' /\ req' \in [Requests -> RequestType] /\ \A b \in Requests : Piped(req[b])'
<1>1. PICK s : s = [req[a] EXCEPT !.gone = TRUE] /\ Becomes(a, s) BY Zenon
<1>2. a \in Requests => RequestOK(s)
  <2>1. a \in Requests => req[a] \in RequestType /\ Piped(req[a]) BY DEF CallInv
  <2> QED BY <1>1, <2>1, LeaveRequest, Zenon
<1>3. UNCHANGED <<tasks, enqueued>> BY DEF SaysNothing
<1> QED BY <1>1, <1>2, <1>3, RequestBecomes, Zenon

LEMMA StopWaitingCall == ASSUME CallInv, StopWaiting PROVE CallInv'
<1>0. client \in ClientType /\ client.at = "waiting" BY DEF CallInv, StopWaiting
<1>1. OneTask' /\ req' \in [Requests -> RequestType] /\ \A b \in Requests : Piped(req[b])'
  BY LeaveCall, Zenon DEF StopWaiting
<1>2. PICK b \in BOOLEAN : ClientDoes(NetworkError(b)) BY Zenon DEF StopWaiting
<1>3. PICK d : d = NetworkError(b) /\ ClientDoes(d) BY <1>2
<1>4. d \in ClientType /\ d.i = client.i /\ d.at \in {"calling", "done"} /\ d.url = client.url /\ d.proto = client.proto
  BY <1>3, NetworkErrorType
<1> QED BY <1>0, <1>1, <1>3, <1>4, ClientMoves DEF CallInv

LEMMA RaisedType == ASSUME NEW p, NEW v, NEW sse, NEW r PROVE Raised(p, v, sse, r) \in Results
BY DEF Raised, CheckError, CheckErrorV10, HttpFailure, HandleResponse, HandleResponseV10, ExcFromReason,
       Results

LEMMA ReceiveReplyCall == ASSUME CallInv, ReceiveReply PROVE CallInv'
<1>0. client \in ClientType /\ client.at = "waiting" BY DEF CallInv, ReceiveReply
<1>1. \/ \E x \in Results : ClientDoes(Ends(client, x))
      \/ ClientDoes([client EXCEPT !.at = "reading"])
  <2>1. "raw" \in Results BY DEF Results
  <2> QED BY <2>1, RaisedType, Zenon DEF ReceiveReply
<1>2. OneTask' /\ req' \in [Requests -> RequestType] /\ \A b \in Requests : Piped(req[b])'
  BY FrontStays DEF ReceiveReply, frontVars
<1>3. ASSUME NEW x \in Results, NEW d, d = Ends(client, x), ClientDoes(d) PROVE CallInv'
  <2>1. d \in ClientType /\ d.i = client.i /\ d.at = "done" BY <1>0, <1>3, EndsType
  <2> QED BY <1>2, <1>3, <2>1, ClientMoves DEF CallInv
<1>4. ASSUME NEW d, d = [client EXCEPT !.at = "reading"], ClientDoes(d) PROVE CallInv'
  <2>1. d \in ClientType /\ d.i = client.i /\ d.at = "reading" /\ d.url = client.url /\ d.proto = client.proto
    BY <1>0, <1>4, AtType
  <2> QED BY <1>0, <1>2, <1>4, <2>1, ClientMoves DEF CallInv
<1> QED BY <1>1, <1>3, <1>4, Zenon

LEMMA StopReadingCall == ASSUME CallInv, StopReading PROVE CallInv'
<1>0. client \in ClientType BY DEF CallInv
<1>1. OneTask' /\ req' \in [Requests -> RequestType] /\ \A b \in Requests : Piped(req[b])'
  BY LeaveCall, Zenon DEF StopReading
<1>2. PICK d : d = Ends(client, "result") /\ ClientDoes(d) BY Zenon DEF StopReading
<1>3. d \in ClientType /\ d.i = client.i /\ d.at = "done" BY <1>0, <1>2, EndsType DEF Results
<1> QED BY <1>1, <1>2, <1>3, ClientMoves DEF CallInv

LEMMA RedeployCall == ASSUME CallInv, Redeploy PROVE CallInv'
<1>1. UNCHANGED <<req, tasks, enqueued, card, prefer, net, client>> BY DEF Redeploy
<1>2. \A n : Passed(n)' = Passed(n) BY <1>1, SamePassed
<1>3. Connects' BY <1>1, <1>2 DEF CallInv, Connects
<1> QED BY <1>1, <1>3 DEF CallInv, OneTask

LEMMA ServeTasks == ASSUME CallInv, NEW a \in Requests, Serve(a) PROVE OneTask'
<1>1. CASE UNCHANGED <<tasks, enqueued>> BY <1>1 DEF CallInv, OneTask
<1>2. CASE req[a].at = "work" /\ \E out : Submit(a, out)
  <2>1. req[a].key = 1 BY <1>2 DEF CallInv, Piped
  <2>2. PICK out : Submit(a, out) BY <1>2
  <2>3. \/ UNCHANGED <<tasks, enqueued>>
        \/ 1 \notin tasks /\ tasks' = tasks \cup {1} /\ enqueued' \in {enqueued, enqueued + 1}
    BY <2>1, <2>2, Zenon DEF Submit
  <2>4. CASE 1 \notin tasks /\ tasks' = tasks \cup {1} /\ enqueued' \in {enqueued, enqueued + 1}
    <3>1. tasks = {} /\ enqueued = 0 BY <2>4 DEF CallInv, OneTask
    <3> QED BY <2>4, <3>1 DEF OneTask
  <2> QED BY <1>1, <2>3, <2>4
<1> QED
  BY <1>1, <1>2 DEF Serve, Refuse, Dispatch, Check, Before, Work, Cancelled, ConversionFails, After, Answer,
                    Respond, Emit, SaysNothing

LEMMA ServeCall == ASSUME CallInv, NEW a \in Requests, Serve(a), UNCHANGED clientVars PROVE CallInv'
<1>1. req \in [Requests -> RequestType] /\ RequestOK(req[a]) BY DEF CallInv, RequestOK
<1>2. RequestOK(req'[a]) BY <1>1, ServeRequest
<1>3. req' = [req EXCEPT ![a] = req'[a]] BY <1>1, ServeOthers
<1>4. req' \in [Requests -> RequestType] /\ \A b \in Requests : Piped(req'[b])
  BY <1>2, <1>3 DEF CallInv, RequestOK
<1>5. UNCHANGED <<card, prefer, net, client>> BY DEF clientVars
<1>6. \A n : Passed(n)' = Passed(n) BY <1>5, SamePassed
<1>7. Connects' BY <1>5, <1>6 DEF CallInv, Connects
<1> QED BY <1>4, <1>5, <1>7, ServeTasks DEF CallInv

\* The client, its requests and the tasks they make keep to the pipeline.
THEOREM CallInvariant == Spec => []CallInv
<1>1. CallInv /\ [Next]_vars => CallInv'
  <2> SUFFICES ASSUME CallInv, [Next]_vars PROVE CallInv' OBVIOUS
  <2>1. CASE Next
    BY <2>1, FetchCardCall, TryCandidateCall, PostCall, StopWaitingCall, ReceiveReplyCall, StopReadingCall,
       StartCallCall, RedeployCall, ServeCall DEF Next, ClientStep
  <2>2. CASE UNCHANGED vars
    <3>1. UNCHANGED <<req, tasks, enqueued, card, prefer, net, client>> BY <2>2 DEF vars, frontVars, clientVars
    <3>2. \A n : Passed(n)' = Passed(n) BY <3>1, SamePassed
    <3>3. Connects' BY <3>1, <3>2 DEF CallInv, Connects
    <3> QED BY <3>1, <3>3 DEF CallInv, OneTask
  <2> QED BY <2>1, <2>2
<1> QED BY <1>1, InitCall, PTL DEF Spec

\* Every middleware that was entered is left, in the reverse order and after
\* the operation and its stream, but in the four cases the code misses.
THEOREM MiddlewaresUnwind == Spec => []MiddlewareUnwinds
<1>1. CallInv => MiddlewareUnwinds BY DEF CallInv, MiddlewareUnwinds, Piped, Accounted, IsRest
<1> QED BY <1>1, CallInvariant, PTL

\* No operation but a health check runs before all middlewares let it pass.
THEOREM NoWorkBeforeMiddleware == Spec => []WorkBehindMiddleware
<1>1. CallInv => WorkBehindMiddleware BY DEF CallInv, WorkBehindMiddleware, Piped
<1> QED BY <1>1, CallInvariant, PTL

\* However often a call is repeated it makes one task and enqueues it once.
THEOREM CallsMakeOneTask == Spec => []OneTaskPerCall
<1>1. CallInv => OneTaskPerCall
  <2> SUFFICES ASSUME CallInv PROVE OneTaskPerCall OBVIOUS
  <2>1. tasks = {} \/ tasks = {1} BY DEF CallInv, OneTask
  <2>2. Cardinality(tasks) \in {0, 1} BY <2>1, FS_EmptySet, FS_Singleton
  <2> QED BY <2>2 DEF CallInv, OneTask, OneTaskPerCall
<1> QED BY <1>1, CallInvariant, PTL

\* connect() takes the first transport whose endpoint takes the connection and
\* does not answer 5xx, or that speaks JSON-RPC to one that refuses it, and
\* gives up only when there is none.
THEOREM ConnectFallsBack == Spec => []FallsBack
<1>1. CallInv => FallsBack
  <2> SUFFICES ASSUME CallInv PROVE FallsBack OBVIOUS
  <2>1. Candidates \in Seq([proto : Protos, version : STRING, url : Urls])
    BY CandidatesAssumption DEF CallInv, Candidates
  <2>2. client.i \in Nat BY DEF CallInv, ClientType
  <2>3. client.i > Len(Candidates) => \A n \in DOMAIN Candidates : n \in 1..client.i - 1 BY <2>1, <2>2
  <2>4. \A n \in 1..client.i - 1 : Passed(n) BY DEF CallInv, Connects
  <2> QED BY <2>3, <2>4 DEF CallInv, Connects, FallsBack, Passed
<1> QED BY <1>1, CallInvariant, PTL

-----------------------------------------------------------------------------
(* What the caller learns of an outcome                                    *)

\* The outcomes a call of the library may end with.
Answers == Outcomes \ {"none", "dropped", "Envelope", "Cancelled"}

\* Exception x names outcome out, but for the aliases.
Agrees(x, out, notFound, terminal) ==
  /\ x = "TaskNotFoundError" => out \in {"TaskNotFound"} \cup notFound
  /\ x = "TaskTerminalError" => out \in {"TaskTerminalState"} \cup terminal
  /\ x = "TaskNotCancelableError" => out = "TaskNotCancelable"
  /\ out = "TaskNotFound" => x = "TaskNotFoundError"
  /\ out = "TaskTerminalState" => x = "TaskTerminalError"
  /\ out = "TaskNotCancelable" => x = "TaskNotCancelableError"

LEMMA NotSuccess ==
  ASSUME NEW r, r.status # 200 \/ r.code # "none" \/ r.reason # "none" PROVE r # Success
<1>1. Success.status = 200 /\ Success.code = "none" /\ Success.reason = "none" BY DEF Success, Http, Reply
<1> QED BY <1>1

LEMMA RestAgrees ==
  ASSUME NEW sse, NEW out \in Answers, NEW x, x = Raised("rest", "0.3", sse, Wire("rest", "0.3", out))
  PROVE  Agrees(x, out, {"NoRoute", "PushConfigNotFound", "NoCard"}, {"Concurrency"})
<1>0. PICK r : r = Wire("rest", "0.3", out) OBVIOUS
<1>1. CASE out = "result"
  <2>1. x = "result" BY <1>1 DEF Raised, Wire
  <2> QED BY <1>1, <2>1 DEF Agrees
<1>2. CASE out # "result"
  <2> USE <1>0 DEF Wire, ExceptionHandlers, HttpErrors, FrameworkErrors, Http, Reply, RejectsVersion
  <2>1. out \in {"TaskNotFound", "PushConfigNotFound", "NoCard", "NoRoute"} => r.status = 404 OBVIOUS
  <2>2. out \in {"TaskTerminalState", "Concurrency"} => r.status = 409 /\ r.code = "-32004" OBVIOUS
  <2>3. out = "TaskNotCancelable" => r.status = 409 /\ r.code = "-32002" OBVIOUS
  <2>4. out \in {"UnsupportedOperation", "ContextMismatch", "ContentType", "PushConfigInvalid", "Validation",
                "Version"} =>
          r.status = 400 /\ (out = "Version" => r.text = "version") OBVIOUS
  <2>5. out = "NotAcceptingMessages" => r.status = 422 OBVIOUS
  <2>6. out = "AuthRequired" => r.status = 401 OBVIOUS
  <2>7. out = "NoTaskManager" => r.status = 503 OBVIOUS
  <2>8. out = "NoPush" => r.status = 501 OBVIOUS
  <2>9. out \in {"Unexpected", "Crash"} => r.status = 500 OBVIOUS
  <2> HIDE DEF Wire, ExceptionHandlers, HttpErrors, FrameworkErrors, Http, Reply, RejectsVersion
  <2>10. r.status # 200 \/ r.code # "none" \/ r.reason # "none"
    BY <1>2, <2>1, <2>2, <2>3, <2>4, <2>5, <2>6, <2>7, <2>8, <2>9
    DEF Answers, Outcomes, Errors
  <2>11. r # Success BY <2>10, NotSuccess
  <2>12. x = CheckError(r) BY <2>11, <1>0 DEF Raised
  <2> QED
    BY <1>2, <2>1, <2>2, <2>3, <2>4, <2>5, <2>6, <2>7, <2>8, <2>9, <2>12
    DEF Answers, Outcomes, Errors, Agrees, CheckError
<1> QED BY <1>1, <1>2

LEMMA RestV10Agrees ==
  ASSUME NEW sse, NEW out \in Answers, NEW x, x = Raised("rest", "1.0", sse, Wire("rest", "1.0", out))
  PROVE  Agrees(x, out, {"NoRoute"}, {})
<1>0. PICK r : r = Wire("rest", "1.0", out) OBVIOUS
<1>1. CASE out = "result"
  <2>1. x = "result" BY <1>1 DEF Raised, Wire
  <2> QED BY <1>1, <2>1 DEF Agrees
<1>2. CASE out # "result"
  <2> USE <1>0 DEF Wire, BuildError, INVALID_REQUEST, ERROR_CATALOG, HttpErrorsV10, OnHttp,
         FrameworkErrors, Http, Reply, RejectsVersion
  <2>1. out = "NoRoute" => r.status = 404 /\ r.reason = "none" OBVIOUS
  <2>2. out = "TaskNotFound" => r.status = 404 /\ r.reason = "TASK_NOT_FOUND" OBVIOUS
  <2>3. out = "PushConfigNotFound" => r.status = 404 /\ r.reason = "PUSH_CONFIG_NOT_FOUND" OBVIOUS
  <2>4. out = "NoCard" => r.status = 404 /\ r.reason = "EXTENDED_CARD_NOT_CONFIGURED" OBVIOUS
  <2>5. out = "TaskTerminalState" => r.status = 409 /\ r.reason = "TASK_TERMINAL_STATE" OBVIOUS
  <2>6. out = "TaskNotCancelable" => r.status = 409 /\ r.reason = "TASK_NOT_CANCELABLE" OBVIOUS
  <2>7. out = "Concurrency" => r.status = 409 /\ r.reason = "CONCURRENT_MODIFICATION" OBVIOUS
  <2>8. out = "Version" => r.status = 400 /\ r.reason = "none" /\ r.text = "version" OBVIOUS
  <2>9. out = "ContextMismatch" => r.status = 400 /\ r.reason = "CONTEXT_MISMATCH" OBVIOUS
  <2>10. out = "UnsupportedOperation" => r.status = 400 /\ r.reason = "UNSUPPORTED_OPERATION" OBVIOUS
  <2>11. out = "PushConfigInvalid" => r.status = 400 /\ r.reason = "HTTP_ERROR" OBVIOUS
  <2>12. out = "Validation" => r.status = 400 /\ r.reason = "INVALID_REQUEST" OBVIOUS
  <2>13. out = "NotAcceptingMessages" => r.status = 422 /\ r.reason = "TASK_NOT_ACCEPTING_MESSAGES" OBVIOUS
  <2>14. out = "ContentType" => r.status = 415 /\ r.reason = "CONTENT_TYPE_NOT_SUPPORTED" OBVIOUS
  <2>15. out = "AuthRequired" => r.status = 401 /\ r.reason = "AUTH_REQUIRED" OBVIOUS
  <2>16. out = "NoTaskManager" => r.status = 503 /\ r.reason = "none" OBVIOUS
  <2>17. out = "NoPush" => r.status = 501 /\ r.reason = "none" OBVIOUS
  <2>18. out \in {"Unexpected", "Crash"} => r.status = 500 /\ r.reason = "none" OBVIOUS
  <2> HIDE DEF Wire, BuildError, INVALID_REQUEST, ERROR_CATALOG, HttpErrorsV10, OnHttp, FrameworkErrors,
         Http, Reply, RejectsVersion
  <2>19. r.status # 200 \/ r.code # "none" \/ r.reason # "none"
    BY <1>2, <2>1, <2>2, <2>3, <2>4, <2>5, <2>6, <2>7, <2>8, <2>9, <2>10, <2>11, <2>12, <2>13, <2>14,
       <2>15, <2>16, <2>17, <2>18
    DEF Answers, Outcomes, Errors
  <2>20. r # Success BY <2>19, NotSuccess
  <2>21. x = CheckErrorV10(r) BY <2>20, <1>0 DEF Raised
  <2>22. /\ r.reason = "TASK_NOT_FOUND" <=> out = "TaskNotFound"
         /\ r.reason = "TASK_TERMINAL_STATE" <=> out = "TaskTerminalState"
         /\ r.reason = "TASK_NOT_CANCELABLE" <=> out = "TaskNotCancelable"
         /\ r.reason = "none" /\ r.status = 404 => out = "NoRoute"
    BY <1>2, <2>1, <2>2, <2>3, <2>4, <2>5, <2>6, <2>7, <2>8, <2>9, <2>10, <2>11, <2>12, <2>13, <2>14,
       <2>15, <2>16, <2>17, <2>18
    DEF Answers, Outcomes, Errors
  <2> QED
    BY <1>2, <2>1, <2>2, <2>5, <2>6, <2>8, <2>18, <2>21, <2>22
    DEF Agrees, CheckErrorV10, ExcFromReason
<1> QED BY <1>1, <1>2

LEMMA RpcAgrees ==
  ASSUME NEW sse, NEW out \in Answers, NEW x, x = Raised("rpc", "0.3", sse, Wire("rpc", "0.3", out))
  PROVE  Agrees(x, out, {"PushConfigNotFound"}, {"Concurrency", "UnsupportedOperation"})
<1>0. PICK r : r = Wire("rpc", "0.3", out) OBVIOUS
<1>1. CASE out = "result"
  <2>1. x = "result" BY <1>1 DEF Raised, Wire
  <2> QED BY <1>1, <2>1 DEF Agrees
<1>2. CASE out # "result"
  <2> USE <1>0 DEF Wire, ExceptionHandlers, RpcErrors, HttpErrors, MapExceptionToError, FrameworkErrors,
         Rpc, Http, Reply, RejectsVersion
  <2>1. out = "NoRoute" => r.status = 404 OBVIOUS
  <2>2. out = "Crash" => r.status = 500 OBVIOUS
  <2>3. out = "Version" => r.status = 400 OBVIOUS
  <2>4. out \in {"TaskNotFound", "PushConfigNotFound"} => r.status = 200 /\ r.code = "-32001" OBVIOUS
  <2>5. out \in {"TaskTerminalState", "Concurrency", "UnsupportedOperation"} =>
          r.status = 200 /\ r.code = "-32004" OBVIOUS
  <2>6. out = "TaskNotCancelable" => r.status = 200 /\ r.code = "-32002" OBVIOUS
  <2>7. out \in {"ContextMismatch", "NotAcceptingMessages", "Validation"} =>
          r.status = 200 /\ r.code = "-32602" OBVIOUS
  <2>8. out = "ContentType" => r.status = 200 /\ r.code = "-32005" OBVIOUS
  <2>9. out = "AuthRequired" => r.status = 200 /\ r.code = "-32600" OBVIOUS
  <2>10. out = "NoPush" => r.status = 200 /\ r.code = "-32003" OBVIOUS
  <2>11. out = "NoCard" => r.status = 200 /\ r.code = "-32007" OBVIOUS
  <2>12. out \in {"Unexpected", "PushConfigInvalid", "NoTaskManager"} =>
          r.status = 200 /\ r.code = "-32603" OBVIOUS
  <2> HIDE DEF Wire, ExceptionHandlers, RpcErrors, HttpErrors, MapExceptionToError, FrameworkErrors,
         Rpc, Http, Reply, RejectsVersion
  <2>13. r.status # 200 \/ r.code # "none" \/ r.reason # "none"
    BY <1>2, <2>1, <2>2, <2>3, <2>4, <2>5, <2>6, <2>7, <2>8, <2>9, <2>10, <2>11, <2>12
    DEF Answers, Outcomes, Errors
  <2>14. r # Success BY <2>13, NotSuccess
  <2>15. x = IF r.status # 200 THEN HttpFailure(r, sse) ELSE HandleResponse(r) BY <2>14, <1>0 DEF Raised
  <2> QED
    BY <1>2, <2>1, <2>2, <2>3, <2>4, <2>5, <2>6, <2>7, <2>8, <2>9, <2>10, <2>11, <2>12, <2>15
    DEF Answers, Outcomes, Errors, Agrees, HttpFailure, HandleResponse
<1> QED BY <1>1, <1>2

LEMMA RpcV10Agrees ==
  ASSUME NEW sse, NEW out \in Answers, NEW x, x = Raised("rpc", "1.0", sse, Wire("rpc", "1.0", out))
  PROVE  Agrees(x, out, {}, {})
<1>0. PICK r : r = Wire("rpc", "1.0", out) OBVIOUS
<1>1. CASE out = "result"
  <2>1. x = "result" BY <1>1 DEF Raised, Wire
  <2> QED BY <1>1, <2>1 DEF Agrees
<1>2. CASE out # "result"
  <2> USE <1>0 DEF Wire, BuildError, RpcErrorsV10, INVALID_REQUEST, JsonRpcErrorFromException,
         DescriptorFor, ERROR_CATALOG, HttpErrorsV10, OnHttp, FrameworkErrors, Http, Reply,
         RejectsVersion
  <2>1. out = "NoRoute" => r.status = 404 /\ r.reason = "none" OBVIOUS
  <2>2. out = "Crash" => r.status = 500 /\ r.reason = "none" OBVIOUS
  <2>3. out = "Version" => r.status = 400 /\ r.reason = "none" OBVIOUS
  <2>4. out = "TaskNotFound" => r.status = 200 /\ r.reason = "TASK_NOT_FOUND" /\ r.text = "none" OBVIOUS
  <2>5. out = "PushConfigNotFound" => r.status = 200 /\ r.reason = "PUSH_CONFIG_NOT_FOUND" OBVIOUS
  <2>6. out = "TaskTerminalState" =>
          r.status = 200 /\ r.reason = "TASK_TERMINAL_STATE" /\ r.text = "none" OBVIOUS
  <2>7. out = "TaskNotCancelable" =>
          r.status = 200 /\ r.reason = "TASK_NOT_CANCELABLE" /\ r.text = "none" OBVIOUS
  <2>8. out = "Concurrency" => r.status = 200 /\ r.reason = "CONCURRENT_MODIFICATION" OBVIOUS
  <2>9. out = "ContextMismatch" => r.status = 200 /\ r.reason = "CONTEXT_MISMATCH" OBVIOUS
  <2>10. out = "UnsupportedOperation" => r.status = 200 /\ r.reason = "UNSUPPORTED_OPERATION" OBVIOUS
  <2>11. out = "Validation" => r.status = 200 /\ r.reason = "INVALID_REQUEST" OBVIOUS
  <2>12. out = "NotAcceptingMessages" => r.status = 200 /\ r.reason = "TASK_NOT_ACCEPTING_MESSAGES" OBVIOUS
  <2>13. out = "ContentType" => r.status = 200 /\ r.reason = "CONTENT_TYPE_NOT_SUPPORTED" OBVIOUS
  <2>14. out = "AuthRequired" => r.status = 200 /\ r.reason = "AUTH_REQUIRED" OBVIOUS
  <2>15. out = "NoPush" => r.status = 200 /\ r.reason = "PUSH_NOTIFICATIONS_NOT_SUPPORTED" OBVIOUS
  <2>16. out = "NoCard" => r.status = 200 /\ r.reason = "EXTENDED_CARD_NOT_CONFIGURED" OBVIOUS
  <2>17. out \in {"Unexpected", "PushConfigInvalid", "NoTaskManager"} =>
          r.status = 200 /\ r.reason = "INTERNAL_ERROR" OBVIOUS
  <2> HIDE DEF Wire, BuildError, RpcErrorsV10, INVALID_REQUEST, JsonRpcErrorFromException,
         DescriptorFor, ERROR_CATALOG, HttpErrorsV10, OnHttp, FrameworkErrors, Http, Reply,
         RejectsVersion
  <2>18. r.status # 200 \/ r.code # "none" \/ r.reason # "none"
    BY <1>2, <2>1, <2>2, <2>3, <2>4, <2>5, <2>6, <2>7, <2>8, <2>9, <2>10, <2>11, <2>12, <2>13, <2>14,
       <2>15, <2>16, <2>17
    DEF Answers, Outcomes, Errors
  <2>19. r # Success BY <2>18, NotSuccess
  <2>20. x = IF r.status # 200 THEN HttpFailure(r, sse) ELSE HandleResponseV10(r) BY <2>19, <1>0 DEF Raised
  <2>21. /\ r.reason = "TASK_NOT_FOUND" <=> out = "TaskNotFound"
         /\ r.reason = "TASK_TERMINAL_STATE" <=> out = "TaskTerminalState"
         /\ r.reason = "TASK_NOT_CANCELABLE" <=> out = "TaskNotCancelable"
         /\ r.reason = "none" => r.status # 200
    BY <1>2, <2>1, <2>2, <2>3, <2>4, <2>5, <2>6, <2>7, <2>8, <2>9, <2>10, <2>11, <2>12, <2>13, <2>14,
       <2>15, <2>16, <2>17
    DEF Answers, Outcomes, Errors
  <2> QED
    BY <1>2, <2>1, <2>2, <2>3, <2>4, <2>6, <2>7, <2>17, <2>20, <2>21
    DEF Agrees, HttpFailure, HandleResponseV10, ExcFromReason
<1> QED BY <1>1, <1>2

\* Outcomes that reach the caller of a binding as another error.
NotFoundAliases(p, v) ==
  (IF p = "rest" THEN {"NoRoute"} ELSE {}) \cup (IF v = "0.3" THEN {"PushConfigNotFound"} ELSE {})
  \cup (IF v = "0.3" /\ p = "rest" THEN {"NoCard"} ELSE {})
TerminalAliases(p, v) ==
  IF v = "1.0" THEN {} ELSE IF p = "rest" THEN {"Concurrency"} ELSE {"Concurrency", "UnsupportedOperation"}

\* What client c makes of the reply of a server of version v.
Reported(c, v, out) == Raised(c.proto, c.version, c.method \in Streams, Wire(c.proto, v, out))

-----------------------------------------------------------------------------
(* What the caller learns                                                  *)

\* A request is refused for its version or served by the server's, and its
\* outcome is settled once the reply is sent.
Told(r, v) ==
  /\ r.quiet => r.raw
  /\ ~r.raw => r.out \notin {"Envelope", "dropped"}
  /\ r.out = "Cancelled" => ~r.replied /\ r.at \in {"close", "done"}
  /\ r.replied => r.at \in {"close", "sse", "done"}
  /\ r.replied /\ r.at = "close" => HandlerOfRequest(r).pipeline = "router" \/ HandlerOfRequest(r).sse
  /\ r.at \in {"respond", "sse"} => HandlerOfRequest(r).sse
  /\ r.at \in {"check", "before", "work", "close", "respond", "sse"} => r.version = v
  /\ r.at \in {"answer", "done"} => r.version = v \/ r.out \in {"NoRoute", "Version"}
  /\ r.at \in {"close", "answer", "respond", "sse", "done"} => r.out # "none"

Onward(s, r) ==
  /\ SameCall(s, r) /\ r.at # "none" /\ s.at # "none" /\ s.gone = r.gone
  /\ r.replied => s.replied /\ s.out = r.out

\* Before the call there are no requests, and then one per attempt.
Attempts ==
  /\ client.attempt \in Requests
  /\ \A a \in Requests : req[a].at # "none" =>
       /\ client.at \notin {"new", "trying", "connected"}
       /\ req[a].version = client.version /\ req[a].raw = client.raw
       /\ a <= client.attempt /\ (client.at = "calling" => a < client.attempt)

\* A result names an error only when it was made of the reply.
Learned ==
  client.at = "done" /\ ~client.raw /\ client.result # "httpx" =>
    \/ /\ client.result \notin {"TaskNotFoundError", "TaskTerminalError", "TaskNotCancelableError"}
       /\ req[client.attempt].at = "none" \/ req[client.attempt].gone
    \/ /\ req[client.attempt].replied
       /\ client.result = Reported(client, server, req[client.attempt].out)

AgreeInv ==
  /\ CallInv /\ server \in Supported /\ (client.quiet => client.raw)
  /\ \A a \in Requests : Told(req[a], server)
  /\ Attempts /\ Learned

LEMMA RefuseTold ==
  ASSUME NEW a \in Requests, req \in [Requests -> RequestType], RequestOK(req[a]), Told(req[a], server),
         Refuse(a)
  PROVE  Told(req'[a], server) /\ Onward(req'[a], req[a])
<1> DEFINE r == req[a] s == req'[a]
<1>1. PICK o \in {"NoRoute", "Version"} : s = [r EXCEPT !.at = "answer", !.out = o] BY DEF Refuse, Becomes
<1>2. r \in RequestType /\ Told(r, server) /\ r.at = "arrived" BY DEF Refuse, RequestOK
<1> HIDE DEF r, s
<1>3. /\ SameCall(s, r) /\ s.at = "answer" /\ s.out = o /\ s.replied = r.replied /\ s.gone = r.gone
  BY <1>1, <1>2 DEF RequestType, SameCall
<1>4. Told(s, server) /\ Onward(s, r) BY <1>2, <1>3 DEF Told, Onward, SameCall
<1> QED BY <1>4 DEF r, s

LEMMA DispatchTold ==
  ASSUME NEW a \in Requests, req \in [Requests -> RequestType], RequestOK(req[a]), Told(req[a], server),
         Dispatch(a)
  PROVE  Told(req'[a], server) /\ Onward(req'[a], req[a])
<1> DEFINE r == req[a] s == req'[a] h == HandlerOfRequest(r)
<1>1. \/ r.raw /\ s = [r EXCEPT !.at = "answer", !.out = "Envelope"]
      \/ r.quiet /\ s = [r EXCEPT !.at = "answer", !.out = "dropped"]
      \/ s = [r EXCEPT !.at = CASE h.pipeline = "self" -> "check" [] h.pipeline = "router" -> "before"
                                [] OTHER -> "work"]
  BY Zenon DEF Dispatch, Becomes, HandlerFor, HandlerOfRequest
<1>2. r \in RequestType /\ Told(r, server) /\ r.at = "arrived" /\ r.version = server
  BY DEF Dispatch, RequestOK, CheckVersion
<1>3. Sound(h, r.proto = "rest", r.method) BY <1>2, SoundRequest
<1> HIDE DEF r, s, h
<1>4. \/ \E o \in {"Envelope", "dropped"} : r.raw /\ s = [r EXCEPT !.at = "answer", !.out = o]
      \/ \E x \in {"check", "before", "work"} : s = [r EXCEPT !.at = x]
  BY <1>1, <1>2, <1>3 DEF Sound, Told
<1>5. ASSUME NEW o \in {"Envelope", "dropped"}, r.raw, s = [r EXCEPT !.at = "answer", !.out = o]
      PROVE  Told(s, server) /\ Onward(s, r)
  <2>1. /\ SameCall(s, r) /\ s.at = "answer" /\ s.out = o /\ s.replied = r.replied /\ s.gone = r.gone
    BY <1>2, <1>5 DEF RequestType, SameCall
  <2> QED BY <1>2, <1>5, <2>1 DEF Told, Onward, SameCall
<1>6. ASSUME NEW x \in {"check", "before", "work"}, s = [r EXCEPT !.at = x]
      PROVE  Told(s, server) /\ Onward(s, r)
  <2>1. /\ SameCall(s, r) /\ s.at = x /\ s.out = r.out /\ s.replied = r.replied /\ s.gone = r.gone
    BY <1>2, <1>6 DEF RequestType, SameCall
  <2> QED BY <1>2, <2>1 DEF Told, Onward, SameCall
<1> QED BY <1>4, <1>5, <1>6 DEF r, s

LEMMA CheckTold ==
  ASSUME NEW a \in Requests, req \in [Requests -> RequestType], RequestOK(req[a]), Told(req[a], server),
         Check(a)
  PROVE  Told(req'[a], server) /\ Onward(req'[a], req[a])
<1> DEFINE r == req[a] s == req'[a] h == HandlerOfRequest(r)
<1>1. \/ \E x \in {"before", "work"} : s = [r EXCEPT !.at = x]
      \/ \E e \in h.checks : s = [r EXCEPT !.out = e, !.at = "close"]
  BY Zenon DEF Check, Becomes, HandlerFor, HandlerOfRequest
<1>2. r \in RequestType /\ Told(r, server) /\ r.at = "check" BY DEF Check, RequestOK
<1>3. h.checks \subseteq Errors BY <1>2, SoundRequest DEF Sound
<1> HIDE DEF r, s, h
<1>4. ASSUME NEW x \in {"before", "work"}, s = [r EXCEPT !.at = x]
      PROVE  Told(s, server) /\ Onward(s, r)
  <2>1. /\ SameCall(s, r) /\ s.at = x /\ s.out = r.out /\ s.replied = r.replied /\ s.gone = r.gone
    BY <1>2, <1>4 DEF RequestType, SameCall
  <2> QED BY <1>2, <2>1 DEF Told, Onward, SameCall
<1>5. ASSUME NEW e \in h.checks, s = [r EXCEPT !.out = e, !.at = "close"]
      PROVE  Told(s, server) /\ Onward(s, r)
  <2>1. e \notin {"none", "Envelope", "dropped", "Cancelled"} BY <1>3 DEF Errors
  <2>2. /\ SameCall(s, r) /\ s.at = "close" /\ s.out = e /\ s.replied = r.replied /\ s.gone = r.gone
    BY <1>2, <1>5 DEF RequestType, SameCall
  <2> QED BY <1>2, <2>1, <2>2 DEF Told, Onward, SameCall
<1> QED BY <1>1, <1>4, <1>5 DEF r, s

LEMMA BeforeTold ==
  ASSUME NEW a \in Requests, req \in [Requests -> RequestType], RequestOK(req[a]), Told(req[a], server),
         Before(a)
  PROVE  Told(req'[a], server) /\ Onward(req'[a], req[a])
<1> DEFINE r == req[a] s == req'[a]
<1>1. \/ \E x \in {"work", "check"} : s = [r EXCEPT !.at = x]
      \/ s = [r EXCEPT !.up = @ + 1]
      \/ s = [r EXCEPT !.out = "AuthRequired", !.at = "close"]
  BY Zenon DEF Before, BeforeFails, Becomes, HandlerFor
<1>2. r \in RequestType /\ Told(r, server) /\ r.at = "before" BY DEF Before, RequestOK
<1> HIDE DEF r, s
<1>3. ASSUME NEW x \in {"work", "check"}, s = [r EXCEPT !.at = x] PROVE Told(s, server) /\ Onward(s, r)
  <2>1. /\ SameCall(s, r) /\ s.at = x /\ s.out = r.out /\ s.replied = r.replied /\ s.gone = r.gone
    BY <1>2, <1>3 DEF RequestType, SameCall
  <2> QED BY <1>2, <2>1 DEF Told, Onward, SameCall
<1>4. ASSUME s = [r EXCEPT !.up = @ + 1] PROVE Told(s, server) /\ Onward(s, r)
  <2>1. /\ SameCall(s, r) /\ s.at = r.at /\ s.out = r.out /\ s.replied = r.replied /\ s.gone = r.gone
    BY <1>2, <1>4 DEF RequestType, SameCall
  <2> QED BY <1>2, <2>1 DEF Told, Onward, SameCall
<1>5. ASSUME s = [r EXCEPT !.out = "AuthRequired", !.at = "close"] PROVE Told(s, server) /\ Onward(s, r)
  <2>1. /\ SameCall(s, r) /\ s.at = "close" /\ s.out = "AuthRequired" /\ s.replied = r.replied
        /\ s.gone = r.gone
    BY <1>2, <1>5 DEF RequestType, SameCall
  <2> QED BY <1>2, <2>1 DEF Told, Onward, SameCall
<1> QED BY <1>1, <1>3, <1>4, <1>5 DEF r, s

LEMMA WorkTold ==
  ASSUME NEW a \in Requests, req \in [Requests -> RequestType], RequestOK(req[a]), Told(req[a], server),
         Work(a)
  PROVE  Told(req'[a], server) /\ Onward(req'[a], req[a])
<1> DEFINE r == req[a] s == req'[a] h == HandlerOfRequest(r) rest == r.proto = "rest"
           next(out) == CASE out = "result" /\ h.sse /\ ~(h.pipeline = "router" /\ ~rest) -> "respond"
                          [] out = "result" /\ ~h.sse /\ rest /\ h.pipeline = "router" -> "answer"
                          [] OTHER -> "close"
<1>1. PICK out \in h.raises \cup {"result"} : s = [r EXCEPT !.out = out, !.ran = {r.up}, !.at = next(out)]
  BY Zenon DEF Work, AfterWork, Becomes, HandlerFor, HandlerOfRequest, ClosesAfterReply, IsRest
<1>2. r \in RequestType /\ Told(r, server) /\ r.at = "work" BY DEF Work, RequestOK
<1>3. Sound(h, rest, r.method) BY <1>2, SoundRequest
<1>4. out \notin {"none", "Envelope", "dropped", "Cancelled"} BY <1>3 DEF Sound, Errors
<1> HIDE DEF r, s, h, next
<1>5. PICK x \in {"respond", "answer", "close"} : x = next(out) /\ (x = "respond" => h.sse)
  BY <1>3 DEF next, Sound
<1>6. s = [r EXCEPT !.out = out, !.ran = {r.up}, !.at = x] BY <1>1, <1>5
<1>7. SameCall(s, r) /\ s.at = x /\ s.out = out /\ s.replied = r.replied /\ s.gone = r.gone
  BY <1>2, <1>6 DEF RequestType, SameCall
<1>8. HandlerOfRequest(s) = h BY <1>7, SameHandler DEF h
<1>9. Told(s, server) /\ Onward(s, r) BY <1>2, <1>4, <1>5, <1>7, <1>8 DEF Told, Onward, SameCall
<1> QED BY <1>9 DEF r, s

LEMMA CancelledTold ==
  ASSUME NEW a \in Requests, req \in [Requests -> RequestType], RequestOK(req[a]), Told(req[a], server),
         Cancelled(a)
  PROVE  Told(req'[a], server) /\ Onward(req'[a], req[a])
<1> DEFINE r == req[a] s == req'[a]
<1>1. PICK l \in {"", "unstarted", "cancelled"}, x \in {"close", "done"}, ran \in {r.ran, {r.up}} :
        /\ r.at \in {"before", "work", "respond"}
        /\ Becomes(a, [r EXCEPT !.out = "Cancelled", !.lost = l, !.ran = ran, !.at = x])
  BY CancelledFields, Zenon
<1>0. s = [r EXCEPT !.out = "Cancelled", !.lost = l, !.ran = ran, !.at = x] BY <1>1 DEF Becomes
<1>2. r \in RequestType /\ Told(r, server) BY DEF RequestOK
<1> HIDE DEF r, s
<1>3. SameCall(s, r) /\ s.at = x /\ s.out = "Cancelled" /\ s.replied = r.replied /\ s.gone = r.gone
  BY <1>0, <1>2 DEF RequestType, SameCall
<1>4. Told(s, server) /\ Onward(s, r) BY <1>1, <1>2, <1>3 DEF Told, Onward, SameCall
<1> QED BY <1>4 DEF r, s

LEMMA ConversionTold ==
  ASSUME NEW a \in Requests, req \in [Requests -> RequestType], RequestOK(req[a]), Told(req[a], server),
         ConversionFails(a)
  PROVE  Told(req'[a], server) /\ Onward(req'[a], req[a])
<1> DEFINE r == req[a] s == req'[a]
<1>1. s = [r EXCEPT !.at = "answer", !.out = "Unexpected", !.lost = "conversion"]
  BY DEF ConversionFails, Becomes
<1>2. /\ r \in RequestType /\ Told(r, server) /\ r.at = "close"
      /\ r.proto = "rest" /\ r.version = "0.3" /\ r.method = "send"
  BY DEF ConversionFails, IsRest, RequestOK
<1> HIDE DEF r, s
<1>3. HandlerOfRequest(r).pipeline = "self" /\ ~HandlerOfRequest(r).sse
  BY <1>2, RestPipelines DEF HandlerOfRequest, HandlerOf, Rest, MessageSend, Handler
<1>4. SameCall(s, r) /\ s.at = "answer" /\ s.out = "Unexpected" /\ s.replied = r.replied /\ s.gone = r.gone
  BY <1>1, <1>2 DEF RequestType, SameCall
<1>5. ~r.replied BY <1>2, <1>3 DEF Told
<1>6. Told(s, server) /\ Onward(s, r) BY <1>2, <1>4, <1>5 DEF Told, Onward, SameCall
<1> QED BY <1>6 DEF r, s

LEMMA AfterTold ==
  ASSUME NEW a \in Requests, req \in [Requests -> RequestType], RequestOK(req[a]), Told(req[a], server),
         After(a)
  PROVE  Told(req'[a], server) /\ Onward(req'[a], req[a])
<1> DEFINE r == req[a] s == req'[a] h == HandlerOfRequest(r)
           settled == r.replied \/ r.out = "Cancelled"
           next == IF settled THEN "done"
                   ELSE IF r.out = "result" /\ h.sse THEN "respond" ELSE "answer"
           out == IF settled THEN r.out ELSE IF h.pipeline = "router" THEN "Crash" ELSE "Unexpected"
           at == IF settled THEN "done" ELSE "answer"
<1>1. \/ s = [r EXCEPT !.at = next]
      \/ s = [r EXCEPT !.closed = @ + 1]
      \/ s = [r EXCEPT !.lost = "raised", !.out = out, !.at = at]
  BY Zenon DEF After, Settled, Becomes, HandlerFor, HandlerOfRequest
<1>2. r \in RequestType /\ Piped(r) /\ Told(r, server) /\ r.at = "close" BY DEF After, RequestOK
<1> HIDE DEF r, s, h
<1>3. next = at /\ at \in {"done", "answer"} /\ (settled => at = "done") /\ (~settled => at = "answer")
  BY <1>2 DEF Piped, h
<1>4. (settled => out = r.out) /\ (~settled => out \in {"Crash", "Unexpected"}) OBVIOUS
<1>0. r.replied => settled OBVIOUS
<1> HIDE DEF next, out, at
<1>5. ASSUME NEW x \in {"done", "answer"}, settled => x = "done", s = [r EXCEPT !.at = x]
      PROVE  Told(s, server) /\ Onward(s, r)
  <2>1. SameCall(s, r) /\ s.at = x /\ s.out = r.out /\ s.replied = r.replied /\ s.gone = r.gone
    BY <1>2, <1>5 DEF RequestType, SameCall
  <2> QED BY <1>2, <1>5, <2>1 DEF Told, Onward, SameCall
<1>6. ASSUME s = [r EXCEPT !.closed = @ + 1] PROVE Told(s, server) /\ Onward(s, r)
  <2>1. SameCall(s, r) /\ s.at = r.at /\ s.out = r.out /\ s.replied = r.replied /\ s.gone = r.gone
    BY <1>2, <1>6 DEF RequestType, SameCall
  <2> QED BY <1>2, <2>1, SameHandler DEF Told, Onward, SameCall
<1>7. ASSUME NEW x \in {"done", "answer"}, settled => x = "done", NEW o,
             settled => o = r.out, ~settled => o \in {"Crash", "Unexpected"},
             s = [r EXCEPT !.lost = "raised", !.out = o, !.at = x]
      PROVE  Told(s, server) /\ Onward(s, r)
  <2>1. SameCall(s, r) /\ s.at = x /\ s.out = o /\ s.replied = r.replied /\ s.gone = r.gone
    BY <1>2, <1>7 DEF RequestType, SameCall
  <2> QED BY <1>2, <1>7, <2>1 DEF Told, Onward, SameCall
<1> QED BY <1>1, <1>3, <1>4, <1>5, <1>6, <1>7 DEF r, s

LEMMA AnswerTold ==
  ASSUME NEW a \in Requests, req \in [Requests -> RequestType], RequestOK(req[a]), Told(req[a], server),
         Answer(a)
  PROVE  Told(req'[a], server) /\ Onward(req'[a], req[a])
<1> DEFINE r == req[a] s == req'[a]
<1>1. s = [r EXCEPT !.replied = TRUE, !.at = IF Open(r) THEN "close" ELSE "done"]
  BY Zenon DEF Answer, Becomes, HandlerFor, HandlerOfRequest, ClosesAfterReply, IsRest, Open
<1>2. r \in RequestType /\ Told(r, server) /\ r.at = "answer" BY DEF Answer, RequestOK
<1> HIDE DEF r, s
<1>3. PICK x \in {"close", "done"} : s = [r EXCEPT !.replied = TRUE, !.at = x] /\ (x = "close" => Open(r))
  BY <1>1
<1>4. SameCall(s, r) /\ s.at = x /\ s.out = r.out /\ s.replied = TRUE /\ s.gone = r.gone
  BY <1>2, <1>3 DEF RequestType, SameCall
<1>5. HandlerOfRequest(s) = HandlerOfRequest(r) BY <1>4, SameHandler
<1>6. Told(s, server) /\ Onward(s, r) BY <1>2, <1>3, <1>4, <1>5 DEF Told, Onward, SameCall, Open
<1> QED BY <1>6 DEF r, s

LEMMA RespondTold ==
  ASSUME NEW a \in Requests, req \in [Requests -> RequestType], RequestOK(req[a]), Told(req[a], server),
         Respond(a)
  PROVE  Told(req'[a], server) /\ Onward(req'[a], req[a])
<1> DEFINE r == req[a] s == req'[a]
<1>1. s = [r EXCEPT !.at = "sse", !.replied = TRUE] BY DEF Respond, Becomes
<1>2. r \in RequestType /\ Told(r, server) /\ r.at = "respond" BY DEF Respond, RequestOK
<1> HIDE DEF r, s
<1>3. SameCall(s, r) /\ s.at = "sse" /\ s.out = r.out /\ s.replied = TRUE /\ s.gone = r.gone
  BY <1>1, <1>2 DEF RequestType, SameCall
<1>4. Told(s, server) /\ Onward(s, r) BY <1>2, <1>3, SameHandler DEF Told, Onward, SameCall
<1> QED BY <1>4 DEF r, s

LEMMA EmitTold ==
  ASSUME NEW a \in Requests, req \in [Requests -> RequestType], RequestOK(req[a]), Told(req[a], server),
         Emit(a)
  PROVE  Told(req'[a], server) /\ Onward(req'[a], req[a])
<1> DEFINE r == req[a] s == req'[a]
<1>1. s = [r EXCEPT !.events = @ + 1] \/ s = [r EXCEPT !.at = "close"] BY DEF Emit, Becomes
<1>2. r \in RequestType /\ Told(r, server) /\ r.at = "sse" BY DEF Emit, RequestOK
<1> HIDE DEF r, s
<1>3. SameCall(s, r) /\ s.at \in {"sse", "close"} /\ s.out = r.out /\ s.replied = r.replied /\ s.gone = r.gone
  <2>1. CASE s = [r EXCEPT !.events = @ + 1] BY <1>2, <2>1 DEF RequestType, SameCall
  <2>2. CASE s = [r EXCEPT !.at = "close"] BY <1>2, <2>2 DEF RequestType, SameCall
  <2> QED BY <1>1, <2>1, <2>2
<1>4. Told(s, server) /\ Onward(s, r) BY <1>2, <1>3, SameHandler DEF Told, Onward, SameCall
<1> QED BY <1>4 DEF r, s

LEMMA ServeTold ==
  ASSUME NEW a \in Requests, req \in [Requests -> RequestType], RequestOK(req[a]), Told(req[a], server),
         Serve(a)
  PROVE  Told(req'[a], server) /\ Onward(req'[a], req[a])
BY RefuseTold, DispatchTold, CheckTold, BeforeTold, WorkTold, CancelledTold, ConversionTold, AfterTold, AnswerTold,
   RespondTold, EmitTold DEF Serve

Left(s, r, v) == Told(s, v) /\ SameCall(s, r) /\ s.at = r.at /\ s.gone

LEMMA LeaveTold ==
  ASSUME NEW r \in RequestType, NEW v, Told(r, v), NEW s, s = [r EXCEPT !.gone = TRUE]
  PROVE  Left(s, r, v)
<1>1. SameCall(s, r) /\ s.at = r.at /\ s.out = r.out /\ s.replied = r.replied /\ s.gone = TRUE
  BY DEF RequestType, SameCall
<1> QED BY <1>1, SameHandler DEF Told, SameCall, Left

LEMMA ArrivedTold ==
  ASSUME NEW r, NEW v, NEW c, ArrivesAs(r, c.proto, c.version, c.method, c.quiet, c.raw),
         c.quiet => c.raw
  PROVE  Told(r, v)
<1>1. r.at = "arrived" /\ ~r.replied /\ (r.quiet => r.raw) /\ r.out = "none" BY Zenon DEF ArrivesAs
<1> QED BY <1>1 DEF Told

TypedErrors == {"TaskNotFoundError", "TaskTerminalError", "TaskNotCancelableError"}

\* AgreeInv but for CallInv.
AgreeParts ==
  /\ server \in Supported /\ (client.quiet => client.raw)
  /\ \A a \in Requests : Told(req[a], server)
  /\ Attempts /\ Learned

LEMMA AgreePartsOf == (AgreeInv <=> CallInv /\ AgreeParts) BY DEF AgreeInv, AgreeParts

\* A step before the call: there are no requests yet.
LEMMA QuietStep ==
  ASSUME AgreeInv, client.at \in {"new", "trying", "connected"}, UNCHANGED req, server' \in Supported,
         client'.attempt = client.attempt, client'.quiet => client'.raw,
         client'.at = "done" => client'.result \notin TypedErrors
  PROVE  AgreeParts'
<1>1. \A a \in Requests : req[a].at = "none" BY DEF AgreeInv, Attempts
<1>2. client.attempt \in Requests BY DEF AgreeInv, Attempts
<1>3. Attempts' BY <1>1, <1>2 DEF Attempts
<1>4. Learned' BY <1>1, <1>2 DEF Learned, TypedErrors
<1>5. ASSUME NEW a \in Requests PROVE Told(req[a], server')
  <2>1. Told(req[a], server) BY DEF AgreeInv
  <2> QED BY <1>1, <2>1 DEF Told
<1>6. \A a \in Requests : Told(req[a], server)' BY <1>5
<1> QED BY <1>3, <1>4, <1>6 DEF AgreeParts

LEMMA EndsFields ==
  ASSUME NEW c \in ClientType, NEW x, NEW d, d = Ends(c, x)
  PROVE  /\ d.at = "done" /\ d.result = x /\ d.attempt = c.attempt /\ d.raw = c.raw /\ d.quiet = c.quiet
         /\ d.proto = c.proto /\ d.version = c.version /\ d.method = c.method
BY DEF Ends, ClientType

LEMMA AtFields ==
  ASSUME NEW c \in ClientType, NEW x, NEW d, d = [c EXCEPT !.at = x]
  PROVE  /\ d.at = x /\ d.attempt = c.attempt /\ d.raw = c.raw /\ d.quiet = c.quiet
         /\ d.proto = c.proto /\ d.version = c.version /\ d.method = c.method
BY DEF ClientType

LEMMA FetchCardAgrees == ASSUME AgreeInv, FetchCard PROVE AgreeParts'
<1>0. client \in ClientType /\ client.at = "new" /\ (client.quiet => client.raw)
  BY DEF AgreeInv, CallInv, FetchCard
<1>1. \/ \E x \in {"AgentNotFoundError", "ProtocolVersionMismatchError"} : client' = Ends(client, x)
      \/ client' = [client EXCEPT !.at = "trying"]
  BY Zenon DEF FetchCard, ClientDoes
<1>2. UNCHANGED req /\ server' \in Supported BY DEF FetchCard, frontVars, AgreeInv
<1>3. ASSUME NEW x \in {"AgentNotFoundError", "ProtocolVersionMismatchError"}, client' = Ends(client, x)
      PROVE  AgreeParts'
  BY <1>0, <1>2, <1>3, EndsFields, QuietStep DEF TypedErrors
<1>4. ASSUME client' = [client EXCEPT !.at = "trying"] PROVE AgreeParts'
  BY <1>0, <1>2, <1>4, AtFields, QuietStep
<1> QED BY <1>1, <1>3, <1>4

LEMMA TryCandidateAgrees == ASSUME AgreeInv, TryCandidate PROVE AgreeParts'
<1>0. client \in ClientType /\ client.at = "trying" /\ (client.quiet => client.raw)
  BY DEF AgreeInv, CallInv, TryCandidate
<1>1. \/ client' = Ends(client, "AgentNotFoundError")
      \/ client' = [client EXCEPT !.i = @ + 1]
      \/ \E u, p, v : client' = [client EXCEPT !.at = "connected", !.url = u, !.proto = p, !.version = v]
  BY Zenon DEF TryCandidate, ClientDoes
<1>2. UNCHANGED req /\ server' \in Supported BY DEF TryCandidate, frontVars, AgreeInv
<1>3. CASE client' = Ends(client, "AgentNotFoundError")
  BY <1>0, <1>2, <1>3, EndsFields, QuietStep DEF TypedErrors
<1>4. CASE client' = [client EXCEPT !.i = @ + 1]
  <2>1. /\ client'.at = "trying" /\ client'.attempt = client.attempt
        /\ client'.raw = client.raw /\ client'.quiet = client.quiet
    BY <1>0, <1>4 DEF ClientType
  <2> QED BY <1>0, <1>2, <2>1, QuietStep
<1>5. ASSUME NEW u, NEW p, NEW v,
             client' = [client EXCEPT !.at = "connected", !.url = u, !.proto = p, !.version = v]
      PROVE  AgreeParts'
  <2>1. /\ client'.at = "connected" /\ client'.attempt = client.attempt
        /\ client'.raw = client.raw /\ client'.quiet = client.quiet
    BY <1>0, <1>5 DEF ClientType
  <2> QED BY <1>0, <1>2, <2>1, QuietStep
<1> QED BY <1>1, <1>3, <1>4, <1>5

LEMMA StartCallAgrees == ASSUME AgreeInv, StartCall PROVE AgreeParts'
<1>0. client \in ClientType /\ client.at = "connected" /\ (client.quiet => client.raw)
  BY DEF AgreeInv, CallInv, StartCall
<1>1. \E m \in Methods :
        \/ client' = [client EXCEPT !.at = "calling", !.method = m]
        \/ client' = Ends([client EXCEPT !.method = m], "AgentCapabilityError")
        \/ \E quiet \in BOOLEAN :
             client' = [client EXCEPT !.at = "calling", !.method = m, !.raw = TRUE, !.quiet = quiet]
  BY Zenon DEF StartCall, ClientDoes
<1>2. UNCHANGED req /\ server' \in Supported BY DEF StartCall, frontVars, AgreeInv
<1>3. ASSUME NEW m \in Methods, client' = [client EXCEPT !.at = "calling", !.method = m]
      PROVE  AgreeParts'
  <2>1. /\ client'.at = "calling" /\ client'.attempt = client.attempt
        /\ client'.raw = client.raw /\ client'.quiet = client.quiet
    BY <1>0, <1>3 DEF ClientType
  <2> QED BY <1>0, <1>2, <2>1, QuietStep
<1>4. ASSUME NEW m \in Methods, client' = Ends([client EXCEPT !.method = m], "AgentCapabilityError")
      PROVE  AgreeParts'
  <2>1. /\ client'.result = "AgentCapabilityError" /\ client'.attempt = client.attempt
        /\ client'.raw = client.raw /\ client'.quiet = client.quiet
    BY <1>0, <1>4 DEF ClientType, Ends
  <2> QED BY <1>0, <1>2, <2>1, QuietStep DEF TypedErrors
<1>5. ASSUME NEW m \in Methods, NEW quiet \in BOOLEAN,
             client' = [client EXCEPT !.at = "calling", !.method = m, !.raw = TRUE, !.quiet = quiet]
      PROVE  AgreeParts'
  <2>1. /\ client'.at = "calling" /\ client'.attempt = client.attempt /\ client'.raw = TRUE
    BY <1>0, <1>5 DEF ClientType
  <2> QED BY <1>0, <1>2, <2>1, QuietStep, Zenon
<1> QED BY <1>1, <1>3, <1>4, <1>5, Zenon

LEMMA RedeployAgrees == ASSUME AgreeInv, Redeploy PROVE AgreeParts'
<1>1. UNCHANGED <<req, client>> /\ client.at = "connected" BY DEF Redeploy
<1>2. server' \in Supported BY DEF Redeploy, Supported
<1>3. client.quiet => client.raw BY DEF AgreeInv
<1> QED BY <1>1, <1>2, <1>3, QuietStep

\* The connection of an attempt fails, before the request or after it.
LEMMA NetworkStep ==
  ASSUME AgreeInv, NEW b, client' = NetworkError(b), client.at \in {"calling", "waiting"}, UNCHANGED server,
         \A a \in Requests : SameCall(req'[a], req[a]) /\ req'[a].at = req[a].at,
         client.at = "calling" => UNCHANGED req,
         client.at = "waiting" => req'[client.attempt].gone
  PROVE  Attempts' /\ Learned' /\ (client'.quiet => client'.raw)
<1>0. client \in ClientType /\ client.attempt \in Requests /\ (client.quiet => client.raw)
  BY DEF AgreeInv, CallInv, Attempts
<1>1. \/ \E x \in {"ProtocolError", "httpx"} : client' = Ends(client, x)
      \/ client.attempt <= MaxRetries /\ client' = [client EXCEPT !.at = "calling", !.attempt = @ + 1]
  BY Zenon DEF NetworkError, MayRetry
<1>2. \A a \in Requests : req'[a].at # "none" =>
        req'[a].version = client.version /\ req'[a].raw = client.raw /\ a <= client.attempt
  BY DEF AgreeInv, Attempts, SameCall
<1>3. ASSUME NEW x \in {"ProtocolError", "httpx"}, client' = Ends(client, x)
      PROVE  Attempts' /\ Learned' /\ (client'.quiet => client'.raw)
  <2>1. /\ client'.at = "done" /\ client'.result = x /\ client'.attempt = client.attempt
        /\ client'.raw = client.raw /\ client'.quiet = client.quiet /\ client'.version = client.version
    BY <1>0, <1>3, EndsFields
  <2>2. Attempts' BY <1>0, <1>2, <2>1 DEF Attempts
  <2>3. client.at = "calling" => req'[client.attempt].at = "none"
    <3>1. client.attempt \in Nat BY <1>0 DEF ClientType
    <3> QED BY <1>0, <3>1 DEF AgreeInv, Attempts
  <2>4. Learned' BY <1>0, <2>1, <2>3 DEF Learned
  <2> QED BY <1>0, <2>1, <2>2, <2>4
<1>4. ASSUME client.attempt <= MaxRetries, client' = [client EXCEPT !.at = "calling", !.attempt = @ + 1]
      PROVE  Attempts' /\ Learned' /\ (client'.quiet => client'.raw)
  <2>1. client.attempt \in Nat /\ client.attempt >= 1 /\ MaxRetries \in Nat /\ Requests = 1..MaxRetries + 1
    BY <1>0, RequestsAssumption DEF ClientType
  <2>2. /\ client'.at = "calling" /\ client'.attempt = client.attempt + 1
        /\ client'.raw = client.raw /\ client'.quiet = client.quiet /\ client'.version = client.version
    BY <1>0, <1>4 DEF ClientType
  <2>3. client'.attempt \in Requests BY <1>4, <2>1, <2>2
  <2>4. \A a \in Requests : a <= client.attempt => a < client'.attempt /\ a <= client'.attempt
    BY <2>1, <2>2
  <2>5. Attempts' BY <1>2, <2>2, <2>3, <2>4 DEF Attempts
  <2>6. Learned' BY <2>2 DEF Learned
  <2> QED BY <1>0, <2>2, <2>5, <2>6
<1> QED BY <1>1, <1>3, <1>4

LEMMA PostAgrees == ASSUME AgreeInv, Post PROVE AgreeParts'
<1> DEFINE a == client.attempt
           r == [NoRequest EXCEPT !.at = "arrived", !.url = client.url, !.proto = client.proto,
                   !.version = client.version, !.method = client.method, !.quiet = client.quiet, !.raw = client.raw, !.key = BuildParams(a)]
<1>0. /\ client \in ClientType /\ client.at = "calling" /\ a \in Requests /\ (client.quiet => client.raw)
      /\ req \in [Requests -> RequestType] /\ server \in Supported
  BY DEF AgreeInv, CallInv, Post, Attempts
<1>1. UNCHANGED server BY DEF Post, SaysNothing
<1>2. \/ client' = [client EXCEPT !.at = "waiting"] /\ req' = [req EXCEPT ![a] = r]
      \/ client' = NetworkError(TRUE) /\ UNCHANGED req
  BY Zenon DEF Post, ClientDoes, Becomes
<1>3. ArrivesAs(r, client.proto, client.version, client.method, client.quiet, client.raw)
  BY <1>0, FreshRequest, Zenon
<1>4. Told(r, server) BY <1>0, <1>3, ArrivedTold, Zenon
<1>5. r.at # "none" /\ r.version = client.version /\ r.raw = client.raw BY <1>3, Zenon DEF ArrivesAs
<1> HIDE DEF r
<1>6. ASSUME client' = [client EXCEPT !.at = "waiting"], req' = [req EXCEPT ![a] = r]
      PROVE  AgreeParts'
  <2>1. /\ client'.at = "waiting" /\ client'.attempt = client.attempt
        /\ client'.raw = client.raw /\ client'.quiet = client.quiet /\ client'.version = client.version
    BY <1>0, <1>6, AtFields
  <2>2. \A b \in Requests : Told(req'[b], server) BY <1>0, <1>4, <1>6 DEF AgreeInv
  <2>3. ASSUME NEW b \in Requests, req'[b].at # "none"
        PROVE  req'[b].version = client.version /\ req'[b].raw = client.raw /\ b <= client.attempt
    <3>1. CASE b = a
      <4>1. client.attempt \in Nat BY <1>0 DEF ClientType
      <4> QED BY <1>0, <1>5, <1>6, <3>1, <4>1
    <3>2. CASE b # a BY <1>0, <1>6, <2>3, <3>2 DEF AgreeInv, Attempts
    <3> QED BY <3>1, <3>2
  <2>4. Attempts' BY <1>0, <2>1, <2>3 DEF Attempts
  <2>5. Learned' BY <2>1 DEF Learned
  <2> QED BY <1>0, <1>1, <2>1, <2>2, <2>4, <2>5 DEF AgreeParts
<1>7. ASSUME client' = NetworkError(TRUE), UNCHANGED req PROVE AgreeParts'
  <2>1. \A b \in Requests : SameCall(req'[b], req[b]) /\ req'[b].at = req[b].at BY <1>7 DEF SameCall
  <2>2. Attempts' /\ Learned' /\ (client'.quiet => client'.raw) BY <1>0, <1>1, <1>7, <2>1, NetworkStep
  <2>3. \A b \in Requests : Told(req'[b], server) BY <1>7 DEF AgreeInv
  <2> QED BY <1>0, <1>1, <2>2, <2>3 DEF AgreeParts
<1> QED BY <1>2, <1>6, <1>7

\* The client leaves the request of its attempt.
LEMMA LeaveAgrees ==
  ASSUME AgreeInv, Becomes(client.attempt, [req[client.attempt] EXCEPT !.gone = TRUE])
  PROVE  /\ \A b \in Requests : Told(req'[b], server) /\ SameCall(req'[b], req[b]) /\ req'[b].at = req[b].at
         /\ req'[client.attempt].gone
<1>0. client.attempt \in Requests /\ req \in [Requests -> RequestType] BY DEF AgreeInv, CallInv, Attempts
<1>1. PICK a, s : /\ a \in Requests /\ a = client.attempt /\ s = [req[a] EXCEPT !.gone = TRUE]
                   /\ req' = [req EXCEPT ![a] = s]
  BY <1>0, Zenon DEF Becomes
<1>2. Told(s, server) /\ SameCall(s, req[a]) /\ s.at = req[a].at /\ s.gone
  <2>1. Told(req[a], server) /\ req[a] \in RequestType BY <1>0, <1>1 DEF AgreeInv
  <2>2. Left(s, req[a], server) BY <1>1, <2>1, LeaveTold, Zenon
  <2> QED BY <2>2, Zenon DEF Left
<1>3. req'[a] = s /\ \A b \in Requests \ {a} : req'[b] = req[b] BY <1>0, <1>1
<1>4. \A b \in Requests : SameCall(req[b], req[b]) BY DEF SameCall
<1> QED BY <1>1, <1>2, <1>3, <1>4 DEF AgreeInv

LEMMA StopWaitingAgrees == ASSUME AgreeInv, StopWaiting PROVE AgreeParts'
<1>0. client.at = "waiting" /\ server \in Supported BY DEF StopWaiting, AgreeInv
<1>1. UNCHANGED server BY DEF StopWaiting, SaysNothing
<1>2. PICK b \in BOOLEAN : client' = NetworkError(b) BY Zenon DEF StopWaiting, ClientDoes
<1>3. /\ \A c \in Requests : Told(req'[c], server) /\ SameCall(req'[c], req[c]) /\ req'[c].at = req[c].at
      /\ req'[client.attempt].gone
  BY LeaveAgrees, Zenon DEF StopWaiting
<1>4. Attempts' /\ Learned' /\ (client'.quiet => client'.raw) BY <1>0, <1>1, <1>2, <1>3, NetworkStep
<1> QED BY <1>0, <1>1, <1>3, <1>4 DEF AgreeParts

LEMMA StopReadingAgrees == ASSUME AgreeInv, StopReading PROVE AgreeParts'
<1>0. /\ client \in ClientType /\ client.at = "reading" /\ server \in Supported
      /\ client.attempt \in Requests /\ (client.quiet => client.raw)
  BY DEF StopReading, AgreeInv, CallInv, Attempts
<1>1. UNCHANGED server BY DEF StopReading, SaysNothing
<1>2. client' = Ends(client, "result") BY DEF StopReading, ClientDoes
<1>3. /\ \A c \in Requests : Told(req'[c], server) /\ SameCall(req'[c], req[c]) /\ req'[c].at = req[c].at
      /\ req'[client.attempt].gone
  BY LeaveAgrees, Zenon DEF StopReading
<1>4. /\ client'.at = "done" /\ client'.result = "result" /\ client'.attempt = client.attempt
      /\ client'.raw = client.raw /\ client'.quiet = client.quiet /\ client'.version = client.version
  BY <1>0, <1>2, EndsFields
<1>5. Attempts' BY <1>0, <1>3, <1>4 DEF AgreeInv, Attempts, SameCall
<1>6. Learned' BY <1>3, <1>4 DEF Learned
<1> QED BY <1>0, <1>1, <1>3, <1>4, <1>5, <1>6 DEF AgreeParts

LEMMA ReceiveReplyAgrees == ASSUME AgreeInv, ReceiveReply PROVE AgreeParts'
<1> DEFINE a == client.attempt
<1>0. /\ client \in ClientType /\ client.at = "waiting" /\ req[a].replied /\ server \in Supported
      /\ (client.quiet => client.raw) /\ Attempts
  BY DEF ReceiveReply, AgreeInv, CallInv
<1>1. UNCHANGED <<req, server>> BY DEF ReceiveReply, frontVars
<1>2. \/ client.raw /\ client' = Ends(client, "raw")
      \/ client' = [client EXCEPT !.at = "reading"]
      \/ client' = Ends(client, Reported(client, server, req[a].out))
  BY Zenon DEF ReceiveReply, ClientDoes, Reported
<1>3. \A b \in Requests : Told(req'[b], server) BY <1>1 DEF AgreeInv
<1>4. ASSUME NEW x, client' = Ends(client, x), ~client.raw => x = Reported(client, server, req[a].out)
      PROVE  AgreeParts'
  <2>1. /\ client'.at = "done" /\ client'.result = x /\ client'.attempt = client.attempt
        /\ client'.raw = client.raw /\ client'.quiet = client.quiet /\ client'.version = client.version
        /\ client'.proto = client.proto /\ client'.method = client.method
    BY <1>0, <1>4, EndsFields
  <2>2. Attempts' BY <1>0, <1>1, <2>1 DEF Attempts
  <2>3. Reported(client', server, req[a].out) = Reported(client, server, req[a].out)
    BY <2>1, Zenon DEF Reported
  <2>4. Learned' BY <1>0, <1>1, <1>4, <2>1, <2>3 DEF Learned
  <2> QED BY <1>0, <1>1, <1>3, <2>1, <2>2, <2>4 DEF AgreeParts
<1>5. ASSUME client' = [client EXCEPT !.at = "reading"] PROVE AgreeParts'
  <2>1. /\ client'.at = "reading" /\ client'.attempt = client.attempt
        /\ client'.raw = client.raw /\ client'.quiet = client.quiet /\ client'.version = client.version
    BY <1>0, <1>5, AtFields
  <2>2. Attempts' BY <1>0, <1>1, <2>1 DEF Attempts
  <2>3. Learned' BY <2>1 DEF Learned
  <2> QED BY <1>0, <1>1, <1>3, <2>1, <2>2, <2>3 DEF AgreeParts
<1> QED BY <1>2, <1>4, <1>5

LEMMA ServeAgrees == ASSUME AgreeInv, NEW a \in Requests, Serve(a), UNCHANGED clientVars PROVE AgreeParts'
<1>0. /\ req \in [Requests -> RequestType] /\ RequestOK(req[a]) /\ Told(req[a], server) /\ server \in Supported
      /\ (client.quiet => client.raw) /\ client.attempt \in Requests
  BY DEF AgreeInv, CallInv, RequestOK, Attempts
<1>1. Told(req'[a], server) /\ Onward(req'[a], req[a]) BY <1>0, ServeTold
<1>2. req' = [req EXCEPT ![a] = req'[a]] /\ UNCHANGED server BY <1>0, ServeOthers
<1>3. UNCHANGED client BY DEF clientVars
<1>4. \A b \in Requests \ {a} : req'[b] = req[b] BY <1>0, <1>2
<1>5. \A b \in Requests : Told(req'[b], server) BY <1>1, <1>4 DEF AgreeInv
<1>6. Attempts' BY <1>1, <1>3, <1>4 DEF AgreeInv, Attempts, Onward, SameCall
<1>7. Learned'
  <2>1. CASE client.attempt = a BY <1>1, <1>2, <1>3, <2>1 DEF AgreeInv, Learned, Onward
  <2>2. CASE client.attempt # a BY <1>0, <1>2, <1>3, <1>4, <2>2 DEF AgreeInv, Learned
  <2> QED BY <2>1, <2>2
<1> QED BY <1>0, <1>2, <1>3, <1>5, <1>6, <1>7 DEF AgreeParts

LEMMA InitAgrees == Init => AgreeInv
<1> SUFFICES ASSUME Init PROVE AgreeInv OBVIOUS
<1>1. CallInv BY InitCall
<1>2. server \in Supported BY CandidatesAssumption DEF Init, FrontInit
<1>3. client.at = "new" /\ client.attempt = 1 /\ client.quiet = FALSE BY DEF Init, Idle
<1>4. req = [a \in Requests |-> NoRequest] BY DEF Init, FrontInit
<1>5. /\ NoRequest.at = "none" /\ NoRequest.replied = FALSE /\ NoRequest.quiet = FALSE
      /\ NoRequest.out = "none"
  BY DEF NoRequest
<1>6. Told(NoRequest, server) BY <1>5 DEF Told
<1>7. \A a \in Requests : Told(req[a], server) /\ req[a].at = "none" BY <1>4, <1>5, <1>6
<1>8. 1 \in Requests BY RequestsAssumption
<1>9. Attempts BY <1>3, <1>7, <1>8 DEF Attempts
<1>10. Learned BY <1>3 DEF Learned
<1> QED BY <1>1, <1>2, <1>3, <1>7, <1>9, <1>10 DEF AgreeInv

\* What a client is told of its attempts is what the server decided.
THEOREM AgreeInvariant == Spec => []AgreeInv
<1>1. AgreeInv /\ [Next]_vars => AgreeInv'
  <2> SUFFICES ASSUME AgreeInv, [Next]_vars PROVE AgreeInv' OBVIOUS
  <2>0. CallInv BY DEF AgreeInv
  <2>1. CASE Next
    <3>1. CallInv'
      BY <2>0, <2>1, FetchCardCall, TryCandidateCall, PostCall, StopWaitingCall, ReceiveReplyCall,
         StopReadingCall, StartCallCall, RedeployCall, ServeCall DEF Next, ClientStep
    <3>2. AgreeParts'
      BY <2>1, FetchCardAgrees, TryCandidateAgrees, PostAgrees, StopWaitingAgrees, ReceiveReplyAgrees,
         StopReadingAgrees, StartCallAgrees, RedeployAgrees, ServeAgrees DEF Next, ClientStep
    <3> QED BY <3>1, <3>2 DEF AgreeInv, AgreeParts
  <2>2. CASE UNCHANGED vars
    <3>1. UNCHANGED <<server, req, tasks, enqueued, card, prefer, net, client>> BY <2>2 DEF vars, frontVars, clientVars
    <3>2. \A n : Passed(n)' = Passed(n) BY <3>1, SamePassed
    <3>3. Connects' BY <2>0, <3>1, <3>2 DEF CallInv, Connects
    <3>4. CallInv' BY <2>0, <3>1, <3>3 DEF CallInv, OneTask
    <3> QED BY <3>1, <3>4 DEF AgreeInv, Attempts, Learned
  <2> QED BY <2>1, <2>2
<1> QED BY <1>1, InitAgrees, PTL DEF Spec

\* A refusal for the version reads the same to clients of both versions.
LEMMA RefusalAgrees ==
  ASSUME NEW p \in Protos, NEW cv \in Supported, NEW v \in Supported, NEW sse, NEW out \in {"NoRoute", "Version"},
         NEW x, x = Raised(p, cv, sse, Wire(p, v, out))
  PROVE  Agrees(x, out, NotFoundAliases(p, v), TerminalAliases(p, v))
<1>0. PICK r : r = Wire(p, v, out) OBVIOUS
<1>1. out = "NoRoute" => r.status = 404 /\ r.reason = "none" /\ r.text = "none"
  BY <1>0 DEF Wire, FrameworkErrors, Http, Reply
<1>2. out = "Version" => r.status = 400 /\ r.text = "version" /\ r.reason = "none"
  <2>1. CASE v = "0.3"
    BY <1>0, <2>1 DEF Wire, ExceptionHandlers, HttpErrors, FrameworkErrors, Http, Reply, RejectsVersion
  <2>2. CASE v = "1.0"
    BY <1>0, <2>2
    DEF Wire, BuildError, ERROR_CATALOG, HttpErrorsV10, OnHttp, FrameworkErrors, Http, Reply, RejectsVersion
  <2> QED BY <2>1, <2>2 DEF Supported
<1>3. r.status # 200 BY <1>1, <1>2
<1>4. r # Success BY <1>3, NotSuccess
<1>5. x = IF p = "rest" THEN IF cv = "0.3" THEN CheckError(r) ELSE CheckErrorV10(r) ELSE HttpFailure(r, sse)
  BY <1>0, <1>3, <1>4 DEF Raised
<1>6. CASE out = "NoRoute"
  <2>1. x = IF p = "rest" THEN "TaskNotFoundError" ELSE "ProtocolError"
    BY <1>1, <1>5, <1>6 DEF CheckError, CheckErrorV10, HttpFailure
  <2> QED BY <1>6, <2>1 DEF Agrees, NotFoundAliases
<1>7. CASE out = "Version"
  <2>1. x \in {"ProtocolVersionMismatchError", "ProtocolError"}
    BY <1>2, <1>5, <1>7 DEF CheckError, CheckErrorV10, HttpFailure
  <2> QED BY <1>7, <2>1 DEF Agrees
<1> QED BY <1>6, <1>7

LEMMA ReportedAgrees ==
  ASSUME NEW c \in ClientType, NEW v \in Supported, NEW out \in Answers,
         c.version = v \/ out \in {"NoRoute", "Version"}
  PROVE  Agrees(Reported(c, v, out), out, NotFoundAliases(c.proto, v), TerminalAliases(c.proto, v))
<1>1. PICK p, cv, sse, x :
        /\ p \in Protos /\ cv \in Supported /\ p = c.proto /\ cv = c.version
        /\ x = Raised(p, cv, sse, Wire(p, v, out)) /\ x = Reported(c, v, out)
  <2>1. c.proto \in Protos /\ c.version \in Supported BY DEF ClientType
  <2> QED BY <2>1, Zenon DEF Reported
<1>2. CASE out \in {"NoRoute", "Version"} BY <1>1, <1>2, RefusalAgrees
<1>3. CASE cv = v /\ p = "rest" /\ v = "0.3"
  <2>1. Agrees(x, out, {"NoRoute", "PushConfigNotFound", "NoCard"}, {"Concurrency"})
    BY <1>1, <1>3, RestAgrees
  <2> QED BY <1>1, <1>3, <2>1 DEF Agrees, NotFoundAliases, TerminalAliases
<1>4. CASE cv = v /\ p = "rest" /\ v = "1.0"
  <2>1. Agrees(x, out, {"NoRoute"}, {}) BY <1>1, <1>4, RestV10Agrees
  <2> QED BY <1>1, <1>4, <2>1 DEF Agrees, NotFoundAliases, TerminalAliases
<1>5. CASE cv = v /\ p = "rpc" /\ v = "0.3"
  <2>1. Agrees(x, out, {"PushConfigNotFound"}, {"Concurrency", "UnsupportedOperation"})
    BY <1>1, <1>5, RpcAgrees
  <2> QED BY <1>1, <1>5, <2>1 DEF Agrees, NotFoundAliases, TerminalAliases
<1>6. CASE cv = v /\ p = "rpc" /\ v = "1.0"
  <2>1. Agrees(x, out, {}, {}) BY <1>1, <1>6, RpcV10Agrees
  <2> QED BY <1>1, <1>6, <2>1 DEF Agrees, NotFoundAliases, TerminalAliases
<1> QED BY <1>1, <1>2, <1>3, <1>4, <1>5, <1>6 DEF Protos, Supported

\* An unknown, a finished and an uncancelable task raise their own exception
\* at the caller, on every binding and version, and nothing else does but the
\* aliases listed.
THEOREM CallersLearnErrors == Spec => []ErrorsAgree
<1>1. AgreeInv => ErrorsAgree
  <2> SUFFICES ASSUME AgreeInv, client.at = "done", ~client.raw, client.result # "httpx"
               PROVE  LET out == req[client.attempt].out IN
                      /\ client.result \in DOMAIN Typed =>
                           out \in {Typed[client.result]} \cup KnownAliases[client.result]
                      /\ \A x \in DOMAIN Typed :
                           req[client.attempt].replied /\ ~req[client.attempt].gone /\ out = Typed[x] =>
                             client.result = x
    BY Zenon DEF ErrorsAgree
  <2> DEFINE r == req[client.attempt]
  <2>1. /\ DOMAIN Typed = TypedErrors /\ Typed["TaskNotFoundError"] = "TaskNotFound"
        /\ Typed["TaskTerminalError"] = "TaskTerminalState"
        /\ Typed["TaskNotCancelableError"] = "TaskNotCancelable"
    BY DEF Typed, TypedErrors
  <2>2. /\ KnownAliases["TaskTerminalError"] = TerminalAliases(client.proto, server)
        /\ KnownAliases["TaskNotFoundError"] = NotFoundAliases(client.proto, server)
    BY DEF KnownAliases, TerminalAliases, NotFoundAliases, AgreeInv, Supported
  <2>3. CASE client.result \notin TypedErrors /\ (r.at = "none" \/ r.gone)
    <3>1. r.at = "none" => ~r.replied BY DEF AgreeInv, Attempts, Told
    <3> QED BY <2>1, <2>3, <3>1
  <2>4. CASE r.replied /\ client.result = Reported(client, server, r.out)
    <3>0. client \in ClientType /\ server \in Supported /\ client.attempt \in Requests
      BY DEF AgreeInv, CallInv, Attempts
    <3>1. r \in RequestType /\ Told(r, server) BY <3>0 DEF AgreeInv, CallInv
    <3>2. r.at # "none" BY <2>4, <3>1 DEF Told
    <3>3. r.version = client.version /\ ~r.raw BY <3>0, <3>2 DEF AgreeInv, Attempts
    <3>4. r.out \in Answers BY <2>4, <3>1, <3>3 DEF Told, RequestType, Answers
    <3>5. client.version = server \/ r.out \in {"NoRoute", "Version"} BY <2>4, <3>1, <3>3 DEF Told
    <3>6. Agrees(client.result, r.out, NotFoundAliases(client.proto, server), TerminalAliases(client.proto, server))
      BY <2>4, <3>0, <3>4, <3>5, ReportedAgrees
    <3> HIDE DEF r
    <3>7. client.result \in TypedErrors => r.out \in {Typed[client.result]} \cup KnownAliases[client.result]
      <4>1. CASE client.result = "TaskNotFoundError"
        <5>1. r.out \in {Typed["TaskNotFoundError"]} \cup KnownAliases["TaskNotFoundError"]
          BY <2>1, <2>2, <3>6, <4>1 DEF Agrees
        <5> QED BY <4>1, <5>1, Zenon
      <4>2. CASE client.result = "TaskTerminalError"
        <5>1. r.out \in {Typed["TaskTerminalError"]} \cup KnownAliases["TaskTerminalError"]
          BY <2>1, <2>2, <3>6, <4>2 DEF Agrees
        <5> QED BY <4>2, <5>1, Zenon
      <4>3. CASE client.result = "TaskNotCancelableError"
        <5>1. r.out \in {Typed["TaskNotCancelableError"]} BY <2>1, <3>6, <4>3 DEF Agrees
        <5> QED BY <4>3, <5>1, Zenon
      <4> QED BY <4>1, <4>2, <4>3 DEF TypedErrors
    <3>8. ASSUME NEW x \in TypedErrors, r.out = Typed[x] PROVE client.result = x
      <4>1. CASE x = "TaskNotFoundError"
        <5>1. r.out = "TaskNotFound" BY <2>1, <3>8, <4>1, Zenon
        <5> QED BY <3>6, <4>1, <5>1 DEF Agrees
      <4>2. CASE x = "TaskTerminalError"
        <5>1. r.out = "TaskTerminalState" BY <2>1, <3>8, <4>2, Zenon
        <5> QED BY <3>6, <4>2, <5>1 DEF Agrees
      <4>3. CASE x = "TaskNotCancelableError"
        <5>1. r.out = "TaskNotCancelable" BY <2>1, <3>8, <4>3, Zenon
        <5> QED BY <3>6, <4>3, <5>1 DEF Agrees
      <4> QED BY <4>1, <4>2, <4>3 DEF TypedErrors
    <3> QED BY <2>1, <3>7, <3>8, Zenon DEF r
  <2> QED BY <2>3, <2>4, Zenon DEF AgreeInv, Learned, TypedErrors
<1> QED BY <1>1, AgreeInvariant, PTL
=============================================================================
