-------------------------- MODULE RequestHandlers --------------------------
(***************************************************************************)
(* The request handlers of the four bindings.  A handler is what its code  *)
(* decides: who runs the middleware around it, which checks it makes of    *)
(* its own, which errors the operation behind it raises, and whether it    *)
(* answers with a stream of events.  Path, query and body formats are left *)
(* out.                                                                    *)
(***************************************************************************)

\* pipeline: "self" (inside the handler, after its checks), "router" (around
\* the handler and its checks) or "none" (public).
Handler(pipeline, checks, raises, sse) ==
  [pipeline |-> pipeline, checks |-> checks, raises |-> raises, sse |-> sse]

Methods == {"send", "stream", "subscribe", "get", "list", "cancel",
            "push_set", "push_get", "push_list", "push_delete", "card", "health"}
Sends == {"send", "stream"}

\* What the TaskManager and the push handlers raise.  "Unexpected" is any
\* exception outside a2akit, of the storage for one.
SendMessageRaises ==
  {"ContentType", "TaskNotFound", "TaskTerminalState", "ContextMismatch",
   "NotAcceptingMessages", "Concurrency", "Unexpected"}
SubscribeTaskRaises == {"TaskNotFound", "UnsupportedOperation", "Unexpected"}
GetTaskRaises == {"Unexpected"}
CancelTaskRaises == {"TaskNotFound", "TaskNotCancelable", "Unexpected"}
HandleSetConfigRaises == {"TaskNotFound", "PushConfigInvalid", "Unexpected"}
HandleGetConfigRaises == {"TaskNotFound", "PushConfigNotFound", "Unexpected"}
HandleListConfigsRaises == {"TaskNotFound", "Unexpected"}
HandleDeleteConfigRaises == {"TaskNotFound", "PushConfigNotFound", "Unexpected"}

-----------------------------------------------------------------------------
(* REST, protocol 0.3: endpoints.py *)

SelfHandledPaths == {"send", "stream"}
PublicPaths == {"health"}
RestPipeline(m) ==
  CASE m \in SelfHandledPaths -> "self" [] m \in PublicPaths -> "none" [] OTHER -> "router"
CheckStreaming == {"UnsupportedOperation"}
PushChecks == {"NoPush", "NoTaskManager"}
ValidateIds == {"Validation"}
GetTm == {"NoTaskManager"}
QueryChecks == {"Validation"}  \* made by FastAPI from the signature

StreamSetup == Handler(RestPipeline("stream"), CheckStreaming \cup ValidateIds \cup GetTm,
                       SendMessageRaises, TRUE)
SubscribeSetup == Handler(RestPipeline("subscribe"), CheckStreaming \cup GetTm,
                          SubscribeTaskRaises, TRUE)
MessageSend == Handler(RestPipeline("send"), ValidateIds \cup GetTm, SendMessageRaises, FALSE)
TasksGet ==
  Handler(RestPipeline("get"), QueryChecks \cup GetTm, GetTaskRaises \cup {"TaskNotFound"}, FALSE)
TasksList ==
  Handler(RestPipeline("list"), QueryChecks \cup GetTm, {"Unexpected"}, FALSE)
TasksCancel == Handler(RestPipeline("cancel"), GetTm, CancelTaskRaises, FALSE)
PushConfigSet == Handler(RestPipeline("push_set"), PushChecks, HandleSetConfigRaises, FALSE)
PushConfigGet == Handler(RestPipeline("push_get"), PushChecks, HandleGetConfigRaises, FALSE)
PushConfigList == Handler(RestPipeline("push_list"), PushChecks, HandleListConfigsRaises, FALSE)
PushConfigDelete ==
  Handler(RestPipeline("push_delete"), PushChecks, HandleDeleteConfigRaises, FALSE)
ExtendedCard == Handler(RestPipeline("card"), {"NoCard"}, {"Unexpected"}, FALSE)
HealthCheck == Handler(RestPipeline("health"), {}, {}, FALSE)

Rest(m) ==
  CASE m = "send" -> MessageSend [] m = "stream" -> StreamSetup
    [] m = "subscribe" -> SubscribeSetup [] m = "get" -> TasksGet
    [] m = "list" -> TasksList [] m = "cancel" -> TasksCancel
    [] m = "push_set" -> PushConfigSet [] m = "push_get" -> PushConfigGet
    [] m = "push_list" -> PushConfigList [] m = "push_delete" -> PushConfigDelete
    [] m = "card" -> ExtendedCard [] m = "health" -> HealthCheck

-----------------------------------------------------------------------------
(* REST, protocol 1.0: endpoints_v10.py *)

SelfHandledPathsV10 == {"send", "stream"}
PublicPathsV10 == {"health"}
RestPipelineV10(m) ==
  CASE m \in SelfHandledPathsV10 -> "self" [] m \in PublicPathsV10 -> "none"
    [] OTHER -> "router"
ChecksV10 == [stream |-> {"UnsupportedOperation"}, push |-> {"NoPush", "NoTaskManager"},
              tm |-> {"NoTaskManager"}]

StreamSetupV10 == Handler(RestPipelineV10("stream"),
                          ChecksV10.stream \cup {"Validation"} \cup ChecksV10.tm,
                          SendMessageRaises, TRUE)
SubscribeSetupV10 == Handler(RestPipelineV10("subscribe"), ChecksV10.stream \cup ChecksV10.tm,
                             SubscribeTaskRaises, TRUE)
MessageSendV10 ==
  Handler(RestPipelineV10("send"), {"Validation"} \cup ChecksV10.tm, SendMessageRaises, FALSE)
TasksGetV10 ==
  Handler(RestPipelineV10("get"), QueryChecks \cup ChecksV10.tm,
          GetTaskRaises \cup {"TaskNotFound"}, FALSE)
TasksListV10 ==
  Handler(RestPipelineV10("list"), QueryChecks \cup ChecksV10.tm, {"Unexpected"}, FALSE)
TasksCancelV10 == Handler(RestPipelineV10("cancel"), ChecksV10.tm, CancelTaskRaises, FALSE)
PushConfigV10(m, raises) == Handler(RestPipelineV10(m), ChecksV10.push, raises, FALSE)
ExtendedCardV10 == Handler(RestPipelineV10("card"), {"NoCard"}, {"Unexpected"}, FALSE)
HealthCheckV10 == Handler(RestPipelineV10("health"), {}, {}, FALSE)

RestV10(m) ==
  CASE m = "send" -> MessageSendV10 [] m = "stream" -> StreamSetupV10
    [] m = "subscribe" -> SubscribeSetupV10 [] m = "get" -> TasksGetV10
    [] m = "list" -> TasksListV10 [] m = "cancel" -> TasksCancelV10
    [] m = "push_set" -> PushConfigV10(m, HandleSetConfigRaises)
    [] m = "push_get" -> PushConfigV10(m, HandleGetConfigRaises)
    [] m = "push_list" -> PushConfigV10(m, HandleListConfigsRaises)
    [] m = "push_delete" -> PushConfigV10(m, HandleDeleteConfigRaises)
    [] m = "card" -> ExtendedCardV10 [] m = "health" -> HealthCheckV10

-----------------------------------------------------------------------------
(* JSON-RPC, protocol 0.3: jsonrpc.py.  A missing TaskManager is an         *)
(* exception of the operation here, and resubscribe runs its own pipeline.  *)

\* Mutant: the dispatcher also runs the pipeline of tasks/resubscribe.
SelfHandledMethods_NoResubscribe == {"send", "stream"}

SelfHandledMethods == {"send", "stream", "subscribe"}
PublicMethods == {"health"}
RpcPipeline(m) ==
  CASE m \in SelfHandledMethods -> "self" [] m \in PublicMethods -> "none"
    [] OTHER -> "router"
RpcCheckStreaming == {"UnsupportedOperation"}
RpcPushChecks == {"NoPush", "Validation"}

HandleMessageSend ==
  Handler(RpcPipeline("send"), {"Validation"}, SendMessageRaises, FALSE)
HandleMessageSendStream ==
  Handler(RpcPipeline("stream"), RpcCheckStreaming \cup {"Validation"}, SendMessageRaises, TRUE)
HandleTasksResubscribe ==
  Handler(RpcPipeline("subscribe"), RpcCheckStreaming \cup {"Validation"},
          SubscribeTaskRaises, TRUE)
HandleTasksGet ==
  Handler(RpcPipeline("get"), {"Validation"}, GetTaskRaises \cup {"TaskNotFound"}, FALSE)
HandleTasksList == Handler(RpcPipeline("list"), {"Validation"}, {"Unexpected"}, FALSE)
HandleTasksCancel == Handler(RpcPipeline("cancel"), {"Validation"}, CancelTaskRaises, FALSE)
HandlePushSet == Handler(RpcPipeline("push_set"), RpcPushChecks, HandleSetConfigRaises, FALSE)
HandlePushGet == Handler(RpcPipeline("push_get"), RpcPushChecks, HandleGetConfigRaises, FALSE)
HandlePushList ==
  Handler(RpcPipeline("push_list"), RpcPushChecks, HandleListConfigsRaises, FALSE)
HandlePushDelete ==
  Handler(RpcPipeline("push_delete"), RpcPushChecks, HandleDeleteConfigRaises, FALSE)
HandleGetExtendedCard == Handler(RpcPipeline("card"), {"NoCard"}, {"Unexpected"}, FALSE)
HandleHealth == Handler(RpcPipeline("health"), {}, {}, FALSE)

JSONRPC_DISPATCH(m) ==
  CASE m = "send" -> HandleMessageSend [] m = "stream" -> HandleMessageSendStream
    [] m = "subscribe" -> HandleTasksResubscribe [] m = "get" -> HandleTasksGet
    [] m = "list" -> HandleTasksList [] m = "cancel" -> HandleTasksCancel
    [] m = "push_set" -> HandlePushSet [] m = "push_get" -> HandlePushGet
    [] m = "push_list" -> HandlePushList [] m = "push_delete" -> HandlePushDelete
    [] m = "card" -> HandleGetExtendedCard [] m = "health" -> HandleHealth

-----------------------------------------------------------------------------
(* JSON-RPC, protocol 1.0: jsonrpc_v10.py *)

SelfHandledMethodsV10 == {"send", "stream", "subscribe"}
PublicMethodsV10 == {"health"}
RpcPipelineV10(m) ==
  CASE m \in SelfHandledMethodsV10 -> "self" [] m \in PublicMethodsV10 -> "none"
    [] OTHER -> "router"
RpcCheckStreamingV10 == {"UnsupportedOperation"}

HandleSendMessageV10 ==
  Handler(RpcPipelineV10("send"), {"Validation"}, SendMessageRaises, FALSE)
HandleSendStreamingMessageV10 ==
  Handler(RpcPipelineV10("stream"), RpcCheckStreamingV10 \cup {"Validation"},
          SendMessageRaises, TRUE)
HandleSubscribeToTaskV10 ==
  Handler(RpcPipelineV10("subscribe"), RpcCheckStreamingV10 \cup {"Validation"},
          SubscribeTaskRaises, TRUE)
HandleGetTaskV10 ==
  Handler(RpcPipelineV10("get"), {"Validation"}, GetTaskRaises \cup {"TaskNotFound"}, FALSE)
HandleListTasksV10 == Handler(RpcPipelineV10("list"), {"Validation"}, {"Unexpected"}, FALSE)
HandleCancelTaskV10 == Handler(RpcPipelineV10("cancel"), {"Validation"}, CancelTaskRaises, FALSE)
HandlePushV10(m, raises) ==
  Handler(RpcPipelineV10(m), {"NoPush", "Validation"}, raises, FALSE)
HandleGetExtendedCardV10 ==
  Handler(RpcPipelineV10("card"), {"NoCard"}, {"Unexpected"}, FALSE)
HandleHealthV10 == Handler(RpcPipelineV10("health"), {}, {}, FALSE)

JSONRPC_DISPATCH_V10(m) ==
  CASE m = "send" -> HandleSendMessageV10 [] m = "stream" -> HandleSendStreamingMessageV10
    [] m = "subscribe" -> HandleSubscribeToTaskV10 [] m = "get" -> HandleGetTaskV10
    [] m = "list" -> HandleListTasksV10 [] m = "cancel" -> HandleCancelTaskV10
    [] m = "push_set" -> HandlePushV10(m, HandleSetConfigRaises)
    [] m = "push_get" -> HandlePushV10(m, HandleGetConfigRaises)
    [] m = "push_list" -> HandlePushV10(m, HandleListConfigsRaises)
    [] m = "push_delete" -> HandlePushV10(m, HandleDeleteConfigRaises)
    [] m = "card" -> HandleGetExtendedCardV10 [] m = "health" -> HandleHealthV10

HandlerOf(proto, version, m) ==
  CASE proto = "rest" /\ version = "0.3" -> Rest(m)
    [] proto = "rest" /\ version = "1.0" -> RestV10(m)
    [] proto = "rpc" /\ version = "0.3" -> JSONRPC_DISPATCH(m)
    [] OTHER -> JSONRPC_DISPATCH_V10(m)
=============================================================================
