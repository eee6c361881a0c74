----------------------------- MODULE ErrorWire -----------------------------
(***************************************************************************)
(* How an error of the server travels to the caller.  Each of the four     *)
(* bindings (REST and JSON-RPC, protocol 0.3 and 1.0) turns an exception   *)
(* into a reply, and the client's transport for that binding turns the     *)
(* reply into one of its own exceptions.  A reply is its HTTP status, its  *)
(* error code, the reason of its ErrorInfo, and its text where that says   *)
(* that the version is not supported; other messages are left out.  Codes  *)
(* are only compared, so they are strings here.                            *)
(***************************************************************************)
EXTENDS Naturals

Reply(status, code, reason) ==
  [status |-> status, code |-> code, reason |-> reason, text |-> "none"]
Http(status, code) == Reply(status, code, "none")
Rpc(code) == Reply(200, code, "none")
Success == Http(200, "none")
RejectsVersion(reply) == [reply EXCEPT !.text = "version"]

\* Not of a2akit: an unknown path, and an exception nobody handles.
FrameworkErrors(e) ==
  CASE e = "NoRoute" -> Http(404, "none")
    [] e \in {"Unexpected", "Crash"} -> Http(500, "none")

-----------------------------------------------------------------------------
(* Protocol 0.3 over REST. *)

\* The HTTPExceptions its endpoints raise themselves.
HttpErrors(e) ==
  CASE e = "NoTaskManager" -> Http(503, "-32603")
    [] e = "NoPush" -> Http(501, "-32003")
    [] e = "NoCard" -> Http(404, "-32007")
    [] e = "PushConfigInvalid" -> Http(400, "-32602")
    [] e = "Version" -> RejectsVersion(Http(400, "-32009"))
    [] OTHER -> FrameworkErrors(e)

\* The handlers of _register_exception_handlers.
ExceptionHandlers(e) ==
  CASE e \in {"TaskNotFound", "PushConfigNotFound"} -> Http(404, "-32001")
    [] e \in {"TaskTerminalState", "Concurrency"} -> Http(409, "-32004")
    [] e = "TaskNotCancelable" -> Http(409, "-32002")
    [] e = "UnsupportedOperation" -> Http(400, "-32004")
    [] e = "ContextMismatch" -> Http(400, "-32602")
    [] e = "NotAcceptingMessages" -> Http(422, "-32602")
    [] e = "ContentType" -> Http(400, "-32005")
    [] e = "InvalidAgentResponse" -> Http(500, "-32006")
    [] e = "AuthRequired" -> Http(401, "-32603")
    [] e = "Validation" -> Http(400, "-32600")
    [] OTHER -> HttpErrors(e)

-----------------------------------------------------------------------------
(* Protocol 0.3 over JSON-RPC. *)

\* Whatever it does not know is an internal error.
MapExceptionToError(e) ==
  CASE e \in {"TaskNotFound", "PushConfigNotFound"} -> Rpc("-32001")
    [] e \in {"TaskTerminalState", "Concurrency", "UnsupportedOperation"} -> Rpc("-32004")
    [] e = "TaskNotCancelable" -> Rpc("-32002")
    [] e \in {"ContextMismatch", "NotAcceptingMessages"} -> Rpc("-32602")
    [] e = "ContentType" -> Rpc("-32005")
    [] e = "InvalidAgentResponse" -> Rpc("-32006")
    [] e = "AuthRequired" -> Rpc("-32600")
    [] OTHER -> Rpc("-32603")

\* The errors its handlers return without an exception.
RpcErrors(e) ==
  CASE e = "Validation" -> Rpc("-32602")
    [] e = "NoPush" -> Rpc("-32003")
    [] e = "NoCard" -> Rpc("-32007")
    [] e = "Envelope" -> Rpc("-32600")
    [] OTHER -> MapExceptionToError(e)

-----------------------------------------------------------------------------
(* Protocol 1.0: one catalog for both bindings. *)

ERROR_CATALOG(e, default) ==
  CASE e = "TaskNotFound" -> Reply(404, "-32001", "TASK_NOT_FOUND")
    [] e = "TaskTerminalState" -> Reply(409, "-32004", "TASK_TERMINAL_STATE")
    [] e = "TaskNotCancelable" -> Reply(409, "-32002", "TASK_NOT_CANCELABLE")
    [] e = "ContextMismatch" -> Reply(400, "-32602", "CONTEXT_MISMATCH")
    [] e = "NotAcceptingMessages" -> Reply(422, "-32602", "TASK_NOT_ACCEPTING_MESSAGES")
    [] e = "UnsupportedOperation" -> Reply(400, "-32004", "UNSUPPORTED_OPERATION")
    [] e = "ContentType" -> Reply(415, "-32005", "CONTENT_TYPE_NOT_SUPPORTED")
    [] e = "InvalidAgentResponse" -> Reply(500, "-32006", "INVALID_AGENT_RESPONSE")
    [] e = "Concurrency" -> Reply(409, "-32004", "CONCURRENT_MODIFICATION")
    [] e = "AuthRequired" -> Reply(401, "-32603", "AUTH_REQUIRED")
    [] e = "PushConfigNotFound" -> Reply(404, "-32001", "PUSH_CONFIG_NOT_FOUND")
    [] OTHER -> default

INVALID_REQUEST == Reply(400, "-32600", "INVALID_REQUEST")

\* descriptor_for: the catalog, else INTERNAL_ERROR.
DescriptorFor(e) == ERROR_CATALOG(e, Reply(500, "-32603", "INTERNAL_ERROR"))

\* Any other HTTPException, as the one for a bad push configuration.
OnHttp(e) ==
  CASE e = "PushConfigInvalid" -> Reply(400, "400", "HTTP_ERROR")
    [] OTHER -> FrameworkErrors(e)

HttpErrorsV10(e) ==
  CASE e = "NoTaskManager" -> Http(503, "503")
    [] e = "NoPush" -> Http(501, "501")
    [] e = "NoCard" -> Reply(404, "404", "EXTENDED_CARD_NOT_CONFIGURED")
    [] e = "Version" -> RejectsVersion(Http(400, "400"))
    [] OTHER -> OnHttp(e)

\* Over REST only catalogued exceptions have a handler.
BuildError(e) ==
  IF e \in {"Validation", "Envelope"} THEN INVALID_REQUEST ELSE ERROR_CATALOG(e, HttpErrorsV10(e))

JsonRpcErrorFromException(e) == [DescriptorFor(e) EXCEPT !.status = 200]

RpcErrorsV10(e) ==
  CASE e \in {"Validation", "Envelope"} -> [INVALID_REQUEST EXCEPT !.status = 200]
    [] e = "NoPush" -> Reply(200, "-32003", "PUSH_NOTIFICATIONS_NOT_SUPPORTED")
    [] e = "NoCard" -> Reply(200, "-32007", "EXTENDED_CARD_NOT_CONFIGURED")
    [] OTHER -> JsonRpcErrorFromException(e)

-----------------------------------------------------------------------------
\* The reply each binding gives to an outcome.  The version check, an unknown
\* path and a crash of the dispatcher are answered by the application, not by
\* JSON-RPC.
Wire(proto, version, out) ==
  IF out = "result" THEN Success
  ELSE IF out \in {"NoRoute", "Crash"} THEN FrameworkErrors(out)
  ELSE IF proto = "rest" \/ out = "Version"
  THEN IF version = "0.3" THEN ExceptionHandlers(out) ELSE BuildError(out)
  ELSE IF version = "0.3" THEN RpcErrors(out) ELSE RpcErrorsV10(out)

-----------------------------------------------------------------------------
(* The client's side. *)

\* Mutant: every conflict is taken for a terminal task.
CheckError_AnyConflict(r) ==
  CASE r.status = 404 -> "TaskNotFoundError"
    [] r.status = 409 -> "TaskTerminalError"
    [] OTHER -> "ProtocolError"

CheckError(r) ==
  CASE r.status = 404 -> "TaskNotFoundError"
    [] r.status = 409 /\ r.code = "-32002" -> "TaskNotCancelableError"
    [] r.status = 409 /\ r.code = "-32004" -> "TaskTerminalError"
    [] r.status = 409 /\ r.code \notin {"-32002", "-32004"} -> "A2AClientError"
    [] r.status = 400 /\ (r.code = "-32009" \/ r.text = "version") -> "ProtocolVersionMismatchError"
    [] r.status = 400 /\ r.code # "-32009" /\ r.text # "version" -> "A2AClientError"
    [] OTHER -> "ProtocolError"

\* A failed JSON-RPC post is an error of the protocol; the streaming calls do
\* not look for the version text.
HttpFailure(r, sse) ==
  IF r.status = 400 /\ r.text = "version" /\ ~sse THEN "ProtocolVersionMismatchError"
  ELSE "ProtocolError"

HandleResponse(r) ==
  CASE r.code = "-32009" -> "ProtocolVersionMismatchError"
    [] r.code = "-32001" -> "TaskNotFoundError"
    [] r.code = "-32002" -> "TaskNotCancelableError"
    [] r.code = "-32004" -> "TaskTerminalError"
    [] r.code = "-32602" -> "A2AClientError"
    [] OTHER -> "ProtocolError"

ExcFromReason(reason) ==
  CASE reason = "TASK_NOT_FOUND" -> "TaskNotFoundError"
    [] reason = "TASK_NOT_CANCELABLE" -> "TaskNotCancelableError"
    [] reason = "TASK_TERMINAL_STATE" -> "TaskTerminalError"
    [] OTHER -> "A2AClientError"

CheckErrorV10(r) ==
  IF r.status = 400 /\ r.text = "version" THEN "ProtocolVersionMismatchError"
  ELSE IF r.reason # "none" THEN ExcFromReason(r.reason)
  ELSE CASE r.status = 404 -> "TaskNotFoundError"
         [] r.status = 400 -> "A2AClientError"
         [] OTHER -> "ProtocolError"

HandleResponseV10(r) ==
  IF r.text = "version" THEN "ProtocolVersionMismatchError"
  ELSE IF r.reason # "none" THEN ExcFromReason(r.reason)
  ELSE IF r.code = "-32001" THEN "TaskNotFoundError" ELSE "ProtocolError"

\* What the caller of a transport gets for a reply.
Raised(proto, version, sse, r) ==
  IF r = Success THEN "result"
  ELSE IF proto = "rest"
  THEN IF version = "0.3" THEN CheckError(r) ELSE CheckErrorV10(r)
  ELSE IF r.status # 200 THEN HttpFailure(r, sse)
  ELSE IF version = "0.3" THEN HandleResponse(r) ELSE HandleResponseV10(r)
=============================================================================
