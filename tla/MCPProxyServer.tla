----------------------------- MODULE MCPProxyServer -----------------------------
(***************************************************************************)
(* The HTTP server through which sandboxed code calls MCP tools: the       *)
(* server itself, with its drain and stop                                  *)
(* (src/core/server/mcp-proxy-server.ts), the handler of POST / (src/core/ *)
(* handlers/tool-execution-handler.ts) and the log of the calls            *)
(* (ToolCallTracker in src/mcp/proxy-helpers.ts).                          *)
(*                                                                         *)
(* An execution has a proxy of its own.  What a handler does between two   *)
(* awaits is one action; a tool, an MCP server that lists schemas, and a   *)
(* client that sends a body may each take for ever.                        *)
(*                                                                         *)
(* An operator written right above another one, with a name that says what *)
(* is wrong with it, is a faulty variant of it: the properties are known   *)
(* to notice it in its place.  No specification uses it.                   *)
(***************************************************************************)
EXTENDS Integers, Sequences, FiniteSetsExt, SequencesExt

CONSTANT Requests    \* what sandboxed code may send

ASSUME ProxyAssumption == IsFiniteSet(Requests)

VARIABLES
    request,         \* where each request is
    callLog,         \* the ToolCallTracker's records: requests, with how the tool answered
    activeRequests,  \* a counter
    drainResolver,   \* of stop()'s drain: "none", "waiting" or "resolved"
    server,          \* "none", "listening"; stop() is "draining", then "closing"; "closed"
    waitedOut        \* drain() gave up on requests

proxyVars == <<request, callLog, activeRequests, drainResolver, server, waitedOut>>

In(where) == {r \in Requests : request[r] \in where}

InHandler == {"reading", "querying", "schema", "calling"}

\* Requests that made a call, finished or not.
Called == In({"calling", "called"})

draining == server \in {"draining", "closing", "closed"}

LoggedRequests == {entry.request : entry \in ToSet(callLog)}

ProxyTypeOK ==
    /\ request \in [Requests -> InHandler \cup {"idle", "sent", "refused", "called"}]
    /\ callLog \in Seq([request : Requests, status : {"success", "error"}])
    /\ activeRequests \in Int
    /\ drainResolver \in {"none", "waiting", "resolved"}
    /\ server \in {"none", "listening", "draining", "closing", "closed"}
    /\ waitedOut \in BOOLEAN

ProxyInit ==
    /\ request = [r \in Requests |-> "idle"]
    /\ callLog = <<>>
    /\ activeRequests = 0
    /\ drainResolver = "none"
    /\ server = "none"
    /\ waitedOut = FALSE

-------------------------------------------------------------------------------
Goto(r, where) == request' = [request EXCEPT ![r] = where]

\* The finally of the request callback: the last request wakes the drain.
IsLastTooLate == activeRequests = 0
IsLast == activeRequests = 1

LeaveForgotten == UNCHANGED <<activeRequests, drainResolver>>
Leave ==
    /\ activeRequests' = activeRequests - 1
    /\ drainResolver' = IF IsLast /\ drainResolver = "waiting" THEN "resolved"
                        ELSE drainResolver

\* start(): prePopulate(), then listen(); it may fail, and then leaves no server behind.
StartProxy ==
    /\ server = "none"
    /\ server' = "listening"
    /\ UNCHANGED <<request, callLog, activeRequests, drainResolver, waitedOut>>

Send(r) ==
    /\ server \notin {"none", "closed"}
    /\ request[r] = "idle"
    /\ Goto(r, "sent")
    /\ UNCHANGED <<callLog, activeRequests, drainResolver, server, waitedOut>>

\* 401 or 404; 503 from the time stop() was called.
RejectRequest(r) ==
    /\ server \in {"listening", "draining"}
    /\ request[r] = "sent"
    /\ Goto(r, "refused")
    /\ UNCHANGED <<callLog, activeRequests, drainResolver, server, waitedOut>>

\* POST / reads its body; GET /metrics, /health and /mcp/tools are queries.
AcceptRequest(r, where) ==
    /\ server = "listening"
    /\ request[r] = "sent"
    /\ activeRequests' = activeRequests + 1
    /\ Goto(r, where)
    /\ UNCHANGED <<callLog, drainResolver, server, waitedOut>>

QueryEnds(r) ==
    /\ request[r] = "querying"
    /\ Goto(r, "refused")
    /\ Leave
    /\ UNCHANGED <<callLog, server, waitedOut>>

\* The body is read, and names a tool of the allowlist.
ReadBody(r) ==
    /\ request[r] = "reading"
    /\ Goto(r, "schema")
    /\ UNCHANGED <<callLog, activeRequests, drainResolver, server, waitedOut>>

\* 500 for a body that is lost or is not JSON, 403 for a tool that is not allowed, and
\* 400 for parameters that do not fit the schema.
RefuseCall(r) ==
    /\ request[r] \in {"reading", "schema"}
    /\ Goto(r, "refused")
    /\ Leave
    /\ UNCHANGED <<callLog, server, waitedOut>>

\* There is no schema, or the parameters fit it.
CallTool(r) ==
    /\ request[r] = "schema"
    /\ Goto(r, "calling")
    /\ UNCHANGED <<callLog, activeRequests, drainResolver, server, waitedOut>>

LogLastFirst(r, status) == <<[request |-> r, status |-> status]>> \o callLog
Log(r, status) == Append(callLog, [request |-> r, status |-> status])

\* The call is tracked when it has been answered, with 200 or 500.
ToolAnswers(r, status) ==
    /\ request[r] = "calling"
    /\ Goto(r, "called")
    /\ callLog' = Log(r, status)
    /\ Leave
    /\ UNCHANGED <<server, waitedOut>>

-------------------------------------------------------------------------------
(* stop() *)

\* drain() waits only if there is something to wait for.
StopProxy ==
    /\ server = "listening"
    /\ IF activeRequests > 0
       THEN server' = "draining" /\ drainResolver' = "waiting"
       ELSE server' = "closing" /\ UNCHANGED drainResolver
    /\ UNCHANGED <<request, callLog, activeRequests, waitedOut>>

\* The race of the resolver and the timer of five seconds.
DrainIsOverUnchecked(timedOut) == TRUE
DrainIsOverNever(timedOut) == drainResolver = "resolved"
DrainIsOver(timedOut) == timedOut \/ drainResolver = "resolved"

EndDrain(timedOut) ==
    /\ server = "draining"
    /\ DrainIsOver(timedOut)
    /\ server' = "closing"
    /\ waitedOut' = (timedOut /\ drainResolver = "waiting")
    /\ UNCHANGED <<request, callLog, activeRequests, drainResolver>>

\* close() stops listening, closeAllConnections() ends what is connected, and a timer of
\* one second sees to it that stop() returns.
CloseProxy ==
    /\ server = "closing"
    /\ server' = "closed"
    /\ UNCHANGED <<request, callLog, activeRequests, drainResolver, waitedOut>>

-------------------------------------------------------------------------------
\* The server and its handlers; what sends requests, starts and stops it is around it.
ProxyHandles ==
    \/ \E r \in Requests :
          \/ RejectRequest(r)
          \/ \E where \in {"reading", "querying"} : AcceptRequest(r, where)
          \/ QueryEnds(r) \/ ReadBody(r) \/ RefuseCall(r) \/ CallTool(r)
          \/ \E status \in {"success", "error"} : ToolAnswers(r, status)

ProxyStops == (\E timedOut \in BOOLEAN : EndDrain(timedOut)) \/ CloseProxy

ProxyNext ==
    \/ StartProxy
    \/ \E r \in Requests : Send(r)
    \/ ProxyHandles
    \/ StopProxy
    \/ ProxyStops

ProxySpec == ProxyInit /\ [][ProxyNext]_proxyVars

-------------------------------------------------------------------------------
(* Properties *)

\* The counter counts the requests whose handler has not returned.
ActiveAccounting == activeRequests = Cardinality(In(InHandler))

\* The log has one record for every call that was answered, and no other.
LogAccounting ==
    /\ LoggedRequests = In({"called"})
    /\ Len(callLog) = Cardinality(In({"called"}))

\* stop() closes the server on a request that is being handled, or a tool that is being
\* called, only after it has waited as long as it may.
StopCutsNobodyOff == server \in {"closing", "closed"} /\ ~waitedOut => In(InHandler) = {}

\* A drain that has nothing left to wait for has been told so, whatever the order in
\* which the last requests ended, were refused, or arrived.
DrainIsTold == server = "draining" /\ activeRequests = 0 => drainResolver = "resolved"
=================================================================================
