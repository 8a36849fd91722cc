---------------------------- MODULE ServerLifecycle ----------------------------
(***************************************************************************)
(* The server process (src/index.ts): starting up, the handlers of its     *)
(* tools, and shutdown() on a signal, which may come while it starts.      *)
(*                                                                         *)
(* The execution pool appears as AdmissionControl, which ConnectionPool    *)
(* implements: `inside` are the requests whose code runs, `closed` says    *)
(* that the pool drains.  Requests that wait for a slot are `queued`.      *)
(* Of the MCP client pool there are the connections and the children.      *)
(*                                                                         *)
(* The timers of shutdown() keep their order: the 30 seconds of drain()    *)
(* are over before the 35 seconds of the whole.                            *)
(*                                                                         *)
(* An operator written right above another one, with a name that says what *)
(* is wrong with it, is a faulty variant of it: the properties are known   *)
(* to notice it in its place.  No specification uses it.                   *)
(***************************************************************************)
EXTENDS Integers, FiniteSets

CONSTANTS ToolCalls,     \* requests for executeTypescript or executePython
          MCPServers,    \* servers of the merged configuration
          StdioServers,  \* the ones that run as children of this process
          PoolLimit      \* slots of the execution pool

ASSUME ServerAssumption ==
    StdioServers \subseteq MCPServers /\ IsFiniteSet(ToolCalls) /\ PoolLimit \in Nat \ {0}

VARIABLES
    stage,        \* how far start() is, or "exited"
    exitCode,
    tools,        \* the execution tools that are registered
    limiter,      \* the rate limiter
    link,         \* the connection to each server
    healthServer,
    call,         \* where the handler of each request is
    inside, closed, forgotten,   \* the execution pool
    phase,        \* where shutdown() is
    cutShort      \* history: what was cut short, and by what

pool == <<inside, closed, forgotten>>
serverVars == <<stage, exitCode, tools, limiter, link, healthServer, call, pool, phase, cutShort>>

Pool == INSTANCE AdmissionControl WITH Clients <- ToolCalls, Limit <- PoolLimit

StartUp == {"config", "register", "connect", "list", "health", "listen", "transport"}
Answers == {"refused", "answered"}
Ending == {"drain", "stopHealth", "close", "term", "grace"}

ServerTypeOK ==
    /\ stage \in StartUp \cup {"serving", "exited"}
    /\ exitCode \in {0, 1}
    /\ tools \subseteq {"typescript", "python"}
    /\ limiter \in {"none", "on", "destroyed"}
    /\ link \in [MCPServers -> {"none", "connecting", "up", "down", "closing", "closed",
                                "terminated", "gone"}]
    /\ healthServer \in {"none", "listening", "stopped"}
    /\ call \in [ToolCalls -> Answers \cup {"none", "admitted", "queued", "running", "ran"}]
    /\ inside \subseteq ToolCalls /\ closed \in BOOLEAN /\ forgotten = 0
    /\ phase \in Ending \cup {"off", "over"}
    /\ cutShort \subseteq {"start-up", "drain", "all"}

ServerInit ==
    /\ stage = "config" /\ exitCode = 0
    /\ tools = {} /\ limiter = "none"
    /\ link = [s \in MCPServers |-> "none"]
    /\ healthServer = "none"
    /\ call = [r \in ToolCalls |-> "none"]
    /\ Pool!ACInit
    /\ phase = "off"
    /\ cutShort = {}

Lives == stage # "exited"
Linked(where) == {s \in MCPServers : link[s] \in where}

-------------------------------------------------------------------------------
(* start() *)

GoTo(next) == stage' = next
StartFrame == UNCHANGED <<exitCode, call, pool, phase, cutShort>>

\* No configuration file, an invalid one, or no server that could be connected.
Abort ==
    /\ stage' = "exited" /\ exitCode' = 1
    /\ UNCHANGED <<tools, limiter, link, healthServer, call, pool, phase, cutShort>>

StartWithoutConfig == stage = "config" /\ Abort

LoadConfig ==
    /\ stage = "config" /\ GoTo("register")
    /\ StartFrame /\ UNCHANGED <<tools, limiter, link, healthServer>>

\* TypeScript needs a Deno that answers in one of the usual places; Python, and the
\* limiter, are configured.
RegisterTools ==
    /\ stage = "register" /\ GoTo("connect")
    /\ tools' \in SUBSET {"typescript", "python"}
    /\ limiter' \in {"none", "on"}
    /\ StartFrame /\ UNCHANGED <<link, healthServer>>

\* The only configuration of servers cannot be read; of several, it would be left out.
ServersUnreadable == stage = "connect" /\ Abort

Dial ==
    /\ stage = "connect" /\ GoTo("list")
    /\ link' = [s \in MCPServers |-> "connecting"]
    /\ StartFrame /\ UNCHANGED <<tools, limiter, healthServer>>

\* Only now is the child on record: before, disconnect() does not know it.
Connected(s) ==
    /\ stage = "list" /\ link[s] = "connecting"
    /\ link' = [link EXCEPT ![s] = "up"]
    /\ StartFrame /\ UNCHANGED <<stage, tools, limiter, healthServer>>

\* The transport closes, with its child; HTTP was tried both ways.
ConnectFails(s) ==
    /\ stage = "list" /\ link[s] = "connecting"
    /\ link' = [link EXCEPT ![s] = "down"]
    /\ StartFrame /\ UNCHANGED <<stage, tools, limiter, healthServer>>

AllSettled == stage = "list" /\ Linked({"none", "connecting"}) = {}

InitializeFails == AllSettled /\ MCPServers # {} /\ Linked({"down"}) = MCPServers /\ Abort

\* The tools are listed; a server that does not list any is skipped.
Initialized ==
    /\ AllSettled /\ (MCPServers = {} \/ Linked({"down"}) # MCPServers)
    /\ GoTo("health")
    /\ StartFrame /\ UNCHANGED <<tools, limiter, link, healthServer>>

\* A health server that does not start, or is not wanted, is left out.
StartHealthServer ==
    /\ stage = "health" /\ GoTo("transport")
    /\ healthServer' \in {"none", "listening"}
    /\ StartFrame /\ UNCHANGED <<tools, limiter, link>>

ConnectTransport ==
    /\ stage = "transport" /\ GoTo("serving")
    /\ StartFrame /\ UNCHANGED <<tools, limiter, link, healthServer>>

-------------------------------------------------------------------------------
(* The tool handlers *)

HandlerFrame == UNCHANGED <<stage, exitCode, tools, limiter, link, healthServer, phase, cutShort>>
Move(r, where) == call' = [call EXCEPT ![r] = where]

\* Not registered, over the rate limit, invalid, not allowed, dangerous: answered with an
\* error at once.
RefuseCall(r) ==
    /\ stage = "serving" /\ call[r] = "none"
    /\ Move(r, "refused")
    /\ HandlerFrame /\ UNCHANGED pool

AcceptCall(r) ==
    /\ stage = "serving" /\ call[r] = "none" /\ tools # {}
    /\ Move(r, "admitted")
    /\ HandlerFrame /\ UNCHANGED pool

\* connectionPool.execute() runs the code, or has it wait, or rejects because it drains.
Execute(r) ==
    /\ Lives /\ call[r] = "admitted"
    /\ \/ Pool!Enter(r) /\ Move(r, "running")
       \/ ~closed /\ Cardinality(inside) = PoolLimit /\ UNCHANGED pool /\ Move(r, "queued")
       \/ closed /\ UNCHANGED pool /\ Move(r, "refused")
    /\ HandlerFrame

Queue == {r \in ToolCalls : call[r] = "queued"}

\* The slot goes to a waiter, unless drain() dropped them all.  (That they are served in
\* turn is ConnectionPool's business.)
Finish(r) ==
    /\ Lives /\ call[r] = "running"
    /\ IF Queue # {} /\ ~closed
       THEN \E w \in Queue :
              /\ Pool!PassOn(r, w)
              /\ call' = [call EXCEPT ![r] = "ran", ![w] = "running"]
       ELSE Pool!Leave(r) /\ Move(r, "ran")
    /\ HandlerFrame

\* The audit log has the entry, or could not be written, which is reported only.
Answer(r) ==
    /\ Lives /\ call[r] = "ran"
    /\ Move(r, "answered")
    /\ HandlerFrame /\ UNCHANGED pool

-------------------------------------------------------------------------------
(* shutdown() *)

EndFrame == UNCHANGED <<exitCode, tools, call>>

PhasesUnderWayUnseen == FALSE
PhasesUnderWay == phase # "off"

\* A second signal finds shutdownInProgress set.
Signal ==
    /\ Lives /\ ~PhasesUnderWay
    /\ phase' = "drain"
    /\ Pool!Close
    /\ cutShort' = cutShort \cup (IF stage \in StartUp THEN {"start-up"} ELSE {})
    /\ EndFrame /\ UNCHANGED <<stage, limiter, link, healthServer>>

NothingRunsNow == TRUE
NothingRuns == inside = {}

Drained ==
    /\ Lives /\ phase = "drain" /\ NothingRuns
    /\ phase' = "stopHealth"
    /\ EndFrame /\ UNCHANGED <<stage, limiter, link, healthServer, pool, cutShort>>

DrainTimedOut ==
    /\ Lives /\ phase = "drain" /\ inside # {}
    /\ phase' = "stopHealth"
    /\ cutShort' = cutShort \cup {"drain"}
    /\ EndFrame /\ UNCHANGED <<stage, limiter, link, healthServer, pool>>

\* close() returns when the last connection has gone; an error is reported only.  Then the
\* limiter's cleanup ends, though not its limits, and disconnect() begins with the clients
\* it has on record.
StopHealthServer ==
    /\ Lives /\ phase = "stopHealth"
    /\ phase' = "close"
    /\ healthServer' = IF healthServer = "listening" THEN "stopped" ELSE healthServer
    /\ limiter' = IF limiter = "on" THEN "destroyed" ELSE limiter
    /\ link' = [s \in MCPServers |-> IF link[s] = "up" THEN "closing" ELSE link[s]]
    /\ EndFrame /\ UNCHANGED <<stage, pool, cutShort>>

\* Each client closes, or fails to.
CloseClient(s) ==
    /\ Lives /\ phase = "close" /\ link[s] = "closing"
    /\ link' = [link EXCEPT ![s] = IF s \in StdioServers THEN "closed" ELSE "gone"]
    /\ EndFrame /\ UNCHANGED <<stage, limiter, healthServer, pool, phase, cutShort>>

OnRecord(s) == s \in StdioServers /\ link[s] \in {"closed", "up"}

Terminate ==
    /\ Lives /\ phase = "close" /\ Linked({"closing"}) = {}
    /\ phase' = "grace"
    /\ link' = [s \in MCPServers |-> IF OnRecord(s) THEN "terminated" ELSE link[s]]
    /\ EndFrame /\ UNCHANGED <<stage, limiter, healthServer, pool, cutShort>>

ChildObeys(s) ==
    /\ Lives /\ link[s] \in {"closed", "terminated"}
    /\ link' = [link EXCEPT ![s] = "gone"]
    /\ EndFrame /\ UNCHANGED <<stage, limiter, healthServer, pool, phase, cutShort>>

KilledChildren(s) == link[s] = "terminated"

\* After two seconds SIGKILL; then disconnect() forgets all it had.
Kill ==
    /\ Lives /\ phase = "grace"
    /\ phase' = "over"
    /\ link' = [s \in MCPServers |-> IF KilledChildren(s) THEN "gone" ELSE link[s]]
    /\ EndFrame /\ UNCHANGED <<stage, limiter, healthServer, pool, cutShort>>

Exit ==
    /\ Lives /\ phase = "over"
    /\ stage' = "exited" /\ exitCode' = 0
    /\ UNCHANGED <<tools, limiter, link, healthServer, call, pool, phase, cutShort>>

DeadlineMayPass == phase \notin {"off", "drain", "over"}

\* 35 seconds after the signal the process exits, whatever phase it is in.
Deadline ==
    /\ Lives /\ DeadlineMayPass
    /\ stage' = "exited" /\ exitCode' = 0
    /\ cutShort' = cutShort \cup {"all"}
    /\ UNCHANGED <<tools, limiter, link, healthServer, call, pool, phase>>

-------------------------------------------------------------------------------
StartStep ==
    \/ StartWithoutConfig \/ LoadConfig \/ RegisterTools \/ ServersUnreadable \/ Dial
    \/ \E s \in MCPServers : Connected(s) \/ ConnectFails(s)
    \/ InitializeFails \/ Initialized \/ StartHealthServer \/ ConnectTransport

EndStep ==
    \/ Drained \/ DrainTimedOut \/ StopHealthServer
    \/ \E s \in MCPServers : CloseClient(s) \/ ChildObeys(s)
    \/ Terminate \/ Kill \/ Exit \/ Deadline

ServerNext ==
    \/ StartStep
    \/ \E r \in ToolCalls : RefuseCall(r) \/ AcceptCall(r) \/ Execute(r) \/ Finish(r) \/ Answer(r)
    \/ Signal
    \/ EndStep

-------------------------------------------------------------------------------
(* Properties *)

\* The slots and the handlers agree, and nobody runs or waits who was not admitted.
SlotsAreCounted ==
    /\ inside = {r \in ToolCalls : call[r] = "running"}
    /\ Cardinality(inside) <= PoolLimit
    /\ closed = (phase # "off")

\* Shutting down takes nothing away from running code, unless it went on for more than the
\* 30 seconds of drain(): while it runs, its MCP clients are open and the process lives.
NobodyCutOff ==
    inside # {} /\ "drain" \notin cutShort =>
        Lives /\ phase \in {"off", "drain"} /\ Linked({"closing", "closed", "terminated", "gone"}) = {}

\* A shutdown in time leaves no child behind, unless the signal came during start(): a child
\* that is still being connected is not on record.
NoChildLeft ==
    phase = "over" /\ "start-up" \notin cutShort =>
        \A s \in StdioServers : link[s] \in {"down", "gone"}

\* Once signalled, the process exits, although the health server may have clients that stay
\* and a client may never close.
SignalEndsProcess == phase # "off" ~> stage = "exited"
================================================================================
