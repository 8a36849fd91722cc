---------------------------- MODULE SandboxExecution ----------------------------
(***************************************************************************)
(* One execution of sandboxed code, from the start of its servers to their *)
(* end: executeTypescriptInSandbox (src/executors/sandbox-executor.ts) and *)
(* executePythonInSandbox (src/executors/python-executor.ts) around their  *)
(* MCP proxy.  The streaming proxy and the sampling bridge are started and *)
(* stopped here; the bridge itself is SamplingBridge.                      *)
(*                                                                         *)
(* Three things race to end an execution: the process closes, it could not *)
(* be spawned, or the time is over.  Python code may leave processes of    *)
(* its own behind, which go on sending requests.                           *)
(***************************************************************************)
EXTENDS MCPProxyServer

VARIABLES
    options,     \* what is executed; never changes
    step,        \* where the executor is
    stream,      \* the StreamingProxy: "none", "broken" if it did not start, "open", "stopped"
    bridge,      \* the SamplingBridgeServer: "none", "open", "stopped"
    file,        \* the user's code in /tmp: "none", "partial", "written", "removed",
                 \* or "undeletable" when unlink() failed
    process,     \* "none", "running", "ended"
    outcome,     \* how the execution ended, once known
    reported     \* toolCallsMade: the log as it was when the outcome was decided

execVars == <<options, step, stream, bridge, file, process, outcome, reported>>
vars == <<proxyVars, execVars>>

Steps == {"begin", "policy", "proxy", "bridge", "write", "verify", "spawn", "run",
          "unwindProxy", "unwindProxyWait", "unwindStream",
          "stopStream", "stopProxy", "stopProxyWait", "stopBridge", "unlink",
          "returned", "crashed"}

TypeOK ==
    /\ ProxyTypeOK
    /\ options \in [language : {"typescript", "python"}, streaming : BOOLEAN,
                    sampling : BOOLEAN, denied : BOOLEAN]
    /\ step \in Steps
    /\ stream \in {"none", "broken", "open", "stopped"}
    /\ bridge \in {"none", "open", "stopped"}
    /\ file \in {"none", "partial", "written", "removed", "undeletable"}
    /\ process \in {"none", "running", "ended"}
    /\ outcome \in {"none", "denied", "failed", "thrown", "exited", "unspawned", "timeout"}
    /\ reported \in Seq([request : Requests, status : {"success", "error"}])

\* Python has no sampling and does not look at the server's policy.
Init ==
    /\ ProxyInit
    /\ options \in [language : {"typescript", "python"}, streaming : BOOLEAN,
                    sampling : BOOLEAN, denied : BOOLEAN]
    /\ options.language = "python" => ~options.sampling /\ ~options.denied
    /\ step = "begin"
    /\ stream = "none"
    /\ bridge = "none"
    /\ file = "none"
    /\ process = "none"
    /\ outcome = "none"
    /\ reported = <<>>

-------------------------------------------------------------------------------
(* Setting up *)

\* A streaming proxy that does not start is kept, and the execution goes on without it.
StartStreaming(started) ==
    /\ step = "begin"
    /\ stream' = IF ~options.streaming THEN "none" ELSE IF started THEN "open" ELSE "broken"
    /\ step' = "policy"
    /\ UNCHANGED <<proxyVars, options, bridge, file, process, outcome, reported>>

\* A tool the server's own allowlist does not have: the function returns at once.
CheckPolicy ==
    /\ step = "policy"
    /\ IF options.denied
       THEN step' = "returned" /\ outcome' = "denied"
       ELSE step' = "proxy" /\ UNCHANGED outcome
    /\ UNCHANGED <<proxyVars, options, stream, bridge, file, process, reported>>

ProxyStarts ==
    /\ step = "proxy"
    /\ StartProxy
    /\ step' = IF options.sampling THEN "bridge" ELSE "write"
    /\ UNCHANGED <<options, stream, bridge, file, process, outcome, reported>>

ProxyDoesNotStart ==
    /\ step = "proxy"
    /\ outcome' = "failed"
    /\ step' = "unwindStream"
    /\ UNCHANGED <<proxyVars, options, stream, bridge, file, process, reported>>

StartBridge(started) ==
    /\ step = "bridge"
    /\ IF started
       THEN bridge' = "open" /\ step' = "write" /\ UNCHANGED outcome
       ELSE outcome' = "failed" /\ step' = "unwindProxy" /\ UNCHANGED bridge
    /\ UNCHANGED <<proxyVars, options, stream, file, process, reported>>

\* tempFileCreated is set only after the whole file was written.
WriteFile(written) ==
    /\ step = "write"
    /\ IF written
       THEN file' = "written" /\ step' = "verify" /\ UNCHANGED outcome
       ELSE /\ file' \in {"none", "partial"}
            /\ outcome' = "thrown"
            /\ step' = "stopStream"
    /\ UNCHANGED <<proxyVars, options, stream, bridge, process, reported>>

\* The file is read back and compared.
VerifyFile(intact) ==
    /\ step = "verify"
    /\ IF intact
       THEN step' = "spawn" /\ UNCHANGED outcome
       ELSE step' = "stopStream" /\ outcome' = "thrown"
    /\ UNCHANGED <<proxyVars, options, stream, bridge, file, process, reported>>

-------------------------------------------------------------------------------
(* Running *)

Spawn ==
    /\ step = "spawn"
    /\ process' = "running"
    /\ step' = "run"
    /\ UNCHANGED <<proxyVars, options, stream, bridge, file, outcome, reported>>

\* The event 'error': the TypeScript executor resolves with it; the Python executor does
\* not listen to it, and an 'error' nobody listens to ends the server's process.
SpawnFails ==
    /\ step = "spawn"
    /\ IF options.language = "typescript"
       THEN step' = "stopStream" /\ outcome' = "unspawned"
       ELSE step' = "crashed" /\ UNCHANGED outcome
    /\ UNCHANGED <<proxyVars, options, stream, bridge, file, process, reported>>

Decide(how) ==
    /\ outcome' = how
    /\ reported' = callLog
    /\ process' = "ended"
    /\ step' = "stopStream"

\* The event 'close', which clears the timer.
ProcessCloses ==
    /\ step = "run"
    /\ Decide("exited")
    /\ UNCHANGED <<proxyVars, options, stream, bridge, file>>

\* The timer kills the process.
Timeout ==
    /\ step = "run"
    /\ Decide("timeout")
    /\ UNCHANGED <<proxyVars, options, stream, bridge, file>>

\* Requests come from the sandbox while it runs, and from what it leaves behind.
SandboxSends(r) ==
    /\ \/ process = "running"
       \/ process = "ended" /\ options.language = "python"
    /\ Send(r)
    /\ UNCHANGED execVars

ProxyWorks ==
    /\ step # "crashed"
    /\ ProxyHandles \/ ProxyStops
    /\ UNCHANGED execVars

-------------------------------------------------------------------------------
(* Cleaning up: each stop is awaited before the next one is begun *)

StreamIfAny == IF stream = "none" THEN "none" ELSE "stopped"

\* The finally of the executor.
StopStreamSkipped == step = "stopStream" /\ step' = "stopProxy" /\ UNCHANGED stream
StopStream ==
    /\ step = "stopStream"
    /\ stream' = StreamIfAny
    /\ step' = "stopProxy"

FinallyStopsStream ==
    /\ StopStream
    /\ UNCHANGED <<proxyVars, options, bridge, file, process, outcome, reported>>

\* A proxy whose requests are done is closed without a drain: see StopProxy.
BeginProxyStop ==
    /\ \/ step = "stopProxy" /\ step' = "stopProxyWait"
       \/ step = "unwindProxy" /\ step' = "unwindProxyWait"
    /\ StopProxy
    /\ UNCHANGED <<options, stream, bridge, file, process, outcome, reported>>

ProxyIsStopped ==
    /\ server = "closed"
    /\ \/ step = "stopProxyWait" /\ step' = "stopBridge"
       \/ step = "unwindProxyWait" /\ step' = "unwindStream"
    /\ UNCHANGED <<proxyVars, options, stream, bridge, file, process, outcome, reported>>

StopBridge ==
    /\ step = "stopBridge"
    /\ bridge' = IF bridge = "none" THEN "none" ELSE "stopped"
    /\ step' = "unlink"
    /\ UNCHANGED <<proxyVars, options, stream, file, process, outcome, reported>>

\* An error of unlink() is ignored.
Unlink(removed) ==
    /\ step = "unlink"
    /\ file' = IF file # "written" THEN file ELSE IF removed THEN "removed" ELSE "undeletable"
    /\ step' = "returned"
    /\ UNCHANGED <<proxyVars, options, stream, bridge, process, outcome, reported>>

\* After a server that did not start: stop the ones before it, and return.
UnwindStream ==
    /\ step = "unwindStream"
    /\ stream' = StreamIfAny
    /\ step' = "returned"
    /\ UNCHANGED <<proxyVars, options, bridge, file, process, outcome, reported>>

-------------------------------------------------------------------------------
SetUp ==
    \/ \E ok \in BOOLEAN : StartStreaming(ok) \/ StartBridge(ok) \/ WriteFile(ok)
                              \/ VerifyFile(ok)
    \/ CheckPolicy \/ ProxyStarts \/ ProxyDoesNotStart \/ Spawn \/ SpawnFails

CleanUp ==
    \/ FinallyStopsStream \/ BeginProxyStop \/ ProxyIsStopped \/ StopBridge
    \/ \E removed \in BOOLEAN : Unlink(removed)
    \/ UnwindStream

Next ==
    \/ SetUp
    \/ ProcessCloses \/ Timeout
    \/ \E r \in Requests : SandboxSends(r)
    \/ ProxyWorks
    \/ CleanUp

\* The executor goes on, and the timers of the execution, of the drain and of the close
\* expire; no tool, and no process of the sandbox, has to come to an end.  Stopping the
\* bridge ends by StopReturns of SamplingBridge; stopping the stream, if its clients go.
Fairness ==
    /\ WF_vars(SetUp)
    /\ WF_vars(Timeout)
    /\ WF_vars(ProxyStops /\ UNCHANGED execVars)
    /\ WF_vars(CleanUp)

Spec == Init /\ [][Next]_vars /\ Fairness

-------------------------------------------------------------------------------
(* Properties *)

\* What the proxy counts and logs is so in the midst of an execution.
ExecutionInv == TypeOK /\ ActiveAccounting /\ LogAccounting

\* The calls an execution reports were made, and answered as reported: whatever happens
\* after the outcome is decided, they stay the first ones of the proxy's log, in its order.
ReportIsTruthful == IsPrefix(reported, callLog)

\* When the executor returns, no server of the execution is left, nor a process, nor the
\* file with the user's code, unless removing it failed; and no handler goes on that the
\* drain did not give up on.  Two exceptions: a request the policy denies leaves its
\* streaming proxy open, and a file that was not written completely stays.
NothingLeftBehind ==
    step = "returned" =>
        /\ stream = "open" => outcome = "denied"
        /\ server \in {"none", "closed"}
        /\ bridge # "open"
        /\ process # "running"
        /\ file # "written"
        /\ file = "partial" => outcome = "thrown"
        /\ ~waitedOut => In(InHandler) = {}

\* The executor returns even if no tool ever answers and the process never ends; only a
\* Python that cannot be spawned takes the whole server down.
ExecutionReturns == (step = "begin") ~> (step \in {"returned", "crashed"})

\* What the schema of the result says of toolCallsMade: "List of MCP tools called during
\* execution".  The log is read when the outcome is decided, before the drain that lets
\* the calls in flight finish.
ReportIsComplete ==
    step = "returned" => Called \subseteq {entry.request : entry \in ToSet(reported)}
=================================================================================
