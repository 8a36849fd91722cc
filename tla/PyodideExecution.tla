---------------------------- MODULE PyodideExecution ----------------------------
(***************************************************************************)
(* Executions of Python in Pyodide (src/executors/pyodide-executor.ts).    *)
(* Each has servers of its own, and all run their code in the interpreter  *)
(* that the module caches, in whose globals the last execution to prepare  *)
(* itself left its credentials.  Interpreters are named after the          *)
(* execution that loaded them: the first ones may load one each.           *)
(*                                                                         *)
(* A timeout ends the execution, not its Python code, which then goes on   *)
(* in the interpreter, and restores sys.stdout at its end.  Nor does the   *)
(* end of the code end the tasks it left in the event loop: they go on to  *)
(* print and to call tools, with the globals as they find them.            *)
(*                                                                         *)
(* An operator written right above another one, with a name that says what *)
(* is wrong with it, is a faulty variant of it: the properties are known   *)
(* to notice it in its place.  No specification uses it.                   *)
(***************************************************************************)
EXTENDS Integers, FiniteSets, Sequences

CONSTANTS PyRuns,     \* executions
          Console     \* stands for Node's own output, and for no execution at all

ASSUME PyAssumption == Console \notin PyRuns /\ IsFiniteSet(PyRuns)

VARIABLES
    pyodideCache,     \* the cached interpreter, or Console
    pyAt,             \* where each execution is
    interpreter,      \* the one it uses
    code,             \* its Python code
    leftTasks,        \* the tasks its code left in the event loop
    servers,          \* the servers it has started and not stopped
    credentials,      \* by interpreter: the execution whose proxy the globals name
    stdout,           \* by interpreter: sys.stdout, _original_stdout and _stdout_capture
    misled,           \* history: executions that called another one's proxy
    strayed,          \* history: executions whose output went astray
    shared            \* history: interpreters used by two at the same time

pythonVars == <<pyodideCache, interpreter, code, leftTasks, credentials, stdout, misled, strayed>>
pyVars == <<pyAt, servers, pythonVars, shared>>

PyServers == {"stream", "bridge", "proxy"}
Returned == {"returned", "thrown"}

PyTypeOK ==
    /\ pyodideCache \in PyRuns \cup {Console}
    /\ pyAt \in [PyRuns -> Returned \cup {"idle", "bridge", "proxy", "get", "loading", "inject",
                           "capture", "run", "stopBridge", "stopStream", "stopProxy"}]
    /\ interpreter \in [PyRuns -> PyRuns \cup {Console}]
    /\ code \in [PyRuns -> {"none", "running", "restoring", "over"}]
    /\ leftTasks \in [PyRuns -> {"none", "going", "gone"}]
    /\ servers \in [PyRuns -> SUBSET PyServers]
    /\ credentials \in [PyRuns -> PyRuns \cup {Console}]
    /\ stdout \in [PyRuns -> [now : PyRuns \cup {Console}, original : PyRuns \cup {Console},
                              capture : PyRuns \cup {Console}]]
    /\ misled \subseteq PyRuns /\ strayed \subseteq PyRuns /\ shared \subseteq PyRuns

PyInit ==
    /\ pyodideCache = Console
    /\ pyAt = [e \in PyRuns |-> "idle"]
    /\ interpreter = [e \in PyRuns |-> Console]
    /\ code = [e \in PyRuns |-> "none"]
    /\ leftTasks = [e \in PyRuns |-> "none"]
    /\ servers = [e \in PyRuns |-> {}]
    /\ credentials = [i \in PyRuns |-> Console]
    /\ stdout = [i \in PyRuns |-> [now |-> Console, original |-> Console, capture |-> Console]]
    /\ misled = {} /\ strayed = {} /\ shared = {}

PyGoto(e, where) == pyAt' = [pyAt EXCEPT ![e] = where]
Started(e, which) == servers' = [servers EXCEPT ![e] = @ \cup which]
Stopped(e, which) == servers' = [servers EXCEPT ![e] = @ \ which]
NothingInPython == UNCHANGED pythonVars
Alike == UNCHANGED shared

-------------------------------------------------------------------------------
(* The servers *)

\* Without its stream an execution goes on; sampling is an option too.
Begin(e) ==
    /\ pyAt[e] = "idle"
    /\ \E which \in SUBSET {"stream"} : Started(e, which)
    /\ \E next \in {"bridge", "proxy"} : PyGoto(e, next)
    /\ NothingInPython /\ Alike

StartBridge(e) ==
    /\ pyAt[e] = "bridge"
    /\ \/ Started(e, {"bridge"}) /\ PyGoto(e, "proxy")
       \/ Stopped(e, {"stream"}) /\ PyGoto(e, "thrown")
    /\ NothingInPython /\ Alike

StoppedOnProxyError == {"bridge", "stream"}

StartProxy(e) ==
    /\ pyAt[e] = "proxy"
    /\ \/ Started(e, {"proxy"}) /\ PyGoto(e, "get")
       \/ Stopped(e, StoppedOnProxyError) /\ PyGoto(e, "returned")
    /\ NothingInPython /\ Alike

StopBridge(e) == pyAt[e] = "stopBridge" /\ Stopped(e, {"bridge"}) /\ PyGoto(e, "stopStream")
StopStream(e) == pyAt[e] = "stopStream" /\ Stopped(e, {"stream"}) /\ PyGoto(e, "stopProxy")
StopProxy(e) == pyAt[e] = "stopProxy" /\ Stopped(e, {"proxy"}) /\ PyGoto(e, "returned")

CleanUp(e) == (StopBridge(e) \/ StopStream(e) \/ StopProxy(e)) /\ NothingInPython /\ Alike

-------------------------------------------------------------------------------
(* The interpreter *)

GetCached(e) ==
    /\ pyAt[e] = "get" /\ pyodideCache # Console
    /\ interpreter' = [interpreter EXCEPT ![e] = pyodideCache]
    /\ PyGoto(e, "inject")
    /\ UNCHANGED <<pyodideCache, code, leftTasks, servers, credentials, stdout, misled, strayed>>
    /\ Alike

GetLoads(e) ==
    /\ pyAt[e] = "get" /\ pyodideCache = Console
    /\ PyGoto(e, "loading")
    /\ NothingInPython /\ UNCHANGED servers /\ Alike

\* A loader uses what it loaded, and whoever is last leaves it to the executions to come.
Loaded(e) ==
    /\ pyAt[e] = "loading"
    /\ pyodideCache' = e
    /\ interpreter' = [interpreter EXCEPT ![e] = e]
    /\ PyGoto(e, "inject")
    /\ UNCHANGED <<code, leftTasks, servers, credentials, stdout, misled, strayed>>
    /\ Alike

LoadFails(e) ==
    /\ pyAt[e] = "loading"
    /\ PyGoto(e, "stopBridge")
    /\ NothingInPython /\ UNCHANGED servers /\ Alike

Runs(e) == code[e] \in {"running", "restoring"}

\* Those whose code or tasks go on in interpreter i, or are about to.
Users(i) ==
    {e \in PyRuns : /\ interpreter[e] = i
                    /\ pyAt[e] \in {"capture", "run"} \/ Runs(e) \/ leftTasks[e] = "going"}

NoteSharing ==
    shared' = shared \cup {i \in PyRuns : Cardinality(Users(i)') > 1}

Of(e) == interpreter[e]

\* From here on an execution keeps its interpreter, and its servers until the clean-up.
StaysPut == UNCHANGED <<pyodideCache, interpreter, servers>>

InjectedOnce(e) == IF credentials[Of(e)] = Console THEN e ELSE credentials[Of(e)]
Injected(e) == e

\* PROXY_PORT, AUTH_TOKEN and the sampling globals.
Inject(e) ==
    /\ pyAt[e] = "inject"
    /\ credentials' = [credentials EXCEPT ![Of(e)] = Injected(e)]
    /\ PyGoto(e, "capture")
    /\ UNCHANGED <<code, leftTasks, stdout, misled, strayed>> /\ StaysPut /\ NoteSharing

CaptureStdout(e) ==
    /\ pyAt[e] = "capture"
    /\ stdout' = [stdout EXCEPT ![Of(e)] = [now |-> e, original |-> @.now, capture |-> e]]
    /\ code' = [code EXCEPT ![e] = "running"]
    /\ PyGoto(e, "run")
    /\ UNCHANGED <<leftTasks, credentials, misled, strayed>> /\ StaysPut /\ NoteSharing

\* The functions to inject do not run, or the capture does not, whose last line is the one
\* that replaces sys.stdout.
PreparationFails(e) ==
    /\ pyAt[e] = "capture"
    /\ \/ UNCHANGED stdout
       \/ stdout' = [stdout EXCEPT ![Of(e)].capture = e]
       \/ stdout' = [stdout EXCEPT ![Of(e)].capture = e, ![Of(e)].original = stdout[Of(e)].now]
    /\ PyGoto(e, "stopBridge")
    /\ UNCHANGED <<code, leftTasks, credentials, misled, strayed>> /\ StaysPut /\ NoteSharing

Acts(e) == code[e] = "running" \/ leftTasks[e] = "going"

CallTool(e) ==
    /\ Acts(e)
    /\ misled' = misled \cup (IF credentials[Of(e)] # e THEN {e} ELSE {})
    /\ UNCHANGED <<pyAt, code, leftTasks, credentials, stdout, strayed>> /\ StaysPut /\ Alike

PrintLine(e) ==
    /\ Acts(e)
    /\ strayed' = strayed \cup (IF stdout[Of(e)].now # e THEN {e} ELSE {})
    /\ UNCHANGED <<pyAt, code, leftTasks, credentials, stdout, misled>> /\ StaysPut /\ Alike

\* The code returns or raises, and nobody waits for the tasks it created.
CodeEnds(e) ==
    /\ code[e] = "running"
    /\ code' = [code EXCEPT ![e] = "restoring"]
    /\ \E left \in {"none", "going"} : leftTasks' = [leftTasks EXCEPT ![e] = left]
    /\ UNCHANGED <<pyAt, credentials, stdout, misled, strayed>> /\ StaysPut /\ NoteSharing

TasksEnd(e) ==
    /\ leftTasks[e] = "going"
    /\ leftTasks' = [leftTasks EXCEPT ![e] = "gone"]
    /\ UNCHANGED <<pyAt, code, credentials, stdout, misled, strayed>> /\ StaysPut /\ NoteSharing

\* Also when the execution is long gone.  Its output is whatever the capture holds.
RestoreStdout(e) ==
    /\ code[e] = "restoring"
    /\ code' = [code EXCEPT ![e] = "over"]
    /\ stdout' = [stdout EXCEPT ![Of(e)].now = stdout[Of(e)].original]
    /\ strayed' = strayed \cup (IF stdout[Of(e)].capture # e THEN {e} ELSE {})
    /\ UNCHANGED <<pyAt, leftTasks, credentials, misled>> /\ StaysPut /\ NoteSharing

ExecutionEnds(e) ==
    /\ pyAt[e] = "run" /\ code[e] = "over"
    /\ PyGoto(e, "stopBridge")
    /\ NothingInPython /\ UNCHANGED servers /\ Alike

ExecutionTimesOut(e) ==
    /\ pyAt[e] = "run"
    /\ PyGoto(e, "stopBridge")
    /\ NothingInPython /\ UNCHANGED servers /\ Alike

PyNext ==
    \E e \in PyRuns :
        \/ Begin(e) \/ StartBridge(e) \/ StartProxy(e) \/ CleanUp(e)
        \/ GetCached(e) \/ GetLoads(e) \/ Loaded(e) \/ LoadFails(e)
        \/ Inject(e) \/ CaptureStdout(e) \/ PreparationFails(e)
        \/ CallTool(e) \/ PrintLine(e) \/ CodeEnds(e) \/ TasksEnd(e) \/ RestoreStdout(e)
        \/ ExecutionEnds(e) \/ ExecutionTimesOut(e)

-------------------------------------------------------------------------------
(* Properties *)

\* In an interpreter that no two used at the same time, not even one whose code outlived its
\* timeout or whose tasks outlived its code, every call went to the execution's own proxy, only
\* the output of tasks left behind missed the execution's own capture, and sys.stdout is
\* restored when no code runs.
OwnProxyUnlessShared ==
    \A e \in PyRuns : Of(e) # Console /\ Of(e) \notin shared =>
        /\ e \notin misled
        /\ e \in strayed => leftTasks[e] # "none"
        /\ (\A f \in PyRuns : Of(f) = Of(e) => ~Runs(f)) => stdout[Of(e)].now = Console

\* However an execution ends, it has stopped what it started.
ServersAreStopped == \A e \in PyRuns : pyAt[e] \in Returned => servers[e] = {}
=================================================================================
