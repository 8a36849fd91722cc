---------------------------- MODULE GracefulShutdown ----------------------------
(***************************************************************************)
(* The graceful shutdown handler                                           *)
(* (src/core/server/graceful-shutdown-handler.ts): on the first signal it  *)
(* logs the event, closes the HTTP server and drains the connection queue  *)
(* side by side, in a race with one timer, and exits.                      *)
(***************************************************************************)
EXTENDS Integers, FiniteSets

CONSTANT MaxWaiting    \* bounds the requests in the connection queue

ASSUME GracefulAssumption == MaxWaiting \in Nat

VARIABLES
    shutdownAt,      \* where shutdown() is
    shutdownCode,    \* the code process.exit() was called with
    listening,       \* the HTTP server
    queued,          \* requests that wait in the connection queue
    drainable,       \* the queue has a drain(): an option, and ConnectionQueue has none
    tasks            \* shutdownTasks that have not ended

gracefulVars == <<shutdownAt, shutdownCode, listening, queued, drainable, tasks>>

GracefulTypeOK ==
    /\ shutdownAt \in {"off", "logging", "tasks", "flush", "late", "exited"}
    /\ shutdownCode \in {0, 1}
    /\ listening \in BOOLEAN /\ queued \in 0..MaxWaiting /\ drainable \in BOOLEAN
    /\ tasks \subseteq {"close", "drain"}

GracefulInit ==
    /\ shutdownAt = "off" /\ shutdownCode = 0
    /\ listening = TRUE /\ queued = 0 /\ drainable \in BOOLEAN /\ tasks = {}

\* The queue goes on by itself; a request comes in until the flag is set.
RequestComes ==
    /\ shutdownAt = "off" /\ queued < MaxWaiting
    /\ queued' = queued + 1
    /\ UNCHANGED <<shutdownAt, shutdownCode, listening, drainable, tasks>>

RequestIsServed ==
    /\ shutdownAt # "exited" /\ queued > 0
    /\ queued' = queued - 1
    /\ UNCHANGED <<shutdownAt, shutdownCode, listening, drainable, tasks>>

BeginShutdown ==
    /\ shutdownAt = "off"
    /\ shutdownAt' = "logging"
    /\ UNCHANGED <<shutdownCode, listening, queued, drainable, tasks>>

\* The queue is drained only if it can be, and somebody waits in it at that moment.
TasksNeeded == {"close"} \cup (IF queued > 0 /\ drainable THEN {"drain"} ELSE {})

\* The entry was logged, or could not be.
StartTasks ==
    /\ shutdownAt = "logging"
    /\ shutdownAt' = "tasks"
    /\ tasks' = TasksNeeded
    /\ UNCHANGED <<shutdownCode, listening, queued, drainable>>

ServerCloses ==
    /\ shutdownAt = "tasks" /\ "close" \in tasks
    /\ listening' = FALSE /\ tasks' = tasks \ {"close"}
    /\ UNCHANGED <<shutdownAt, shutdownCode, queued, drainable>>

QueueDrains ==
    /\ shutdownAt = "tasks" /\ "drain" \in tasks /\ queued = 0
    /\ tasks' = tasks \ {"drain"}
    /\ UNCHANGED <<shutdownAt, shutdownCode, listening, queued, drainable>>

AllTasksEnd ==
    /\ shutdownAt = "tasks" /\ tasks = {}
    /\ shutdownAt' = "flush"
    /\ UNCHANGED <<shutdownCode, listening, queued, drainable, tasks>>

DrainTimeoutPasses ==
    /\ shutdownAt = "tasks" /\ tasks # {}
    /\ shutdownAt' = "late"
    /\ UNCHANGED <<shutdownCode, listening, queued, drainable, tasks>>

ExitWith(code) ==
    /\ shutdownAt' = "exited" /\ shutdownCode' = code
    /\ UNCHANGED <<listening, queued, drainable, tasks>>

\* flush() does nothing yet.
ExitDone == shutdownAt = "flush" /\ ExitWith(0)
ExitLate == shutdownAt = "late" /\ ExitWith(1)

\* close() or drain() rejects.
ExitOnError == shutdownAt = "tasks" /\ tasks # {} /\ ExitWith(1)

GracefulStep ==
    \/ StartTasks \/ AllTasksEnd \/ DrainTimeoutPasses \/ ExitDone \/ ExitLate

GracefulNext ==
    \/ RequestComes \/ RequestIsServed \/ BeginShutdown
    \/ ServerCloses \/ QueueDrains \/ ExitOnError
    \/ GracefulStep

-------------------------------------------------------------------------------
(* Properties *)

\* The process says that it ended well only if the server closed and, in a queue that can be
\* drained, nobody waited any more.  (With any other queue it says so while requests wait.)
ExitCodeIsTrue ==
    shutdownAt = "exited" /\ shutdownCode = 0 => ~listening /\ (drainable => queued = 0)

\* The first signal ends the process, whatever hangs.
HandlerExits == shutdownAt # "off" ~> shutdownAt = "exited"
=================================================================================
