-------------------------------- MODULE Services --------------------------------
(***************************************************************************)
(* The server process and the services around it, each of which has a      *)
(* module of its own.  They share no state, so that nothing is lost when   *)
(* only one of them moves in a behaviour: `part` says which.               *)
(***************************************************************************)
EXTENDS ServerLifecycle, GracefulShutdown, TokenBucket, SlidingWindow, CircuitBreaker,
        RedisCache, PyodideExecution, LockFile, ConfigManager, AuditLog, SyncScheduler

VARIABLE part    \* the service that moves; never changes

exitVars == <<serverVars, gracefulVars>>
accessVars == <<bucketVars, windowVars, breakerVars>>
runtimeVars == <<redisVars, pyVars>>
diskVars == <<lockVars, configVars, auditVars, schedulerVars>>
vars == <<part, exitVars, accessVars, runtimeVars, diskVars>>

Parts == {"server", "handler", "bucket", "window", "breaker", "redis", "pyodide", "lock",
          "config", "audit", "scheduler"}

\* What a service that does not move might have chosen makes no difference.
Init ==
    /\ part \in Parts
    /\ ServerInit /\ GracefulInit
    /\ BucketInit /\ WindowInit /\ BreakerInit
    /\ RedisInit /\ PyInit
    /\ LockInit /\ ConfigInit /\ AuditInit /\ SchedulerInit
    /\ part # "handler" => ~drainable
    /\ part # "audit" => utc
    /\ part # "config" => ~NoConfig

Turn(which) == part = which /\ UNCHANGED part

ServerTurn ==
    /\ Turn("server") /\ ServerNext
    /\ UNCHANGED <<gracefulVars, accessVars, runtimeVars, diskVars>>
HandlerTurn ==
    /\ Turn("handler") /\ GracefulNext
    /\ UNCHANGED <<serverVars, accessVars, runtimeVars, diskVars>>
BucketTurn ==
    /\ Turn("bucket") /\ BucketNext
    /\ UNCHANGED <<exitVars, windowVars, breakerVars, runtimeVars, diskVars>>
WindowTurn ==
    /\ Turn("window") /\ WindowNext
    /\ UNCHANGED <<exitVars, bucketVars, breakerVars, runtimeVars, diskVars>>
BreakerTurn ==
    /\ Turn("breaker") /\ BreakerNext
    /\ UNCHANGED <<exitVars, bucketVars, windowVars, runtimeVars, diskVars>>
RedisTurn ==
    /\ Turn("redis") /\ RedisNext
    /\ UNCHANGED <<exitVars, accessVars, pyVars, diskVars>>
PyodideTurn ==
    /\ Turn("pyodide") /\ PyNext
    /\ UNCHANGED <<exitVars, accessVars, redisVars, diskVars>>
LockTurn ==
    /\ Turn("lock") /\ LockNext
    /\ UNCHANGED <<exitVars, accessVars, runtimeVars, configVars, auditVars, schedulerVars>>
ConfigTurn ==
    /\ Turn("config") /\ ConfigNext
    /\ UNCHANGED <<exitVars, accessVars, runtimeVars, lockVars, auditVars, schedulerVars>>
AuditTurn ==
    /\ Turn("audit") /\ AuditNext
    /\ UNCHANGED <<exitVars, accessVars, runtimeVars, lockVars, configVars, schedulerVars>>
SchedulerTurn ==
    /\ Turn("scheduler") /\ SchedulerNext
    /\ UNCHANGED <<exitVars, accessVars, runtimeVars, lockVars, configVars, auditVars>>

Next ==
    \/ ServerTurn \/ HandlerTurn
    \/ BucketTurn \/ WindowTurn \/ BreakerTurn
    \/ RedisTurn \/ PyodideTurn
    \/ LockTurn \/ ConfigTurn \/ AuditTurn \/ SchedulerTurn

\* Timers of a shutdown fire, and what they decided is done.  Nothing makes code end, a
\* server close or a queue drain.
Fairness ==
    /\ WF_vars((Drained \/ DrainTimedOut) /\ ServerTurn)
    /\ WF_vars((Deadline \/ Exit) /\ ServerTurn)
    /\ WF_vars(GracefulStep /\ HandlerTurn)

Spec == Init /\ [][Next]_vars /\ Fairness

-------------------------------------------------------------------------------
(* Properties *)

TypeOK ==
    /\ part \in Parts
    /\ ServerTypeOK /\ GracefulTypeOK
    /\ BucketTypeOK /\ WindowTypeOK /\ BreakerTypeOK
    /\ RedisTypeOK /\ PyTypeOK
    /\ LockTypeOK /\ ConfigTypeOK /\ AuditTypeOK /\ SchedulerTypeOK

\* What each service keeps consistent in itself.
ServicesInv ==
    /\ TypeOK
    /\ SlotsAreCounted /\ NoChildLeft
    /\ ExitCodeIsTrue
    /\ StatsAreTrue /\ TrialDecides
    /\ NeverGivesUp
    /\ ServersAreStopped /\ EntriesAreRetained /\ ExistsMeansComplete

\* Both limiters admit no more than they promise in any window, and a client that waits as
\* long as it was told is admitted.
LimitsAreKept ==
    /\ BurstIsBounded /\ ResetInSuffices
    /\ WindowIsBounded /\ RetryAfterSuffices

\* A signal ends the process, whatever hangs.
SignalEndsAll == SignalEndsProcess /\ HandlerExits
=================================================================================
