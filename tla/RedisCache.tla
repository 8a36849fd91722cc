------------------------------ MODULE RedisCache ------------------------------
(***************************************************************************)
(* The connection of the Redis cache provider                              *)
(* (src/caching/redis-cache-provider.ts): clients that come and go, the    *)
(* flag isRedisConnected, and the interval that reconnects.  Values are    *)
(* read from the LRU cache alone, and written to Redis without waiting.    *)
(*                                                                         *)
(* A replaced client was told to quit, but its events still arrive.        *)
(***************************************************************************)
EXTENDS Integers, FiniteSets

CONSTANT MaxClients    \* bounds how many clients are created

ASSUME RedisAssumption == MaxClients \in Nat \ {0}

VARIABLES
    isRedisConnected,
    reconnectTimer,      \* the interval runs
    redisClient,         \* the number of the current client, 0 without one
    clientState,         \* of every client there has been
    racing,              \* the clients whose connect() races its 1.5 second timer
    destroyed

redisVars == <<isRedisConnected, reconnectTimer, redisClient, clientState, racing, destroyed>>

RedisClients == 1..MaxClients

RedisTypeOK ==
    /\ isRedisConnected \in BOOLEAN /\ reconnectTimer \in BOOLEAN /\ destroyed \in BOOLEAN
    /\ redisClient \in 0..MaxClients
    /\ clientState \in [RedisClients -> {"none", "connecting", "socket", "ready", "gone"}]
    /\ racing \subseteq RedisClients

\* The constructor connects the first client.
RedisInit ==
    /\ isRedisConnected = FALSE /\ reconnectTimer = FALSE /\ destroyed = FALSE
    /\ redisClient = 1
    /\ clientState = [i \in RedisClients |-> IF i = 1 THEN "connecting" ELSE "none"]
    /\ racing = {1}

TimerAfterError == TRUE

\* handleRedisError(): the interval starts, or starts again.
HandleRedisError ==
    /\ isRedisConnected' = FALSE
    /\ reconnectTimer' = TimerAfterError

\* The client's 'connect' event, before the handshake.
SocketConnected(i) ==
    /\ clientState[i] = "connecting"
    /\ clientState' = [clientState EXCEPT ![i] = "socket"]
    /\ isRedisConnected' = TRUE
    /\ UNCHANGED <<reconnectTimer, redisClient, racing, destroyed>>

\* connect() is fulfilled, perhaps after the timer had won.
ClientReady(i) ==
    /\ clientState[i] = "socket"
    /\ clientState' = [clientState EXCEPT ![i] = "ready"]
    /\ isRedisConnected' = (isRedisConnected \/ i \in racing)
    /\ racing' = racing \ {i}
    /\ UNCHANGED <<reconnectTimer, redisClient, destroyed>>

\* An 'error' event, with the rejection of connect() if that is still waited for.
ClientError(i) ==
    /\ clientState[i] \in {"connecting", "socket", "ready"}
    /\ clientState' = [clientState EXCEPT ![i] = "gone"]
    /\ racing' = racing \ {i}
    /\ HandleRedisError
    /\ UNCHANGED <<redisClient, destroyed>>

ConnectTimeout(i) ==
    /\ i \in racing /\ ~destroyed
    /\ racing' = racing \ {i}
    /\ HandleRedisError
    /\ UNCHANGED <<redisClient, clientState, destroyed>>

\* The interval finds the flag set, and ends.
StopReconnecting ==
    /\ reconnectTimer /\ isRedisConnected
    /\ reconnectTimer' = FALSE
    /\ UNCHANGED <<isRedisConnected, redisClient, clientState, racing, destroyed>>

\* quit() of the old client ends a connection that is ready, without an error.
Quit(i, states) == [j \in RedisClients |-> IF j = i /\ states[j] = "ready" THEN "gone" ELSE states[j]]

Fresh == {i \in RedisClients : clientState[i] = "none"}

Reconnect ==
    /\ reconnectTimer /\ ~isRedisConnected
    /\ \E i \in Fresh :
         /\ \A j \in Fresh : i <= j
         /\ redisClient' = i
         /\ clientState' = [Quit(redisClient, clientState) EXCEPT ![i] = "connecting"]
         /\ racing' = racing \cup {i}
    /\ UNCHANGED <<isRedisConnected, reconnectTimer, destroyed>>

\* The timers of races end with destroy(), but not what the clients still have to say.
Destroy ==
    /\ ~destroyed
    /\ destroyed' = TRUE
    /\ reconnectTimer' = FALSE
    /\ clientState' = Quit(redisClient, clientState)
    /\ redisClient' = 0
    /\ UNCHANGED <<isRedisConnected, racing>>

RedisNext ==
    \/ \E i \in RedisClients :
         SocketConnected(i) \/ ClientReady(i) \/ ClientError(i) \/ ConnectTimeout(i)
    \/ StopReconnecting \/ Reconnect
    \/ Destroy

-------------------------------------------------------------------------------
(* Properties *)

\* While it counts itself disconnected, the provider will try again, or is waiting for an
\* attempt, in whatever order the events of its clients arrive.
NeverGivesUp ==
    ~destroyed /\ ~isRedisConnected => reconnectTimer \/ redisClient \in racing
===============================================================================
