------------------------------ MODULE TokenBucket ------------------------------
(***************************************************************************)
(* The token bucket of the rate limiter (src/security/rate-limiter.ts).    *)
(*                                                                         *)
(* Tokens come in fractions: the model counts in units of 1 / BucketWindow *)
(* of a token, so that MaxPerWindow units are added in each tick of time,  *)
(* and a request takes BucketWindow of them.  A bucket has the units it    *)
(* held when it was last refilled, and the ticks since then.               *)
(*                                                                         *)
(* An operator written right above another one, with a name that says what *)
(* is wrong with it, is a faulty variant of it: the properties are known   *)
(* to notice it in its place.  No specification uses it.                   *)
(***************************************************************************)
EXTENDS Integers, FiniteSets, FiniteSetsExt

CONSTANTS BucketClients,
          MaxPerWindow,    \* maxRequests
          BucketWindow,    \* windowMs, in ticks
          BurstSize        \* burstSize, maxRequests unless it is configured

ASSUME BucketAssumption ==
    MaxPerWindow \in Nat \ {0} /\ BucketWindow \in Nat \ {0} /\ BurstSize \in Nat \ {0}

VARIABLES
    bucket,     \* [units, age], or NoBucket
    served,     \* history: requests admitted in the last so many ticks, since the last reset
    promised    \* history: ticks until the time at which a refused client may come again

bucketVars == <<bucket, served, promised>>

NoBucket == [units |-> 0, age |-> -1]
NoPromise == -1

StaleAge == 2 * BucketWindow
Capacity == BurstSize * BucketWindow
Ages == 0..BucketWindow

BucketTypeOK ==
    /\ bucket \in [BucketClients -> [units : 0..Capacity, age : -1..(StaleAge + 1)]]
    /\ served \in [BucketClients -> [Ages -> Nat]]
    /\ promised \in [BucketClients -> NoPromise..BucketWindow]

NoneServed == [a \in Ages |-> 0]

BucketInit ==
    /\ bucket = [c \in BucketClients |-> NoBucket]
    /\ served = [c \in BucketClients |-> NoneServed]
    /\ promised = [c \in BucketClients |-> NoPromise]

Refilled(c) == Min({Capacity, bucket[c].units + bucket[c].age * MaxPerWindow})

Level(c) == IF bucket[c] = NoBucket THEN Capacity ELSE Refilled(c)

\* What getLimit() answers, and checkLimit() decides by.
Allowed(c) == Level(c) >= BucketWindow

RoundedUp(n, d) == (n + d - 1) \div d

ResetInRoundedDown(c) == (BucketWindow - Level(c)) \div MaxPerWindow
ResetIn(c) == RoundedUp(BucketWindow - Level(c), MaxPerWindow)

Admit(c) ==
    /\ Allowed(c)
    /\ bucket' = [bucket EXCEPT ![c] = [units |-> Level(c) - BucketWindow, age |-> 0]]
    /\ served' = [served EXCEPT ![c] = [a \in Ages |-> @[a] + 1]]
    /\ promised' = [promised EXCEPT ![c] = NoPromise]

Reject(c) ==
    /\ ~Allowed(c)
    /\ bucket' = [bucket EXCEPT ![c] = [units |-> Level(c), age |-> 0]]
    /\ promised' = [promised EXCEPT ![c] = ResetIn(c)]
    /\ UNCHANGED served

\* reset(), and resetAll() for every client.
ResetBucket(c) ==
    /\ bucket' = [bucket EXCEPT ![c] = NoBucket]
    /\ served' = [served EXCEPT ![c] = NoneServed]
    /\ promised' = [promised EXCEPT ![c] = NoPromise]

\* The task that runs every five minutes.
IsStale(c) == bucket[c].age > StaleAge

CleanupBuckets ==
    /\ \E c \in BucketClients : IsStale(c)
    /\ bucket' = [c \in BucketClients |-> IF IsStale(c) THEN NoBucket ELSE bucket[c]]
    /\ UNCHANGED <<served, promised>>

Elapse ==
    /\ bucket' = [c \in BucketClients |->
                    IF bucket[c] = NoBucket \/ IsStale(c) THEN bucket[c]
                    ELSE [bucket[c] EXCEPT !.age = @ + 1]]
    /\ served' = [c \in BucketClients |->
                    [a \in Ages |-> IF a = 0 THEN 0 ELSE served[c][a - 1]]]
    /\ promised' = [c \in BucketClients |-> IF promised[c] > 0 THEN promised[c] - 1
                                            ELSE promised[c]]

BucketNext ==
    \/ \E c \in BucketClients : Admit(c) \/ Reject(c) \/ ResetBucket(c)
    \/ CleanupBuckets
    \/ Elapse

-------------------------------------------------------------------------------
(* Properties *)

\* In no part of a window, wherever it begins, is a client admitted more often than its burst
\* and the refill of that time allow, though the cleanup forgets buckets: in a whole window
\* no more than maxRequests times beyond the burst.
BurstIsBounded ==
    \A c \in BucketClients : \A a \in Ages :
        served[c][a] * BucketWindow <= Capacity + a * MaxPerWindow

\* A refused client that comes back after resetIn, and not before, is admitted.
ResetInSuffices == \A c \in BucketClients : promised[c] = 0 => Allowed(c)
================================================================================
