----------------------------- MODULE SlidingWindow -----------------------------
(***************************************************************************)
(* The sliding window of the per-client rate limiter                       *)
(* (src/security/per-client-rate-limiter.ts).  A client has one bucket of  *)
(* its own, and one for every endpoint it names; an endpoint may have a    *)
(* limit and a window of its own.  checkLimit() runs under a lock for each *)
(* bucket, and does not wait in it: it is atomic.                          *)
(*                                                                         *)
(* Timestamps appear as their age.  retryAfter is told in whole seconds.   *)
(***************************************************************************)
EXTENDS Integers, Sequences, FiniteSets

CONSTANTS WindowClients, Endpoints,
          Overridden,      \* endpoints with a limit and a window of their own
          MaxRequests,     \* maxRequests
          WindowTicks,     \* windowMs, in ticks
          MaxOverride,     \* maxRequests of the overridden endpoints
          OverrideTicks,   \* windowMs of the overridden endpoints
          SecondTicks      \* ticks in a second

ASSUME WindowAssumption ==
    /\ MaxRequests \in Nat \ {0} /\ MaxOverride \in Nat \ {0} /\ Overridden \subseteq Endpoints
    /\ WindowTicks \in Nat \ {0} /\ OverrideTicks \in Nat \ {0} /\ SecondTicks \in Nat \ {0}

NoEndpoint == "none"

VARIABLES
    timestamps,   \* of each bucket, the oldest first
    admitted,     \* history: how often each bucket admitted in the last so many ticks
    retryAt       \* history: ticks until the time told by retryAfter has passed by one

windowVars == <<timestamps, admitted, retryAt>>

BucketKeys == WindowClients \X (Endpoints \cup {NoEndpoint})
LongestWindow == IF OverrideTicks > WindowTicks THEN OverrideTicks ELSE WindowTicks
WindowAges == 0..LongestWindow
Forgotten == LongestWindow + 1
NotTold == -1

WindowTypeOK ==
    /\ \A k \in BucketKeys : timestamps[k] \in Seq(0..Forgotten)
    /\ admitted \in [BucketKeys -> [WindowAges -> Nat]]
    /\ retryAt \in [BucketKeys -> NotTold..(LongestWindow + SecondTicks + 1)]

WindowInit ==
    /\ timestamps = [k \in BucketKeys |-> <<>>]
    /\ admitted = [k \in BucketKeys |-> [a \in WindowAges |-> 0]]
    /\ retryAt = [k \in BucketKeys |-> NotTold]

LimitOf(k) == IF k[2] \in Overridden THEN MaxOverride ELSE MaxRequests
WindowOf(k) == IF k[2] \in Overridden THEN OverrideTicks ELSE WindowTicks

\* Since the oldest come first, the ones to be removed are the first ones.
Expired(k) == {i \in DOMAIN timestamps[k] : timestamps[k][i] > WindowOf(k)}
Recent(k) == SubSeq(timestamps[k], Cardinality(Expired(k)) + 1, Len(timestamps[k]))

InSeconds(ticks) == (ticks + SecondTicks - 1) \div SecondTicks

AdmitInWindow(k) ==
    /\ Len(Recent(k)) < LimitOf(k)
    /\ timestamps' = [timestamps EXCEPT ![k] = Append(Recent(k), 0)]
    /\ admitted' = [admitted EXCEPT ![k] = [a \in WindowAges |-> @[a] + 1]]
    /\ retryAt' = [retryAt EXCEPT ![k] = NotTold]

RejectInWindow(k) ==
    /\ Len(Recent(k)) >= LimitOf(k)
    /\ timestamps' = [timestamps EXCEPT ![k] = Recent(k)]
    /\ retryAt' = [retryAt EXCEPT ![k] = SecondTicks * InSeconds(WindowOf(k) - Head(Recent(k))) + 1]
    /\ UNCHANGED admitted

\* All buckets of a client.
ResetClient(c) ==
    /\ timestamps' = [k \in BucketKeys |-> IF k[1] = c THEN <<>> ELSE timestamps[k]]
    /\ admitted' = [k \in BucketKeys |-> IF k[1] = c THEN [a \in WindowAges |-> 0]
                                         ELSE admitted[k]]
    /\ retryAt' = [k \in BucketKeys |-> IF k[1] = c THEN NotTold ELSE retryAt[k]]

TimeGoesOn ==
    /\ timestamps' = [k \in BucketKeys |->
                        [i \in DOMAIN timestamps[k] |->
                           IF timestamps[k][i] = Forgotten THEN Forgotten
                           ELSE timestamps[k][i] + 1]]
    /\ admitted' = [k \in BucketKeys |->
                      [a \in WindowAges |-> IF a = 0 THEN 0 ELSE admitted[k][a - 1]]]
    /\ retryAt' = [k \in BucketKeys |-> IF retryAt[k] > 0 THEN retryAt[k] - 1 ELSE retryAt[k]]

WindowNext ==
    \/ \E k \in BucketKeys : AdmitInWindow(k) \/ RejectInWindow(k)
    \/ \E c \in WindowClients : ResetClient(c)
    \/ TimeGoesOn

-------------------------------------------------------------------------------
(* Properties *)

\* Both ends included, a window never sees more requests than its limit, whatever the
\* other buckets of the client do.
WindowIsBounded == \A k \in BucketKeys : admitted[k][WindowOf(k)] <= LimitOf(k)

\* Who comes back when the time told has passed by a tick is admitted.  In the very tick it
\* may be refused, and told to retry after zero seconds: a timestamp still counts when it
\* is exactly one window old.
RetryAfterSuffices ==
    \A k \in BucketKeys : retryAt[k] = 0 => Len(Recent(k)) < LimitOf(k)
================================================================================
