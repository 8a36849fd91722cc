----------------------------- MODULE CircuitBreaker -----------------------------
(***************************************************************************)
(* The circuit breaker (src/security/circuit-breaker-factory.ts) around    *)
(* opossum, whose states and events appear as the factory uses them: fire, *)
(* success, failure, open, halfOpen, close and the timer of resetTimeout.  *)
(* Opossum refuses calls unless it is closed, or half open and nobody has  *)
(* tried yet (pendingClose); a success closes it, and a failure opens it,  *)
(* while it is half open.                                                  *)
(*                                                                         *)
(* The handlers take an AsyncLock, but nothing waits in it: an event and   *)
(* the events it causes are one step.                                      *)
(*                                                                         *)
(* An operator written right above another one, with a name that says what *)
(* is wrong with it, is a faulty variant of it: the properties are known   *)
(* to notice it in its place.  No specification uses it.                   *)
(***************************************************************************)
EXTENDS Integers, FiniteSets

CONSTANTS GuardedCalls,       \* concurrent callers of execute()
          FailureThreshold,
          MaxFailures         \* bounds the count of consecutive failures

ASSUME BreakerAssumption ==
    FailureThreshold \in Nat \ {0} /\ MaxFailures \in Nat /\ MaxFailures >= FailureThreshold

VARIABLES
    breaker,               \* opossum's state
    pendingClose,          \* half open, and the trial call has not come yet
    consecutiveFailures,
    statsState,            \* stats.state
    nextAttemptKnown,      \* stats.nextAttemptTime is not null
    guarded                \* history: the calls in flight, and how they were let in

breakerVars == <<breaker, pendingClose, consecutiveFailures, statsState, nextAttemptKnown, guarded>>

BreakerStates == {"closed", "open", "half-open"}

BreakerTypeOK ==
    /\ breaker \in BreakerStates /\ pendingClose \in BOOLEAN
    /\ consecutiveFailures \in 0..MaxFailures
    /\ statsState \in BreakerStates /\ nextAttemptKnown \in BOOLEAN
    /\ guarded \in [GuardedCalls -> {"idle", "called", "trial"}]

BreakerInit ==
    /\ breaker = "closed" /\ pendingClose = FALSE
    /\ consecutiveFailures = 0
    /\ statsState = "closed" /\ nextAttemptKnown = FALSE
    /\ guarded = [c \in GuardedCalls |-> "idle"]

InFlight == {c \in GuardedCalls : guarded[c] # "idle"}

OnOpen == breaker' = "open" /\ pendingClose' = FALSE /\ statsState' = "open" /\ nextAttemptKnown' = TRUE
OnClose == breaker' = "closed" /\ pendingClose' = FALSE /\ statsState' = "closed" /\ nextAttemptKnown' = FALSE
Unmoved == UNCHANGED <<breaker, pendingClose, statsState>>

\* A call that is refused returns at once and changes nothing.
Fire(c) ==
    /\ guarded[c] = "idle"
    /\ breaker = "closed" \/ pendingClose
    /\ guarded' = [guarded EXCEPT ![c] = IF pendingClose THEN "trial" ELSE "called"]
    /\ pendingClose' = FALSE
    /\ UNCHANGED <<breaker, consecutiveFailures, statsState, nextAttemptKnown>>

Returns(c) == c \in InFlight /\ guarded' = [guarded EXCEPT ![c] = "idle"]

\* A late one, after others opened the circuit, resets the statistics and nothing else.
Succeed(c) ==
    /\ Returns(c)
    /\ consecutiveFailures' = 0
    /\ \/ breaker = "half-open" /\ OnClose
       \/ breaker # "half-open" /\ Unmoved /\ nextAttemptKnown' = FALSE

ThresholdReached(n) == n >= FailureThreshold

MustOpen(n) == breaker = "half-open" \/ (breaker = "closed" /\ ThresholdReached(n))

\* Also when opossum's timeout is over; what the function does afterwards is ignored.  By its
\* own count opossum opens before the threshold, too, when more calls failed in its rolling
\* window than were fired in it.
Fail(c) ==
    /\ Returns(c)
    /\ consecutiveFailures < MaxFailures
    /\ consecutiveFailures' = consecutiveFailures + 1
    /\ \/ breaker # "open" /\ OnOpen
       \/ ~MustOpen(consecutiveFailures') /\ Unmoved /\ UNCHANGED nextAttemptKnown

OnHalfOpenUnseen == statsState' = statsState
OnHalfOpen == statsState' = "half-open"

CoolDown ==
    /\ breaker = "open"
    /\ breaker' = "half-open" /\ pendingClose' = TRUE
    /\ OnHalfOpen
    /\ UNCHANGED <<consecutiveFailures, nextAttemptKnown, guarded>>

ResetBreaker ==
    /\ OnClose
    /\ consecutiveFailures' = 0
    /\ UNCHANGED guarded

BreakerNext ==
    \/ \E c \in GuardedCalls : Fire(c) \/ Succeed(c) \/ Fail(c)
    \/ CoolDown
    \/ ResetBreaker

-------------------------------------------------------------------------------
(* Properties *)

\* The statistics say what the breaker does, and it is closed only below the threshold.
StatsAreTrue ==
    /\ statsState = breaker
    /\ breaker = "closed" => consecutiveFailures < FailureThreshold
    /\ breaker = "closed" => ~nextAttemptKnown

\* Half open, the breaker waits for a trial call or for the answer of one: it is never stuck
\* refusing calls with nothing left that could close or open it.
TrialDecides == breaker = "half-open" => pendingClose \/ \E c \in InFlight : guarded[c] = "trial"
=================================================================================
