---------------------------- MODULE ConnectionPool ----------------------------
(***************************************************************************)
(* The pool that limits concurrent executions (src/mcp/connection-pool.ts).*)
(*                                                                         *)
(* A request is a caller of execute(): it acquires a slot, runs its        *)
(* function and releases the slot, whether the function returned or threw. *)
(* JavaScript runs each synchronous stretch to its end, so the body of     *)
(* acquire(), release(), clear() and the first part of drain() are atomic; *)
(* what interleaves are the stretches between awaits: a caller that was    *)
(* handed a slot ("granted") starts its function in a later microtask.     *)
(*                                                                         *)
(* An operator written right above another one, with a name that says what *)
(* is wrong with it (HasSlotOffByOne above HasSlot), is a faulty variant   *)
(* of it: the properties are known to notice it in its place.  No          *)
(* specification uses it.                                                  *)
(***************************************************************************)
EXTENDS Integers, Sequences, FiniteSets

CONSTANTS Requests,       \* callers of execute()
          Drainers,       \* callers of drain()
          MaxConcurrent   \* constructor argument

\* The constructor throws on a limit below 1.
ASSUME PoolAssumption ==
    /\ MaxConcurrent \in Nat \ {0}
    /\ IsFiniteSet(Requests)

VARIABLES
    activeConnections, \* slots taken, as the pool counts them
    waitingQueue,      \* the callers whose resolve function is queued
    draining,
    drainResolvers,    \* drain() calls whose resolver is registered
    pc,                \* where each execute() call is
    drainPc,           \* where each drain() call is
    forgotten,         \* history: holders that the last clear() stopped counting
    ahead              \* history: who came before a queued caller, and is not done

vars == <<activeConnections, waitingQueue, draining, drainResolvers, pc, drainPc,
          forgotten, ahead>>

Queued == {waitingQueue[i] : i \in 1..Len(waitingQueue)}

\* The callers a slot was given to and not yet taken back from.
Holders == {r \in Requests : pc[r] \in {"granted", "running"}}

\* Callers that drain() or clear() removed from the queue: nothing resolves them.
Abandoned == {r \in Requests : pc[r] = "waiting"} \ Queued

TypeOK ==
    /\ activeConnections \in Int
    /\ waitingQueue \in Seq(Requests)
    /\ draining \in BOOLEAN
    /\ drainResolvers \subseteq Drainers
    /\ pc \in [Requests -> {"idle", "waiting", "granted", "running", "rejected"}]
    /\ drainPc \in [Drainers -> {"idle", "waiting", "drained", "timedOut"}]
    /\ forgotten \in Nat
    /\ ahead \in [Requests -> SUBSET Requests]

Init ==
    /\ activeConnections = 0
    /\ waitingQueue = <<>>
    /\ draining = FALSE
    /\ drainResolvers = {}
    /\ pc = [r \in Requests |-> "idle"]
    /\ drainPc = [d \in Drainers |-> "idle"]
    /\ forgotten = 0
    /\ ahead = [r \in Requests |-> {}]

-------------------------------------------------------------------------------
(* acquire() *)

HasSlotOffByOne == activeConnections <= MaxConcurrent
HasSlot == activeConnections < MaxConcurrent

MustRejectNever == FALSE
MustReject == draining

RejectWhileDraining(r) ==
    /\ pc[r] = "idle"
    /\ MustReject
    /\ pc' = [pc EXCEPT ![r] = "rejected"]
    /\ UNCHANGED <<activeConnections, waitingQueue, draining, drainResolvers, drainPc,
                   forgotten, ahead>>

AcquireSlot(r) ==
    /\ pc[r] = "idle"
    /\ ~MustReject
    /\ HasSlot
    /\ activeConnections' = activeConnections + 1
    /\ pc' = [pc EXCEPT ![r] = "granted"]
    /\ UNCHANGED <<waitingQueue, draining, drainResolvers, drainPc, forgotten, ahead>>

PushInFront(r) == <<r>> \o waitingQueue
Push(r) == Append(waitingQueue, r)

AcquireWait(r) ==
    /\ pc[r] = "idle"
    /\ ~MustReject
    /\ ~HasSlot
    /\ waitingQueue' = Push(r)
    /\ pc' = [pc EXCEPT ![r] = "waiting"]
    /\ ahead' = [ahead EXCEPT ![r] = Holders \cup Queued]
    /\ UNCHANGED <<activeConnections, draining, drainResolvers, drainPc, forgotten>>

\* execute() goes on after `await this.acquire()`.
StartFunction(r) ==
    /\ pc[r] = "granted"
    /\ pc' = [pc EXCEPT ![r] = "running"]
    /\ UNCHANGED <<activeConnections, waitingQueue, draining, drainResolvers, drainPc,
                   forgotten, ahead>>

-------------------------------------------------------------------------------
(* release(), in execute()'s finally *)

\* History: r is done, nobody waits behind it any more.
ForgetAhead(r) == [s \in Requests |-> ahead[s] \ {r}]

\* The slot changes hands: the counter keeps its value.
SlotsAfterHandOverDecremented == activeConnections - 1
SlotsAfterHandOver == activeConnections

HandOver(r) ==
    /\ pc[r] = "running"
    /\ waitingQueue # <<>>
    /\ LET next == Head(waitingQueue) IN
         /\ pc' = [pc EXCEPT ![r] = "idle", ![next] = "granted"]
         /\ ahead' = [ForgetAhead(r) EXCEPT ![next] = {}]
    /\ waitingQueue' = Tail(waitingQueue)
    /\ activeConnections' = SlotsAfterHandOver
    /\ UNCHANGED <<draining, drainResolvers, drainPc, forgotten>>

\* The pool is empty and someone drains it: resolve every registered resolver.  The
\* resolver of a drain() that already timed out settles nothing.
SignalDrained ==
    /\ drainResolvers' = {}
    /\ drainPc' = [d \in Drainers |->
                     IF d \in drainResolvers /\ drainPc[d] = "waiting"
                     THEN "drained" ELSE drainPc[d]]

NobodyWaitsUnchecked == TRUE
NobodyWaits == waitingQueue = <<>>

LastSlotFreedTooEarly == activeConnections - 1 <= 1 /\ draining
LastSlotFreedMissed == activeConnections = 0 /\ draining
LastSlotFreed == activeConnections - 1 = 0 /\ draining

FreeSlot(r) ==
    /\ pc[r] = "running"
    /\ NobodyWaits
    /\ activeConnections' = activeConnections - 1
    /\ pc' = [pc EXCEPT ![r] = "idle"]
    /\ ahead' = ForgetAhead(r)
    /\ IF LastSlotFreed
       THEN SignalDrained
       ELSE UNCHANGED <<drainResolvers, drainPc>>
    /\ UNCHANGED <<waitingQueue, draining, forgotten>>

-------------------------------------------------------------------------------
(* clear() and drain() *)

Clear ==
    /\ waitingQueue' = <<>>
    /\ activeConnections' = 0
    /\ forgotten' = Cardinality(Holders)
    /\ ahead' = [r \in Requests |-> {}]
    /\ UNCHANGED <<draining, drainResolvers, pc, drainPc>>

\* drain() up to its await, or to its end when the pool is idle.
Drain(d) ==
    /\ drainPc[d] = "idle"
    /\ draining' = TRUE
    /\ waitingQueue' = <<>>
    /\ ahead' = [r \in Requests |-> {}]
    /\ IF activeConnections > 0
       THEN /\ drainResolvers' = drainResolvers \cup {d}
            /\ drainPc' = [drainPc EXCEPT ![d] = "waiting"]
       ELSE /\ drainPc' = [drainPc EXCEPT ![d] = "drained"]
            /\ UNCHANGED drainResolvers
    /\ UNCHANGED <<activeConnections, pc, forgotten>>

\* The timeout wins the race; the resolver stays registered.
DrainTimeout(d) ==
    /\ drainPc[d] = "waiting"
    /\ drainPc' = [drainPc EXCEPT ![d] = "timedOut"]
    /\ UNCHANGED <<activeConnections, waitingQueue, draining, drainResolvers, pc,
                   forgotten, ahead>>

-------------------------------------------------------------------------------
Next ==
    \/ \E r \in Requests :
         \/ RejectWhileDraining(r)
         \/ AcquireSlot(r)
         \/ AcquireWait(r)
         \/ StartFunction(r)
         \/ HandOver(r)
         \/ FreeSlot(r)
    \/ \E d \in Drainers : Drain(d) \/ DrainTimeout(d)
    \/ Clear

\* A microtask that is due runs, and an execution settles: every executor has a
\* timeout that kills it.  Nobody has to call, drain or clear, and the drain timer
\* is left out on purpose: the liveness properties must hold without its help.
Fairness ==
    \A r \in Requests : WF_vars(StartFunction(r)) /\ WF_vars(HandOver(r) \/ FreeSlot(r))

Spec == Init /\ [][Next]_vars /\ Fairness

-------------------------------------------------------------------------------
(* Properties *)

\* No more than MaxConcurrent executions run or are about to run, however callers,
\* hand-overs and drains interleave, unless clear() forgot the ones in flight.
BoundedConcurrency == forgotten = 0 => Cardinality(Holders) <= MaxConcurrent

\* No slot stays free while a caller waits for one: release() hands it over instead
\* of letting a newcomer in, and nothing else frees a slot.
NoIdleSlotWhileWaiting == waitingQueue # <<>> => Cardinality(Holders) >= MaxConcurrent

\* FIFO as callers see it: whoever holds a slot while r is queued was there before r.
NoOvertaking == \A r \in Queued : Holders \subseteq ahead[r]

\* A drain() that returned because the pool was empty left nobody behind, and nobody
\* came in since: the shutdown that follows cuts off no execution.
DrainedIsQuiet ==
    (\E d \in Drainers : drainPc[d] = "drained") /\ forgotten = 0 => Holders = {}

\* Once the pool drains, a queue never builds up again and no slot changes hands: the
\* set of executions only shrinks.
DrainingOnlyShrinks == [][draining => Holders' \subseteq Holders]_vars

\* A queued caller gets its slot as long as nobody drains or clears the pool.
QueuedIsServed ==
    \A r \in Requests :
        (r \in Queued) ~> (pc[r] = "running" \/ draining \/ forgotten > 0)

\* What drain() says it does with the callers in the queue (connection-pool.ts:116,
\* "Reject all waiting requests"): whoever waits when a drain begins hears of it.  The
\* code empties the queue and settles none of their promises.
DroppedAreRejected ==
    \A r \in Requests :
        (r \in Queued) ~> (pc[r] \in {"running", "rejected"} \/ forgotten > 0)

\* The signal of release() is not lost: a drain() that waits for executions in flight
\* returns without its timer, unless clear() makes the pool miss the moment it becomes
\* empty.
DrainIsSignalled ==
    \A d \in Drainers :
        (drainPc[d] = "waiting" /\ Holders # {}) ~> (drainPc[d] # "waiting" \/ forgotten > 0)

-------------------------------------------------------------------------------
(* The inductive invariant behind the safety properties *)

\* The counter counts the holders, except those that clear() made it forget.
SlotAccounting ==
    /\ activeConnections + forgotten = Cardinality(Holders)
    /\ activeConnections <= MaxConcurrent

\* Callers queue up only behind a full pool that accepts callers, each one once.
QueueInv ==
    /\ waitingQueue # <<>> => activeConnections = MaxConcurrent /\ ~draining
    /\ \A i \in 1..Len(waitingQueue) : pc[waitingQueue[i]] = "waiting"
    /\ \A i, j \in 1..Len(waitingQueue) : waitingQueue[i] = waitingQueue[j] => i = j

\* Every holder, and everyone closer to the front, came before a queued caller.
QueueOrder ==
    \A i \in 1..Len(waitingQueue) :
        /\ Holders \subseteq ahead[waitingQueue[i]]
        /\ \A j \in 1..(i - 1) : waitingQueue[j] \in ahead[waitingQueue[i]]

DrainInv ==
    \A d \in Drainers :
        drainPc[d] = "drained" => draining /\ (forgotten = 0 => Holders = {})

PoolInv == TypeOK /\ SlotAccounting /\ QueueInv /\ QueueOrder /\ DrainInv

\* The pool implements the abstract limiter.
AC == INSTANCE AdmissionControl WITH
        Clients <- Requests, Limit <- MaxConcurrent,
        inside <- Holders, closed <- draining

ImplementsAdmissionControl == AC!ACSpec
===============================================================================
