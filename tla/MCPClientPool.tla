----------------------------- MODULE MCPClientPool -----------------------------
(***************************************************************************)
(* The pool of MCP clients: callTool() limits the calls in flight and      *)
(* parks the others in a ConnectionQueue (src/mcp/client-pool.ts).         *)
(*                                                                         *)
(* A request is one callTool().  Its synchronous stretches are atomic; the *)
(* queue operations it starts go through AsyncLock('queue'), which runs    *)
(* them one by one in the order of acquire(): lockQueue.  A waiter that    *)
(* was woken resumes in a later microtask, and other calls may run in      *)
(* between.  A call for a tool that is not listed throws like one on a     *)
(* pool that is not initialized.                                           *)
(*                                                                         *)
(* enqueue() of a request returns, and its slot listener and timer are     *)
(* registered, before the next holder of the lock can emit: one action.    *)
(***************************************************************************)
EXTENDS ConnectionQueue, FiniteSets

CONSTANTS MaxConcurrent, \* maxConcurrent of the configuration
          Drift,         \* how far the time of setTimeout() may be ahead of Date.now()
          MaxTime        \* bound: the clock goes beyond it only to let waiters time out

ASSUME ClientPoolAssumption ==
    /\ MaxConcurrent \in Nat \ {0} /\ Drift \in Nat /\ MaxTime \in Nat
    /\ IsFiniteSet(Requests)

VARIABLES
    initialized,
    activeConcurrent,  \* calls in flight, as the pool counts them
    lockQueue,         \* queue operations that hold or wait for the lock
    listeners,         \* requests with a listener on their slot event
    deadline,          \* when the timer of waitForQueueSlot() is due, 0 without one
    pc,                \* where each callTool() is
    disconnected,      \* history: disconnect() has run
    wasted             \* history: dequeues since the last enqueue that gave their slot
                       \* to a request that had given up

history == <<disconnected, wasted>>
poolVars == <<initialized, activeConcurrent, lockQueue, listeners, deadline, pc, history>>
vars == <<now, queue, stats, initialized, activeConcurrent, lockQueue, listeners,
          deadline, pc, disconnected, wasted>>

LockOps == [op : {"enqueue", "dequeue"}, by : Requests]

Ended == {"done", "failed", "unavailable"}

In(where) == {c \in Requests : pc[c] \in where}

TypeOK ==
    /\ QueueTypeOK
    /\ initialized \in BOOLEAN
    /\ activeConcurrent \in Nat
    /\ lockQueue \in Seq(LockOps)
    /\ listeners \subseteq Requests
    /\ deadline \in [Requests -> Nat]
    /\ pc \in [Requests -> Ended \cup {"idle", "enqueueing", "waiting", "woken",
                                       "calling", "freed"}]
    /\ disconnected \in BOOLEAN /\ wasted \in Nat

Init ==
    /\ now = 0
    /\ QueueInit
    /\ initialized = FALSE
    /\ activeConcurrent = 0
    /\ lockQueue = <<>>
    /\ listeners = {}
    /\ deadline = [c \in Requests |-> 0]
    /\ pc = [c \in Requests |-> "idle"]
    /\ disconnected = FALSE /\ wasted = 0

Goto(c, where) == pc' = [pc EXCEPT ![c] = where]

-------------------------------------------------------------------------------
(* initialize() and disconnect() *)

Initialize ==
    /\ ~initialized
    /\ initialized' = TRUE
    /\ UNCHANGED <<now, queueVars, activeConcurrent, lockQueue, listeners, deadline, pc,
                   history>>

\* The end of disconnect(), after the clients were closed and their processes killed.
\* Neither the queue nor activeConcurrent is reset.
Disconnect ==
    /\ initialized
    /\ initialized' = FALSE
    /\ listeners' = {}
    /\ disconnected' = TRUE
    /\ UNCHANGED <<now, queueVars, activeConcurrent, lockQueue, deadline, pc, wasted>>

-------------------------------------------------------------------------------
(* callTool() up to the call *)

Refuse(c) ==
    /\ pc[c] = "idle"
    /\ ~initialized
    /\ Goto(c, "failed")
    /\ UNCHANGED <<now, queueVars, initialized, activeConcurrent, lockQueue, listeners,
                   deadline, history>>

AtCapacityTooEarly == activeConcurrent >= MaxConcurrent - 1
AtCapacity == activeConcurrent >= MaxConcurrent

CallAtOnce(c) ==
    /\ pc[c] = "idle"
    /\ initialized
    /\ ~AtCapacity
    /\ activeConcurrent' = activeConcurrent + 1
    /\ Goto(c, "calling")
    /\ UNCHANGED <<now, queueVars, initialized, lockQueue, listeners, deadline, history>>

AskForLock(op, c) == lockQueue' = Append(lockQueue, [op |-> op, by |-> c])

CallQueued(c) ==
    /\ pc[c] = "idle"
    /\ initialized
    /\ AtCapacity
    /\ AskForLock("enqueue", c)
    /\ Goto(c, "enqueueing")
    /\ UNCHANGED <<now, queueVars, initialized, activeConcurrent, listeners, deadline,
                   history>>

Locked(op, c) ==
    /\ lockQueue # <<>>
    /\ Head(lockQueue) = [op |-> op, by |-> c]
    /\ lockQueue' = Tail(lockQueue)

\* When waitForQueueSlot()'s timer is due, as Date.now() would have it.
TimerDue == now + QueueTimeout

LockedEnqueue(c) ==
    /\ Locked("enqueue", c)
    /\ Enqueue(c)
    /\ listeners' = listeners \cup {c}
    /\ deadline' = [deadline EXCEPT ![c] = TimerDue]
    /\ Goto(c, "waiting")
    /\ wasted' = 0
    /\ UNCHANGED <<now, initialized, activeConcurrent, disconnected>>

\* Queue full: "Service Unavailable".
LockedEnqueueRefused(c) ==
    /\ Locked("enqueue", c)
    /\ EnqueueRefused
    /\ Goto(c, "unavailable")
    /\ UNCHANGED <<now, initialized, activeConcurrent, listeners, deadline, history>>

\* The slot listener cleared the timer; the waiter does not look at activeConcurrent again.
Resume(c) ==
    /\ pc[c] = "woken"
    /\ activeConcurrent' = activeConcurrent + 1
    /\ Goto(c, "calling")
    /\ UNCHANGED <<now, queueVars, initialized, lockQueue, listeners, deadline, history>>

\* Timers fire, and time passes, when no microtask is due.
NoMicrotasks == lockQueue = <<>> /\ In({"woken"}) = {}

\* setTimeout() goes by the time of the event loop, timeoutAt by Date.now(): the timer may
\* fire late, and also up to Drift before timeoutAt.
TimerFiresIfHeard(c) == deadline[c] <= now + Drift /\ c \in listeners
TimerFires(c) == deadline[c] <= now + Drift

\* The timer rejects the wait: "Service Unavailable".  The entry stays in the queue, and is
\* still alive if the timer was early.
WaitTimeout(c) ==
    /\ pc[c] = "waiting"
    /\ NoMicrotasks
    /\ TimerFires(c)
    /\ listeners' = listeners \ {c}
    /\ deadline' = [deadline EXCEPT ![c] = 0]
    /\ Goto(c, "unavailable")
    /\ UNCHANGED <<now, queueVars, initialized, activeConcurrent, lockQueue, history>>

-------------------------------------------------------------------------------
(* callTool() from the end of the call: its finally, and processNextQueuedRequest() *)

\* The client answered or failed, or the server had no client any more.
FreeSlot(c) ==
    /\ pc[c] = "calling"
    /\ activeConcurrent' = activeConcurrent - 1
    /\ AskForLock("dequeue", c)
    /\ Goto(c, "freed")
    /\ UNCHANGED <<now, queueVars, initialized, listeners, deadline, history>>

\* emit(): the waiter's listener, if it still has one, runs once and clears the timer.
WakeAndReturn(c, next) ==
    /\ listeners' = listeners \ {next}
    /\ deadline' = [r \in Requests |-> IF r = next /\ next \in listeners THEN 0
                                       ELSE deadline[r]]
    /\ pc' = [r \in Requests |-> IF r = c THEN "done"
                                 ELSE IF r = next /\ next \in listeners THEN "woken"
                                 ELSE pc[r]]

LockedDequeue(c) ==
    /\ Locked("dequeue", c)
    /\ Dequeue
    /\ WakeAndReturn(c, NextRequest.requestId)
    /\ wasted' = wasted + IF pc[NextRequest.requestId] = "unavailable" THEN 1 ELSE 0
    /\ UNCHANGED <<now, initialized, activeConcurrent, disconnected>>

LockedDequeueNone(c) ==
    /\ Locked("dequeue", c)
    /\ DequeueNone
    /\ Goto(c, "done")
    /\ UNCHANGED <<now, initialized, activeConcurrent, listeners, deadline, history>>

-------------------------------------------------------------------------------
Tick ==
    /\ NoMicrotasks
    /\ now < MaxTime \/ \E c \in In({"waiting"}) : now < deadline[c]
    /\ now' = now + 1
    /\ UNCHANGED <<queueVars, poolVars>>

LockStep(c) ==
    \/ LockedEnqueue(c)
    \/ LockedEnqueueRefused(c)
    \/ LockedDequeue(c)
    \/ LockedDequeueNone(c)

Next ==
    \/ \E c \in Requests :
         \/ Refuse(c)
         \/ CallAtOnce(c)
         \/ CallQueued(c)
         \/ LockStep(c)
         \/ Resume(c)
         \/ WaitTimeout(c)
         \/ FreeSlot(c)
    \/ Initialize
    \/ Disconnect
    \/ Tick

\* Microtasks run, time passes and timers fire.  Nothing makes a tool answer, and nobody
\* has to call.
Fairness ==
    /\ \A c \in Requests :
         WF_vars(LockStep(c)) /\ WF_vars(Resume(c)) /\ WF_vars(WaitTimeout(c))
    /\ WF_vars(Tick)

Spec == Init /\ [][Next]_vars /\ Fairness

-------------------------------------------------------------------------------
(* Properties *)

QueueEntries == {queue[i] : i \in 1..Len(queue)}

PendingDequeues == Cardinality({i \in 1..Len(lockQueue) : lockQueue[i].op = "dequeue"})

\* Waiters that the next dequeue() may wake.
LiveWaiters == {c \in In({"waiting"}) \cap listeners :
                  \E e \in QueueEntries : e.requestId = c /\ IsLive(e)}

\* Live entries of requests whose timer fired before timeoutAt.
EarlyEntries == {e \in QueueEntries : /\ IsLive(e) /\ e.timeoutAt <= now + Drift
                                      /\ pc[e.requestId] = "unavailable"}

\* The check of the limit and the enqueueing are two steps, and so are freeing a slot and
\* waking a waiter; still no wake-up is lost between them: while a live request waits, the
\* limit is used up by calls in flight, waiters about to resume, wake-ups on their way, and
\* those that went to requests that had given up early.
NoLostWakeup ==
    LiveWaiters # {} /\ ~disconnected =>
        Cardinality(In({"calling", "woken"})) + PendingDequeues + wasted >= MaxConcurrent

\* The calls in flight are the ones counted; a request that times out leaves an expired
\* entry behind, or one that its timer was ahead of by no more than the clocks differ; a
\* waiter is in the queue, or about to time out; no request is lost from the queue or
\* counted twice, and no wake-up is lost.
ClientPoolInv ==
    /\ TypeOK
    /\ activeConcurrent = Cardinality(In({"calling"}))
    /\ \A e \in QueueEntries :
         IsLive(e) => pc[e.requestId] = "waiting" \/ e \in EarlyEntries
    /\ \A c \in In({"waiting"}) \cap listeners :
         now < deadline[c] => \E e \in QueueEntries : e.requestId = c
    /\ listeners \subseteq In({"waiting"})
    /\ QueueAccounting
    /\ NoLostWakeup

\* A dequeue wakes a waiter.  The one thing that can cost a wake-up is the difference of the
\* clocks: the request that was dequeued had given up before its entry expired.
WakeupReachesWaiter ==
    [][stats'.dequeued > stats.dequeued /\ ~disconnected =>
         \/ \E c \in Requests : pc[c] = "waiting" /\ pc'[c] = "woken"
         \/ wasted' > wasted /\ \E e \in EarlyEntries : e \notin QueueEntries']_vars

\* Waiters are woken in the order in which they were enqueued.
WokenInOrder ==
    [][\A c, d \in LiveWaiters :
         pc'[c] = "woken" /\ d # c => deadline[c] <= deadline[d]]_vars

\* Whatever tools and other calls do, a queued call starts or is refused in the end, also
\* when disconnect() took its listener away.
WaitEnds == \A c \in Requests : (pc[c] = "enqueueing") ~> (pc[c] \in Ended \cup {"calling"})

\* What the configuration and the documentation promise of maxConcurrent.
ConcurrencyLimit == activeConcurrent <= MaxConcurrent

\* What the timeout is said to be for: a call is refused by a full queue only while the
\* requests in it are still waiting.
FullMeansWaiting ==
    [][\A c \in Requests : pc[c] = "enqueueing" /\ pc'[c] = "unavailable" =>
         In({"waiting"}) # {}]_vars
===============================================================================
