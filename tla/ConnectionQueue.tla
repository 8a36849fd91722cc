---------------------------- MODULE ConnectionQueue ----------------------------
(***************************************************************************)
(* The bounded FIFO queue with expiry that holds the calls MCPClientPool   *)
(* cannot start at once (src/mcp/connection-queue.ts).                     *)
(*                                                                         *)
(* Every operation runs under AsyncLock('queue'), so each is one atomic    *)
(* action; its argument t is the Date.now() the operation reads.  Of a     *)
(* queued request only its identity and its timeoutAt matter.              *)
(*                                                                         *)
(* An operator written right above another one, with a name that says what *)
(* is wrong with it, is a faulty variant of it: the properties are known   *)
(* to notice it in its place.  No specification uses it.                   *)
(***************************************************************************)
EXTENDS Subsequences, SequencesExt

CONSTANTS Requests,   \* request identities
          QueueSize,  \* config.maxSize
          QueueTimeout \* config.timeoutMs

\* getPoolConfig() admits positive numbers only.
ASSUME QueueAssumption == QueueSize \in Nat \ {0} /\ QueueTimeout \in Nat \ {0}

VARIABLES
    now,      \* Date.now(), which the environment advances
    queue,    \* queued requests, [requestId, timeoutAt]
    stats     \* the lifetime counters

queueVars == <<queue, stats>>

Entries == [requestId : Requests, timeoutAt : Nat]

QueueTypeOK ==
    /\ now \in Nat
    /\ queue \in Seq(Entries)
    /\ stats \in [enqueued : Nat, dequeued : Nat, expired : Nat]

NoRequestsYet == [enqueued |-> 0, dequeued |-> 0, expired |-> 0]

QueueInit == queue = <<>> /\ stats = NoRequestsYet

-------------------------------------------------------------------------------
IsFull == Len(queue) >= QueueSize

\* enqueue() throws on a full queue, expired entries included: only dequeue() and
\* cleanupExpired() remove those.
Enqueue(c) ==
    /\ ~IsFull
    /\ queue' = Append(queue, [requestId |-> c, timeoutAt |-> now + QueueTimeout])
    /\ stats' = [stats EXCEPT !.enqueued = @ + 1]

EnqueueRefused ==
    /\ IsFull
    /\ UNCHANGED queueVars

IsLive(e) == e.timeoutAt > now

LiveEntriesAll == queue
LiveEntries == Only(queue, {e \in ToSet(queue) : IsLive(e)})

\* cleanupExpiredInternal() counts what the filter dropped.
ExpiredNow == Len(queue) - Len(LiveEntries)

\* dequeue() on a queue with a live entry: the oldest one is the result.
NextRequestNewest == Last(LiveEntries)
NextRequest == Head(LiveEntries)

Dequeue ==
    /\ LiveEntries # <<>>
    /\ queue' = Tail(LiveEntries)
    /\ stats' = [stats EXCEPT !.dequeued = @ + 1, !.expired = @ + ExpiredNow]

\* cleanupExpired(), and dequeue() when nothing is left after the cleanup.
ExpireEntries ==
    /\ queue' = LiveEntries
    /\ stats' = [stats EXCEPT !.expired = @ + ExpiredNow]

DequeueNone == LiveEntries = <<>> /\ ExpireEntries

CleanupExpired == ExpireEntries

Reset == queue' = <<>> /\ stats' = NoRequestsYet

-------------------------------------------------------------------------------
(* The queue on its own, used by anybody in any order *)

QueueNext ==
    \/ /\ \/ \E c \in Requests : Enqueue(c)
          \/ EnqueueRefused
          \/ Dequeue
          \/ DequeueNone
          \/ CleanupExpired
          \/ Reset
       /\ UNCHANGED now
    \/ now' \in Nat /\ now' >= now /\ UNCHANGED queueVars

QueueSpec == now = 0 /\ QueueInit /\ [][QueueNext]_<<now, queue, stats>>

\* No request is lost or counted twice: whatever was enqueued was dequeued, has expired
\* or is still there, and the bound on the queue is never exceeded.
QueueAccounting ==
    /\ stats.enqueued = stats.dequeued + stats.expired + Len(queue)
    /\ Len(queue) <= QueueSize
===============================================================================
