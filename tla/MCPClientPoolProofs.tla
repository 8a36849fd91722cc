-------------------------- MODULE MCPClientPoolProofs --------------------------
(***************************************************************************)
(* Proofs about callTool() of the pool of MCP clients and its queue, for   *)
(* any number of requests, slots and queue places.                         *)
(*                                                                         *)
(* The queue is proved about on its own first: its entries are in the      *)
(* order of their timeouts, so that a cleanup takes them from the front.   *)
(* Of the pool, a call that is about to be queued is told by the calls     *)
(* that free their slot behind it in the queue of the lock.                *)
(***************************************************************************)
EXTENDS MCPClientPool, FiniteSetTheorems, WellFoundedInduction, TLAPS

-------------------------------------------------------------------------------
(* The queue on its own *)

InOrder ==
    \A i, j \in 1..Len(queue) : i < j => queue[i].timeoutAt <= queue[j].timeoutAt

NoneTooLate == \A i \in 1..Len(queue) : queue[i].timeoutAt <= now + QueueTimeout

QueueInv == QueueTypeOK /\ InOrder /\ NoneTooLate /\ QueueAccounting

\* A set of natural numbers that is not empty has a least one.
LEMMA LeastOf ==
    ASSUME NEW N \in SUBSET Nat, N # {}
    PROVE  \E k \in N : \A n \in N : k <= n
<1>1. PICK k \in N : \A n \in N : ~(<<n, k>> \in OpToRel(<, Nat))
  BY NatLessThanWellFounded, WFMin
<1>2. \A n \in N : ~(n < k)
  BY <1>1 DEF OpToRel
<1> QED  BY <1>2

\* How many numbers there are from one behind k to m.
LEMMA Between ==
    ASSUME NEW k \in Nat, NEW m \in Nat, k <= m
    PROVE  Cardinality((k + 1)..m) = m - k /\ IsFiniteSet((k + 1)..m)
<1> DEFINE a == k + 1
<1>1. a \in Int /\ m \in Int
  OBVIOUS
<1> HIDE DEF a
<1>2. IsFiniteSet(a..m) /\ Cardinality(a..m) = IF a > m THEN 0 ELSE m - a + 1
  BY <1>1, FS_Interval
<1> QED  BY <1>2 DEF a

\* The positions from one on are as many as they are.
LEMMA FromOn ==
    ASSUME NEW k \in Nat, NEW m \in Nat, k <= m, NEW at, at = (k + 1)..m
    PROVE  /\ Cardinality(at) = m - k
           /\ \A n \in 1..(m - k) : Nth(at, n) = n + k
<1>1. Cardinality(at) = m - k
  BY Between
<1>2. ASSUME NEW i \in at PROVE Cardinality({j \in at : j <= i}) = i - k
  <2>1. {j \in at : j <= i} = (k + 1)..i /\ i \in Nat /\ k <= i
    OBVIOUS
  <2> HIDE DEF Nth
  <2>2. Cardinality((k + 1)..i) = i - k
    BY <2>1, Between
  <2> QED  BY <2>1, <2>2
<1>3. ASSUME NEW n \in 1..(m - k) PROVE Nth(at, n) = n + k
  <2>1. n + k \in at /\ Cardinality({j \in at : j <= n + k}) = n
    BY <1>2
  <2>2. /\ Nth(at, n) \in at
        /\ Cardinality({j \in at : j <= Nth(at, n)}) = n
    BY <2>1 DEF Nth
  <2>3. Nth(at, n) - k = n
    BY <1>2, <2>2
  <2> QED  BY <2>2, <2>3
<1> QED  BY <1>1, <1>3

\* What is still alive is the end of the queue.
LEMMA LiveAreLast ==
    ASSUME QueueTypeOK, InOrder
    PROVE  \E k \in 0..Len(queue) :
              /\ \A i \in 1..k : ~IsLive(queue[i])
              /\ \A i \in (k + 1)..Len(queue) : IsLive(queue[i])
              /\ LiveEntries \in Seq(Entries)
              /\ Len(LiveEntries) = Len(queue) - k
              /\ \A n \in 1..(Len(queue) - k) : LiveEntries[n] = queue[n + k]
<1> DEFINE live == {i \in 1..Len(queue) : IsLive(queue[i])}
           kept == {e \in ToSet(queue) : IsLive(e)}
<1>1. queue \in Seq(Entries) /\ Len(queue) \in Nat /\ now \in Nat
  BY DEF QueueTypeOK
<1>2. Positions(queue, kept) = live
  BY <1>1 DEF Positions, ToSet
<1>3. \E k \in 0..Len(queue) : live = (k + 1)..Len(queue)
  <2>1. CASE live = {}
    <3>1. live = (Len(queue) + 1)..Len(queue)
      BY <1>1, <2>1
    <3> QED  BY <1>1, <3>1
  <2>2. CASE live # {}
    <3>0. live \in SUBSET Nat
      OBVIOUS
    <3> HIDE DEF live
    <3>1. PICK m \in live : \A n \in live : m <= n
      BY <3>0, <2>2, LeastOf
    <3> USE DEF live
    <3>2. ASSUME NEW i \in m..Len(queue) PROVE i \in live
      <4>1. /\ i \in 1..Len(queue) /\ m \in 1..Len(queue) /\ queue[m].timeoutAt > now
            /\ queue[m] \in Entries /\ queue[i] \in Entries
        BY <1>1, <3>1 DEF IsLive
      <4>2. queue[m].timeoutAt <= queue[i].timeoutAt
        BY <1>1, <4>1, <3>2 DEF InOrder, Entries
      <4>3. queue[i].timeoutAt > now
        BY <1>1, <4>1, <4>2 DEF Entries
      <4> QED  BY <4>1, <4>3 DEF IsLive
    <3>3. live = ((m - 1) + 1)..Len(queue) /\ m - 1 \in 0..Len(queue)
      BY <1>1, <3>1, <3>2
    <3> QED  BY <3>3
  <2> QED  BY <2>1, <2>2
<1>4. PICK k \in 0..Len(queue) : live = (k + 1)..Len(queue)
  BY <1>3
<1> HIDE DEF kept
<1>5. /\ Cardinality(live) = Len(queue) - k
      /\ \A n \in 1..(Len(queue) - k) : Nth(live, n) = n + k
  <2> DEFINE m == Len(queue)
  <2>1. k \in Nat /\ m \in Nat /\ k <= m /\ live = (k + 1)..m
    BY <1>1, <1>4
  <2> HIDE DEF live, m
  <2>2. Cardinality(live) = m - k /\ \A n \in 1..(m - k) : Nth(live, n) = n + k
    BY <2>1, FromOn
  <2> QED  BY <2>2 DEF m
<1>6. LiveEntries = [n \in 1..Cardinality(live) |-> queue[Nth(live, n)]]
  BY <1>2 DEF LiveEntries, Only, kept
<1>7. \A i \in 1..Len(queue) : i \in live <=> IsLive(queue[i])
  OBVIOUS
<1> HIDE DEF live
<1>8. LiveEntries = [n \in 1..(Len(queue) - k) |-> queue[n + k]]
  BY <1>5, <1>6
<1>9. LiveEntries \in Seq(Entries) /\ Len(LiveEntries) = Len(queue) - k
  <2> DEFINE d == Len(queue) - k
  <2>1. d \in Nat /\ \A n \in 1..d : queue[n + k] \in Entries
    BY <1>1
  <2> HIDE DEF d
  <2>2. LiveEntries \in [1..d -> Entries]
    BY <1>8, <2>1 DEF d
  <2>3. LiveEntries \in Seq(Entries) /\ Len(LiveEntries) = d
    BY <2>1, <2>2
  <2> QED  BY <1>1, <2>3 DEF d
<1>10. (\A i \in 1..k : ~IsLive(queue[i])) /\ (\A i \in (k + 1)..Len(queue) : IsLive(queue[i]))
  BY <1>1, <1>4, <1>7
<1>11. \A n \in 1..(Len(queue) - k) : LiveEntries[n] = queue[n + k]
  BY <1>8
<1> QED  BY <1>9, <1>10, <1>11

\* What each use of the queue makes of it.
LEMMA QueueKept == QueueInv /\ [QueueNext]_<<now, queue, stats>> => QueueInv'
<1> SUFFICES ASSUME QueueInv, [QueueNext]_<<now, queue, stats>> PROVE QueueInv'
  OBVIOUS
<1>0. /\ now \in Nat /\ queue \in Seq(Entries) /\ Len(queue) \in Nat
      /\ stats \in [enqueued : Nat, dequeued : Nat, expired : Nat]
      /\ stats.enqueued = stats.dequeued + stats.expired + Len(queue)
      /\ Len(queue) <= QueueSize
      /\ QueueSize \in Nat /\ QueueTimeout \in Nat
  BY QueueAssumption DEF QueueInv, QueueTypeOK, QueueAccounting
<1>1. ASSUME NEW c \in Requests, Enqueue(c), UNCHANGED now PROVE QueueInv'
  <2> DEFINE e == [requestId |-> c, timeoutAt |-> now + QueueTimeout]
  <2>1. queue' = Append(queue, e) /\ e \in Entries /\ e.timeoutAt = now + QueueTimeout
    BY <1>0, <1>1 DEF Enqueue, Entries
  <2> HIDE DEF e
  <2>2. /\ queue' \in Seq(Entries) /\ Len(queue') = Len(queue) + 1
        /\ \A i \in 1..Len(queue) : queue'[i] = queue[i]
        /\ queue'[Len(queue) + 1] = e
    BY <1>0, <2>1
  <2>3. stats' = [stats EXCEPT !.enqueued = @ + 1] /\ Len(queue) < QueueSize
    BY <1>0, <1>1 DEF Enqueue, IsFull
  <2>4. QueueTypeOK'
    BY <1>0, <1>1, <2>2, <2>3 DEF QueueTypeOK
  <2>5. QueueAccounting'
    BY <1>0, <2>2, <2>3 DEF QueueAccounting
  <2>6. InOrder'
    <3> SUFFICES ASSUME NEW i \in 1..Len(queue'), NEW j \in 1..Len(queue'), i < j
                 PROVE  queue'[i].timeoutAt <= queue'[j].timeoutAt
      BY DEF InOrder
    <3>1. CASE j = Len(queue) + 1
      BY <1>0, <2>1, <2>2, <3>1 DEF QueueInv, NoneTooLate
    <3>2. CASE j # Len(queue) + 1
      <4>1. i \in 1..Len(queue) /\ j \in 1..Len(queue)
        BY <1>0, <2>2, <3>2
      <4>2. queue[i].timeoutAt <= queue[j].timeoutAt
        BY <4>1 DEF QueueInv, InOrder
      <4> QED  BY <2>2, <4>1, <4>2
    <3> QED  BY <3>1, <3>2
  <2>7. NoneTooLate'
    BY <1>0, <1>1, <2>1, <2>2 DEF QueueInv, NoneTooLate
  <2> QED  BY <2>4, <2>5, <2>6, <2>7 DEF QueueInv
<1>2. PICK k \in 0..Len(queue) :
        /\ LiveEntries \in Seq(Entries)
        /\ Len(LiveEntries) = Len(queue) - k
        /\ \A n \in 1..(Len(queue) - k) : LiveEntries[n] = queue[n + k]
  BY LiveAreLast DEF QueueInv
<1>3. ExpiredNow = k
  BY <1>0, <1>2 DEF ExpiredNow
\* A part of the queue that ends where it ends, with the figures to it.
<1>4. ASSUME NEW m \in 0..Len(queue), UNCHANGED now, queue' \in Seq(Entries),
             Len(queue') = Len(queue) - m,
             \A n \in 1..(Len(queue) - m) : queue'[n] = queue[n + m],
             stats' \in [enqueued : Nat, dequeued : Nat, expired : Nat],
             stats'.enqueued = stats.enqueued,
             stats'.dequeued + stats'.expired = stats.dequeued + stats.expired + m
      PROVE  QueueInv'
  <2>1. QueueTypeOK'
    BY <1>0, <1>4 DEF QueueTypeOK
  <2>2. QueueAccounting'
    <3> DEFINE l == Len(queue)
               l1 == Len(queue')
    <3>1. /\ l \in Nat /\ m \in Nat /\ m <= l /\ l1 = l - m /\ l <= QueueSize /\ QueueSize \in Nat
          /\ stats.enqueued \in Nat /\ stats.dequeued \in Nat /\ stats.expired \in Nat
          /\ stats'.dequeued \in Nat /\ stats'.expired \in Nat
          /\ stats.enqueued = stats.dequeued + stats.expired + l
      BY <1>0, <1>4
    <3>4. /\ stats'.enqueued = stats.enqueued
          /\ stats'.dequeued + stats'.expired = stats.dequeued + stats.expired + m
      BY <1>4
    <3> HIDE DEF l, l1
    <3>2. stats'.enqueued = stats'.dequeued + stats'.expired + l1 /\ l1 <= QueueSize
      BY <3>1, <3>4
    <3> QED  BY <3>2 DEF QueueAccounting, l1
  <2>3. InOrder'
    <3> SUFFICES ASSUME NEW i \in 1..Len(queue'), NEW j \in 1..Len(queue'), i < j
                 PROVE  queue'[i].timeoutAt <= queue'[j].timeoutAt
      BY DEF InOrder
    <3>1. i + m \in 1..Len(queue) /\ j + m \in 1..Len(queue) /\ i + m < j + m
      BY <1>0, <1>4
    <3> QED  BY <1>0, <1>4, <3>1 DEF QueueInv, InOrder
  <2>4. NoneTooLate'
    <3> SUFFICES ASSUME NEW i \in 1..Len(queue') PROVE queue'[i].timeoutAt <= now + QueueTimeout
      BY <1>4 DEF NoneTooLate
    <3>1. i + m \in 1..Len(queue)
      BY <1>0, <1>4
    <3> QED  BY <1>0, <1>4, <3>1 DEF QueueInv, NoneTooLate
  <2> QED  BY <2>1, <2>2, <2>3, <2>4 DEF QueueInv
<1>5. ASSUME Dequeue, UNCHANGED now PROVE QueueInv'
  <2>1. LiveEntries # <<>> /\ queue' = Tail(LiveEntries)
    BY <1>5 DEF Dequeue
  <2>2. k + 1 \in 0..Len(queue) /\ k \in Nat
    BY <1>0, <1>2, <2>1
  <2>3. /\ queue' \in Seq(Entries) /\ Len(queue') = Len(queue) - (k + 1)
        /\ \A n \in 1..(Len(queue) - (k + 1)) : queue'[n] = queue[n + (k + 1)]
    <3>1. /\ queue' \in Seq(Entries) /\ Len(queue') = Len(LiveEntries) - 1
          /\ \A n \in 1..(Len(LiveEntries) - 1) : queue'[n] = LiveEntries[n + 1]
      BY <1>2, <2>1
    <3>2. \A n \in 1..(Len(LiveEntries) - 1) : n + 1 \in 1..(Len(queue) - k) /\ (n + 1) + k = n + (k + 1)
      BY <1>0, <1>2, <2>2
    <3> QED  BY <1>0, <1>2, <2>2, <3>1, <3>2
  <2>4. /\ stats' \in [enqueued : Nat, dequeued : Nat, expired : Nat]
        /\ stats'.enqueued = stats.enqueued
        /\ stats'.dequeued + stats'.expired = stats.dequeued + stats.expired + (k + 1)
    <3> DEFINE x == stats.expired + k
               y == stats.dequeued + 1
    <3>1. stats' = [stats EXCEPT !.dequeued = y, !.expired = x]
      BY <1>3, <1>5 DEF Dequeue
    <3>2. stats.dequeued \in Nat /\ stats.expired \in Nat /\ k \in Nat /\ x \in Nat /\ y \in Nat
      BY <1>0, <2>2
    <3>3. y + x = stats.dequeued + stats.expired + (k + 1)
      BY <3>2
    <3> HIDE DEF x, y
    <3>4. /\ stats' \in [enqueued : Nat, dequeued : Nat, expired : Nat]
          /\ stats'.enqueued = stats.enqueued /\ stats'.dequeued = y /\ stats'.expired = x
      BY <1>0, <3>1, <3>2
    <3> QED  BY <3>3, <3>4
  <2> QED  BY <1>4, <1>5, <2>2, <2>3, <2>4
<1>6. ASSUME ExpireEntries, UNCHANGED now PROVE QueueInv'
  <2>1. /\ stats' \in [enqueued : Nat, dequeued : Nat, expired : Nat]
        /\ stats'.enqueued = stats.enqueued
        /\ stats'.dequeued + stats'.expired = stats.dequeued + stats.expired + k
    <3> DEFINE x == stats.expired + k
    <3>1. stats' = [stats EXCEPT !.expired = x]
      BY <1>3, <1>6 DEF ExpireEntries
    <3>2. stats.dequeued \in Nat /\ stats.expired \in Nat /\ k \in Nat /\ x \in Nat
      BY <1>0
    <3>3. stats.dequeued + x = stats.dequeued + stats.expired + k
      BY <3>2
    <3> HIDE DEF x
    <3>4. /\ stats' \in [enqueued : Nat, dequeued : Nat, expired : Nat]
          /\ stats'.enqueued = stats.enqueued /\ stats'.dequeued = stats.dequeued
          /\ stats'.expired = x
      BY <1>0, <3>1, <3>2
    <3> QED  BY <3>3, <3>4
  <2> QED  BY <1>2, <1>4, <1>6, <2>1 DEF ExpireEntries
<1>7. ASSUME Reset PROVE QueueInv' \/ now' # now
  BY <1>0, <1>7 DEF Reset, NoRequestsYet, QueueInv, QueueTypeOK, InOrder, NoneTooLate, QueueAccounting
<1>8. ASSUME UNCHANGED queueVars, now' \in Nat, now' >= now PROVE QueueInv'
  <2>1. UNCHANGED <<queue, stats>>
    BY <1>8 DEF queueVars
  <2>2. NoneTooLate'
    <3> SUFFICES ASSUME NEW i \in 1..Len(queue) PROVE queue[i].timeoutAt <= now' + QueueTimeout
      BY <2>1 DEF NoneTooLate
    <3>1. queue[i] \in Entries /\ NoneTooLate
      BY <1>0 DEF QueueInv
    <3>2. queue[i].timeoutAt \in Nat /\ queue[i].timeoutAt <= now + QueueTimeout
      BY <3>1 DEF NoneTooLate, Entries
    <3> QED  BY <1>0, <1>8, <3>2
  <2> QED  BY <1>8, <2>1, <2>2 DEF QueueInv, QueueTypeOK, InOrder, QueueAccounting
<1>9. CASE QueueNext
  BY <1>0, <1>1, <1>5, <1>6, <1>7, <1>8, <1>9
     DEF QueueNext, EnqueueRefused, DequeueNone, CleanupExpired
<1>10. CASE UNCHANGED <<now, queue, stats>>
  BY <1>0, <1>8, <1>10 DEF queueVars
<1> QED  BY <1>9, <1>10

\* Whoever uses the queue, and in whatever order: no request is lost or counted twice, and the
\* bound on it is kept (QueueAccounting).
THEOREM QueueKeepsAccounts == QueueSpec => []QueueAccounting
<1>1. now = 0 /\ QueueInit => QueueInv
  BY QueueAssumption DEF QueueInit, NoRequestsYet, QueueInv, QueueTypeOK, InOrder, NoneTooLate,
     QueueAccounting
<1>2. QueueInv => QueueAccounting
  BY DEF QueueInv
<1> QED  BY <1>1, <1>2, QueueKept, PTL DEF QueueSpec

-------------------------------------------------------------------------------
(* The invariant of the pool *)

Places == Ended \cup {"idle", "enqueueing", "waiting", "woken", "calling", "freed"}

PoolTypes ==
    /\ initialized \in BOOLEAN /\ disconnected \in BOOLEAN /\ wasted \in Nat
    /\ activeConcurrent \in Nat
    /\ lockQueue \in Seq(LockOps)
    /\ listeners \subseteq Requests
    /\ deadline \in [Requests -> Nat]
    /\ pc \in [Requests -> Places]

CallsAreCounted == activeConcurrent = Cardinality(In({"calling"}))

\* Whoever is on the way to the queue, or from a call, has one operation before the lock.
Op(op, c) == [op |-> op, by |-> c]

OpsInv ==
    /\ \A i \in 1..Len(lockQueue) :
         pc[lockQueue[i].by] = IF lockQueue[i].op = "enqueue" THEN "enqueueing" ELSE "freed"
    /\ \A i, j \in 1..Len(lockQueue) : lockQueue[i].by = lockQueue[j].by => i = j
    /\ \A c \in In({"freed"}) : \E i \in 1..Len(lockQueue) : lockQueue[i] = Op("dequeue", c)

\* Those who have freed their slot, and dequeue after the i-th operation.
Behind(i) == {c \in Requests : \E j \in (i + 1)..Len(lockQueue) : lockQueue[j] = Op("dequeue", c)}

Busy(i) == In({"calling"}) \cup Behind(i)

\* Who saw that the limit is used up will be in the queue before as many others dequeue.
BusyInv ==
    \A i \in 1..Len(lockQueue) :
        lockQueue[i].op = "enqueue" => Cardinality(Busy(i)) >= MaxConcurrent

\* What the queue has of a request agrees with its wait, unless its timer was early.
EntriesInv ==
    /\ \A i \in 1..Len(queue) : pc[queue[i].requestId] \notin {"idle", "enqueueing"}
    /\ \A i, j \in 1..Len(queue) : queue[i].requestId = queue[j].requestId => i = j
    /\ \A i \in 1..Len(queue) :
         IsLive(queue[i]) =>
            \/ /\ pc[queue[i].requestId] = "waiting"
               /\ deadline[queue[i].requestId] = queue[i].timeoutAt
            \/ pc[queue[i].requestId] = "unavailable" /\ queue[i].timeoutAt <= now + Drift
    /\ \A c \in listeners : now < deadline[c] =>
         \E i \in 1..Len(queue) : queue[i].requestId = c /\ queue[i].timeoutAt = deadline[c]
    /\ \A c \in listeners : pc[c] = "waiting"
    /\ ~disconnected => \A c \in Requests : pc[c] = "waiting" => c \in listeners

\* Those whose end will wake a waiter.
Moving == In({"calling", "woken", "freed"})

WakeInv ==
    LiveWaiters # {} /\ ~disconnected => Cardinality(Moving) + wasted >= MaxConcurrent

IInv ==
    /\ QueueInv
    /\ PoolTypes
    /\ CallsAreCounted
    /\ OpsInv
    /\ BusyInv
    /\ EntriesInv
    /\ WakeInv

\* Sets of requests are finite.
LEMMA RequestsAreFinite ==
    ASSUME NEW R \in SUBSET Requests
    PROVE  IsFiniteSet(R) /\ Cardinality(R) \in Nat
BY ClientPoolAssumption, FS_Subset, FS_CardinalityType

\* A larger set of requests has not fewer of them.
LEMMA MoreRequests ==
    ASSUME NEW R \in SUBSET Requests, NEW Q \in SUBSET R, NEW n \in Nat, Cardinality(Q) >= n
    PROVE  Cardinality(R) >= n
<1>1. IsFiniteSet(R) /\ Cardinality(R) \in Nat /\ Cardinality(Q) \in Nat
  BY RequestsAreFinite
<1>2. Cardinality(Q) <= Cardinality(R)
  BY <1>1, FS_Subset
<1> QED  BY <1>1, <1>2

\* Where the requests are after one of them has moved.
LEMMA OneMoves ==
    ASSUME PoolTypes, NEW c \in Requests, NEW to, Goto(c, to)
    PROVE  /\ pc'[c] = to /\ \A d \in Requests \ {c} : pc'[d] = pc[d]
           /\ \A where : In(where)' = IF to \in where THEN In(where) \cup {c} ELSE In(where) \ {c}
BY DEF PoolTypes, Goto, In

\* The operations before the lock, when one is done or asked for.
LEMMA LockMoves ==
    ASSUME PoolTypes, NEW c \in Requests, NEW op \in {"enqueue", "dequeue"}
    PROVE  /\ AskForLock(op, c) =>
                /\ lockQueue' \in Seq(LockOps) /\ Len(lockQueue') = Len(lockQueue) + 1
                /\ \A i \in 1..Len(lockQueue) : lockQueue'[i] = lockQueue[i]
                /\ lockQueue'[Len(lockQueue) + 1] = Op(op, c)
           /\ Locked(op, c) =>
                /\ lockQueue' \in Seq(LockOps) /\ Len(lockQueue') = Len(lockQueue) - 1
                /\ 1 \in 1..Len(lockQueue) /\ lockQueue[1] = Op(op, c)
                /\ \A i \in 1..Len(lockQueue') : lockQueue'[i] = lockQueue[i + 1]
                                                 /\ i + 1 \in 1..Len(lockQueue)
           /\ Len(lockQueue) \in Nat
           /\ Op(op, c).op = op /\ Op(op, c).by = c
           /\ \A i \in 1..Len(lockQueue) : lockQueue[i] \in LockOps
<1>1. lockQueue \in Seq(LockOps) /\ Len(lockQueue) \in Nat
  BY DEF PoolTypes
<1>2. Op(op, c) \in LockOps /\ Op(op, c).op = op /\ Op(op, c).by = c
  BY DEF Op, LockOps
<1>3. ASSUME AskForLock(op, c)
      PROVE  /\ lockQueue' \in Seq(LockOps) /\ Len(lockQueue') = Len(lockQueue) + 1
             /\ \A i \in 1..Len(lockQueue) : lockQueue'[i] = lockQueue[i]
             /\ lockQueue'[Len(lockQueue) + 1] = Op(op, c)
  BY <1>1, <1>2, <1>3 DEF AskForLock, Op
<1>4. ASSUME Locked(op, c)
      PROVE  /\ lockQueue' \in Seq(LockOps) /\ Len(lockQueue') = Len(lockQueue) - 1
             /\ 1 \in 1..Len(lockQueue) /\ lockQueue[1] = Op(op, c)
             /\ \A i \in 1..Len(lockQueue') : lockQueue'[i] = lockQueue[i + 1]
                                              /\ i + 1 \in 1..Len(lockQueue)
  BY <1>1, <1>4 DEF Locked, Op
<1> QED  BY <1>1, <1>2, <1>3, <1>4

-------------------------------------------------------------------------------
(* The operations before the lock *)

\* A request that asks for the lock, and did not before.
LEMMA OpAsked ==
    ASSUME PoolTypes, OpsInv, NEW c \in Requests, NEW op \in {"enqueue", "dequeue"},
           AskForLock(op, c), pc[c] \notin {"enqueueing", "freed"},
           Goto(c, IF op = "enqueue" THEN "enqueueing" ELSE "freed")
    PROVE  OpsInv' /\ \A i \in 1..Len(lockQueue) : lockQueue[i].by # c
<1> DEFINE n == Len(lockQueue)
<1>1. /\ lockQueue' \in Seq(LockOps) /\ Len(lockQueue') = n + 1
      /\ \A i \in 1..n : lockQueue'[i] = lockQueue[i]
      /\ lockQueue'[n + 1] = Op(op, c)
      /\ n \in Nat /\ Op(op, c).op = op /\ Op(op, c).by = c
      /\ \A i \in 1..n : lockQueue[i] \in LockOps
  BY LockMoves
<1>2. /\ pc'[c] = IF op = "enqueue" THEN "enqueueing" ELSE "freed"
      /\ \A d \in Requests \ {c} : pc'[d] = pc[d]
  BY OneMoves
<1>3. \A i \in 1..n : lockQueue[i].by # c /\ lockQueue[i].by \in Requests
  BY <1>1 DEF OpsInv, LockOps
<1> HIDE DEF n
<1>4. \A i \in 1..(n + 1) : i \in 1..n \/ i = n + 1
  BY <1>1
<1>5. ASSUME NEW i \in 1..(n + 1)
      PROVE  pc'[lockQueue'[i].by] = IF lockQueue'[i].op = "enqueue" THEN "enqueueing" ELSE "freed"
  <2>1. CASE i = n + 1
    BY <1>1, <1>2, <2>1
  <2>2. CASE i \in 1..n
    BY <1>1, <1>2, <1>3, <2>2 DEF OpsInv, n
  <2> QED  BY <1>4, <2>1, <2>2
<1>6. ASSUME NEW i \in 1..(n + 1), NEW j \in 1..(n + 1), lockQueue'[i].by = lockQueue'[j].by
      PROVE  i = j
  BY <1>1, <1>3, <1>4, <1>6 DEF OpsInv, n
<1>7. ASSUME NEW d \in In({"freed"})' PROVE \E i \in 1..(n + 1) : lockQueue'[i] = Op("dequeue", d)
  <2>1. CASE d = c
    <3>1. op = "dequeue" /\ n + 1 \in 1..(n + 1)
      BY <1>1, <1>2, <1>7, <2>1 DEF In
    <3> QED  BY <1>1, <2>1, <3>1
  <2>2. CASE d # c
    <3>1. d \in In({"freed"})
      BY <1>2, <1>7, <2>2 DEF In
    <3>2. PICK i \in 1..n : lockQueue[i] = Op("dequeue", d)
      BY <3>1 DEF OpsInv, n
    <3> QED  BY <1>1, <3>2
  <2> QED  BY <2>1, <2>2
<1> QED  BY <1>1, <1>3, <1>5, <1>6, <1>7 DEF OpsInv, n

\* The first operation is done, by a request that goes on to where it needs no lock; so may others
\* go on that need none.
LEMMA OpDone ==
    ASSUME PoolTypes, OpsInv, NEW c \in Requests, NEW op \in {"enqueue", "dequeue"},
           Locked(op, c), pc'[c] \notin {"enqueueing", "freed"},
           \A d \in Requests \ {c} : \/ pc'[d] = pc[d]
                                     \/ {pc[d], pc'[d]} \cap {"enqueueing", "freed"} = {}
    PROVE  OpsInv' /\ pc[c] = IF op = "enqueue" THEN "enqueueing" ELSE "freed"
<1> DEFINE n == Len(lockQueue')
<1>1. /\ lockQueue' \in Seq(LockOps) /\ n = Len(lockQueue) - 1 /\ n \in Nat
      /\ 1 \in 1..Len(lockQueue) /\ lockQueue[1] = Op(op, c)
      /\ \A i \in 1..n : lockQueue'[i] = lockQueue[i + 1] /\ i + 1 \in 1..Len(lockQueue)
      /\ Op(op, c).op = op /\ Op(op, c).by = c
      /\ \A i \in 1..Len(lockQueue) : lockQueue[i] \in LockOps
  <2>1. n \in Nat
    BY LockMoves
  <2>2. /\ lockQueue' \in Seq(LockOps) /\ n = Len(lockQueue) - 1
        /\ 1 \in 1..Len(lockQueue) /\ lockQueue[1] = Op(op, c)
        /\ \A i \in 1..n : lockQueue'[i] = lockQueue[i + 1] /\ i + 1 \in 1..Len(lockQueue)
    BY LockMoves
  <2>3. /\ Op(op, c).op = op /\ Op(op, c).by = c
        /\ \A i \in 1..Len(lockQueue) : lockQueue[i] \in LockOps
    BY LockMoves
  <2> QED  BY <2>1, <2>2, <2>3
<1>2. pc[c] = IF op = "enqueue" THEN "enqueueing" ELSE "freed"
  BY <1>1 DEF OpsInv
<1>3. \A i \in 1..n : lockQueue[i + 1].by \in Requests \ {c}
  <2> SUFFICES ASSUME NEW i \in 1..n PROVE lockQueue[i + 1].by \in Requests \ {c}
    OBVIOUS
  <2>1. lockQueue[i + 1].by \in Requests
    BY <1>1 DEF LockOps
  <2>2. i + 1 # 1
    BY <1>1
  <2>3. lockQueue[i + 1].by # lockQueue[1].by
    BY <1>1, <2>2 DEF OpsInv
  <2> QED  BY <1>1, <2>1, <2>3
<1> HIDE DEF n
<1>4. ASSUME NEW i \in 1..n
      PROVE  pc'[lockQueue'[i].by] = IF lockQueue'[i].op = "enqueue" THEN "enqueueing" ELSE "freed"
  <2>1. pc[lockQueue[i + 1].by] = IF lockQueue[i + 1].op = "enqueue" THEN "enqueueing" ELSE "freed"
    BY <1>1 DEF OpsInv
  <2>2. pc'[lockQueue[i + 1].by] = pc[lockQueue[i + 1].by]
    BY <1>3, <2>1
  <2> QED  BY <1>1, <2>1, <2>2
<1>5. ASSUME NEW i \in 1..n, NEW j \in 1..n, lockQueue'[i].by = lockQueue'[j].by
      PROVE  i = j
  <2>1. i + 1 = j + 1
    BY <1>1, <1>5 DEF OpsInv
  <2> QED  BY <2>1
<1>6. ASSUME NEW d \in In({"freed"})' PROVE \E i \in 1..n : lockQueue'[i] = Op("dequeue", d)
  <2>1. d # c /\ d \in In({"freed"})
    BY <1>6 DEF In
  <2>2. PICK j \in 1..Len(lockQueue) : lockQueue[j] = Op("dequeue", d)
    BY <2>1 DEF OpsInv
  <2>3. j # 1
    BY <1>1, <2>1, <2>2 DEF Op
  <2>4. j - 1 \in 1..n /\ (j - 1) + 1 = j
    BY <1>1, <2>3
  <2>5. lockQueue'[j - 1] = lockQueue[j]
    BY <1>1, <2>4
  <2> QED  BY <2>2, <2>4, <2>5
<1> QED  BY <1>2, <1>4, <1>5, <1>6 DEF OpsInv, n

\* Nobody asks for the lock, and no operation is done.
LEMMA OpsStay ==
    ASSUME PoolTypes, OpsInv, UNCHANGED lockQueue,
           \A d \in Requests : \/ pc'[d] = pc[d]
                               \/ {pc[d], pc'[d]} \cap {"enqueueing", "freed"} = {}
    PROVE  OpsInv'
<1>1. \A i \in 1..Len(lockQueue) : lockQueue[i].by \in Requests
  BY LockMoves DEF LockOps, PoolTypes
<1>2. \A i \in 1..Len(lockQueue) : pc'[lockQueue[i].by] = pc[lockQueue[i].by]
  <2> SUFFICES ASSUME NEW i \in 1..Len(lockQueue) PROVE pc'[lockQueue[i].by] = pc[lockQueue[i].by]
    OBVIOUS
  <2>1. pc[lockQueue[i].by] \in {"enqueueing", "freed"}
    BY DEF OpsInv
  <2> QED  BY <1>1, <2>1
<1>3. In({"freed"})' = In({"freed"})
  BY DEF In
<1> QED  BY <1>2, <1>3 DEF OpsInv

\* Each request that is about to be queued may have been at another place before the lock, with
\* no more calls in flight or to dequeue behind it.
LEMMA BusyKept ==
    ASSUME BusyInv, PoolTypes,
           \A i \in 1..Len(lockQueue') : lockQueue'[i].op = "enqueue" =>
              \/ Cardinality(Busy(i)') >= MaxConcurrent
              \/ \E j \in 1..Len(lockQueue) : /\ lockQueue[j].op = "enqueue"
                                              /\ Busy(j) \subseteq Busy(i)'
    PROVE  BusyInv'
<1> SUFFICES ASSUME NEW i \in 1..Len(lockQueue'), lockQueue'[i].op = "enqueue"
             PROVE  Cardinality(Busy(i)') >= MaxConcurrent
  BY DEF BusyInv
<1>1. CASE Cardinality(Busy(i)') >= MaxConcurrent
  BY <1>1
<1>2. ASSUME NEW j \in 1..Len(lockQueue), lockQueue[j].op = "enqueue", Busy(j) \subseteq Busy(i)'
      PROVE  Cardinality(Busy(i)') >= MaxConcurrent
  <2>1. Cardinality(Busy(j)) >= MaxConcurrent
    BY <1>2 DEF BusyInv
  <2>2. Busy(i)' \subseteq Requests
    BY DEF Busy, Behind, In
  <2>3. MaxConcurrent \in Nat
    BY ClientPoolAssumption
  <2> QED  BY <1>2, <2>1, <2>2, <2>3, MoreRequests
<1> QED  BY <1>1, <1>2

\* No operation is asked for or done, and no call ends.
LEMMA BusyStays ==
    ASSUME BusyInv, PoolTypes, UNCHANGED lockQueue, In({"calling"}) \subseteq In({"calling"})'
    PROVE  BusyInv'
<1>1. \A i \in 1..Len(lockQueue) : Busy(i) \subseteq Busy(i)'
  BY DEF Busy, Behind
<1> QED  BY <1>1, BusyKept

\* An operation is done: the others move up.
LEMMA BusyMovesUp ==
    ASSUME BusyInv, PoolTypes, NEW c \in Requests, NEW op \in {"enqueue", "dequeue"}, Locked(op, c),
           In({"calling"}) \subseteq In({"calling"})'
    PROVE  BusyInv'
<1> DEFINE n == Len(lockQueue')
<1>1. /\ n = Len(lockQueue) - 1 /\ n \in Nat
      /\ \A i \in 1..n : lockQueue'[i] = lockQueue[i + 1] /\ i + 1 \in 1..Len(lockQueue)
  <2>1. n \in Nat
    BY LockMoves
  <2> QED  BY <2>1, LockMoves
<1> HIDE DEF n
<1>2. ASSUME NEW i \in 1..n PROVE Busy(i + 1) \subseteq Busy(i)'
  <2> SUFFICES ASSUME NEW d \in Behind(i + 1) PROVE d \in Behind(i)'
    BY DEF Busy
  <2>1. PICK j \in ((i + 1) + 1)..Len(lockQueue) : lockQueue[j] = Op("dequeue", d)
    BY DEF Behind
  <2>2. j - 1 \in (i + 1)..n /\ j - 1 \in 1..n /\ (j - 1) + 1 = j
    BY <1>1, <2>1
  <2>3. lockQueue'[j - 1] = Op("dequeue", d)
    BY <1>1, <2>1, <2>2
  <2> QED  BY <2>2, <2>3 DEF Behind, n
<1> QED  BY <1>1, <1>2, BusyKept DEF n

\* A request sees that the limit is used up, by calls in flight alone.
LEMMA BusySeen ==
    ASSUME In({"calling"})' = In({"calling"}), Cardinality(In({"calling"})) >= MaxConcurrent
    PROVE  BusyInv'
<1> SUFFICES ASSUME NEW i \in 1..Len(lockQueue') PROVE Cardinality(Busy(i)') >= MaxConcurrent
  BY DEF BusyInv
<1>1. In({"calling"}) \subseteq Busy(i)' /\ Busy(i)' \subseteq Requests
  BY DEF Busy, Behind, In
<1>2. MaxConcurrent \in Nat
  BY ClientPoolAssumption
<1> QED  BY <1>1, <1>2, MoreRequests

\* A call ends: it will dequeue behind all that have asked for the lock.
LEMMA BusyFrees ==
    ASSUME BusyInv, PoolTypes, NEW c \in Requests, AskForLock("dequeue", c),
           In({"calling"})' = In({"calling"}) \ {c}
    PROVE  BusyInv'
<1> DEFINE n == Len(lockQueue)
<1>1. /\ Len(lockQueue') = n + 1 /\ n \in Nat
      /\ \A i \in 1..n : lockQueue'[i] = lockQueue[i]
      /\ lockQueue'[n + 1] = Op("dequeue", c) /\ Op("dequeue", c).op = "dequeue"
  BY LockMoves
<1> HIDE DEF n
<1>2. ASSUME NEW i \in 1..n PROVE Busy(i) \subseteq Busy(i)'
  <2>1. c \in Behind(i)'
    <3>1. n + 1 \in (i + 1)..(n + 1)
      BY <1>1
    <3> QED  BY <1>1, <3>1 DEF Behind
  <2>2. ASSUME NEW d \in Behind(i) PROVE d \in Behind(i)'
    <3>1. PICK j \in (i + 1)..n : lockQueue[j] = Op("dequeue", d)
      BY <2>2 DEF Behind, n
    <3>2. j \in 1..n /\ j \in (i + 1)..(n + 1)
      BY <1>1, <3>1
    <3> QED  BY <1>1, <3>1, <3>2, <2>2 DEF Behind
  <2> QED  BY <2>1, <2>2 DEF Busy
<1>3. \A i \in 1..(n + 1) : i \in 1..n \/ i = n + 1
  BY <1>1
<1>4. \A i \in 1..(n + 1) : lockQueue'[i].op = "enqueue" => i \in 1..n /\ lockQueue[i].op = "enqueue"
  BY <1>1, <1>3
<1>5. \A i \in 1..(n + 1) : lockQueue'[i].op = "enqueue" =>
         \E j \in 1..n : lockQueue[j].op = "enqueue" /\ Busy(j) \subseteq Busy(i)'
  BY <1>2, <1>4
<1>6. /\ Len(lockQueue') = n + 1
      /\ n = Len(lockQueue)
  BY <1>1 DEF n
<1> QED  BY <1>5, <1>6, BusyKept

-------------------------------------------------------------------------------
(* The entries of the queue and the waits *)

\* The queue loses entries at its front at most, dead ones or such whose request no longer listens,
\* and no wait begins.  The waits that end are over, or their entries have gone.
LEMMA EntriesKept ==
    ASSUME QueueInv, PoolTypes, EntriesInv, NEW k \in 0..Len(queue),
           Len(queue') = Len(queue) - k, queue' \in Seq(Entries),
           \A n \in 1..Len(queue') : queue'[n] = queue[n + k],
           \A i \in 1..k : IsLive(queue[i]) => queue[i].requestId \notin listeners',
           now' \in Nat, now' >= now, disconnected => disconnected', listeners' \subseteq listeners,
           \A d \in Requests :
              /\ pc'[d] \in {"idle", "enqueueing"} => pc[d] \in {"idle", "enqueueing"}
              /\ pc'[d] = "waiting" => pc[d] = "waiting"
              /\ d \in listeners' => pc'[d] = "waiting"
              /\ pc[d] = "unavailable" => pc'[d] = "unavailable"
              /\ pc[d] = "waiting" =>
                    \/ /\ pc'[d] = "waiting" /\ deadline'[d] = deadline[d]
                       /\ d \in listeners => d \in listeners' \/ disconnected'
                    \/ pc'[d] = "unavailable" /\ deadline[d] <= now + Drift
                    \/ /\ pc'[d] # "waiting"
                       /\ \E i \in 1..k : queue[i].requestId = d
    PROVE  EntriesInv' /\ LiveWaiters' \subseteq LiveWaiters
<1>1. /\ queue \in Seq(Entries) /\ Len(queue) \in Nat /\ now \in Nat
      /\ deadline \in [Requests -> Nat] /\ listeners \subseteq Requests
      /\ \A i \in 1..Len(queue) : queue[i].requestId \in Requests /\ queue[i].timeoutAt \in Nat
  <2>1. queue \in Seq(Entries) /\ Len(queue) \in Nat /\ now \in Nat
    BY DEF QueueInv, QueueTypeOK
  <2>2. \A i \in 1..Len(queue) : queue[i] \in Entries
    BY <2>1
  <2> QED  BY <2>1, <2>2 DEF PoolTypes, Entries
<1>2. /\ Len(queue') \in Nat
      /\ \A n \in 1..Len(queue') : n + k \in 1..Len(queue) /\ n + k \notin 1..k
  BY <1>1
\* Where an entry of the queue was, and whose it is.
<1>3. ASSUME NEW n \in 1..Len(queue')
      PROVE  /\ n + k \in 1..Len(queue) /\ queue'[n] = queue[n + k]
             /\ queue'[n].requestId \in Requests /\ queue'[n].timeoutAt \in Nat
  BY <1>1, <1>2
<1>4. ASSUME NEW n \in 1..Len(queue') PROVE pc'[queue'[n].requestId] \notin {"idle", "enqueueing"}
  BY <1>3 DEF EntriesInv
<1>5. ASSUME NEW n \in 1..Len(queue'), NEW m \in 1..Len(queue'),
             queue'[n].requestId = queue'[m].requestId
      PROVE  n = m
  <2>1. /\ n + k \in 1..Len(queue) /\ m + k \in 1..Len(queue)
        /\ queue[n + k].requestId = queue[m + k].requestId
    BY <1>3, <1>5
  <2>2. n + k = m + k
    BY <2>1 DEF EntriesInv
  <2> QED  BY <1>1, <2>2
<1>6. ASSUME NEW n \in 1..Len(queue'), queue'[n].timeoutAt > now'
      PROVE  /\ \/ /\ pc'[queue'[n].requestId] = "waiting"
                   /\ deadline'[queue'[n].requestId] = queue'[n].timeoutAt
                \/ /\ pc'[queue'[n].requestId] = "unavailable"
                   /\ queue'[n].timeoutAt <= now' + Drift
             /\ queue'[n].timeoutAt > now
  <2> DEFINE d == queue'[n].requestId
  <2>1. queue[n + k].timeoutAt > now /\ queue[n + k].requestId = d /\ d \in Requests
    BY <1>1, <1>3, <1>6
  <2>2. \/ pc[d] = "waiting" /\ deadline[d] = queue'[n].timeoutAt
        \/ pc[d] = "unavailable" /\ queue'[n].timeoutAt <= now + Drift
    BY <1>3, <2>1 DEF EntriesInv, IsLive
  <2>3. ~ \E i \in 1..k : queue[i].requestId = d
    <3> SUFFICES ASSUME NEW i \in 1..k, queue[i].requestId = d PROVE FALSE
      OBVIOUS
    <3>1. i \in 1..Len(queue) /\ i # n + k
      BY <1>1, <1>2
    <3> QED  BY <1>3, <2>1, <3>1 DEF EntriesInv
  <2>4. queue'[n].timeoutAt > now /\ queue'[n].timeoutAt \in Nat /\ Drift \in Nat
    BY <1>3, <2>1, ClientPoolAssumption
  <2> HIDE DEF d
  <2>5. CASE pc[d] = "waiting" /\ deadline[d] = queue'[n].timeoutAt
    <3>1. \/ pc'[d] = "waiting" /\ deadline'[d] = deadline[d]
          \/ pc'[d] = "unavailable" /\ deadline[d] <= now + Drift
      BY <2>1, <2>3, <2>5
    <3>2. deadline[d] <= now + Drift => queue'[n].timeoutAt <= now' + Drift
      BY <1>1, <2>4, <2>5
    <3> QED  BY <2>4, <2>5, <3>1, <3>2 DEF d
  <2>6. CASE pc[d] = "unavailable" /\ queue'[n].timeoutAt <= now + Drift
    <3>1. pc'[d] = "unavailable"
      BY <2>1, <2>6
    <3>2. queue'[n].timeoutAt <= now' + Drift
      BY <1>1, <2>4, <2>6
    <3> QED  BY <2>4, <3>1, <3>2 DEF d
  <2> QED  BY <2>2, <2>5, <2>6
<1>7. ASSUME NEW d \in listeners', now' < deadline'[d]
      PROVE  \E n \in 1..Len(queue') : /\ queue'[n].requestId = d
                                       /\ queue'[n].timeoutAt = deadline'[d]
  <2>1. d \in listeners /\ d \in Requests /\ pc[d] = "waiting" /\ pc'[d] = "waiting"
    BY <1>1, <1>7
  <2>2. deadline'[d] = deadline[d] /\ now < deadline[d] /\ deadline[d] \in Nat
    BY <1>1, <1>7, <2>1
  <2>3. PICK i \in 1..Len(queue) : queue[i].requestId = d /\ queue[i].timeoutAt = deadline[d]
    BY <2>1, <2>2 DEF EntriesInv
  <2>4. i \notin 1..k
    BY <1>1, <1>7, <2>2, <2>3 DEF IsLive
  <2>5. i - k \in 1..Len(queue') /\ (i - k) + k = i
    BY <1>1, <2>4
  <2>6. queue'[i - k] = queue[i]
    BY <2>5
  <2> QED  BY <2>2, <2>3, <2>5, <2>6
<1>8. ASSUME ~disconnected', NEW d \in Requests, pc'[d] = "waiting" PROVE d \in listeners'
  <2>1. pc[d] = "waiting" /\ ~disconnected
    BY <1>8
  <2>2. d \in listeners
    BY <2>1 DEF EntriesInv
  <2> QED  BY <1>8, <2>1, <2>2
<1>9. \A d \in listeners' : pc'[d] = "waiting"
  BY <1>1
<1>10. EntriesInv'
  <2>1. /\ \A i \in 1..Len(queue') : pc'[queue'[i].requestId] \notin {"idle", "enqueueing"}
        /\ \A i, j \in 1..Len(queue') : queue'[i].requestId = queue'[j].requestId => i = j
    BY <1>4, <1>5
  <2>2. \A i \in 1..Len(queue') :
            queue'[i].timeoutAt > now' =>
               \/ /\ pc'[queue'[i].requestId] = "waiting"
                  /\ deadline'[queue'[i].requestId] = queue'[i].timeoutAt
               \/ /\ pc'[queue'[i].requestId] = "unavailable"
                  /\ queue'[i].timeoutAt <= now' + Drift
    BY <1>6
  <2> QED  BY <1>7, <1>8, <1>9, <2>1, <2>2 DEF EntriesInv, IsLive
<1>11. ASSUME NEW d \in LiveWaiters' PROVE d \in LiveWaiters
  <2>1. /\ d \in Requests /\ pc'[d] = "waiting" /\ d \in listeners'
        /\ \E n \in 1..Len(queue') : queue'[n].requestId = d /\ queue'[n].timeoutAt > now'
    BY <1>11 DEF LiveWaiters, In, QueueEntries, IsLive
  <2>2. PICK n \in 1..Len(queue') : queue'[n].requestId = d /\ queue'[n].timeoutAt > now'
    BY <2>1
  <2>3. /\ n + k \in 1..Len(queue) /\ queue[n + k].requestId = d
        /\ queue[n + k].timeoutAt > now
    BY <1>3, <1>6, <2>2
  <2> QED  BY <2>1, <2>3 DEF LiveWaiters, In, QueueEntries, IsLive
<1> QED  BY <1>10, <1>11

\* The queue is as it was, and no wait begins.
LEMMA WaitsKept ==
    ASSUME QueueInv, PoolTypes, EntriesInv, UNCHANGED queue,
           now' \in Nat, now' >= now, disconnected => disconnected', listeners' \subseteq listeners,
           \A d \in Requests :
              /\ pc'[d] \in {"idle", "enqueueing"} => pc[d] \in {"idle", "enqueueing"}
              /\ pc'[d] = "waiting" => pc[d] = "waiting"
              /\ d \in listeners' => pc'[d] = "waiting"
              /\ pc[d] = "unavailable" => pc'[d] = "unavailable"
              /\ pc[d] = "waiting" =>
                    \/ /\ pc'[d] = "waiting" /\ deadline'[d] = deadline[d]
                       /\ d \in listeners => d \in listeners' \/ disconnected'
                    \/ pc'[d] = "unavailable" /\ deadline[d] <= now + Drift
    PROVE  EntriesInv' /\ LiveWaiters' \subseteq LiveWaiters
<1>1. queue \in Seq(Entries) /\ Len(queue) \in Nat
  BY DEF QueueInv, QueueTypeOK
<1>2. /\ 0 \in 0..Len(queue) /\ Len(queue') = Len(queue) - 0 /\ queue' \in Seq(Entries)
      /\ \A n \in 1..Len(queue') : queue'[n] = queue[n + 0]
      /\ \A i \in 1..0 : IsLive(queue[i]) => queue[i].requestId \notin listeners'
  BY <1>1
<1> QED  BY <1>2, EntriesKept

\* A request enters the queue.
LEMMA EntryAdded ==
    ASSUME QueueInv, PoolTypes, EntriesInv, NEW c \in Requests, pc[c] = "enqueueing",
           Enqueue(c), Goto(c, "waiting"), listeners' = listeners \cup {c},
           deadline' = [deadline EXCEPT ![c] = TimerDue], UNCHANGED <<now, disconnected>>
    PROVE  EntriesInv'
<1> DEFINE e == [requestId |-> c, timeoutAt |-> TimerDue]
           l == Len(queue)
<1>1. queue \in Seq(Entries) /\ l \in Nat /\ now \in Nat /\ TimerDue \in Nat
  BY QueueAssumption DEF QueueInv, QueueTypeOK, TimerDue
<1>2. queue' = Append(queue, e) /\ e \in Entries /\ e.requestId = c /\ e.timeoutAt = TimerDue
  BY <1>1 DEF Enqueue, TimerDue, Entries
<1> HIDE DEF e
<1>3. /\ Len(queue') = l + 1 /\ \A i \in 1..l : queue'[i] = queue[i]
      /\ queue'[l + 1] = e
  BY <1>1, <1>2
<1>4. \A i \in 1..l : queue[i].requestId \in Requests /\ queue[i].requestId # c
  <2>1. \A i \in 1..l : queue[i] \in Entries
    BY <1>1
  <2> QED  BY <2>1 DEF EntriesInv, Entries
<1>5. /\ pc'[c] = "waiting" /\ \A d \in Requests \ {c} : pc'[d] = pc[d]
      /\ deadline'[c] = TimerDue /\ \A d \in Requests \ {c} : deadline'[d] = deadline[d]
      /\ listeners \subseteq Requests
  BY DEF PoolTypes, Goto
<1>6. \A i \in 1..(l + 1) : i \in 1..l \/ i = l + 1
  BY <1>1
<1>7. \A i \in 1..l : i \in 1..(l + 1)
  BY <1>1
<1>8. l + 1 \in 1..(l + 1)
  BY <1>1
<1>9. /\ \A i \in 1..l : pc[queue[i].requestId] \notin {"idle", "enqueueing"}
      /\ \A i, j \in 1..l : queue[i].requestId = queue[j].requestId => i = j
      /\ \A i \in 1..l : queue[i].timeoutAt > now =>
            \/ /\ pc[queue[i].requestId] = "waiting"
               /\ deadline[queue[i].requestId] = queue[i].timeoutAt
            \/ pc[queue[i].requestId] = "unavailable" /\ queue[i].timeoutAt <= now + Drift
      /\ \A d \in listeners : now < deadline[d] =>
            \E i \in 1..l : queue[i].requestId = d /\ queue[i].timeoutAt = deadline[d]
      /\ \A d \in listeners : pc[d] = "waiting"
      /\ ~disconnected => \A d \in Requests : pc[d] = "waiting" => d \in listeners
  BY DEF EntriesInv, IsLive
<1> HIDE DEF l
<1>10. \A i \in 1..(l + 1) : pc'[queue'[i].requestId] \notin {"idle", "enqueueing"}
  BY <1>2, <1>3, <1>4, <1>5, <1>6, <1>9
<1>11. \A i, j \in 1..(l + 1) : queue'[i].requestId = queue'[j].requestId => i = j
  BY <1>2, <1>3, <1>4, <1>6, <1>9
<1>12. \A i \in 1..(l + 1) : queue'[i].timeoutAt > now =>
          \/ /\ pc'[queue'[i].requestId] = "waiting"
             /\ deadline'[queue'[i].requestId] = queue'[i].timeoutAt
          \/ pc'[queue'[i].requestId] = "unavailable" /\ queue'[i].timeoutAt <= now + Drift
  BY <1>2, <1>3, <1>4, <1>5, <1>6, <1>9
<1>13. ASSUME NEW d \in listeners', now < deadline'[d]
       PROVE  \E i \in 1..(l + 1) : queue'[i].requestId = d /\ queue'[i].timeoutAt = deadline'[d]
  <2>1. CASE d = c
    BY <1>2, <1>3, <1>5, <1>8, <2>1
  <2>2. CASE d # c
    <3>1. d \in listeners /\ deadline'[d] = deadline[d] /\ now < deadline[d]
      BY <1>5, <1>13, <2>2
    <3>2. PICK i \in 1..l : queue[i].requestId = d /\ queue[i].timeoutAt = deadline[d]
      BY <1>9, <3>1
    <3> QED  BY <1>3, <1>7, <3>1, <3>2
  <2> QED  BY <2>1, <2>2
<1>14. /\ \A d \in listeners' : pc'[d] = "waiting"
       /\ ~disconnected' => \A d \in Requests : pc'[d] = "waiting" => d \in listeners'
  BY <1>5, <1>9
<1>15. Len(queue') = l + 1 /\ UNCHANGED now
  BY <1>3
<1> QED  BY <1>10, <1>11, <1>12, <1>13, <1>14, <1>15 DEF EntriesInv, IsLive

-------------------------------------------------------------------------------
(* Every step keeps the invariant *)

\* The pool does to its queue what the queue allows.
LEMMA QueueIsUsed ==
    ASSUME QueueTypeOK, [Next]_vars
    PROVE  [QueueNext]_<<now, queue, stats>>
<1>1. CASE UNCHANGED vars
  BY <1>1 DEF vars
<1>2. ASSUME NEW c \in Requests, LockStep(c) PROVE QueueNext
  BY <1>2 DEF LockStep, LockedEnqueue, LockedEnqueueRefused, LockedDequeue, LockedDequeueNone, QueueNext
<1>3. ASSUME NEW c \in Requests,
             Refuse(c) \/ CallAtOnce(c) \/ CallQueued(c) \/ Resume(c) \/ WaitTimeout(c) \/ FreeSlot(c)
      PROVE  UNCHANGED <<now, queue, stats>>
  BY <1>3 DEF Refuse, CallAtOnce, CallQueued, Resume, WaitTimeout, FreeSlot, queueVars
<1>4. CASE Initialize \/ Disconnect
  BY <1>4 DEF Initialize, Disconnect, queueVars
<1>5. CASE Tick
  BY <1>5 DEF Tick, QueueTypeOK, QueueNext
<1>6. CASE Next
  BY <1>2, <1>3, <1>4, <1>5, <1>6 DEF Next
<1> QED  BY <1>1, <1>6

\* What a dequeue takes: the oldest live entry, and the dead ones before it.
LEMMA Dequeued ==
    ASSUME QueueInv, Dequeue
    PROVE  \E k \in 1..Len(queue) :
              /\ NextRequest = queue[k] /\ IsLive(queue[k])
              /\ \A i \in 1..(k - 1) : ~IsLive(queue[i])
              /\ queue' \in Seq(Entries) /\ Len(queue') = Len(queue) - k
              /\ \A n \in 1..Len(queue') : queue'[n] = queue[n + k]
<1>1. queue \in Seq(Entries) /\ Len(queue) \in Nat
  BY DEF QueueInv, QueueTypeOK
<1>2. PICK m \in 0..Len(queue) :
         /\ \A i \in 1..m : ~IsLive(queue[i])
         /\ \A i \in (m + 1)..Len(queue) : IsLive(queue[i])
         /\ LiveEntries \in Seq(Entries)
         /\ Len(LiveEntries) = Len(queue) - m
         /\ \A n \in 1..(Len(queue) - m) : LiveEntries[n] = queue[n + m]
  BY LiveAreLast DEF QueueInv
<1>3. LiveEntries # <<>> /\ queue' = Tail(LiveEntries) /\ NextRequest = LiveEntries[1]
  BY DEF Dequeue, NextRequest
<1>4. Len(LiveEntries) \in Nat \ {0}
  BY <1>2, <1>3
<1>5. /\ m + 1 \in 1..Len(queue) /\ m + 1 \in (m + 1)..Len(queue)
      /\ 1 \in 1..(Len(queue) - m) /\ 1 + m = m + 1 /\ (m + 1) - 1 = m
  BY <1>1, <1>2, <1>4
<1>6. NextRequest = queue[m + 1] /\ IsLive(queue[m + 1])
  BY <1>2, <1>3, <1>5
<1>7. /\ queue' \in Seq(Entries) /\ Len(queue') = Len(LiveEntries) - 1
      /\ \A n \in 1..Len(queue') : queue'[n] = LiveEntries[n + 1]
  BY <1>2, <1>3
<1>8. Len(queue') = Len(queue) - (m + 1)
  BY <1>1, <1>2, <1>7
<1>9. ASSUME NEW n \in 1..Len(queue') PROVE queue'[n] = queue[n + (m + 1)]
  <2>1. n + 1 \in 1..(Len(queue) - m) /\ (n + 1) + m = n + (m + 1)
    BY <1>1, <1>8
  <2>2. LiveEntries[n + 1] = queue[(n + 1) + m]
    BY <1>2, <2>1
  <2> QED  BY <1>7, <2>1, <2>2
<1>10. \A i \in 1..((m + 1) - 1) : ~IsLive(queue[i])
  BY <1>2, <1>5
<1> QED  BY <1>5, <1>6, <1>7, <1>8, <1>9, <1>10

\* A cleanup that leaves nothing finds no live entry.
LEMMA NoneAlive ==
    ASSUME QueueInv, DequeueNone
    PROVE  queue' = <<>> /\ \A i \in 1..Len(queue) : ~IsLive(queue[i])
<1>1. LiveEntries = <<>> /\ queue' = <<>>
  BY DEF DequeueNone, ExpireEntries
<1>2. PICK m \in 0..Len(queue) :
         (\A i \in 1..m : ~IsLive(queue[i])) /\ Len(LiveEntries) = Len(queue) - m
  BY LiveAreLast DEF QueueInv
<1>3. m = Len(queue)
  BY <1>1, <1>2 DEF QueueInv, QueueTypeOK
<1> QED  BY <1>1, <1>2, <1>3

\* No live waiter is new, and nobody stops to move.
LEMMA WakeKept ==
    ASSUME PoolTypes, WakeInv, LiveWaiters' \subseteq LiveWaiters, Moving \subseteq Moving',
           disconnected => disconnected', UNCHANGED wasted
    PROVE  WakeInv'
<1> SUFFICES ASSUME LiveWaiters' # {}, ~disconnected'
             PROVE  Cardinality(Moving') + wasted >= MaxConcurrent
  BY DEF WakeInv
<1>1. Cardinality(Moving) + wasted >= MaxConcurrent
  BY DEF WakeInv
<1>2. /\ Moving' \subseteq Requests /\ Moving \subseteq Requests
      /\ MaxConcurrent \in Nat /\ wasted \in Nat
  BY ClientPoolAssumption DEF Moving, In, PoolTypes
<1>3. Cardinality(Moving) \in Nat /\ Cardinality(Moving') \in Nat
  BY <1>2, RequestsAreFinite
<1>4. Cardinality(Moving') >= Cardinality(Moving)
  BY <1>2, <1>3, MoreRequests
<1> QED  BY <1>1, <1>2, <1>3, <1>4

\* One call more, and one less.
LEMMA CallBegins ==
    ASSUME PoolTypes, CallsAreCounted, NEW c \in Requests, pc[c] # "calling", Goto(c, "calling"),
           activeConcurrent' = activeConcurrent + 1
    PROVE  CallsAreCounted' /\ In({"calling"}) \subseteq In({"calling"})'
<1>1. In({"calling"})' = In({"calling"}) \cup {c}
  BY OneMoves
<1>2. In({"calling"}) \in SUBSET Requests /\ c \notin In({"calling"})
  BY DEF In
<1>3. Cardinality(In({"calling"}) \cup {c}) = Cardinality(In({"calling"})) + 1
  BY <1>2, RequestsAreFinite, FS_AddElement
<1> QED  BY <1>1, <1>3 DEF CallsAreCounted

LEMMA CallEnds ==
    ASSUME PoolTypes, CallsAreCounted, NEW c \in Requests, pc[c] = "calling", NEW to,
           to # "calling", Goto(c, to), activeConcurrent' = activeConcurrent - 1
    PROVE  CallsAreCounted' /\ activeConcurrent' \in Nat
<1>1. In({"calling"})' = In({"calling"}) \ {c}
  BY OneMoves
<1>2. In({"calling"}) \in SUBSET Requests /\ c \in In({"calling"})
  BY DEF In
<1>3. Cardinality(In({"calling"}) \ {c}) = Cardinality(In({"calling"})) - 1
  BY <1>2, RequestsAreFinite, FS_RemoveElement
<1>4. Cardinality(In({"calling"}) \ {c}) \in Nat
  BY RequestsAreFinite, <1>2
<1> QED  BY <1>1, <1>3, <1>4 DEF CallsAreCounted

\* A dequeue is by a request that freed its slot.  It wakes the one with the oldest live entry,
\* if that waits and still listens; the slot is wasted on one that has given up.
LEMMA WakesOldest ==
    ASSUME IInv, NEW c \in Requests, LockedDequeue(c)
    PROVE  \E k \in 1..Len(queue), next \in Requests :
              /\ next = queue[k].requestId /\ IsLive(queue[k])
              /\ pc[c] = "freed" /\ next # c
              /\ \/ pc[next] = "waiting" /\ UNCHANGED wasted
                 \/ /\ pc[next] = "unavailable" /\ queue[k].timeoutAt <= now + Drift
                    /\ next \notin listeners /\ wasted' = wasted + 1
              /\ \A i \in 1..(k - 1) : ~IsLive(queue[i])
              /\ queue' \in Seq(Entries) /\ Len(queue') = Len(queue) - k
              /\ \A n \in 1..Len(queue') : queue'[n] = queue[n + k]
              /\ pc'[c] = "done"
              /\ pc'[next] = IF next \in listeners THEN "woken" ELSE pc[next]
              /\ \A d \in Requests \ {c, next} : pc'[d] = pc[d]
              /\ \A d \in Requests : d # next \/ next \notin listeners => deadline'[d] = deadline[d]
              /\ listeners' = listeners \ {next}
              /\ pc' \in [Requests -> Places] /\ deadline' \in [Requests -> Nat]
<1> DEFINE next == NextRequest.requestId
<1>0. QueueInv /\ PoolTypes /\ OpsInv /\ EntriesInv /\ queue \in Seq(Entries)
  BY DEF IInv, QueueInv, QueueTypeOK
<1>1. /\ Locked("dequeue", c) /\ Dequeue /\ WakeAndReturn(c, next)
      /\ wasted' = wasted + IF pc[next] = "unavailable" THEN 1 ELSE 0
  BY DEF LockedDequeue
<1>2. PICK k \in 1..Len(queue) :
              /\ NextRequest = queue[k] /\ IsLive(queue[k])
              /\ \A i \in 1..(k - 1) : ~IsLive(queue[i])
              /\ queue' \in Seq(Entries) /\ Len(queue') = Len(queue) - k
              /\ \A n \in 1..Len(queue') : queue'[n] = queue[n + k]
  BY <1>0, <1>1, Dequeued
<1>3. pc[c] = "freed"
  <2>1. 1 \in 1..Len(lockQueue) /\ lockQueue[1] = Op("dequeue", c)
    BY <1>0, <1>1, LockMoves
  <2> QED  BY <1>0, <2>1 DEF OpsInv, Op
<1>4. /\ next = queue[k].requestId /\ next \in Requests /\ next # c
      /\ \/ pc[next] = "waiting"
         \/ pc[next] = "unavailable" /\ queue[k].timeoutAt <= now + Drift /\ next \notin listeners
  <2>1. queue[k] \in Entries
    BY <1>0
  <2>2. /\ next = queue[k].requestId
        /\ \/ pc[queue[k].requestId] = "waiting"
           \/ pc[queue[k].requestId] = "unavailable" /\ queue[k].timeoutAt <= now + Drift
    BY <1>0, <1>2 DEF EntriesInv
  <2>3. pc[next] = "unavailable" => next \notin listeners
    BY <1>0 DEF EntriesInv
  <2> QED  BY <1>3, <2>1, <2>2, <2>3 DEF Entries
<1> HIDE DEF next
<1>7. \/ pc[next] = "waiting" /\ UNCHANGED wasted
      \/ /\ pc[next] = "unavailable" /\ queue[k].timeoutAt <= now + Drift
         /\ next \notin listeners /\ wasted' = wasted + 1
  <2>1. wasted \in Nat
    BY <1>0 DEF PoolTypes
  <2> QED  BY <1>1, <1>4, <2>1
<1>5. pc' \in [Requests -> Places] /\ deadline' \in [Requests -> Nat]
  BY <1>0, <1>1 DEF WakeAndReturn, PoolTypes, Places, Ended
<1>6. /\ pc'[c] = "done"
      /\ pc'[next] = IF next \in listeners THEN "woken" ELSE pc[next]
      /\ \A d \in Requests \ {c, next} : pc'[d] = pc[d]
      /\ \A d \in Requests : d # next \/ next \notin listeners => deadline'[d] = deadline[d]
      /\ listeners' = listeners \ {next}
  BY <1>1, <1>4 DEF WakeAndReturn
<1> QED  BY <1>2, <1>3, <1>4, <1>5, <1>6, <1>7

\* Every step of the pool keeps the invariant.
LEMMA StepKeeps == IInv /\ [Next]_vars => IInv'
<1> SUFFICES ASSUME IInv, [Next]_vars PROVE IInv'
  OBVIOUS
<1>0. /\ QueueInv /\ PoolTypes /\ CallsAreCounted /\ OpsInv /\ BusyInv /\ EntriesInv /\ WakeInv
      /\ QueueTypeOK /\ now \in Nat
  BY DEF IInv, QueueInv, QueueTypeOK
<1>q. QueueInv'
  BY <1>0, QueueIsUsed, QueueKept
\* Nothing but where a request is changes, which neither waits nor uses the lock.
<1>1. ASSUME NEW c \in Requests, NEW to \in {"calling", "failed"}, Goto(c, to),
             pc[c] = "idle" \/ (pc[c] = "woken" /\ to = "calling"),
             UNCHANGED <<now, queueVars, initialized, lockQueue, listeners, deadline, history>>,
             IF to = "calling" THEN activeConcurrent' = activeConcurrent + 1
                               ELSE UNCHANGED activeConcurrent
      PROVE  IInv'
  <2>1. /\ pc'[c] = to /\ \A d \in Requests \ {c} : pc'[d] = pc[d]
        /\ \A where : In(where)' = IF to \in where THEN In(where) \cup {c} ELSE In(where) \ {c}
    BY <1>0, <1>1, OneMoves
  <2>2. /\ UNCHANGED <<now, queue, stats, initialized, lockQueue, listeners, deadline, disconnected, wasted>>
        /\ now \in Nat /\ pc[c] \notin {"enqueueing", "freed", "waiting", "calling"}
    BY <1>0, <1>1 DEF queueVars, history
  <2>3. CallsAreCounted' /\ In({"calling"}) \subseteq In({"calling"})'
    <3>1. CASE to = "calling"
      BY <1>0, <1>1, <2>2, <3>1, CallBegins
    <3>2. CASE to = "failed"
      <4>1. In({"calling"})' = In({"calling"})
        BY <2>1, <2>2, <3>2 DEF In
      <4> QED  BY <1>0, <1>1, <3>2, <4>1 DEF CallsAreCounted
    <3> QED  BY <1>1, <3>1, <3>2
  <2>4. PoolTypes'
    <3>1. pc' \in [Requests -> Places]
      BY <1>0, <1>1 DEF PoolTypes, Goto, Places, Ended
    <3>2. activeConcurrent' \in Nat
      BY <1>0, <1>1 DEF PoolTypes
    <3> QED  BY <1>0, <2>2, <3>1, <3>2 DEF PoolTypes
  <2>5. OpsInv'
    BY <1>0, <1>1, <2>1, <2>2, OpsStay
  <2>6. BusyInv'
    BY <1>0, <2>2, <2>3, BusyStays
  <2>7. EntriesInv' /\ LiveWaiters' \subseteq LiveWaiters
    <3>1. \A d \in listeners : d # c
      BY <1>0, <2>2 DEF EntriesInv
    <3>2. \A d \in Requests :
              /\ pc'[d] \in {"idle", "enqueueing"} => pc[d] \in {"idle", "enqueueing"}
              /\ pc'[d] = "waiting" => pc[d] = "waiting"
              /\ d \in listeners' => pc'[d] = "waiting"
              /\ pc[d] = "unavailable" => pc'[d] = "unavailable"
              /\ pc[d] = "waiting" => pc'[d] = "waiting" /\ deadline'[d] = deadline[d]
                                      /\ (d \in listeners => d \in listeners')
      BY <1>0, <1>1, <2>1, <2>2, <3>1 DEF EntriesInv
    <3> QED  BY <1>0, <2>2, <3>2, WaitsKept
  <2>8. WakeInv'
    <3>1. Moving \subseteq Moving'
      <4>1. ASSUME NEW d \in Moving PROVE d \in Moving'
        BY <1>1, <2>1, <2>2, <4>1 DEF Moving, In
      <4> QED  BY <4>1
    <3> QED  BY <1>0, <2>2, <2>7, <3>1, WakeKept
  <2> QED  BY <1>q, <2>3, <2>4, <2>5, <2>6, <2>7, <2>8 DEF IInv
<1>2. ASSUME NEW c \in Requests, Refuse(c) PROVE IInv'
  BY <1>1, <1>2 DEF Refuse
<1>3. ASSUME NEW c \in Requests, CallAtOnce(c) PROVE IInv'
  BY <1>1, <1>3 DEF CallAtOnce
<1>4. ASSUME NEW c \in Requests, Resume(c) PROVE IInv'
  BY <1>1, <1>4 DEF Resume
\* A request asks for the lock.
<1>5. ASSUME NEW c \in Requests, NEW op \in {"enqueue", "dequeue"}, AskForLock(op, c),
             UNCHANGED <<now, queueVars, initialized, listeners, deadline, history>>,
             IF op = "enqueue"
             THEN /\ pc[c] = "idle" /\ Goto(c, "enqueueing") /\ AtCapacity
                  /\ UNCHANGED activeConcurrent
             ELSE /\ pc[c] = "calling" /\ Goto(c, "freed")
                  /\ activeConcurrent' = activeConcurrent - 1
      PROVE  IInv'
  <2> DEFINE to == IF op = "enqueue" THEN "enqueueing" ELSE "freed"
  <2>0. Goto(c, to) /\ pc[c] \notin {"enqueueing", "freed", "waiting"} /\ to \in {"enqueueing", "freed"}
    BY <1>5
  <2>1. /\ pc'[c] = to /\ \A d \in Requests \ {c} : pc'[d] = pc[d]
        /\ \A where : In(where)' = IF to \in where THEN In(where) \cup {c} ELSE In(where) \ {c}
    BY <1>0, <2>0, OneMoves
  <2>2. UNCHANGED <<now, queue, stats, initialized, listeners, deadline, disconnected, wasted>>
    BY <1>5 DEF queueVars, history
  <2>3. OpsInv'
    BY <1>0, <1>5, <2>0, OpAsked
  <2>4. CallsAreCounted' /\ activeConcurrent' \in Nat /\ BusyInv'
    <3>1. CASE op = "enqueue"
      <4>1. In({"calling"})' = In({"calling"}) /\ UNCHANGED activeConcurrent
        BY <1>5, <2>1, <3>1 DEF In
      <4>2. Cardinality(In({"calling"})) >= MaxConcurrent
        BY <1>0, <1>5, <3>1 DEF AtCapacity, CallsAreCounted
      <4>3. BusyInv'
        BY <4>1, <4>2, BusySeen
      <4> QED  BY <1>0, <4>1, <4>3 DEF CallsAreCounted, PoolTypes
    <3>2. CASE op = "dequeue"
      <4>1. In({"calling"})' = In({"calling"}) \ {c}
        BY <2>1, <3>2
      <4>2. BusyInv'
        BY <1>0, <1>5, <3>2, <4>1, BusyFrees
      <4>3. CallsAreCounted' /\ activeConcurrent' \in Nat
        BY <1>0, <1>5, <3>2, CallEnds
      <4> QED  BY <4>2, <4>3
    <3> QED  BY <3>1, <3>2
  <2>5. PoolTypes'
    <3>1. pc' \in [Requests -> Places]
      BY <1>0, <2>0 DEF PoolTypes, Goto, Places, Ended
    <3>2. lockQueue' \in Seq(LockOps)
      BY <1>0, <1>5, LockMoves
    <3> QED  BY <1>0, <2>2, <2>4, <3>1, <3>2 DEF PoolTypes
  <2>6. EntriesInv' /\ LiveWaiters' \subseteq LiveWaiters
    <3>1. \A d \in listeners : d # c
      BY <1>0, <2>0 DEF EntriesInv
    <3>2. \A d \in Requests :
              /\ pc'[d] \in {"idle", "enqueueing"} => pc[d] \in {"idle", "enqueueing"}
              /\ pc'[d] = "waiting" => pc[d] = "waiting"
              /\ d \in listeners' => pc'[d] = "waiting"
              /\ pc[d] = "unavailable" => pc'[d] = "unavailable"
              /\ pc[d] = "waiting" => pc'[d] = "waiting" /\ deadline'[d] = deadline[d]
                                      /\ (d \in listeners => d \in listeners')
      BY <1>0, <1>5, <2>0, <2>1, <2>2, <3>1 DEF EntriesInv
    <3> QED  BY <1>0, <2>2, <3>2, WaitsKept
  <2>7. WakeInv'
    <3>1. ASSUME NEW d \in Moving PROVE d \in Moving'
      BY <1>5, <2>1, <3>1 DEF Moving, In
    <3> QED  BY <1>0, <2>2, <2>6, <3>1, WakeKept
  <2> QED  BY <1>q, <2>3, <2>4, <2>5, <2>6, <2>7 DEF IInv
<1>6. ASSUME NEW c \in Requests, CallQueued(c) PROVE IInv'
  BY <1>5, <1>6 DEF CallQueued
<1>7. ASSUME NEW c \in Requests, FreeSlot(c) PROVE IInv'
  BY <1>5, <1>7 DEF FreeSlot
\* A request has entered the queue, or was refused by a full one.
<1>8. ASSUME NEW c \in Requests, NEW to \in {"waiting", "unavailable"}, Locked("enqueue", c), Goto(c, to),
             UNCHANGED <<now, initialized, activeConcurrent, disconnected>>
      PROVE  /\ CallsAreCounted' /\ OpsInv' /\ BusyInv' /\ pc' \in [Requests -> Places]
             /\ lockQueue' \in Seq(LockOps) /\ pc[c] = "enqueueing"
             /\ pc'[c] = to /\ \A d \in Requests \ {c} : pc'[d] = pc[d]
             /\ Moving' = Moving
  <2>1. /\ pc'[c] = to /\ \A d \in Requests \ {c} : pc'[d] = pc[d]
        /\ \A where : In(where)' = IF to \in where THEN In(where) \cup {c} ELSE In(where) \ {c}
    BY <1>0, <1>8, OneMoves
  <2>2. OpsInv' /\ pc[c] = "enqueueing"
    BY <1>0, <1>8, <2>1, OpDone
  <2>3. In({"calling"})' = In({"calling"}) /\ Moving' = Moving
    BY <1>8, <2>1, <2>2 DEF In, Moving
  <2>4. CallsAreCounted'
    BY <1>0, <1>8, <2>3 DEF CallsAreCounted
  <2>5. BusyInv'
    BY <1>0, <1>8, <2>3, BusyMovesUp
  <2>6. pc' \in [Requests -> Places]
    BY <1>0, <1>8 DEF PoolTypes, Goto, Places, Ended
  <2>7. lockQueue' \in Seq(LockOps)
    BY <1>0, <1>8, LockMoves
  <2> QED  BY <2>1, <2>2, <2>3, <2>4, <2>5, <2>6, <2>7
<1>9. ASSUME NEW c \in Requests, LockedEnqueue(c) PROVE IInv'
  <2>1. /\ Locked("enqueue", c) /\ Goto(c, "waiting") /\ Enqueue(c)
        /\ UNCHANGED <<now, initialized, activeConcurrent, disconnected>>
        /\ listeners' = listeners \cup {c} /\ deadline' = [deadline EXCEPT ![c] = TimerDue]
        /\ wasted' = 0
    BY <1>9 DEF LockedEnqueue
  <2>2. /\ CallsAreCounted' /\ OpsInv' /\ BusyInv' /\ pc' \in [Requests -> Places]
        /\ lockQueue' \in Seq(LockOps) /\ pc[c] = "enqueueing" /\ Moving' = Moving
    BY <1>8, <2>1
  <2>3. PoolTypes'
    <3>1. TimerDue \in Nat
      BY <1>0, QueueAssumption DEF TimerDue
    <3> QED  BY <1>0, <2>1, <2>2, <3>1 DEF PoolTypes
  <2>4. EntriesInv'
    BY <1>0, <2>1, <2>2, EntryAdded
  <2>5. Cardinality(Moving) >= MaxConcurrent
    <3>1. 1 \in 1..Len(lockQueue) /\ lockQueue[1] = Op("enqueue", c) /\ Op("enqueue", c).op = "enqueue"
      BY <1>0, <2>1, LockMoves
    <3>2. Cardinality(Busy(1)) >= MaxConcurrent
      BY <1>0, <3>1 DEF BusyInv
    <3>3. ASSUME NEW d \in Busy(1) PROVE d \in Moving
      <4>1. CASE d \in In({"calling"})
        BY <4>1 DEF In, Moving
      <4>2. CASE d \in Behind(1)
        <5>1. PICK j \in (1 + 1)..Len(lockQueue) : lockQueue[j] = Op("dequeue", d)
          BY <4>2 DEF Behind
        <5>2. j \in 1..Len(lockQueue) /\ lockQueue[j].by = d /\ lockQueue[j].op = "dequeue"
          BY <5>1 DEF Op
        <5>3. pc[d] = "freed" /\ d \in Requests
          BY <1>0, <4>2, <5>2 DEF OpsInv, Behind
        <5> QED  BY <5>3 DEF In, Moving
      <4> QED  BY <4>1, <4>2, <3>3 DEF Busy
    <3>4. Moving \subseteq Requests /\ Busy(1) \subseteq Moving /\ MaxConcurrent \in Nat
      BY <3>3, ClientPoolAssumption DEF Moving, In
    <3> QED  BY <3>2, <3>4, MoreRequests
  <2>6. WakeInv'
    <3>1. Cardinality(Moving) \in Nat
      <4>1. Moving \subseteq Requests
        BY DEF Moving, In
      <4> QED  BY <4>1, RequestsAreFinite
    <3>2. Cardinality(Moving') + wasted' >= MaxConcurrent
      BY <2>1, <2>2, <2>5, <3>1, ClientPoolAssumption
    <3> QED  BY <3>2 DEF WakeInv
  <2> QED  BY <1>q, <2>2, <2>3, <2>4, <2>6 DEF IInv
<1>10. ASSUME NEW c \in Requests, LockedEnqueueRefused(c) PROVE IInv'
  <2>1. /\ Locked("enqueue", c) /\ Goto(c, "unavailable") /\ UNCHANGED queue
        /\ UNCHANGED <<now, initialized, activeConcurrent, disconnected>>
        /\ UNCHANGED <<listeners, deadline, wasted>>
    BY <1>10 DEF LockedEnqueueRefused, EnqueueRefused, queueVars, history
  <2>2. /\ CallsAreCounted' /\ OpsInv' /\ BusyInv' /\ pc' \in [Requests -> Places]
        /\ lockQueue' \in Seq(LockOps) /\ pc[c] = "enqueueing" /\ Moving' = Moving
        /\ pc'[c] = "unavailable" /\ \A d \in Requests \ {c} : pc'[d] = pc[d]
    BY <1>8, <2>1
  <2>3. PoolTypes'
    BY <1>0, <2>1, <2>2 DEF PoolTypes
  <2>4. EntriesInv' /\ LiveWaiters' \subseteq LiveWaiters
    <3>1. \A d \in Requests :
              /\ pc'[d] \in {"idle", "enqueueing"} => pc[d] \in {"idle", "enqueueing"}
              /\ pc'[d] = "waiting" => pc[d] = "waiting"
              /\ d \in listeners' => pc'[d] = "waiting"
              /\ pc[d] = "unavailable" => pc'[d] = "unavailable"
              /\ pc[d] = "waiting" => pc'[d] = "waiting" /\ deadline'[d] = deadline[d]
                                      /\ (d \in listeners => d \in listeners')
      BY <1>0, <2>1, <2>2 DEF EntriesInv
    <3> QED  BY <1>0, <2>1, <3>1, WaitsKept
  <2>5. WakeInv'
    BY <1>0, <2>1, <2>2, <2>4, WakeKept
  <2> QED  BY <1>q, <2>2, <2>3, <2>4, <2>5 DEF IInv
\* What neither asks for the lock nor uses it, and moves no call.
<1>11. ASSUME UNCHANGED <<queue, activeConcurrent, lockQueue, wasted>>, now' \in Nat, now' >= now,
              initialized' \in BOOLEAN, disconnected' \in BOOLEAN, disconnected => disconnected',
              listeners' \subseteq listeners, deadline' \in [Requests -> Nat],
              pc' \in [Requests -> Places],
              \A d \in Requests :
                 \/ pc'[d] = pc[d] /\ UNCHANGED deadline[d]
                    /\ (d \in listeners => d \in listeners' \/ disconnected')
                 \/ pc[d] = "waiting" /\ pc'[d] = "unavailable" /\ deadline[d] <= now + Drift
                    /\ d \notin listeners'
       PROVE  IInv'
  <2>1. PoolTypes'
    BY <1>0, <1>11 DEF PoolTypes
  <2>2. \A d \in Requests :
              /\ pc'[d] \in {"idle", "enqueueing"} => pc[d] \in {"idle", "enqueueing"}
              /\ pc'[d] = "waiting" => pc[d] = "waiting"
              /\ d \in listeners' => pc'[d] = "waiting"
              /\ pc[d] = "unavailable" => pc'[d] = "unavailable"
              /\ pc[d] = "waiting" =>
                    \/ /\ pc'[d] = "waiting" /\ deadline'[d] = deadline[d]
                       /\ d \in listeners => d \in listeners' \/ disconnected'
                    \/ pc'[d] = "unavailable" /\ deadline[d] <= now + Drift
    BY <1>0, <1>11 DEF EntriesInv
  <2>3. EntriesInv' /\ LiveWaiters' \subseteq LiveWaiters
    BY <1>0, <1>11, <2>2, WaitsKept
  <2>4. Moving' = Moving /\ In({"calling"})' = In({"calling"})
    BY <1>11 DEF Moving, In
  <2>5. WakeInv'
    BY <1>0, <1>11, <2>3, <2>4, WakeKept
  <2>6. OpsInv'
    BY <1>0, <1>11, OpsStay
  <2>7. BusyInv'
    BY <1>0, <1>11, <2>4, BusyStays
  <2>8. CallsAreCounted'
    BY <1>0, <1>11, <2>4 DEF CallsAreCounted
  <2> QED  BY <1>q, <2>1, <2>3, <2>5, <2>6, <2>7, <2>8 DEF IInv
<1>12. ASSUME NEW c \in Requests, WaitTimeout(c) PROVE IInv'
  <2>1. /\ pc[c] = "waiting" /\ deadline[c] <= now + Drift /\ listeners' = listeners \ {c}
        /\ deadline' = [deadline EXCEPT ![c] = 0] /\ Goto(c, "unavailable")
        /\ UNCHANGED <<now, queue, stats, initialized, activeConcurrent, lockQueue, disconnected, wasted>>
    BY <1>12 DEF WaitTimeout, TimerFires, queueVars, history
  <2>2. pc' \in [Requests -> Places] /\ deadline' \in [Requests -> Nat]
    BY <1>0, <2>1 DEF PoolTypes, Goto, Places, Ended
  <2>3. /\ pc'[c] = "unavailable"
        /\ \A d \in Requests \ {c} : pc'[d] = pc[d] /\ deadline'[d] = deadline[d]
    BY <1>0, <2>1 DEF PoolTypes, Goto
  <2> QED  BY <1>0, <1>11, <2>1, <2>2, <2>3 DEF PoolTypes
<1>13. CASE Initialize
  <2>1. /\ initialized' \in BOOLEAN
        /\ UNCHANGED <<now, queue, activeConcurrent, lockQueue, listeners, deadline, pc, disconnected, wasted>>
    BY <1>13 DEF Initialize, queueVars, history
  <2>2. /\ disconnected' \in BOOLEAN /\ (disconnected => disconnected')
        /\ deadline' \in [Requests -> Nat] /\ pc' \in [Requests -> Places]
    BY <1>0, <2>1 DEF PoolTypes
  <2>3. \A d \in Requests : pc'[d] = pc[d] /\ UNCHANGED deadline[d]
                             /\ (d \in listeners => d \in listeners' \/ disconnected')
    BY <2>1
  <2>4. now' \in Nat /\ now' >= now /\ listeners' \subseteq listeners
    BY <1>0, <2>1
  <2> QED  BY <1>11, <2>1, <2>2, <2>3, <2>4
<1>14. CASE Disconnect
  <2>1. /\ initialized' \in BOOLEAN /\ disconnected' /\ disconnected' \in BOOLEAN /\ listeners' = {}
        /\ UNCHANGED <<now, queue, activeConcurrent, lockQueue, deadline, pc, wasted>>
    BY <1>14 DEF Disconnect, queueVars
  <2>2. deadline' \in [Requests -> Nat] /\ pc' \in [Requests -> Places]
    BY <1>0, <2>1 DEF PoolTypes
  <2> QED  BY <1>0, <1>11, <2>1, <2>2
<1>15. CASE Tick
  BY <1>0, <1>11, <1>15 DEF Tick, queueVars, poolVars, history, PoolTypes
<1>16. CASE UNCHANGED vars
  BY <1>0, <1>11, <1>16 DEF vars, PoolTypes
<1>17. ASSUME NEW c \in Requests, LockedDequeue(c) PROVE IInv'
  <2>1. /\ Locked("dequeue", c) /\ UNCHANGED <<now, initialized, activeConcurrent, disconnected>>
    BY <1>17 DEF LockedDequeue
  <2>2. PICK k \in 1..Len(queue), next \in Requests :
              /\ next = queue[k].requestId /\ IsLive(queue[k])
              /\ pc[c] = "freed" /\ next # c
              /\ \/ pc[next] = "waiting" /\ UNCHANGED wasted
                 \/ /\ pc[next] = "unavailable" /\ queue[k].timeoutAt <= now + Drift
                    /\ next \notin listeners /\ wasted' = wasted + 1
              /\ \A i \in 1..(k - 1) : ~IsLive(queue[i])
              /\ queue' \in Seq(Entries) /\ Len(queue') = Len(queue) - k
              /\ \A n \in 1..Len(queue') : queue'[n] = queue[n + k]
              /\ pc'[c] = "done"
              /\ pc'[next] = IF next \in listeners THEN "woken" ELSE pc[next]
              /\ \A d \in Requests \ {c, next} : pc'[d] = pc[d]
              /\ \A d \in Requests : d # next \/ next \notin listeners => deadline'[d] = deadline[d]
              /\ listeners' = listeners \ {next}
              /\ pc' \in [Requests -> Places] /\ deadline' \in [Requests -> Nat]
    BY <1>17, WakesOldest
  <2>3. pc[c] = "freed"
    BY <2>2
  <2>4. /\ next = queue[k].requestId /\ next \in Requests /\ next # c
        /\ \/ pc[next] = "waiting" /\ UNCHANGED wasted
           \/ pc[next] = "unavailable" /\ next \notin listeners /\ wasted' = wasted + 1
    BY <2>2
  <2>5. /\ pc'[c] = "done"
        /\ pc'[next] = IF next \in listeners THEN "woken" ELSE pc[next]
        /\ \A d \in Requests \ {c, next} : pc'[d] = pc[d]
        /\ \A d \in Requests : d # next \/ next \notin listeners => deadline'[d] = deadline[d]
        /\ listeners' = listeners \ {next}
        /\ pc' \in [Requests -> Places] /\ deadline' \in [Requests -> Nat]
    BY <2>2
  <2>6. lockQueue' \in Seq(LockOps)
    BY <1>0, <2>1, LockMoves
  <2>7. PoolTypes'
    <3>1. wasted' \in Nat
      BY <1>0, <2>4 DEF PoolTypes
    <3> QED  BY <1>0, <2>1, <2>5, <2>6, <3>1 DEF PoolTypes
  <2>8. OpsInv'
    BY <1>0, <2>1, <2>4, <2>5, OpDone
  <2>9. In({"calling"})' = In({"calling"})
    BY <2>3, <2>4, <2>5 DEF In
  <2>10. CallsAreCounted' /\ BusyInv'
    BY <1>0, <2>1, <2>9, BusyMovesUp DEF CallsAreCounted
  <2>11. EntriesInv' /\ LiveWaiters' \subseteq LiveWaiters
    <3>1. k \in 0..Len(queue) /\ k \in 1..k
      BY <1>0 DEF QueueTypeOK
    <3>2. \A i \in 1..k : IsLive(queue[i]) => queue[i].requestId \notin listeners'
      <4>1. \A i \in 1..k : i \in 1..(k - 1) \/ i = k
        OBVIOUS
      <4> QED  BY <2>2, <2>4, <2>5, <4>1
    <3>3. \A d \in Requests :
              /\ pc'[d] \in {"idle", "enqueueing"} => pc[d] \in {"idle", "enqueueing"}
              /\ pc'[d] = "waiting" => pc[d] = "waiting"
      BY <2>3, <2>4, <2>5
    <3>8. \A d \in Requests : pc[d] = "unavailable" => pc'[d] = "unavailable"
      BY <2>3, <2>4, <2>5
    <3>4. \A d \in listeners' : pc'[d] = "waiting"
      BY <1>0, <2>3, <2>5 DEF EntriesInv, PoolTypes
    <3>5. ASSUME NEW d \in Requests, pc[d] = "waiting"
          PROVE  \/ /\ pc'[d] = "waiting" /\ deadline'[d] = deadline[d]
                    /\ d \in listeners => d \in listeners'
                 \/ /\ pc'[d] # "waiting"
                    /\ \E i \in 1..k : queue[i].requestId = d
      <4>1. CASE d = next /\ next \in listeners
        BY <2>4, <2>5, <3>1, <4>1
      <4>2. CASE d = next /\ next \notin listeners
        BY <2>5, <3>5, <4>2
      <4>3. CASE d # next
        BY <2>3, <2>5, <3>5, <4>3
      <4> QED  BY <4>1, <4>2, <4>3
    <3>6. /\ now' \in Nat /\ now' >= now /\ (disconnected => disconnected')
          /\ listeners' \subseteq listeners
      BY <1>0, <2>1, <2>5
    <3>7. \A d \in Requests :
              /\ pc'[d] \in {"idle", "enqueueing"} => pc[d] \in {"idle", "enqueueing"}
              /\ pc'[d] = "waiting" => pc[d] = "waiting"
              /\ d \in listeners' => pc'[d] = "waiting"
              /\ pc[d] = "unavailable" => pc'[d] = "unavailable"
              /\ pc[d] = "waiting" =>
                    \/ /\ pc'[d] = "waiting" /\ deadline'[d] = deadline[d]
                       /\ d \in listeners => d \in listeners' \/ disconnected'
                    \/ pc'[d] = "unavailable" /\ deadline[d] <= now + Drift
                    \/ /\ pc'[d] # "waiting"
                       /\ \E i \in 1..k : queue[i].requestId = d
      BY <3>3, <3>4, <3>5, <3>8
    <3> QED  BY <1>0, <2>2, <3>1, <3>2, <3>6, <3>7, EntriesKept
  <2>12. WakeInv'
    <3> SUFFICES ASSUME ~disconnected, LiveWaiters' # {}
                 PROVE  Cardinality(Moving') + wasted' >= MaxConcurrent
      BY <2>1 DEF WakeInv
    <3>1. Moving \in SUBSET Requests /\ Moving \ {c} \in SUBSET Requests /\ c \in Moving
      BY <2>3 DEF Moving, In
    <3>2. Cardinality(Moving) + wasted >= MaxConcurrent
      BY <1>0, <2>11 DEF WakeInv
    <3>3. Cardinality(Moving \ {c}) = Cardinality(Moving) - 1
      BY <3>1, RequestsAreFinite, FS_RemoveElement
    <3>4. Cardinality(Moving) \in Nat /\ wasted \in Nat /\ MaxConcurrent \in Nat
      BY <1>0, <3>1, RequestsAreFinite, ClientPoolAssumption DEF PoolTypes
    <3>5. CASE pc[next] = "waiting" /\ UNCHANGED wasted
      <4>1. next \in listeners /\ next \notin Moving \ {c}
        BY <1>0, <2>4, <3>5 DEF EntriesInv, Moving, In
      <4>2. ASSUME NEW d \in Requests PROVE d \in Moving' <=> d \in (Moving \ {c}) \cup {next}
        BY <2>3, <2>4, <2>5, <3>5, <4>1 DEF Moving, In
      <4>3. Moving' = (Moving \ {c}) \cup {next}
        BY <2>4, <3>1, <4>2 DEF Moving, In
      <4>4. Cardinality((Moving \ {c}) \cup {next}) = Cardinality(Moving \ {c}) + 1
        BY <3>1, <4>1, RequestsAreFinite, FS_AddElement
      <4>5. Cardinality(Moving') = Cardinality(Moving)
        BY <3>3, <3>4, <4>3, <4>4
      <4> QED  BY <3>2, <3>5, <4>5
    <3>6. CASE pc[next] = "unavailable" /\ next \notin listeners /\ wasted' = wasted + 1
      <4>1. ASSUME NEW d \in Requests PROVE d \in Moving' <=> d \in Moving \ {c}
        BY <2>3, <2>4, <2>5, <3>6 DEF Moving, In
      <4>2. Moving' = Moving \ {c}
        BY <3>1, <4>1 DEF Moving, In
      <4> QED  BY <3>2, <3>3, <3>4, <3>6, <4>2
    <3> QED  BY <2>4, <3>5, <3>6
  <2> QED  BY <1>q, <2>7, <2>8, <2>10, <2>11, <2>12 DEF IInv
<1>18. ASSUME NEW c \in Requests, LockedDequeueNone(c) PROVE IInv'
  <2>1. /\ Locked("dequeue", c) /\ DequeueNone /\ Goto(c, "done")
        /\ UNCHANGED <<now, initialized, activeConcurrent, listeners, deadline, disconnected, wasted>>
    BY <1>18 DEF LockedDequeueNone, history
  <2>2. /\ pc'[c] = "done" /\ \A d \in Requests \ {c} : pc'[d] = pc[d]
    BY <1>0, <2>1, OneMoves
  <2>3. OpsInv' /\ pc[c] = "freed"
    BY <1>0, <2>1, <2>2, OpDone
  <2>4. In({"calling"})' = In({"calling"})
    BY <2>2, <2>3 DEF In
  <2>5. CallsAreCounted' /\ BusyInv'
    BY <1>0, <2>1, <2>4, BusyMovesUp DEF CallsAreCounted
  <2>6. PoolTypes'
    <3>1. pc' \in [Requests -> Places] /\ lockQueue' \in Seq(LockOps)
      BY <1>0, <2>1, LockMoves DEF PoolTypes, Goto, Places, Ended
    <3> QED  BY <1>0, <2>1, <3>1 DEF PoolTypes
  <2>7. queue' = <<>> /\ \A i \in 1..Len(queue) : ~IsLive(queue[i])
    BY <1>0, <2>1, NoneAlive
  <2>8. EntriesInv' /\ LiveWaiters' \subseteq LiveWaiters
    <3>1. /\ Len(queue) \in 0..Len(queue) /\ queue' \in Seq(Entries)
          /\ Len(queue') = Len(queue) - Len(queue)
          /\ \A n \in 1..Len(queue') : queue'[n] = queue[n + Len(queue)]
      BY <1>0, <2>7 DEF QueueTypeOK
    <3>2. \A d \in Requests :
              /\ pc'[d] \in {"idle", "enqueueing"} => pc[d] \in {"idle", "enqueueing"}
              /\ pc'[d] = "waiting" => pc[d] = "waiting"
              /\ d \in listeners' => pc'[d] = "waiting"
              /\ pc[d] = "unavailable" => pc'[d] = "unavailable"
              /\ pc[d] = "waiting" => pc'[d] = "waiting" /\ deadline'[d] = deadline[d]
                                      /\ (d \in listeners => d \in listeners')
      BY <1>0, <2>1, <2>2, <2>3 DEF EntriesInv
    <3>3. /\ now' \in Nat /\ now' >= now /\ (disconnected => disconnected')
          /\ listeners' \subseteq listeners
      BY <1>0, <2>1
    <3>4. \A i \in 1..Len(queue) : IsLive(queue[i]) => queue[i].requestId \notin listeners'
      BY <2>7
    <3>5. \A d \in Requests :
              /\ pc'[d] \in {"idle", "enqueueing"} => pc[d] \in {"idle", "enqueueing"}
              /\ pc'[d] = "waiting" => pc[d] = "waiting"
              /\ d \in listeners' => pc'[d] = "waiting"
              /\ pc[d] = "unavailable" => pc'[d] = "unavailable"
              /\ pc[d] = "waiting" =>
                    \/ /\ pc'[d] = "waiting" /\ deadline'[d] = deadline[d]
                       /\ d \in listeners => d \in listeners' \/ disconnected'
                    \/ pc'[d] = "unavailable" /\ deadline[d] <= now + Drift
                    \/ /\ pc'[d] # "waiting"
                       /\ \E i \in 1..Len(queue) : queue[i].requestId = d
      BY <3>2
    <3> QED  BY <1>0, <3>1, <3>3, <3>4, <3>5, EntriesKept
  <2>9. WakeInv'
    <3>1. LiveWaiters' = {}
      BY <2>7 DEF LiveWaiters, QueueEntries
    <3> QED  BY <3>1 DEF WakeInv
  <2> QED  BY <1>q, <2>3, <2>5, <2>6, <2>8, <2>9 DEF IInv
<1> QED  BY <1>2, <1>3, <1>4, <1>6, <1>7, <1>9, <1>10, <1>12, <1>13, <1>14, <1>15, <1>16, <1>17, <1>18
         DEF Next, LockStep

-------------------------------------------------------------------------------
(* What the pool promises *)

LEMMA InitHolds == Init => IInv
<1> SUFFICES ASSUME Init PROVE IInv
  OBVIOUS
<1>1. QueueInv
  BY QueueAssumption DEF Init, QueueInit, NoRequestsYet, QueueInv, QueueTypeOK, InOrder, NoneTooLate,
     QueueAccounting
<1>2. PoolTypes
  <2>1. pc \in [Requests -> Places] /\ deadline \in [Requests -> Nat]
    BY DEF Init, Places
  <2>2. lockQueue \in Seq(LockOps) /\ activeConcurrent \in Nat /\ listeners \subseteq Requests
    BY DEF Init
  <2>3. initialized \in BOOLEAN /\ disconnected \in BOOLEAN /\ wasted \in Nat
    BY DEF Init
  <2> QED  BY <2>1, <2>2, <2>3 DEF PoolTypes
<1>3. CallsAreCounted
  <2>1. In({"calling"}) = {}
    BY DEF Init, In
  <2> QED  BY <2>1, FS_EmptySet DEF Init, CallsAreCounted
<1>4. OpsInv /\ BusyInv /\ EntriesInv /\ WakeInv
  BY DEF Init, QueueInit, OpsInv, BusyInv, EntriesInv, WakeInv, LiveWaiters, In
<1> QED  BY <1>1, <1>2, <1>3, <1>4 DEF IInv

\* In every state of the pool the invariant holds.
THEOREM PoolInvariance == Spec => []IInv
BY InitHolds, StepKeeps, PTL DEF Spec

\* The pool uses its queue as the queue on its own may be used: what is proved of that holds here.
THEOREM PoolUsesQueue == Spec => QueueSpec
<1>1. IInv => QueueTypeOK
  BY DEF IInv, QueueInv
<1>2. IInv /\ [Next]_vars => [QueueNext]_<<now, queue, stats>>
  BY <1>1, QueueIsUsed
<1>3. Init => now = 0 /\ QueueInit
  BY DEF Init
<1> QED  BY <1>2, <1>3, PoolInvariance, PTL DEF Spec, QueueSpec

\* A request that freed its slot has a dequeue before the lock.
LEMMA DequeuesPending ==
    ASSUME PoolTypes, OpsInv
    PROVE  PendingDequeues \in Nat /\ Cardinality(In({"freed"})) <= PendingDequeues
<1> DEFINE D == {i \in 1..Len(lockQueue) : lockQueue[i].op = "dequeue"}
           F == In({"freed"})
           at == [c \in F |-> CHOOSE i \in D : lockQueue[i].by = c]
<1>1. IsFiniteSet(D)
  <2>1. Len(lockQueue) \in Nat
    BY DEF PoolTypes
  <2>2. IsFiniteSet(1..Len(lockQueue))
    BY <2>1, FS_Interval
  <2> QED  BY <2>2, FS_Subset
<1>2. \A c \in F : \E i \in D : lockQueue[i].by = c
  <2> SUFFICES ASSUME NEW c \in F PROVE \E i \in D : lockQueue[i].by = c
    OBVIOUS
  <2>1. PICK i \in 1..Len(lockQueue) : lockQueue[i] = Op("dequeue", c)
    BY DEF OpsInv
  <2> QED  BY <2>1 DEF Op
<1> HIDE DEF D, F
<1>3. \A c \in F : at[c] \in D /\ lockQueue[at[c]].by = c
  BY <1>2
<1>4. at \in Injection(F, D)
  <2>1. at \in [F -> D]
    BY <1>3
  <2> HIDE DEF at
  <2>2. \A c, d \in F : at[c] = at[d] => c = d
    BY <1>3
  <2>3. IsInjective(at)
    BY <2>1, <2>2 DEF IsInjective
  <2> QED  BY <2>1, <2>3 DEF Injection
<1> HIDE DEF at
<1>5. Cardinality(F) <= Cardinality(D) /\ Cardinality(D) \in Nat
  BY <1>1, <1>4, FS_Injection, FS_CardinalityType
<1> QED  BY <1>5 DEF PendingDequeues, D, F

\* While a live request waits, the limit is used up by calls in flight, waiters about to resume,
\* wake-ups on their way, and those wasted on requests that gave up early (NoLostWakeup).
LEMMA NoneIsLost == IInv => NoLostWakeup
<1> SUFFICES ASSUME IInv, LiveWaiters # {}, ~disconnected
             PROVE  Cardinality(In({"calling", "woken"})) + PendingDequeues + wasted >= MaxConcurrent
  BY DEF NoLostWakeup
<1> DEFINE A == In({"calling", "woken"})
           F == In({"freed"})
<1>1. Cardinality(Moving) + wasted >= MaxConcurrent /\ wasted \in Nat
  BY DEF IInv, WakeInv, PoolTypes
<1>2. /\ A \in SUBSET Requests /\ F \in SUBSET Requests
      /\ Moving = A \cup F /\ A \cap F = {}
  BY DEF In, Moving
<1> HIDE DEF A, F
<1>3. /\ IsFiniteSet(A) /\ IsFiniteSet(F) /\ Cardinality(A) \in Nat /\ Cardinality(F) \in Nat
  BY <1>2, RequestsAreFinite
<1>4. Cardinality(Moving) = Cardinality(A) + Cardinality(F) - Cardinality({})
  BY <1>2, <1>3, FS_Union
<1>5. Cardinality({}) = 0
  BY FS_EmptySet
<1>6. PendingDequeues \in Nat /\ Cardinality(F) <= PendingDequeues
  BY DequeuesPending DEF IInv, F
<1>7. MaxConcurrent \in Nat
  BY ClientPoolAssumption
<1> QED  BY <1>1, <1>3, <1>4, <1>5, <1>6, <1>7 DEF A

\* The calls in flight are the ones counted, a live entry belongs to a request that waits or whose
\* timer was at most Drift early, a waiter that listens is in the queue or about to time out, the
\* accounts of the queue are right and no wake-up is lost (ClientPoolInv).
THEOREM ClientPoolIsSound == Spec => []ClientPoolInv
<1>1. IInv => ClientPoolInv
  <2> SUFFICES ASSUME IInv PROVE ClientPoolInv
    OBVIOUS
  <2>0. QueueInv /\ PoolTypes /\ CallsAreCounted /\ EntriesInv
    BY DEF IInv
  <2>1. TypeOK
    BY <2>0 DEF QueueInv, PoolTypes, Places, TypeOK
  <2>2. \A e \in QueueEntries : IsLive(e) => pc[e.requestId] = "waiting" \/ e \in EarlyEntries
    BY <2>0 DEF EntriesInv, QueueEntries, EarlyEntries
  <2>3. \A c \in In({"waiting"}) \cap listeners :
           now < deadline[c] => \E e \in QueueEntries : e.requestId = c
    BY <2>0 DEF EntriesInv, QueueEntries
  <2>4. listeners \subseteq In({"waiting"})
    BY <2>0 DEF EntriesInv, In, PoolTypes
  <2>5. NoLostWakeup
    BY NoneIsLost
  <2> QED  BY <2>0, <2>1, <2>2, <2>3, <2>4, <2>5 DEF ClientPoolInv, CallsAreCounted, QueueInv
<1> QED  BY <1>1, PoolInvariance, PTL

\* Only a dequeue counts one, and only it wakes a waiter.
LEMMA OnlyDequeueWakes ==
    ASSUME IInv, [Next]_vars, ~ \E c \in Requests : LockedDequeue(c)
    PROVE  /\ stats'.dequeued = stats.dequeued
           /\ \A d \in Requests : pc[d] = "waiting" => pc'[d] # "woken"
<1>0. PoolTypes /\ stats \in [enqueued : Nat, dequeued : Nat, expired : Nat]
  BY DEF IInv, QueueInv, QueueTypeOK
<1>1. CASE Initialize \/ Disconnect \/ Tick \/ UNCHANGED vars
  BY <1>1 DEF Initialize, Disconnect, Tick, vars, queueVars, poolVars
<1>2. ASSUME NEW c \in Requests,
             \/ Refuse(c) \/ CallAtOnce(c) \/ CallQueued(c) \/ Resume(c) \/ WaitTimeout(c) \/ FreeSlot(c)
             \/ LockedEnqueue(c) \/ LockedEnqueueRefused(c) \/ LockedDequeueNone(c)
      PROVE  /\ stats'.dequeued = stats.dequeued
             /\ \A d \in Requests : pc[d] = "waiting" => pc'[d] # "woken"
  <2>1. \E to \in Places \ {"woken"} : Goto(c, to)
    BY <1>2 DEF Refuse, CallAtOnce, CallQueued, Resume, WaitTimeout, FreeSlot, LockedEnqueue,
       LockedEnqueueRefused, LockedDequeueNone, Places, Ended
  <2>2. stats'.dequeued = stats.dequeued
    BY <1>0, <1>2 DEF Refuse, CallAtOnce, CallQueued, Resume, WaitTimeout, FreeSlot, LockedEnqueue,
       LockedEnqueueRefused, LockedDequeueNone, Enqueue, EnqueueRefused, DequeueNone, ExpireEntries,
       queueVars
  <2> QED  BY <1>0, <2>1, <2>2, OneMoves
<1> QED  BY <1>1, <1>2 DEF Next, LockStep

\* Until the pool is disconnected, whatever is dequeued wakes a waiter, or had given up at most Drift
\* before its entry was to expire (WakeupReachesWaiter).
THEOREM WakeupsReachWaiters == Spec => WakeupReachesWaiter
<1>1. IInv /\ [Next]_vars =>
        [stats'.dequeued > stats.dequeued /\ ~disconnected =>
           \/ \E c \in Requests : pc[c] = "waiting" /\ pc'[c] = "woken"
           \/ wasted' > wasted /\ \E e \in EarlyEntries : e \notin QueueEntries']_vars
  <2> SUFFICES ASSUME IInv, [Next]_vars, stats'.dequeued > stats.dequeued, ~disconnected
               PROVE  \/ \E c \in Requests : pc[c] = "waiting" /\ pc'[c] = "woken"
                      \/ wasted' > wasted /\ \E e \in EarlyEntries : e \notin QueueEntries'
    OBVIOUS
  <2>1. stats.dequeued \in Nat /\ wasted \in Nat /\ queue \in Seq(Entries)
    BY DEF IInv, QueueInv, QueueTypeOK, PoolTypes
  <2>2. PICK c \in Requests : LockedDequeue(c)
    BY <2>1, OnlyDequeueWakes
  <2>3. PICK k \in 1..Len(queue), next \in Requests :
           /\ next = queue[k].requestId /\ IsLive(queue[k])
           /\ \/ pc[next] = "waiting" /\ UNCHANGED wasted
              \/ /\ pc[next] = "unavailable" /\ queue[k].timeoutAt <= now + Drift
                 /\ next \notin listeners /\ wasted' = wasted + 1
           /\ Len(queue') = Len(queue) - k
           /\ \A n \in 1..Len(queue') : queue'[n] = queue[n + k]
           /\ pc'[next] = IF next \in listeners THEN "woken" ELSE pc[next]
    BY <2>2, WakesOldest
  <2>4. CASE pc[next] = "waiting"
    <3>1. next \in listeners
      BY <2>4 DEF IInv, EntriesInv
    <3> QED  BY <2>3, <2>4, <3>1
  <2>5. CASE pc[next] = "unavailable"
    <3>1. queue[k] \in EarlyEntries /\ wasted' > wasted
      BY <2>1, <2>3, <2>5 DEF EarlyEntries, QueueEntries
    <3>2. ASSUME NEW n \in 1..Len(queue'), queue'[n] = queue[k] PROVE FALSE
      <4>1. n + k \in 1..Len(queue) /\ n + k # k /\ queue[n + k] = queue[k]
        BY <2>1, <2>3, <3>2
      <4> QED  BY <4>1 DEF IInv, EntriesInv
    <3> QED  BY <3>1, <3>2 DEF QueueEntries
  <2> QED  BY <2>3, <2>4, <2>5
<1> QED  BY <1>1, PoolInvariance, PTL DEF Spec, WakeupReachesWaiter

\* Who is woken has waited no shorter than any other that might have been (WokenInOrder).
THEOREM WokenInTheirOrder == Spec => WokenInOrder
<1>1. IInv /\ [Next]_vars =>
        [\A c, d \in LiveWaiters : pc'[c] = "woken" /\ d # c => deadline[c] <= deadline[d]]_vars
  <2> SUFFICES ASSUME IInv, [Next]_vars, NEW c \in LiveWaiters, NEW d \in LiveWaiters, pc'[c] = "woken"
               PROVE  deadline[c] <= deadline[d]
    OBVIOUS
  <2>0. queue \in Seq(Entries) /\ Len(queue) \in Nat /\ InOrder /\ EntriesInv
    BY DEF IInv, QueueInv, QueueTypeOK
  <2>1. c \in Requests /\ pc[c] = "waiting" /\ d \in Requests /\ pc[d] = "waiting"
    BY DEF LiveWaiters, In
  <2>2. PICK b \in Requests : LockedDequeue(b)
    BY <2>1, OnlyDequeueWakes
  <2>3. PICK k \in 1..Len(queue), next \in Requests :
           /\ next = queue[k].requestId /\ IsLive(queue[k])
           /\ \A i \in 1..(k - 1) : ~IsLive(queue[i])
           /\ pc'[b] = "done" /\ \A r \in Requests \ {b, next} : pc'[r] = pc[r]
    BY ONLY IInv, <2>2, WakesOldest
  <2>4. c = next
    BY <2>1, <2>3
  <2>5. PICK j \in 1..Len(queue) : queue[j].requestId = d /\ IsLive(queue[j])
    BY DEF LiveWaiters, QueueEntries
  <2>6. deadline[c] = queue[k].timeoutAt /\ deadline[d] = queue[j].timeoutAt
    BY <2>0, <2>1, <2>3, <2>4, <2>5 DEF EntriesInv
  <2>7. k <= j
    BY <2>0, <2>3, <2>5
  <2>8. queue[k].timeoutAt \in Nat
    <3>1. queue[k] \in Entries
      BY <2>0
    <3> QED  BY <3>1 DEF Entries
  <2>9. CASE k = j
    BY <2>6, <2>8, <2>9
  <2>10. CASE k < j
    BY <2>0, <2>6, <2>10 DEF InOrder
  <2> QED  BY <2>7, <2>9, <2>10
<1> QED  BY <1>1, PoolInvariance, PTL DEF Spec, WokenInOrder

===============================================================================
