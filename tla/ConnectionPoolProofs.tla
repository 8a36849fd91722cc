------------------------- MODULE ConnectionPoolProofs -------------------------
(***************************************************************************)
(* Safety of ConnectionPool for any set of callers, any number of drain()  *)
(* calls and any limit.  PoolInv is inductive; every property follows from *)
(* it.  The proof has one lemma per group of conjuncts, because they need  *)
(* different facts: counting (SlotAccounting, DrainInv) needs Holders'     *)
(* size, the queue conjuncts need sequences.                               *)
(***************************************************************************)
EXTENDS ConnectionPool, FiniteSetTheorems, TLAPS

\* The set of holders is finite, so its size is a number.
LEMMA HoldersFinite ==
    /\ IsFiniteSet(Holders)
    /\ Cardinality(Holders) \in Nat
  BY FS_Subset, FS_CardinalityType, PoolAssumption DEF Holders

\* The initial state satisfies the invariant.
LEMMA InitPoolInv == Init => PoolInv
<1> SUFFICES ASSUME Init PROVE PoolInv
  OBVIOUS
<1>1. TypeOK
  <2>1. waitingQueue \in Seq(Requests)
    BY DEF Init
  <2>2. ahead \in [Requests -> SUBSET Requests]
    BY DEF Init
  <2>3. pc \in [Requests -> {"idle", "waiting", "granted", "running", "rejected"}]
    BY DEF Init
  <2>4. drainPc \in [Drainers -> {"idle", "waiting", "drained", "timedOut"}]
    BY DEF Init
  <2>5. draining \in BOOLEAN /\ drainResolvers \subseteq Drainers
    BY DEF Init
  <2>6. activeConnections \in Int /\ forgotten \in Nat
    BY DEF Init
  <2> QED
    BY <2>1, <2>2, <2>3, <2>4, <2>5, <2>6 DEF TypeOK
<1>2. Holders = {}
  BY DEF Init, Holders
<1>3. SlotAccounting
  BY <1>2, FS_EmptySet, PoolAssumption DEF Init, SlotAccounting
<1>4. QueueInv /\ QueueOrder /\ DrainInv
  BY DEF Init, QueueInv, QueueOrder, DrainInv
<1> QED
  BY <1>1, <1>3, <1>4 DEF PoolInv

-------------------------------------------------------------------------------
(* What each operation does to the set of holders *)

LEMMA AcquireSlotHolders ==
  ASSUME TypeOK, NEW r \in Requests, AcquireSlot(r)
  PROVE  r \notin Holders /\ Holders' = Holders \cup {r}
  BY DEF AcquireSlot, TypeOK, Holders

LEMMA HandOverHolders ==
  ASSUME TypeOK, QueueInv, NEW r \in Requests, HandOver(r)
  PROVE  /\ r \in Holders
         /\ Head(waitingQueue) \in Requests \ Holders
         /\ Holders' = (Holders \ {r}) \cup {Head(waitingQueue)}
<1>1. waitingQueue \in Seq(Requests) /\ waitingQueue # <<>>
  BY DEF TypeOK, HandOver
<1>2. 1 \in 1..Len(waitingQueue) /\ Head(waitingQueue) = waitingQueue[1]
  BY <1>1
<1>3. Head(waitingQueue) \in Requests /\ pc[Head(waitingQueue)] = "waiting"
  BY <1>1, <1>2 DEF QueueInv
<1> QED
  BY <1>3 DEF HandOver, TypeOK, Holders

LEMMA FreeSlotHolders ==
  ASSUME TypeOK, NEW r \in Requests, FreeSlot(r)
  PROVE  r \in Holders /\ Holders' = Holders \ {r}
  BY DEF FreeSlot, TypeOK, Holders

\* The other operations leave the holders alone.
LEMMA OtherHolders ==
  ASSUME TypeOK,
         \/ \E r \in Requests : RejectWhileDraining(r) \/ AcquireWait(r) \/ StartFunction(r)
         \/ \E d \in Drainers : Drain(d) \/ DrainTimeout(d)
         \/ Clear
         \/ UNCHANGED vars
  PROVE  Holders' = Holders
<1>1. ASSUME NEW r \in Requests, RejectWhileDraining(r) PROVE Holders' = Holders
  BY <1>1 DEF RejectWhileDraining, TypeOK, Holders
<1>2. ASSUME NEW r \in Requests, AcquireWait(r) PROVE Holders' = Holders
  BY <1>2 DEF AcquireWait, TypeOK, Holders
<1>3. ASSUME NEW r \in Requests, StartFunction(r) PROVE Holders' = Holders
  BY <1>3 DEF StartFunction, TypeOK, Holders
<1>4. CASE pc' = pc
  BY <1>4 DEF Holders
<1> QED
  BY <1>1, <1>2, <1>3, <1>4 DEF Drain, DrainTimeout, Clear, vars

-------------------------------------------------------------------------------
(* Every step preserves the invariant *)

LEMMA TypeStep == TypeOK /\ [Next]_vars => TypeOK'
<1> SUFFICES ASSUME TypeOK, [Next]_vars PROVE TypeOK'
  OBVIOUS
<1> USE DEF TypeOK, Push, SlotsAfterHandOver
<1>1. ASSUME NEW r \in Requests, RejectWhileDraining(r) PROVE TypeOK'
  BY <1>1 DEF RejectWhileDraining
<1>2. ASSUME NEW r \in Requests, AcquireSlot(r) PROVE TypeOK'
  BY <1>2 DEF AcquireSlot
<1>3. ASSUME NEW r \in Requests, AcquireWait(r) PROVE TypeOK'
  <2>1. Holders \cup Queued \in SUBSET Requests
    BY DEF Holders, Queued
  <2>2. ahead' \in [Requests -> SUBSET Requests]
    BY <1>3, <2>1 DEF AcquireWait
  <2> QED
    BY <1>3, <2>2 DEF AcquireWait
<1>4. ASSUME NEW r \in Requests, StartFunction(r) PROVE TypeOK'
  BY <1>4 DEF StartFunction
<1>5. ASSUME NEW r \in Requests, HandOver(r) PROVE TypeOK'
  <2>1. ForgetAhead(r) \in [Requests -> SUBSET Requests]
    BY DEF ForgetAhead
  <2>2. ahead' \in [Requests -> SUBSET Requests]
    BY <1>5, <2>1 DEF HandOver
  <2>3. waitingQueue' \in Seq(Requests) /\ pc' \in [Requests -> {"idle", "waiting", "granted", "running", "rejected"}]
    BY <1>5 DEF HandOver
  <2> QED
    BY <1>5, <2>2, <2>3 DEF HandOver
<1>6. ASSUME NEW r \in Requests, FreeSlot(r) PROVE TypeOK'
  BY <1>6 DEF FreeSlot, ForgetAhead, SignalDrained
<1>7. ASSUME NEW d \in Drainers, Drain(d) PROVE TypeOK'
  BY <1>7 DEF Drain
<1>8. ASSUME NEW d \in Drainers, DrainTimeout(d) PROVE TypeOK'
  BY <1>8 DEF DrainTimeout
<1>9. CASE Clear
  BY <1>9, HoldersFinite DEF Clear
<1>10. CASE UNCHANGED vars
  BY <1>10 DEF vars
<1> QED
  BY <1>1, <1>2, <1>3, <1>4, <1>5, <1>6, <1>7, <1>8, <1>9, <1>10 DEF Next

LEMMA AccountingStep == PoolInv /\ [Next]_vars => SlotAccounting' /\ DrainInv'
<1> SUFFICES ASSUME PoolInv, [Next]_vars PROVE SlotAccounting' /\ DrainInv'
  OBVIOUS
<1> USE PoolAssumption DEF PoolInv, HasSlot, Push, SlotsAfterHandOver, NobodyWaits, LastSlotFreed, MustReject
<1>1. /\ activeConnections \in Int /\ forgotten \in Nat
      /\ IsFiniteSet(Holders) /\ Cardinality(Holders) \in Nat
      /\ activeConnections + forgotten = Cardinality(Holders)
      /\ activeConnections <= MaxConcurrent
  BY HoldersFinite DEF TypeOK, SlotAccounting
<1>2. ASSUME NEW r \in Requests, AcquireSlot(r) PROVE SlotAccounting' /\ DrainInv'
  <2>1. Cardinality(Holders') = Cardinality(Holders) + 1
    BY <1>1, <1>2, AcquireSlotHolders, FS_AddElement
  <2>2. SlotAccounting'
    BY <1>1, <1>2, <2>1 DEF AcquireSlot, SlotAccounting
  <2>3. DrainInv'
    BY <1>2 DEF AcquireSlot, DrainInv
  <2> QED
    BY <2>2, <2>3
<1>3. ASSUME NEW r \in Requests, HandOver(r) PROVE SlotAccounting' /\ DrainInv'
  <2>1. Cardinality(Holders \ {r}) = Cardinality(Holders) - 1 /\ IsFiniteSet(Holders \ {r})
    BY <1>1, <1>3, HandOverHolders, FS_RemoveElement
  <2> DEFINE next == Head(waitingQueue)
  <2>2. Cardinality(Holders') = Cardinality(Holders)
    <3>1. next \notin Holders \ {r} /\ Holders' = (Holders \ {r}) \cup {next}
      BY <1>3, HandOverHolders
    <3> HIDE DEF next
    <3>2. Cardinality((Holders \ {r}) \cup {next}) = Cardinality(Holders \ {r}) + 1
      BY <2>1, <3>1, FS_AddElement
    <3> QED
      BY <1>1, <2>1, <3>1, <3>2
  <2>3. SlotAccounting'
    BY <1>1, <1>3, <2>2 DEF HandOver, SlotAccounting
  <2>4. ~draining
    BY <1>3 DEF HandOver, QueueInv
  <2>5. DrainInv'
    BY <1>3, <2>4 DEF HandOver, DrainInv
  <2> QED
    BY <2>3, <2>5
<1>4. ASSUME NEW r \in Requests, FreeSlot(r) PROVE SlotAccounting' /\ DrainInv'
  <2>1. Cardinality(Holders') = Cardinality(Holders) - 1 /\ IsFiniteSet(Holders')
    BY <1>1, <1>4, FreeSlotHolders, FS_RemoveElement
  <2>2. SlotAccounting'
    BY <1>1, <1>4, <2>1 DEF FreeSlot, SlotAccounting
  <2>3. ASSUME NEW d \in Drainers, drainPc'[d] = "drained"
        PROVE  draining' /\ (forgotten' = 0 => Holders' = {})
    <3>1. CASE drainPc[d] = "drained"
      BY <1>4, <3>1, FreeSlotHolders DEF FreeSlot, DrainInv
    <3>2. CASE drainPc[d] # "drained"
      <4>1. activeConnections' = 0 /\ draining
        BY <1>4, <2>3, <3>2 DEF FreeSlot, SignalDrained
      <4>2. forgotten = 0 => Cardinality(Holders') = 0
        BY <1>1, <1>4, <2>1, <4>1 DEF FreeSlot
      <4> QED
        BY <1>4, <2>1, <4>1, <4>2, FS_EmptySet DEF FreeSlot
    <3> QED
      BY <3>1, <3>2
  <2> QED
    BY <2>2, <2>3 DEF DrainInv
<1>5. ASSUME NEW d \in Drainers, Drain(d) PROVE SlotAccounting' /\ DrainInv'
  <2>1. Holders' = Holders
    BY <1>5, OtherHolders
  <2>2. SlotAccounting'
    BY <1>1, <1>5, <2>1 DEF Drain, SlotAccounting
  <2>3. activeConnections <= 0 /\ forgotten = 0 => Holders = {}
    BY <1>1, FS_EmptySet
  <2>4. DrainInv'
    BY <1>1, <1>5, <2>1, <2>3 DEF Drain, DrainInv, TypeOK
  <2> QED
    BY <2>2, <2>4
<1>6. CASE Clear
  <2>1. Holders' = Holders
    BY <1>6, OtherHolders
  <2>2. SlotAccounting'
    BY <1>1, <1>6, <2>1 DEF Clear, SlotAccounting
  <2>3. forgotten' = 0 => Holders = {}
    BY <1>1, <1>6, FS_EmptySet DEF Clear
  <2> QED
    BY <1>6, <2>1, <2>2, <2>3 DEF Clear, DrainInv
<1>7. CASE \/ \E r \in Requests : RejectWhileDraining(r) \/ AcquireWait(r) \/ StartFunction(r)
           \/ \E d \in Drainers : DrainTimeout(d)
           \/ UNCHANGED vars
  <2>1. Holders' = Holders
    BY <1>7, OtherHolders
  <2>2. UNCHANGED <<activeConnections, forgotten, draining>>
    BY <1>7 DEF RejectWhileDraining, AcquireWait, StartFunction, DrainTimeout, vars
  <2>3. \A d \in Drainers : drainPc'[d] = "drained" => drainPc[d] = "drained"
    BY <1>7 DEF RejectWhileDraining, AcquireWait, StartFunction, DrainTimeout, vars, TypeOK
  <2> QED
    BY <2>1, <2>2, <2>3 DEF SlotAccounting, DrainInv
<1> QED
  BY <1>2, <1>3, <1>4, <1>5, <1>6, <1>7 DEF Next

LEMMA QueueStep == PoolInv /\ [Next]_vars => QueueInv' /\ QueueOrder'
<1> SUFFICES ASSUME PoolInv, [Next]_vars PROVE QueueInv' /\ QueueOrder'
  OBVIOUS
<1> USE PoolAssumption DEF PoolInv, HasSlot, Push, SlotsAfterHandOver, NobodyWaits, LastSlotFreed, MustReject
<1>1. waitingQueue \in Seq(Requests) /\ activeConnections \in Int /\ draining \in BOOLEAN
  BY DEF TypeOK
<1>2. \A i \in 1..Len(waitingQueue) : waitingQueue[i] \in Requests
  BY <1>1
<1>3. ASSUME NEW r \in Requests, AcquireSlot(r) PROVE QueueInv' /\ QueueOrder'
  <2>1. waitingQueue = <<>>
    BY <1>3 DEF AcquireSlot, QueueInv
  <2> QED
    BY <1>3, <2>1 DEF AcquireSlot, QueueInv, QueueOrder
<1>4. ASSUME NEW r \in Requests, AcquireWait(r) PROVE QueueInv' /\ QueueOrder'
  <2> DEFINE n == Len(waitingQueue)
  <2>1. /\ Len(waitingQueue') = n + 1 /\ n \in Nat
        /\ waitingQueue'[n + 1] = r
        /\ \A i \in 1..n : waitingQueue'[i] = waitingQueue[i]
    BY <1>1, <1>4 DEF AcquireWait
  <2>2. \A i \in 1..n : waitingQueue[i] # r
    BY <1>4 DEF AcquireWait, QueueInv
  <2>3. Holders' = Holders
    BY <1>4, OtherHolders
  <2>4. activeConnections' = MaxConcurrent /\ ~draining'
    BY <1>1, <1>4 DEF AcquireWait, SlotAccounting
  <2>5. QueueInv'
    BY <1>2, <1>4, <2>1, <2>2, <2>4 DEF AcquireWait, QueueInv, TypeOK
  <2>6. \A i \in 1..n : ahead'[waitingQueue[i]] = ahead[waitingQueue[i]]
    BY <1>2, <1>4, <2>2 DEF AcquireWait, TypeOK
  <2>7. ahead'[r] = Holders \cup Queued
    BY <1>4 DEF AcquireWait, TypeOK
  <2>8. QueueOrder'
    <3> SUFFICES ASSUME NEW i \in 1..(n + 1)
                 PROVE  /\ Holders' \subseteq ahead'[waitingQueue'[i]]
                        /\ \A j \in 1..(i - 1) : waitingQueue'[j] \in ahead'[waitingQueue'[i]]
      BY <2>1 DEF QueueOrder
    <3>1. CASE i = n + 1
      BY <2>1, <2>3, <2>7, <3>1 DEF Queued
    <3>2. CASE i \in 1..n
      BY <2>1, <2>3, <2>6, <3>2 DEF QueueOrder
    <3> QED
      BY <2>1, <3>1, <3>2
  <2> QED
    BY <2>5, <2>8
<1>5. ASSUME NEW r \in Requests, HandOver(r) PROVE QueueInv' /\ QueueOrder'
  <2> DEFINE n == Len(waitingQueue)
             next == Head(waitingQueue)
  <2>1. /\ Len(waitingQueue') = n - 1 /\ n \in Nat \ {0}
        /\ next = waitingQueue[1]
        /\ \A i \in 1..(n - 1) : waitingQueue'[i] = waitingQueue[i + 1]
    BY <1>1, <1>5 DEF HandOver
  <2>2. pc[r] = "running" /\ next \in Requests
    BY <1>2, <1>5, <2>1 DEF HandOver
  <2>3. \A i \in 1..(n - 1) : /\ waitingQueue'[i] \in Requests
                             /\ waitingQueue'[i] # next
                             /\ waitingQueue'[i] # r
                             /\ pc[waitingQueue'[i]] = "waiting"
    BY <1>2, <2>1, <2>2 DEF QueueInv
  <2>4. \A i \in 1..(n - 1) : pc'[waitingQueue'[i]] = "waiting"
    BY <1>5, <2>2, <2>3 DEF HandOver, TypeOK
  <2>5. \A i, j \in 1..(n - 1) : waitingQueue'[i] = waitingQueue'[j] => i = j
    BY <2>1 DEF QueueInv
  <2>6. QueueInv'
    BY <1>5, <2>1, <2>4, <2>5 DEF HandOver, QueueInv
  <2>7. \A i \in 1..(n - 1) : ahead'[waitingQueue'[i]] = ahead[waitingQueue'[i]] \ {r}
    BY <1>5, <2>2, <2>3 DEF HandOver, ForgetAhead, TypeOK
  <2>8. /\ Holders' = (Holders \ {r}) \cup {next}
        /\ next # r
    BY <1>5, <2>2, HandOverHolders
  <2>9. QueueOrder'
    <3> SUFFICES ASSUME NEW i \in 1..(n - 1)
                 PROVE  /\ Holders' \subseteq ahead'[waitingQueue'[i]]
                        /\ \A j \in 1..(i - 1) : waitingQueue'[j] \in ahead'[waitingQueue'[i]]
      BY <2>1 DEF QueueOrder
    <3>1. /\ Holders \subseteq ahead[waitingQueue[i + 1]]
          /\ \A j \in 1..i : waitingQueue[j] \in ahead[waitingQueue[i + 1]]
      BY <2>1 DEF QueueOrder
    <3>2. ahead'[waitingQueue'[i]] = ahead[waitingQueue[i + 1]] \ {r}
      BY <2>1, <2>7
    <3>3. next \in ahead[waitingQueue[i + 1]]
      BY <2>1, <3>1
    <3>4. Holders' \subseteq ahead'[waitingQueue'[i]]
      BY <2>8, <3>1, <3>2, <3>3
    <3>5. ASSUME NEW j \in 1..(i - 1)
          PROVE  waitingQueue'[j] \in ahead'[waitingQueue'[i]]
      <4>1. j \in 1..(n - 1) /\ j + 1 \in 1..i
        BY <2>1
      <4>2. waitingQueue'[j] = waitingQueue[j + 1] /\ waitingQueue'[j] # r
        BY <2>1, <2>3, <4>1
      <4> QED
        BY <3>1, <3>2, <4>1, <4>2
    <3> QED
      BY <3>4, <3>5
  <2> QED
    BY <2>6, <2>9
<1>6. ASSUME NEW r \in Requests, FreeSlot(r) PROVE QueueInv' /\ QueueOrder'
  BY <1>6 DEF FreeSlot, QueueInv, QueueOrder
<1>7. CASE Clear \/ \E d \in Drainers : Drain(d)
  BY <1>7 DEF Clear, Drain, QueueInv, QueueOrder
<1>8. CASE \/ \E r \in Requests : RejectWhileDraining(r) \/ StartFunction(r)
           \/ \E d \in Drainers : DrainTimeout(d)
           \/ UNCHANGED vars
  <2>1. Holders' = Holders
    BY <1>8, OtherHolders
  <2>2. UNCHANGED <<activeConnections, draining, waitingQueue, ahead>>
    BY <1>8 DEF RejectWhileDraining, StartFunction, DrainTimeout, vars
  <2>3. \A i \in 1..Len(waitingQueue) : pc'[waitingQueue[i]] = "waiting"
    BY <1>2, <1>8 DEF RejectWhileDraining, StartFunction, DrainTimeout, vars, TypeOK, QueueInv
  <2> QED
    BY <2>1, <2>2, <2>3 DEF QueueInv, QueueOrder
<1> QED
  BY <1>3, <1>4, <1>5, <1>6, <1>7, <1>8 DEF Next

-------------------------------------------------------------------------------
(* The theorems *)

\* Every reachable state satisfies the inductive invariant.
THEOREM Invariance == Spec => []PoolInv
<1>1. Init => PoolInv
  BY InitPoolInv
<1>2. PoolInv /\ [Next]_vars => PoolInv'
  BY TypeStep, AccountingStep, QueueStep DEF PoolInv
<1> QED
  BY <1>1, <1>2, PTL DEF Spec

\* The variables keep their types (the fields of the class, the callers' positions).
THEOREM TypeCorrect == Spec => []TypeOK
<1>1. PoolInv => TypeOK
  BY DEF PoolInv
<1> QED
  BY <1>1, Invariance, PTL

\* acquire() and release() never let more than MaxConcurrent executions in.
THEOREM Bounded == Spec => []BoundedConcurrency
<1>1. PoolInv => BoundedConcurrency
  BY HoldersFinite DEF PoolInv, TypeOK, SlotAccounting, BoundedConcurrency
<1> QED
  BY <1>1, Invariance, PTL

\* release() leaves no slot free while acquire() callers wait for one.
THEOREM WorkConserving == Spec => []NoIdleSlotWhileWaiting
<1>1. PoolInv => NoIdleSlotWhileWaiting
  BY HoldersFinite, PoolAssumption
     DEF PoolInv, TypeOK, SlotAccounting, QueueInv, NoIdleSlotWhileWaiting
<1> QED
  BY <1>1, Invariance, PTL

\* The queue is fair: nobody gets a slot before a caller that waited longer.
THEOREM Fifo == Spec => []NoOvertaking
<1>1. PoolInv => NoOvertaking
  BY DEF PoolInv, QueueOrder, NoOvertaking, Queued
<1> QED
  BY <1>1, Invariance, PTL

\* When drain() reports an empty pool, the pool is empty and stays empty.
THEOREM DrainIsSound == Spec => []DrainedIsQuiet
<1>1. PoolInv => DrainedIsQuiet
  BY DEF PoolInv, DrainInv, DrainedIsQuiet
<1> QED
  BY <1>1, Invariance, PTL

\* From the moment drain() is called no execution starts: acquire() rejects, and the
\* queue release() would serve is empty.
THEOREM DrainCloses == Spec => DrainingOnlyShrinks
<1>1. PoolInv /\ [Next]_vars => [draining => Holders' \subseteq Holders]_vars
  <2> SUFFICES ASSUME PoolInv, [Next]_vars, draining PROVE Holders' \subseteq Holders
    OBVIOUS
  <2> USE DEF PoolInv, MustReject
  <2>1. ASSUME NEW r \in Requests, AcquireSlot(r) PROVE Holders' \subseteq Holders
    BY <2>1 DEF AcquireSlot
  <2>2. ASSUME NEW r \in Requests, HandOver(r) PROVE Holders' \subseteq Holders
    BY <2>2 DEF HandOver, QueueInv
  <2>3. ASSUME NEW r \in Requests, FreeSlot(r) PROVE Holders' \subseteq Holders
    BY <2>3, FreeSlotHolders
  <2>4. CASE \/ \E r \in Requests : RejectWhileDraining(r) \/ AcquireWait(r) \/ StartFunction(r)
             \/ \E d \in Drainers : Drain(d) \/ DrainTimeout(d)
             \/ Clear
             \/ UNCHANGED vars
    BY <2>4, OtherHolders
  <2> QED
    BY <2>1, <2>2, <2>3, <2>4 DEF Next
<1> QED
  BY <1>1, Invariance, PTL DEF Spec, DrainingOnlyShrinks

-------------------------------------------------------------------------------
(* Refinement: seen from outside the pool is the abstract limiter *)

\* The instance counts as this module does.
LEMMA SameCardinality == AC!Cardinality(Holders) = Cardinality(Holders)
  BY DEF AC!Cardinality, Cardinality

LEMMA RefinesInit == Init => AC!ACInit
  BY DEF Init, AC!ACInit, Holders

LEMMA RefinesStep == PoolInv /\ [Next]_vars => [AC!ACNext]_(AC!acVars)
<1> SUFFICES ASSUME PoolInv, [Next]_vars PROVE AC!ACNext \/ UNCHANGED AC!acVars
  OBVIOUS
<1> USE DEF PoolInv, HasSlot, MustReject
<1>1. ASSUME NEW r \in Requests, AcquireSlot(r) PROVE AC!ACNext
  <2>1. Cardinality(Holders) < MaxConcurrent + forgotten
    BY <1>1, HoldersFinite, PoolAssumption DEF AcquireSlot, SlotAccounting, TypeOK
  <2>2. AC!Enter(r)
    BY <1>1, <2>1, AcquireSlotHolders, SameCardinality DEF AcquireSlot, AC!Enter
  <2> QED
    BY <2>2 DEF AC!ACNext
<1>2. ASSUME NEW r \in Requests, HandOver(r) PROVE AC!ACNext
  <2> DEFINE next == Head(waitingQueue)
  <2>1. r \in Holders /\ next \in Requests /\ next \notin Holders
        /\ Holders' = (Holders \ {r}) \cup {next}
    BY <1>2, HandOverHolders
  <2>2. ~draining /\ UNCHANGED <<draining, forgotten>>
    BY <1>2 DEF HandOver, QueueInv
  <2> HIDE DEF next
  <2>3. AC!PassOn(r, next)
    BY <2>1, <2>2 DEF AC!PassOn
  <2> QED
    BY <2>1, <2>3 DEF AC!ACNext
<1>3. ASSUME NEW r \in Requests, FreeSlot(r) PROVE AC!ACNext
  <2>1. AC!Leave(r)
    BY <1>3, FreeSlotHolders DEF FreeSlot, AC!Leave
  <2> QED
    BY <2>1 DEF AC!ACNext
<1>4. ASSUME NEW d \in Drainers, Drain(d) PROVE AC!ACNext
  BY <1>4, OtherHolders DEF Drain, AC!ACNext, AC!Close
<1>5. CASE Clear
  BY <1>5, OtherHolders, SameCardinality DEF Clear, AC!ACNext, AC!Reset
<1>6. CASE \/ \E r \in Requests : RejectWhileDraining(r) \/ AcquireWait(r) \/ StartFunction(r)
           \/ \E d \in Drainers : DrainTimeout(d)
           \/ UNCHANGED vars
  <2>1. Holders' = Holders
    BY <1>6, OtherHolders
  <2>2. UNCHANGED <<draining, forgotten>>
    BY <1>6 DEF RejectWhileDraining, AcquireWait, StartFunction, DrainTimeout, vars
  <2> QED
    BY <2>1, <2>2 DEF AC!acVars
<1> QED
  BY <1>1, <1>2, <1>3, <1>4, <1>5, <1>6 DEF Next

\* The pool with its counter, queue and drain signal implements AdmissionControl.
THEOREM Refinement == Spec => ImplementsAdmissionControl
<1>1. Init => AC!ACInit
  BY RefinesInit
<1>2. PoolInv /\ [Next]_vars => [AC!ACNext]_(AC!acVars)
  BY RefinesStep
<1> QED
  BY <1>1, <1>2, Invariance, PTL DEF Spec, ImplementsAdmissionControl, AC!ACSpec
===============================================================================
