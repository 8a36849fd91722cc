---------------------------- MODULE LockFileProofs ----------------------------
(***************************************************************************)
(* Mutual exclusion of the lock file for any set of processes and any      *)
(* number of retries.  ExclusiveUnlessRaced is nearly inductive: what it   *)
(* lacks is that a process about to remove a lock as that of a dead one is *)
(* right, although some time went by since it judged, unless it may not    *)
(* send the owner a signal.                                                *)
(***************************************************************************)
EXTENDS LockFile, TLAPS

Judged(p) == seen[p] # NoFile /\ seen[p].written

\* A process that judged a lock younger than an hour to be left behind is not mistaken, if it
\* may send its owner a signal: the owner is dead, and stays dead.
DeadAreJudged ==
    \A p \in Lockers : At(p, "remove") /\ Judged(p) /\ ~seen[p].old /\ MaySignal(p, seen[p].by)
                         => ~Running(seen[p].by)

LockInv ==
    /\ LockTypeOK
    /\ DeadAreJudged
    /\ ExclusiveUnlessRaced

\* The initial lock file is that of a process that died long ago.
LEMMA LockInitInv == LockInit => LockInv
  BY LockAssumption
  DEF LockInit, LockInv, LockTypeOK, LockFiles, DeadAreJudged, At, ExclusiveUnlessRaced, Owners

\* Every step keeps the types.
LEMMA LockTypes == LockTypeOK /\ [LockNext]_lockVars => LockTypeOK'
<1> SUFFICES ASSUME LockTypeOK, [LockNext]_lockVars PROVE LockTypeOK'
  OBVIOUS
<1> USE LockAssumption DEF LockTypeOK, LockFiles, At, Jump, Nothing
<1>1. ASSUME NEW p \in Lockers, BeginAcquire(p) PROVE LockTypeOK'
  BY <1>1 DEF BeginAcquire
<1>2. ASSUME NEW p \in Lockers, Create(p) PROVE LockTypeOK'
  BY <1>2 DEF Create, Counted
<1>3. ASSUME NEW p \in Lockers, CreateExists(p) PROVE LockTypeOK'
  BY <1>3 DEF CreateExists, Counted
<1>4. ASSUME NEW p \in Lockers, OutOfRetries(p) PROVE LockTypeOK'
  BY <1>4 DEF OutOfRetries
<1>5. ASSUME NEW p \in Lockers, Write(p) PROVE LockTypeOK'
  BY <1>5 DEF Write, IsOwn
<1>6. ASSUME NEW p \in Lockers, WriteFails(p) PROVE LockTypeOK'
  BY <1>6 DEF WriteFails
<1>7. ASSUME NEW p \in Lockers, Read(p) PROVE LockTypeOK'
  BY <1>7 DEF Read
<1>8. ASSUME NEW p \in Lockers, ReadFails(p) PROVE LockTypeOK'
  BY <1>8 DEF ReadFails
<1>9. ASSUME NEW p \in Lockers, Judge(p) PROVE LockTypeOK'
  BY <1>9 DEF Judge
<1>10. ASSUME NEW p \in Lockers, RemoveLock(p) PROVE LockTypeOK'
  BY <1>10 DEF RemoveLock, Unlink, ExcusesOf
<1>11. ASSUME NEW p \in Lockers, Access(p) PROVE LockTypeOK'
  BY <1>11 DEF Access
<1>12. ASSUME NEW p \in Lockers, Release(p) PROVE LockTypeOK'
  BY <1>12 DEF Release, Unlink
<1>13. ASSUME NEW p \in Lockers, Die(p) PROVE LockTypeOK'
  BY <1>13 DEF Die
<1>14. CASE AnHourPasses
  BY <1>14 DEF AnHourPasses
<1>15. CASE UNCHANGED lockVars
  BY <1>15 DEF lockVars
<1> QED
  BY <1>1, <1>2, <1>3, <1>4, <1>5, <1>6, <1>7, <1>8, <1>9, <1>10, <1>11, <1>12, <1>13, <1>14,
     <1>15 DEF LockNext

\* No step brings a dead process back to life.
LEMMA DeadStayDead ==
    ASSUME LockTypeOK, [LockNext]_lockVars, NEW q, ~Running(q) PROVE ~Running(q)'
  BY DEF LockTypeOK, LockNext, lockVars, Running, At, Jump, BeginAcquire, Create, CreateExists,
         OutOfRetries, Write, WriteFails, Read, ReadFails, Judge, RemoveLock, Access, Release,
         Die, AnHourPasses

\* A process comes to remove a lock it judged only from the judgement itself.
LEMMA JudgedRight == LockInv /\ [LockNext]_lockVars => DeadAreJudged'
<1> SUFFICES ASSUME LockInv, [LockNext]_lockVars,
                    NEW q \in Lockers, At(q, "remove")', Judged(q)', (~seen[q].old)', MaySignal(q, seen[q].by)'
             PROVE  ~Running(seen[q].by)'
  BY DEF DeadAreJudged
<1> USE DEF LockInv, LockTypeOK, At, Judged
<1>1. CASE At(q, "remove") /\ seen'[q] = seen[q]
  <2>1. ~Running(seen[q].by)
    BY <1>1 DEF DeadAreJudged, MaySignal
  <2> QED
    BY <1>1, <2>1, DeadStayDead DEF Running
<1>2. CASE Judge(q)
  <2>1. seen'[q] = seen[q] /\ ~Running(seen[q].by)
    BY <1>2 DEF Judge, Jump, ProcessExists, MaySignal
  <2> QED
    BY <2>1, DeadStayDead DEF Running
<1>3. ~Read(q) /\ ~ReadFails(q)
  BY LockAssumption DEF Read, ReadFails, Jump, LockFiles
<1> QED
  BY <1>1, <1>2, <1>3
  DEF LockNext, lockVars, Jump, Nothing, BeginAcquire, Create, CreateExists, OutOfRetries,
      Write, WriteFails, Read, ReadFails, Judge, RemoveLock, Access, Release, Die, AnHourPasses

\* Whoever removes the lock of a process that has it leaves an excuse.
LEMMA RemovalIsExcused ==
    ASSUME LockInv, NEW p \in Lockers, RemoveLock(p), lockFile # NoFile, lockFile.by \in Owners
    PROVE  excuses' # {}
<1>1. excuses' = excuses \cup ExcusesOf(p)
  BY DEF RemoveLock
<1>2. Running(lockFile.by)
  BY DEF Owners, Running
<1>3. At(p, "remove")
  BY DEF RemoveLock
<1>4. ExcusesOf(p) # {}
  <2>1. CASE seen[p] = NoFile \/ ~seen[p].written \/ Replaced(p) \/ seen[p].old
    BY <2>1 DEF ExcusesOf
  <2>2. CASE Judged(p) /\ ~Replaced(p) /\ ~seen[p].old
    <3>1. seen[p].by = lockFile.by
      BY <2>2 DEF Replaced
    <3>2. ~MaySignal(p, lockFile.by)
      BY <1>2, <1>3, <2>2, <3>1 DEF LockInv, DeadAreJudged
    <3> QED
      BY <3>2 DEF ExcusesOf
  <2> QED
    BY <2>1, <2>2 DEF Judged
<1> QED
  BY <1>1, <1>4

\* Exclusion is kept: a lock is created only when there is none, and taken away from a
\* process that has it only with an excuse.
LEMMA ExclusionKept == LockInv /\ [LockNext]_lockVars => ExclusiveUnlessRaced'
<1> SUFFICES ASSUME LockInv, [LockNext]_lockVars, excuses' = {}, NEW q \in Owners'
             PROVE  IsOwn(q)'
  BY DEF ExclusiveUnlessRaced
<1> USE DEF LockInv, LockTypeOK, At, Jump
<1>1. excuses = {}
  BY DEF LockNext, lockVars, BeginAcquire, Create, CreateExists, OutOfRetries, Write,
         WriteFails, Read, ReadFails, Judge, RemoveLock, Access, Release, Die, AnHourPasses
<1>2. \A r \in Owners : IsOwn(r)
  BY <1>1 DEF ExclusiveUnlessRaced
<1>3. ASSUME NEW p \in Lockers, Create(p) PROVE IsOwn(q)'
  <2>1. lockFile' = [by |-> p, written |-> FALSE, old |-> FALSE] /\ lockFile' # NoFile
    <3>1. lockFile' = [by |-> p, written |-> FALSE, old |-> FALSE]
      BY <1>3 DEF Create
    <3>2. lockFile' \in LockFiles
      BY <3>1 DEF LockFiles
    <3> QED
      BY <3>1, <3>2, LockAssumption
  <2>2. q = p
    BY <1>2, <1>3 DEF Create, Owners, IsOwn
  <2> QED
    BY <2>1, <2>2 DEF IsOwn
<1>4. ASSUME NEW p \in Lockers, Write(p) PROVE IsOwn(q)'
  BY <1>2, <1>4, LockAssumption DEF Write, Owners, IsOwn, LockFiles
<1>5. ASSUME NEW p \in Lockers, RemoveLock(p) PROVE IsOwn(q)'
  <2>1. q \in Owners
    BY <1>5 DEF RemoveLock, Owners
  <2> QED
    BY <1>2, <1>5, <2>1, RemovalIsExcused DEF IsOwn
<1>6. ASSUME NEW p \in Lockers, Release(p) PROVE IsOwn(q)'
  <2>1. p \in Owners /\ q \in Owners /\ q # p
    BY <1>6 DEF Release, Owners
  <2> QED
    BY <1>2, <2>1 DEF IsOwn
<1>7. CASE AnHourPasses
  BY <1>2, <1>7, LockAssumption DEF AnHourPasses, Owners, IsOwn, LockFiles
<1>8. CASE \/ \E p \in Lockers :
                 \/ BeginAcquire(p) \/ CreateExists(p) \/ OutOfRetries(p) \/ WriteFails(p)
                 \/ Read(p) \/ ReadFails(p) \/ Judge(p) \/ Access(p) \/ Die(p)
           \/ UNCHANGED lockVars
  <2>1. lockFile' = lockFile /\ q \in Owners
    BY <1>8 DEF lockVars, BeginAcquire, CreateExists, OutOfRetries, WriteFails, Read, ReadFails,
                Judge, Access, Die, Owners
  <2> QED
    BY <1>2, <2>1 DEF IsOwn
<1> QED
  BY <1>3, <1>4, <1>5, <1>6, <1>7, <1>8 DEF LockNext

\* The inductive invariant of the lock file.
THEOREM LockInvariance == LockSpec => []LockInv
<1>1. LockInv /\ [LockNext]_lockVars => LockInv'
  BY LockTypes, JudgedRight, ExclusionKept DEF LockInv
<1> QED
  BY LockInitInv, <1>1, PTL DEF LockSpec

\* The lock of acquire() and release() excludes, for any number of processes that may die at
\* any time, as long as none of the five ways took the file of a process that has it.
THEOREM LockExcludes == LockSpec => [](ExclusiveUnlessRaced /\ \A p, q \in Owners : excuses = {} => p = q)
<1>1. LockInv => ExclusiveUnlessRaced /\ \A p, q \in Owners : excuses = {} => p = q
  BY DEF LockInv, ExclusiveUnlessRaced, IsOwn
<1> QED
  BY LockInvariance, <1>1, PTL
===============================================================================
