------------------------------- MODULE LockFile -------------------------------
(***************************************************************************)
(* The lock file of the setup wizard (src/services/lock-file.ts), taken    *)
(* and left by processes that may die at any time.                         *)
(*                                                                         *)
(* Each await of acquire() is a step: the file is created empty, then      *)
(* written; it is read, judged, and perhaps removed by whoever finds it.   *)
(* A process writes to the file it created, whether or not that is still   *)
(* the one under the lock's name.                                          *)
(*                                                                         *)
(* An operator written right above another one, with a name that says what *)
(* is wrong with it, is a faulty variant of it: the properties are known   *)
(* to notice it in its place.  No specification uses it.                   *)
(***************************************************************************)
EXTENDS Integers, FiniteSets

CONSTANTS Lockers,       \* processes that want the lock
          Guests,        \* those of them that may send a signal to nobody but themselves
          Departed,      \* the process, long dead, whose file is there in the beginning
          NoFile,
          MaxRetries     \* MAX_RETRIES

LockFiles == [by : Lockers \cup {Departed}, written : BOOLEAN, old : BOOLEAN]

ASSUME LockAssumption ==
    /\ Departed \notin Lockers /\ Guests \subseteq Lockers
    /\ MaxRetries \in Nat \ {0}
    /\ NoFile \notin LockFiles

VARIABLES
    lockFile,    \* NoFile, or its creator, whether it was written, whether it is an hour old
    locker,      \* where each process is in acquire() and release()
    attempts,
    seen,        \* what each process read from the file last
    excuses      \* history: why a lock was taken away from a process that has it

lockVars == <<lockFile, locker, attempts, seen, excuses>>

LockTypeOK ==
    /\ lockFile \in LockFiles \cup {NoFile}
    /\ locker \in [Lockers -> {"idle", "create", "write", "read", "judge", "remove", "access",
                               "holding", "failed", "dead"}]
    /\ attempts \in [Lockers -> 0..MaxRetries]
    /\ seen \in [Lockers -> LockFiles \cup {NoFile}]
    /\ excuses \subseteq {"unwritten", "replaced", "old", "unreadable", "foreign"}

LockInit ==
    /\ lockFile = [by |-> Departed, written |-> TRUE, old |-> FALSE]
    /\ locker = [p \in Lockers |-> "idle"]
    /\ attempts = [p \in Lockers |-> 0]
    /\ seen = [p \in Lockers |-> NoFile]
    /\ excuses = {}

\* What was read is a local variable of the block that reads it.
Nothing(p) == [seen EXCEPT ![p] = NoFile]

At(p, where) == locker[p] = where
Jump(p, where) == locker' = [locker EXCEPT ![p] = where]
Running(p) == p \in Lockers /\ locker[p] # "dead"

Owners == {p \in Lockers : locker[p] \in {"write", "holding"}}

\* kill(q, 0) is refused to a user for the processes of others, those of a wizard under sudo
\* for example.
MaySignal(p, q) == p \notin Guests \/ p = q

\* What processExists() may say to p of q: a refusal is taken for the absence of q, and another
\* process may have been given the number of a dead one.
ProcessExistsNever(p, q) == {FALSE}
ProcessExists(p, q) == IF Running(q) THEN {MaySignal(p, q)} ELSE BOOLEAN

-------------------------------------------------------------------------------
BeginAcquire(p) ==
    /\ At(p, "idle")
    /\ Jump(p, "create")
    /\ UNCHANGED <<lockFile, attempts, seen, excuses>>

Counted(p) ==
    /\ attempts[p] < MaxRetries
    /\ attempts' = [attempts EXCEPT ![p] = @ + 1]

\* open('wx')
Create(p) ==
    /\ At(p, "create") /\ Counted(p) /\ lockFile = NoFile
    /\ lockFile' = [by |-> p, written |-> FALSE, old |-> FALSE]
    /\ Jump(p, "write")
    /\ UNCHANGED <<seen, excuses>>

CreateExists(p) ==
    /\ At(p, "create") /\ Counted(p) /\ lockFile # NoFile
    /\ Jump(p, "read")
    /\ UNCHANGED <<lockFile, seen, excuses>>

OutOfRetries(p) ==
    /\ At(p, "create") /\ attempts[p] = MaxRetries
    /\ Jump(p, "failed")
    /\ UNCHANGED <<lockFile, attempts, seen, excuses>>

IsOwn(p) == lockFile # NoFile /\ lockFile.by = p

Write(p) ==
    /\ At(p, "write")
    /\ lockFile' = IF IsOwn(p) THEN [lockFile EXCEPT !.written = TRUE] ELSE lockFile
    /\ Jump(p, "holding")
    /\ UNCHANGED <<attempts, seen, excuses>>

\* The disk is full: the error goes to the caller, and the empty file stays.
WriteFails(p) ==
    /\ At(p, "write")
    /\ Jump(p, "failed")
    /\ UNCHANGED <<lockFile, attempts, seen, excuses>>

-------------------------------------------------------------------------------
(* The file is there *)

Read(p) ==
    /\ At(p, "read")
    /\ Jump(p, IF lockFile = NoFile THEN "create"
               ELSE IF lockFile.written THEN "judge" ELSE "remove")
    /\ seen' = [seen EXCEPT ![p] = lockFile]
    /\ UNCHANGED <<lockFile, attempts, excuses>>

\* Any other error of readFile() has the file removed, unread.
ReadFails(p) ==
    /\ At(p, "read") /\ lockFile # NoFile
    /\ Jump(p, "remove")
    /\ seen' = [seen EXCEPT ![p] = NoFile]
    /\ UNCHANGED <<lockFile, attempts, excuses>>

Judge(p) ==
    /\ At(p, "judge")
    /\ \E runs \in ProcessExists(p, seen[p].by) :
          IF ~runs \/ seen[p].old
          THEN Jump(p, "remove") /\ UNCHANGED seen
          ELSE Jump(p, "access") /\ seen' = Nothing(p)
    /\ UNCHANGED <<lockFile, attempts, excuses>>

\* The file under the lock's name is another one by now.
Replaced(p) == seen[p].by # lockFile.by \/ (seen[p].old /\ ~lockFile.old)

ExcusesOf(p) ==
    CASE seen[p] = NoFile                          -> {"unreadable"}
      [] seen[p] # NoFile /\ ~seen[p].written      -> {"unwritten"}
      [] seen[p] # NoFile /\ Replaced(p)           -> {"replaced"}
      [] seen[p] # NoFile /\ seen[p].old           -> {"old"}
      [] ~MaySignal(p, lockFile.by)                -> {"foreign"}
      [] OTHER                                     -> {}

\* release() removes whatever file is there by now; a failure is passed over.
Unlink == lockFile' \in {NoFile, lockFile}

RemoveLock(p) ==
    /\ At(p, "remove")
    /\ Unlink
    /\ excuses' = IF lockFile # NoFile /\ lockFile.by \in Owners THEN excuses \cup ExcusesOf(p)
                  ELSE excuses
    /\ Jump(p, IF seen[p] # NoFile /\ seen[p].written THEN "access" ELSE "create")
    /\ seen' = Nothing(p)
    /\ UNCHANGED attempts

\* If the file is still there, acquire() sleeps and tries again, or gives up after five
\* seconds.
Access(p) ==
    /\ At(p, "access")
    /\ \/ Jump(p, "create")
       \/ lockFile # NoFile /\ Jump(p, "failed")
    /\ UNCHANGED <<lockFile, attempts, seen, excuses>>

-------------------------------------------------------------------------------
\* withLock() releases whatever happened, but only what was acquired.
Release(p) ==
    /\ At(p, "holding")
    /\ Unlink
    /\ Jump(p, "idle")
    /\ attempts' = [attempts EXCEPT ![p] = 0]
    /\ UNCHANGED <<seen, excuses>>

Die(p) ==
    /\ Running(p)
    /\ Jump(p, "dead")
    /\ seen' = Nothing(p) /\ attempts' = [attempts EXCEPT ![p] = 0]
    /\ UNCHANGED <<lockFile, excuses>>

AnHourPasses ==
    /\ lockFile # NoFile
    /\ lockFile' = [lockFile EXCEPT !.old = TRUE]
    /\ UNCHANGED <<locker, attempts, seen, excuses>>

LockNext ==
    \/ \E p \in Lockers :
         \/ BeginAcquire(p) \/ Create(p) \/ CreateExists(p) \/ OutOfRetries(p)
         \/ Write(p) \/ WriteFails(p)
         \/ Read(p) \/ ReadFails(p) \/ Judge(p) \/ RemoveLock(p) \/ Access(p)
         \/ Release(p) \/ Die(p)
    \/ AnHourPasses

LockSpec == LockInit /\ [][LockNext]_lockVars

-------------------------------------------------------------------------------
(* Properties *)

\* At most one process has the lock, and its file is there, unless one of five things
\* happened to a process that had it: its file was found before it was written; it was
\* removed by somebody who had read the file before it; it was an hour old; it could not be
\* read; or it was found by a user who may not send the process a signal.  In particular the
\* file of a dead process is removed safely by whoever finds it.
ExclusiveUnlessRaced ==
    excuses = {} => \A p \in Owners : IsOwn(p)
===============================================================================
