-------------------------------- MODULE AuditLog --------------------------------
(***************************************************************************)
(* The audit log (src/observability/audit-logger.ts): one file a day, with *)
(* the path of today's file cached until rotate(), and cleanup() of the    *)
(* files whose names are older than the retention.  log() and rotate()     *)
(* run under one lock, and are atomic; cleanup() is not, and looks at one  *)
(* file after the other.  Days are those of UTC, as in the names of the    *)
(* files, whereas cleanup() counts back from midnight of the local zone.   *)
(* Nothing in src/ calls rotate() or cleanup(): whoever has the logger may.*)
(***************************************************************************)
EXTENDS Integers, FiniteSets

CONSTANTS RetentionDays, MaxDay    \* MaxDay bounds the calendar

ASSUME AuditAssumption == RetentionDays \in Nat /\ MaxDay \in Nat

VARIABLES
    today,
    utc,              \* the local zone is UTC; never changes
    currentLogFile,   \* the day in the cached path, NoPath without one
    logFiles,         \* the days of which each file has entries; none if it is absent
    toDelete,         \* the files cleanup() is about to unlink
    stale,            \* history: how many days late, at most, an entry found its file
    shortened         \* history: by how many days deleted entries missed their retention

auditVars == <<today, utc, currentLogFile, logFiles, toDelete, stale, shortened>>

NoPath == -1
Days == 0..MaxDay

AuditTypeOK ==
    /\ today \in Days /\ utc \in BOOLEAN /\ currentLogFile \in Days \cup {NoPath}
    /\ logFiles \in [Days -> SUBSET Days]
    /\ toDelete \subseteq Days
    /\ stale \in Nat /\ shortened \subseteq Nat

AuditInit ==
    /\ today = 0 /\ utc \in BOOLEAN /\ currentLogFile = NoPath
    /\ logFiles = [d \in Days |-> {}]
    /\ toDelete = {} /\ stale = 0 /\ shortened = {}

LogPath == IF currentLogFile = NoPath THEN today ELSE currentLogFile

\* A write that fails throws, and leaves the path cached all the same.
LogEntry ==
    /\ currentLogFile' = LogPath
    /\ \/ logFiles' = [logFiles EXCEPT ![LogPath] = @ \cup {today}]
       \/ UNCHANGED logFiles
    /\ stale' = IF today - LogPath > stale THEN today - LogPath ELSE stale
    /\ UNCHANGED <<today, utc, toDelete, shortened>>

Rotate ==
    /\ currentLogFile' = NoPath
    /\ UNCHANGED <<today, utc, logFiles, toDelete, stale, shortened>>

\* Local midnight, as a limit on days of UTC, may be a day ahead: east of UTC once the local
\* day has begun, west of it until that of UTC ends it.
Ahead == IF utc THEN 0 ELSE 1
OldFiles(ahead) == {d \in Days : d < today - RetentionDays + ahead}

BeginCleanup ==
    /\ toDelete = {}
    /\ \E ahead \in 0..Ahead : toDelete' = {d \in OldFiles(ahead) : logFiles[d] # {}}
    /\ UNCHANGED <<today, utc, currentLogFile, logFiles, stale, shortened>>

\* Entries of the day `today - RetentionDays` are the oldest that are to stay.
Missing(entries) ==
    {e - (today - RetentionDays) + 1 : e \in {f \in entries : f >= today - RetentionDays}}

\* A file that cannot be deleted is passed over.
DeleteLog(d) ==
    /\ d \in toDelete
    /\ toDelete' = toDelete \ {d}
    /\ \/ /\ logFiles' = [logFiles EXCEPT ![d] = {}]
          /\ shortened' = shortened \cup Missing(logFiles[d])
       \/ UNCHANGED <<logFiles, shortened>>
    /\ UNCHANGED <<today, utc, currentLogFile, stale>>

NextDay ==
    /\ today < MaxDay
    /\ today' = today + 1
    /\ UNCHANGED <<utc, currentLogFile, logFiles, toDelete, stale, shortened>>

AuditNext ==
    \/ LogEntry \/ Rotate \/ BeginCleanup \/ NextDay
    \/ \E d \in Days : DeleteLog(d)

-------------------------------------------------------------------------------
(* Properties *)

\* An entry loses no more of its retention than the days by which the cached path was out of
\* date when entries were written, and one more in a zone other than UTC; rotated in time,
\* in UTC, the log keeps every entry as long as it should.
EntriesAreRetained == \A days \in shortened : days <= stale + Ahead
=================================================================================
