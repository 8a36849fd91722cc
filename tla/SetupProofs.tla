------------------------------ MODULE SetupProofs ------------------------------
(***************************************************************************)
(* Proofs about the setup wizard and the daily sync beside each other, for *)
(* any number of servers, versions of their tools, and starts.             *)
(*                                                                         *)
(* The invariant ties what a process is doing to the file it writes, the   *)
(* wizard's way through the configuration to its backups, and the manifest *)
(* that a process has read to what was ever entered.                       *)
(***************************************************************************)
EXTENDS Setup, FiniteSetTheorems, TLAPS

-------------------------------------------------------------------------------
(* Types *)

Manifests == UNION {[K -> Entries] : K \in SUBSET Keys}

Jobs ==
    {Idle} \cup [step : {"ended"}, key : Keys]
           \cup [step : JobSteps, key : Keys, option : {"missing", "force"},
                 entry : Entries, read : Manifests]

Holding(data) == {Absent, Torn} \cup {Whole(d) : d \in data}

FilesInv ==
    /\ files = [f \in FileNames |-> files[f]]
    /\ files[Config] \in Holding(Configurations)
    /\ files[Manifest] \in Holding(Manifests)
    /\ \A k \in Keys : files[WrapperOf(k)] \in Holding({Code})
    /\ writing \in [Processes -> [file : FileNames \cup {NoFileName}, mixed : BOOLEAN]]
    /\ job \in [Processes -> Jobs]

WizardTypes ==
    /\ wizard \in {"off", "bootstrap", "lock"} \cup Protected
    /\ setupLock \in {"free", "held", "left"}
    /\ backups \subseteq Configurations /\ configRead \in Configurations
    /\ tasks \in Seq(Keys) /\ regenOption \in {"missing", "force"}
    /\ wizard = "generating" => tasks # <<>>

\* Nobody has the lock who is not past acquiring it.
LockInv ==
    /\ wizard \in Protected => setupLock = "held"
    /\ wizard \notin Protected => setupLock # "held"

\* The file that a process is writing is told by what it is doing.
FileOf(p) ==
    IF p = W /\ wizard = "writingConfig" THEN Config
    ELSE IF JobAt(p, "writing") THEN WrapperOf(job[p].key)
    ELSE IF JobAt(p, "entering") THEN Manifest
    ELSE NoFileName

WriterInv == \A p \in Processes : writing[p].file = FileOf(p)

\* Only the two generate, in their places.
JobsInv ==
    /\ wizard # "generating" => job[W] = Idle
    /\ sync # "regenerating" => job[S] = Idle
    /\ \A p \in Processes \ {W, S} : job[p] = Idle

\* The names of the files differ, and are none of them the absence of one.
LEMMA NamesDiffer ==
    /\ Config # Manifest /\ Config # NoFileName /\ Manifest # NoFileName
    /\ \A k \in Keys : WrapperOf(k) # Config /\ WrapperOf(k) # Manifest /\ WrapperOf(k) # NoFileName
    /\ \A k, l \in Keys : WrapperOf(k) = WrapperOf(l) => k = l
    /\ Config \in FileNames /\ Manifest \in FileNames /\ \A k \in Keys : WrapperOf(k) \in FileNames
    /\ \A f \in FileNames : f = Config \/ f = Manifest \/ \E k \in Keys : f = WrapperOf(k)
<1>1. Config # Manifest /\ Config # NoFileName /\ Manifest # NoFileName
  BY DEF Config, Manifest, NoFileName
<1>2. ASSUME NEW k \in Keys
      PROVE  WrapperOf(k) # Config /\ WrapperOf(k) # Manifest /\ WrapperOf(k) # NoFileName
  <2>1. Len(WrapperOf(k)) = 3 /\ Len(Config) = 1 /\ Len(Manifest) = 1 /\ Len(NoFileName) = 0
    BY DEF WrapperOf, Config, Manifest, NoFileName
  <2> QED  BY <2>1
<1>3. ASSUME NEW k \in Keys, NEW l \in Keys, WrapperOf(k) = WrapperOf(l) PROVE k = l
  <2>1. k.server = l.server /\ k.language = l.language
    BY <1>3 DEF WrapperOf
  <2> QED  BY <2>1 DEF Keys
<1> QED  BY <1>1, <1>2, <1>3 DEF FileNames, GeneratedFiles

\* A file is absent, damaged or whole, and only one of them.
LEMMA ContentsDiffer ==
    /\ Absent # Torn /\ Absent.status = "absent" /\ Torn.status = "torn"
    /\ \A d : /\ Whole(d) # Absent /\ Whole(d) # Torn
              /\ Whole(d).status = "whole" /\ Whole(d).data = d
<1>1. Absent.status = "absent" /\ Torn.status = "torn"
  BY DEF Absent, Torn
<1>2. \A d : Whole(d).status = "whole" /\ Whole(d).data = d
  BY DEF Whole
<1> QED  BY <1>1, <1>2

\* What a file holds that may hold such data.
LEMMA HeldIs ==
    ASSUME NEW data, NEW c \in Holding(data)
    PROVE  /\ c.status \in {"absent", "torn", "whole"}
           /\ c.status = "whole" => c.data \in data /\ c # Absent /\ c # Torn
           /\ c.status # "whole" => c = Absent \/ c = Torn
BY ContentsDiffer DEF Holding

\* Where there is no job and where there is one.
LEMMA JobsAre ==
    /\ Idle \in Jobs /\ Idle.step = "idle"
    /\ EmptyManifest \in Manifests
    /\ \A j \in Jobs : j.step \in {"idle", "ended"} \cup JobSteps
    /\ \A j \in Jobs : j.step = "ended" => j.key \in Keys
    /\ \A j \in Jobs : j.step \in JobSteps =>
         j \in [step : JobSteps, key : Keys, option : {"missing", "force"},
                entry : Entries, read : Manifests]
    /\ \A j \in Jobs : j.step = "idle" => j = Idle
<1>1. Idle \in Jobs /\ Idle.step = "idle"
  BY DEF Jobs, Idle
<1>2. EmptyManifest \in [{} -> Entries]
  BY DEF EmptyManifest
<1>3. EmptyManifest \in Manifests
  BY <1>2 DEF Manifests
<1>4. ASSUME NEW j \in Jobs
      PROVE  /\ j.step \in {"idle", "ended"} \cup JobSteps
             /\ j.step = "ended" => j.key \in Keys
             /\ j.step \in JobSteps =>
                  j \in [step : JobSteps, key : Keys,
                         option : {"missing", "force"}, entry : Entries, read : Manifests]
             /\ j.step = "idle" => j = Idle
  <2>1. CASE j = Idle
    BY <2>1 DEF Idle, JobSteps
  <2>2. CASE j \in [step : {"ended"}, key : Keys]
    BY <2>2 DEF JobSteps
  <2>3. CASE j \in [step : JobSteps, key : Keys, option : {"missing", "force"},
                    entry : Entries, read : Manifests]
    BY <2>3 DEF JobSteps
  <2> QED  BY <2>1, <2>2, <2>3 DEF Jobs
<1> QED  BY <1>1, <1>3, <1>4

-------------------------------------------------------------------------------
(* What the steps do to files and jobs *)

\* A process goes on without a file: its new job is neither a write, nor a success to enter.
JobMoves(p) ==
    /\ UNCHANGED fileVars
    /\ job[p].step \notin {"writing", "entering"}
    /\ \E j \in Jobs :
          /\ SetJob(p, j)
          /\ j.step \notin {"writing", "update", "entering"}
          /\ j.step = "enter" => j.entry = Failure

\* A write fails, and the process goes on without it or is gone.
WriteStops(p) ==
    /\ FailWrite(p)
    /\ \E j \in Jobs :
          /\ SetJob(p, j)
          /\ j.step \notin {"writing", "update", "entering"}
          /\ j.step = "enter" => j.entry = Failure

FileMoves(p) ==
    \/ BeginWrapper(p) \/ EndWrapper(p)
    \/ ReadToEnter(p) \/ OpenManifest(p) \/ WriteManifest(p)

ConfigMoves ==
    /\ UNCHANGED job
    /\ BeginWrite(W, Config) \/ EndWrite(W, configRead) \/ FailWrite(W)

\* The entries of the manifest are of the schemas of tools, or failures.
LEMMA EntriesAre ==
    /\ Failure \in Entries /\ Failure.status = "failed"
    /\ \A t \in ToolLists : Success(t) \in Entries /\ Success(t).status = "success"
    /\ \A e \in Entries : e.status = "success" \/ e = Failure
BY DEF Failure, Success, Entries

\* The catch of generateWrapper() enters a failure, or ends.
LEMMA FailsIs ==
    ASSUME job \in [Processes -> Jobs], NEW p \in Processes, job[p].step \in JobSteps, Fails(p)
    PROVE  \E j \in Jobs :
              /\ SetJob(p, j)
              /\ j.step \notin {"writing", "update", "entering"} /\ j.step \in {"enter", "ended"}
              /\ j.step = "enter" => j.entry = Failure
<1> DEFINE J == [step : JobSteps, key : Keys, option : {"missing", "force"},
                 entry : Entries, read : Manifests]
<1>1. job[p] \in J
  BY JobsAre
<1>2. CASE job[p].entry.status = "success"
  <2> DEFINE j == [job[p] EXCEPT !.step = "enter", !.entry = Failure, !.read = EmptyManifest]
  <2>1. j \in J /\ j.step = "enter" /\ j.entry = Failure
    BY <1>1, EntriesAre, JobsAre DEF JobSteps
  <2>2. SetJob(p, j)
    BY <1>2 DEF Fails
  <2>3. j \in Jobs
    BY <2>1 DEF Jobs
  <2> HIDE DEF j
  <2> QED  BY <2>1, <2>2, <2>3
<1>3. CASE job[p].entry.status # "success"
  <2> DEFINE j == [step |-> "ended", key |-> job[p].key]
  <2>1. j \in [step : {"ended"}, key : Keys] /\ j.step = "ended"
    BY <1>1
  <2>2. SetJob(p, j)
    BY <1>3 DEF Fails, JobEnds
  <2>3. j \in Jobs
    BY <2>1 DEF Jobs
  <2> HIDE DEF j
  <2> QED  BY <2>1, <2>2, <2>3
<1> QED  BY <1>2, <1>3

\* An ended job, and one that begins to write.
LEMMA JobsMoved ==
    ASSUME NEW j \in Jobs, j.step \in JobSteps
    PROVE  /\ [step |-> "ended", key |-> j.key] \in Jobs
           /\ \A s \in JobSteps : /\ [j EXCEPT !.step = s] \in Jobs
                                  /\ [j EXCEPT !.step = s].step = s
                                  /\ [j EXCEPT !.step = s].key = j.key
                                  /\ [j EXCEPT !.step = s].entry = j.entry
                                  /\ [j EXCEPT !.step = s].read = j.read
           /\ \A m \in Manifests : LET r == [j EXCEPT !.step = "update", !.read = m]
                                   IN  /\ r \in Jobs /\ r.step = "update" /\ r.read = m
                                       /\ r.key = j.key /\ r.entry = j.entry
<1> DEFINE J == [step : JobSteps, key : Keys, option : {"missing", "force"},
                 entry : Entries, read : Manifests]
<1>1. j \in J
  BY JobsAre
<1>2. [step |-> "ended", key |-> j.key] \in [step : {"ended"}, key : Keys]
  BY <1>1
<1>3. ASSUME NEW s \in JobSteps
      PROVE  /\ [j EXCEPT !.step = s] \in J
             /\ [j EXCEPT !.step = s].step = s
             /\ [j EXCEPT !.step = s].key = j.key
             /\ [j EXCEPT !.step = s].entry = j.entry
             /\ [j EXCEPT !.step = s].read = j.read
  BY <1>1
<1>4. ASSUME NEW m \in Manifests
      PROVE  LET r == [j EXCEPT !.step = "update", !.read = m]
             IN  /\ r \in J /\ r.step = "update" /\ r.read = m
                 /\ r.key = j.key /\ r.entry = j.entry
  BY <1>1 DEF JobSteps
<1>5. J \subseteq Jobs /\ [step : {"ended"}, key : Keys] \subseteq Jobs
  BY DEF Jobs
<1> QED  BY <1>2, <1>3, <1>4, <1>5

\* Each step of generateWrapper() is of one of these kinds.
LEMMA GeneratesMoves ==
    ASSUME job \in [Processes -> Jobs], NEW p \in Processes, Generates(p)
    PROVE  job[p] # Idle /\ (JobMoves(p) \/ WriteStops(p) \/ FileMoves(p))
<1> USE DEF JobAt
<1>0. JobSteps = {"begun", "write", "writing", "enter", "update", "entering"} /\ Idle.step = "idle" /\ job[p] \in Jobs
  BY JobsAre DEF JobSteps
<1>1. ASSUME RefuseName(p) PROVE job[p] # Idle /\ JobMoves(p)
  <2> DEFINE j == [step |-> "ended", key |-> job[p].key]
  <2>1. j \in Jobs
    BY <1>0, <1>1, JobsMoved DEF RefuseName
  <2>2. SetJob(p, j) /\ j.step = "ended"
    BY <1>1 DEF RefuseName, JobEnds
  <2> HIDE DEF j
  <2> QED  BY <1>0, <1>1, <2>1, <2>2 DEF RefuseName, JobMoves
<1>2. ASSUME RenderFails(p) PROVE job[p] # Idle /\ JobMoves(p)
  BY <1>0, <1>2, FailsIs DEF RenderFails, JobMoves
<1>3. ASSUME LookForWrapper(p) PROVE job[p] # Idle /\ JobMoves(p)
  <2>1. CASE job[p].option = "missing" /\ files[WrapperOf(job[p].key)] # Absent
    <3> DEFINE j == [step |-> "ended", key |-> job[p].key]
    <3>1. j \in Jobs
      BY <1>0, <1>3, JobsMoved DEF LookForWrapper
    <3>2. SetJob(p, j) /\ j.step = "ended"
      BY <2>1, <1>3 DEF LookForWrapper, JobEnds
    <3> HIDE DEF j
    <3> QED  BY <1>0, <1>3, <3>1, <3>2 DEF LookForWrapper, JobMoves
  <2>2. CASE ~(job[p].option = "missing" /\ files[WrapperOf(job[p].key)] # Absent)
    <3> DEFINE j == [job[p] EXCEPT !.step = "write"]
    <3>1. j \in Jobs /\ j.step = "write"
      BY <1>0, <1>3, JobsMoved DEF LookForWrapper
    <3>2. SetJob(p, j)
      BY <2>2, <1>3 DEF LookForWrapper, JobTo
    <3> HIDE DEF j
    <3> QED  BY <1>0, <1>3, <3>1, <3>2 DEF LookForWrapper, JobMoves
  <2> QED  BY <2>1, <2>2
<1>4. ASSUME WrapperFails(p) PROVE job[p] # Idle /\ WriteStops(p)
  BY <1>0, <1>4, FailsIs DEF WrapperFails, WriteStops
<1>5. ASSUME EnterFails(p) PROVE job[p] # Idle /\ JobMoves(p)
  BY <1>0, <1>5, FailsIs DEF EnterFails, JobMoves
<1>6. ASSUME ManifestFails(p) PROVE job[p] # Idle /\ WriteStops(p)
  BY <1>0, <1>6, FailsIs DEF ManifestFails, WriteStops
<1>7. ASSUME FileMoves(p) PROVE job[p] # Idle
  BY <1>0, <1>7 DEF FileMoves, BeginWrapper, EndWrapper, ReadToEnter, OpenManifest, WriteManifest
<1> QED  BY <1>1, <1>2, <1>3, <1>4, <1>5, <1>6, <1>7 DEF Generates, FileMoves

\* A write that begins, and one that ends, well or in a mixture.
LEMMA WritesAre ==
    ASSUME FilesInv, NEW p \in Processes, NEW f \in FileNames
    PROVE  /\ BeginWrite(p, f) =>
                /\ files' = [files EXCEPT ![f] = Torn]
                /\ writing' \in [Processes -> [file : FileNames \cup {NoFileName}, mixed : BOOLEAN]]
                /\ writing'[p].file = f
                /\ \A q \in Processes \ {p} : writing'[q].file = writing[q].file
           /\ StopWriting(p) =>
                /\ writing' \in [Processes -> [file : FileNames \cup {NoFileName}, mixed : BOOLEAN]]
                /\ writing'[p].file = NoFileName
                /\ \A q \in Processes \ {p} : writing'[q].file = writing[q].file
<1> DEFINE Writings == [file : FileNames \cup {NoFileName}, mixed : BOOLEAN]
<1>1. writing \in [Processes -> Writings]
  BY DEF FilesInv
<1>2. ASSUME BeginWrite(p, f)
      PROVE  /\ files' = [files EXCEPT ![f] = Torn]
             /\ writing' \in [Processes -> Writings]
             /\ writing'[p].file = f
             /\ \A q \in Processes \ {p} : writing'[q].file = writing[q].file
  <2> DEFINE mixed == Writers(f) # {}
  <2>1. mixed \in BOOLEAN
    OBVIOUS
  <2>2. /\ files' = [files EXCEPT ![f] = Torn]
        /\ writing' = [q \in Processes |->
                         IF q = p THEN [file |-> f, mixed |-> mixed]
                         ELSE IF q \in Writers(f) THEN [file |-> f, mixed |-> TRUE]
                         ELSE writing[q]]
    BY <1>2 DEF BeginWrite
  <2>3. \A q \in Writers(f) : writing[q].file = f
    BY DEF Writers
  <2> HIDE DEF mixed
  <2>4. [file |-> f, mixed |-> mixed] \in Writings /\ [file |-> f, mixed |-> TRUE] \in Writings
    BY <2>1
  <2>5. writing' \in [Processes -> Writings]
    BY <1>1, <2>2, <2>4
  <2>6. writing'[p].file = f /\ \A q \in Processes \ {p} : writing'[q].file = writing[q].file
    BY <2>2, <2>3
  <2> QED  BY <2>2, <2>5, <2>6
<1>3. ASSUME StopWriting(p)
      PROVE  /\ writing' \in [Processes -> Writings]
             /\ writing'[p].file = NoFileName
             /\ \A q \in Processes \ {p} : writing'[q].file = writing[q].file
  <2>1. NotWriting \in Writings /\ NotWriting.file = NoFileName
    BY DEF NotWriting
  <2> QED  BY <1>1, <1>3, <2>1 DEF StopWriting
<1> QED  BY <1>2, <1>3

\* The manifest as a process reads it, and with its entry.
LEMMA ManifestsRead ==
    ASSUME FilesInv, NEW p \in Processes
    PROVE  /\ ReadManifest(p) \subseteq Manifests
           /\ job[p].step \in JobSteps => WithEntry(p) \in Manifests
                                          /\ DOMAIN WithEntry(p) = DOMAIN job[p].read \cup {job[p].key}
<1>1. ReadManifest(p) \subseteq Manifests
  <2>1. files[Manifest] \in Holding(Manifests)
    BY DEF FilesInv
  <2> QED  BY <2>1, HeldIs, JobsAre DEF ReadManifest, IsWhole
<1>2. ASSUME job[p].step \in JobSteps
      PROVE  WithEntry(p) \in Manifests /\ DOMAIN WithEntry(p) = DOMAIN job[p].read \cup {job[p].key}
  <2>1. job[p].read \in Manifests /\ job[p].key \in Keys /\ job[p].entry \in Entries
    BY <1>2, JobsAre DEF FilesInv
  <2>2. PICK K \in SUBSET Keys : job[p].read \in [K -> Entries]
    BY <2>1 DEF Manifests
  <2>3. WithEntry(p) \in [K \cup {job[p].key} -> Entries]
    BY <2>1, <2>2 DEF WithEntry
  <2> QED  BY <2>1, <2>2, <2>3 DEF Manifests
<1> QED  BY <1>1, <1>2

\* What may become of a file without another one.
LEMMA FileChanges ==
    ASSUME FilesInv, NEW f \in FileNames, NEW c,
           files' = [files EXCEPT ![f] = c],
           f = Config => c \in Holding(Configurations),
           f = Manifest => c \in Holding(Manifests),
           \A k \in Keys : f = WrapperOf(k) => c \in Holding({Code})
    PROVE  /\ files' = [g \in FileNames |-> files'[g]]
           /\ files'[Config] \in Holding(Configurations)
           /\ files'[Manifest] \in Holding(Manifests)
           /\ \A k \in Keys : files'[WrapperOf(k)] \in Holding({Code})
BY NamesDiffer DEF FilesInv

\* A process goes on without a file.
LEMMA JobMovesKeep ==
    ASSUME FilesInv, WriterInv, NEW p \in Processes, JobMoves(p),
           wizard = "writingConfig" <=> wizard' = "writingConfig"
    PROVE  FilesInv' /\ WriterInv'
<1>1. PICK j \in Jobs : SetJob(p, j) /\ j.step \notin {"writing", "update", "entering"}
  BY DEF JobMoves
<1>2. UNCHANGED <<files, writing>> /\ job[p].step \notin {"writing", "entering"}
  BY DEF JobMoves, fileVars
<1>3. job' \in [Processes -> Jobs]
  BY <1>1 DEF FilesInv, SetJob
<1>4. FilesInv'
  BY <1>2, <1>3 DEF FilesInv
<1>5. ASSUME NEW q \in Processes PROVE FileOf(q)' = FileOf(q)
  <2>1. CASE q = p
    BY <1>1, <1>2, <2>1 DEF FileOf, JobAt, FilesInv, SetJob
  <2>2. CASE q # p
    BY <1>1, <1>2, <2>2 DEF FileOf, JobAt, FilesInv, SetJob
  <2> QED  BY <2>1, <2>2
<1>6. WriterInv'
  BY <1>2, <1>5 DEF WriterInv
<1> QED  BY <1>4, <1>6

\* A process leaves the file it writes as it is.
LEMMA WriteStopsKeeps ==
    ASSUME FilesInv, WriterInv, NEW p \in Processes, WriteStops(p),
           p = W => wizard' # "writingConfig",
           p # W => (wizard = "writingConfig" <=> wizard' = "writingConfig")
    PROVE  FilesInv' /\ WriterInv'
<1>1. PICK j \in Jobs : SetJob(p, j) /\ j.step \notin {"writing", "update", "entering"}
  BY DEF WriteStops
<1>2. UNCHANGED files /\ StopWriting(p)
  BY DEF WriteStops, FailWrite
<1>3. /\ writing' \in [Processes -> [file : FileNames \cup {NoFileName}, mixed : BOOLEAN]]
      /\ writing'[p].file = NoFileName
      /\ \A q \in Processes \ {p} : writing'[q].file = writing[q].file
  BY <1>2, WritesAre, NamesDiffer
<1>4. job' \in [Processes -> Jobs]
  BY <1>1 DEF FilesInv, SetJob
<1>5. FilesInv'
  BY <1>2, <1>3, <1>4 DEF FilesInv
<1>6. job'[p] = j /\ \A q \in Processes \ {p} : job'[q] = job[q]
  BY <1>1 DEF FilesInv, SetJob
<1>7. FileOf(p)' = NoFileName
  BY <1>1, <1>6 DEF FileOf, JobAt
<1>8. ASSUME NEW q \in Processes \ {p} PROVE FileOf(q)' = FileOf(q)
  <2>1. job'[q] = job[q]
    BY <1>6
  <2>2. (q = W /\ wizard' = "writingConfig") <=> (q = W /\ wizard = "writingConfig")
    OBVIOUS
  <2> QED  BY <2>1, <2>2 DEF FileOf, JobAt
<1>9. WriterInv'
  BY <1>3, <1>7, <1>8 DEF WriterInv
<1> QED  BY <1>5, <1>9

\* A process begins or ends to write a wrapper or the manifest.
LEMMA FileMovesKeep ==
    ASSUME FilesInv, WriterInv, NEW p \in Processes, FileMoves(p),
           ~(p = W /\ wizard = "writingConfig"),
           wizard = "writingConfig" <=> wizard' = "writingConfig"
    PROVE  FilesInv' /\ WriterInv'
<1> DEFINE Writings == [file : FileNames \cup {NoFileName}, mixed : BOOLEAN]
<1>0. /\ JobSteps = {"begun", "write", "writing", "enter", "update", "entering"} /\ job[p] \in Jobs
      /\ \A c : Absent \in Holding(c) /\ Torn \in Holding(c) /\ \A d \in c : Whole(d) \in Holding(c)
  BY DEF JobSteps, FilesInv, Holding
<1>1. ASSUME NEW j \in Jobs, SetJob(p, j), writing' \in [Processes -> Writings],
             writing'[p].file = IF j.step = "writing" THEN WrapperOf(j.key)
                                ELSE IF j.step = "entering" THEN Manifest
                                ELSE NoFileName,
             \A q \in Processes \ {p} : writing'[q].file = writing[q].file
      PROVE  WriterInv' /\ job' \in [Processes -> Jobs]
  <2>1. job' \in [Processes -> Jobs] /\ job'[p] = j /\ \A q \in Processes \ {p} : job'[q] = job[q]
    BY <1>1 DEF FilesInv, SetJob
  <2>2. writing'[p].file = FileOf(p)'
    BY <1>1, <2>1 DEF FileOf, JobAt
  <2>3. ASSUME NEW q \in Processes \ {p} PROVE FileOf(q)' = FileOf(q)
    <3>1. job'[q] = job[q]
      BY <2>1
    <3>2. (q = W /\ wizard' = "writingConfig") <=> (q = W /\ wizard = "writingConfig")
      OBVIOUS
    <3> QED  BY <3>1, <3>2 DEF FileOf, JobAt
  <2> QED  BY <1>1, <2>1, <2>2, <2>3 DEF WriterInv
<1>2. CASE BeginWrapper(p)
  <2> DEFINE j == [job[p] EXCEPT !.step = "writing"]
             f == WrapperOf(job[p].key)
  <2>1. job[p].step = "write" /\ BeginWrite(p, f) /\ SetJob(p, j)
    BY <1>2 DEF BeginWrapper, JobAt, JobTo
  <2>2. j \in Jobs /\ j.step = "writing" /\ j.key = job[p].key
    BY <1>0, <2>1, JobsMoved
  <2>3. job[p].key \in Keys
    BY <1>0, <2>1, JobsAre
  <2>4. f \in FileNames /\ f # Config /\ f # Manifest
    BY <2>3, NamesDiffer
  <2>5. /\ files' = [files EXCEPT ![f] = Torn] /\ writing' \in [Processes -> Writings]
        /\ writing'[p].file = f
        /\ \A q \in Processes \ {p} : writing'[q].file = writing[q].file
    BY <2>1, <2>4, WritesAre
  <2> HIDE DEF j
  <2>6. WriterInv' /\ job' \in [Processes -> Jobs]
    BY <1>1, <2>1, <2>2, <2>5
  <2> HIDE DEF f
  <2>7. FilesInv'
    BY <1>0, <2>4, <2>5, <2>6, FileChanges DEF FilesInv
  <2> QED  BY <2>6, <2>7
<1>3. CASE EndWrapper(p)
  <2> DEFINE j == [job[p] EXCEPT !.step = "enter"]
             f == WrapperOf(job[p].key)
  <2>1. job[p].step = "writing" /\ EndWrite(p, Code) /\ SetJob(p, j)
    BY <1>3 DEF EndWrapper, JobAt, JobTo
  <2>2. j \in Jobs /\ j.step = "enter"
    BY <1>0, <2>1, JobsMoved
  <2>3. job[p].key \in Keys
    BY <1>0, <2>1, JobsAre
  <2>4. f \in FileNames /\ f # Config /\ f # Manifest
    BY <2>3, NamesDiffer
  <2>5. writing[p].file = f
    BY <2>1 DEF WriterInv, FileOf, JobAt
  <2>6. StopWriting(p) /\ \E c \in {Whole(Code), Torn} : files' = [files EXCEPT ![f] = c]
    BY <2>1, <2>5 DEF EndWrite
  <2>7. /\ writing' \in [Processes -> Writings] /\ writing'[p].file = NoFileName
        /\ \A q \in Processes \ {p} : writing'[q].file = writing[q].file
    BY <2>6, WritesAre, NamesDiffer
  <2> HIDE DEF j
  <2>8. WriterInv' /\ job' \in [Processes -> Jobs]
    BY <1>1, <2>1, <2>2, <2>7
  <2> HIDE DEF f
  <2>9. PICK c \in {Whole(Code), Torn} : files' = [files EXCEPT ![f] = c]
    BY <2>6
  <2>10. c \in Holding({Code})
    BY <1>0
  <2>11. FilesInv'
    BY <2>4, <2>7, <2>8, <2>9, <2>10, FileChanges DEF FilesInv
  <2> QED  BY <2>8, <2>11
<1>4. CASE OpenManifest(p)
  <2> DEFINE j == [job[p] EXCEPT !.step = "entering"]
  <2>1. job[p].step = "update" /\ BeginWrite(p, Manifest) /\ SetJob(p, j)
    BY <1>4 DEF OpenManifest, JobAt, JobTo
  <2>2. j \in Jobs /\ j.step = "entering"
    BY <1>0, <2>1, JobsMoved
  <2>3. /\ files' = [files EXCEPT ![Manifest] = Torn] /\ writing' \in [Processes -> Writings]
        /\ writing'[p].file = Manifest
        /\ \A q \in Processes \ {p} : writing'[q].file = writing[q].file
    BY <2>1, NamesDiffer, WritesAre
  <2> HIDE DEF j
  <2>4. WriterInv' /\ job' \in [Processes -> Jobs]
    BY <1>1, <2>1, <2>2, <2>3
  <2>5. FilesInv'
    BY <1>0, <2>3, <2>4, FileChanges, NamesDiffer DEF FilesInv
  <2> QED  BY <2>4, <2>5
<1>6. CASE ReadToEnter(p)
  <2>1. PICK m \in ReadManifest(p) : SetJob(p, [job[p] EXCEPT !.step = "update", !.read = m])
    BY <1>6 DEF ReadToEnter
  <2> DEFINE j == [job[p] EXCEPT !.step = "update", !.read = m]
  <2>2. job[p].step = "enter" /\ m \in Manifests /\ UNCHANGED <<files, writing>>
    BY <1>6, ManifestsRead DEF ReadToEnter, JobAt, fileVars
  <2>3. j \in Jobs /\ j.step = "update"
    <3>1. job[p] \in Jobs /\ job[p].step \in JobSteps
      BY <1>0, <2>2
    <3>2. LET r == [job[p] EXCEPT !.step = "update", !.read = m]
          IN  r \in Jobs /\ r.step = "update"
      BY <3>1, <2>2, JobsMoved
    <3> QED  BY <3>2
  <2>4. SetJob(p, j)
    BY <2>1
  <2>5. writing[p].file = NoFileName /\ writing \in [Processes -> Writings]
    BY <2>2 DEF WriterInv, FileOf, JobAt, FilesInv
  <2> HIDE DEF j
  <2>6. WriterInv' /\ job' \in [Processes -> Jobs]
    BY <1>1, <2>2, <2>3, <2>4, <2>5
  <2>7. FilesInv'
    BY <2>2, <2>6 DEF FilesInv
  <2> QED  BY <2>6, <2>7
<1>5. CASE WriteManifest(p)
  <2> DEFINE j == [step |-> "ended", key |-> job[p].key]
             m == WithEntry(p)
  <2>1. job[p].step = "entering" /\ EndWrite(p, m) /\ SetJob(p, j)
    BY <1>5 DEF WriteManifest, JobAt, JobEnds
  <2>2. j \in Jobs /\ j.step = "ended"
    BY <1>0, <2>1, JobsMoved
  <2>3. m \in Manifests
    BY <1>0, <2>1, ManifestsRead
  <2>4. writing[p].file = Manifest
    BY <2>1 DEF WriterInv, FileOf, JobAt
  <2> HIDE DEF m
  <2>5. StopWriting(p) /\ \E c \in {Whole(m), Torn} : files' = [files EXCEPT ![Manifest] = c]
    BY <2>1, <2>4 DEF EndWrite
  <2>6. /\ writing' \in [Processes -> Writings] /\ writing'[p].file = NoFileName
        /\ \A q \in Processes \ {p} : writing'[q].file = writing[q].file
    BY <2>5, WritesAre, NamesDiffer
  <2> HIDE DEF j
  <2>7. WriterInv' /\ job' \in [Processes -> Jobs]
    BY <1>1, <2>1, <2>2, <2>6
  <2>8. PICK c \in {Whole(m), Torn} : files' = [files EXCEPT ![Manifest] = c]
    BY <2>5
  <2>9. c \in Holding(Manifests)
    BY <1>0, <2>3
  <2>10. FilesInv'
    BY <2>6, <2>7, <2>8, <2>9, FileChanges, NamesDiffer DEF FilesInv
  <2> QED  BY <2>7, <2>10
<1> QED  BY <1>2, <1>3, <1>4, <1>5, <1>6 DEF FileMoves

\* The wizard begins or ends to write the configuration.
LEMMA ConfigMovesKeep ==
    ASSUME FilesInv, WriterInv, W \in Processes, UNCHANGED job, job[W] = Idle,
           configRead \in Configurations,
           \/ BeginWrite(W, Config) /\ wizard' = "writingConfig"
           \/ /\ EndWrite(W, configRead) \/ FailWrite(W)
              /\ wizard = "writingConfig" /\ wizard' # "writingConfig"
    PROVE  FilesInv' /\ WriterInv' /\ files'[Manifest] = files[Manifest]
           /\ (\A k \in Keys : files'[WrapperOf(k)] = files[WrapperOf(k)])
<1> DEFINE Writings == [file : FileNames \cup {NoFileName}, mixed : BOOLEAN]
<1>1. ASSUME NEW c \in Holding(Configurations), files' = [files EXCEPT ![Config] = c] \/ UNCHANGED files,
             writing' \in [Processes -> Writings]
      PROVE  FilesInv' /\ files'[Manifest] = files[Manifest]
             /\ (\A k \in Keys : files'[WrapperOf(k)] = files[WrapperOf(k)])
  <2>1. CASE UNCHANGED files
    BY <1>1, <2>1 DEF FilesInv
  <2>2. CASE files' = [files EXCEPT ![Config] = c]
    <3>1. FilesInv'
      BY <1>1, <2>2, FileChanges, NamesDiffer DEF FilesInv
    <3> QED  BY <2>2, <3>1, NamesDiffer DEF FilesInv
  <2> QED  BY <1>1, <2>1, <2>2
<1>2. Torn \in Holding(Configurations) /\ Whole(configRead) \in Holding(Configurations)
  BY DEF Holding
<1>3. Idle.step = "idle"
  BY JobsAre
<1>4. ASSUME NEW q \in Processes \ {W} PROVE FileOf(q)' = FileOf(q)
  BY DEF FileOf, JobAt
<1>5. CASE BeginWrite(W, Config) /\ wizard' = "writingConfig"
  <2>1. /\ files' = [files EXCEPT ![Config] = Torn] /\ writing' \in [Processes -> Writings]
        /\ writing'[W].file = Config
        /\ \A q \in Processes \ {W} : writing'[q].file = writing[q].file
    BY <1>5, NamesDiffer, WritesAre
  <2>2. FileOf(W)' = Config
    BY <1>5 DEF FileOf
  <2> QED  BY <1>1, <1>2, <1>4, <2>1, <2>2 DEF WriterInv
<1>6. CASE /\ EndWrite(W, configRead) \/ FailWrite(W)
           /\ wizard = "writingConfig" /\ wizard' # "writingConfig"
  <2>1. writing[W].file = Config
    BY <1>6 DEF WriterInv, FileOf
  <2>2. /\ StopWriting(W)
        /\ \/ files' = [files EXCEPT ![Config] = Whole(configRead)]
           \/ files' = [files EXCEPT ![Config] = Torn]
           \/ UNCHANGED files
    BY <1>6, <2>1 DEF EndWrite, FailWrite
  <2>3. /\ writing' \in [Processes -> Writings] /\ writing'[W].file = NoFileName
        /\ \A q \in Processes \ {W} : writing'[q].file = writing[q].file
    BY <2>2, WritesAre, NamesDiffer
  <2>4. FileOf(W)' = NoFileName
    BY <1>3, <1>6 DEF FileOf, JobAt
  <2>5. WriterInv'
    BY <1>4, <2>3, <2>4 DEF WriterInv
  <2> QED  BY <1>1, <1>2, <2>2, <2>3, <2>5
<1> QED  BY <1>5, <1>6

-------------------------------------------------------------------------------
(* What the manifest says *)

Wrapped(k) == files[WrapperOf(k)] # Absent
AllWrapped(m) == \A k \in DOMAIN m : m[k].status = "success" => Wrapped(k)

\* A process has read the manifest to write it again.
Updates(p) == job[p].step \in {"update", "entering"}

\* What the manifest, or a process that is about to write it, calls a success is there.
EntriesInv ==
    /\ IsWhole(Manifest) => AllWrapped(files[Manifest].data)
    /\ \A p \in Processes :
          /\ job[p].step \in {"enter", "update", "entering"} /\ job[p].entry.status = "success"
                 => Wrapped(job[p].key)
          /\ Updates(p) => AllWrapped(job[p].read)

\* Unless two processes were updating it at once, the manifest and whoever has read it to write
\* it have all that was ever entered.
ManifestInv ==
    /\ \A p, q \in Processes : Updates(p) /\ Updates(q) /\ p # q => collided
    /\ IsWhole(Manifest) => DOMAIN files[Manifest].data \subseteq entered
    /\ ~collided =>
         /\ IsWhole(Manifest) => entered \subseteq DOMAIN files[Manifest].data
         /\ files[Manifest] = Absent => entered = {}
         /\ \A p \in Processes : Updates(p) => entered \subseteq DOMAIN job[p].read

\* The manifest's types, for a process that reads or writes it.
LEMMA ManifestKeys ==
    ASSUME NEW m \in Manifests
    PROVE  DOMAIN m \subseteq Keys /\ \A k \in DOMAIN m : m[k] \in Entries
BY DEF Manifests

\* Wrappers are never removed: what was there stays, in some state.
LEMMA WrappersStay ==
    ASSUME \A k \in Keys : Wrapped(k) => Wrapped(k)', NEW m \in Manifests, AllWrapped(m)
    PROVE  AllWrapped(m)'
BY ManifestKeys DEF AllWrapped

\* A step that neither touches the manifest nor gets a process to a success keeps EntriesInv.
LEMMA EntriesUntouched ==
    ASSUME FilesInv, EntriesInv, \A k \in Keys : Wrapped(k) => Wrapped(k)',
           files'[Manifest] = files[Manifest],
           \A p \in Processes : \/ job'[p] = job[p]
                                \/ job'[p].step \notin {"update", "entering"}
                                   /\ (job'[p].step = "enter" => job'[p].entry = Failure)
    PROVE  EntriesInv'
<1>1. IsWhole(Manifest)' => AllWrapped(files[Manifest].data)'
  <2> SUFFICES ASSUME IsWhole(Manifest) PROVE AllWrapped(files[Manifest].data)'
    BY DEF IsWhole
  <2>1. files[Manifest].data \in Manifests /\ AllWrapped(files[Manifest].data)
    BY HeldIs DEF FilesInv, EntriesInv, IsWhole
  <2>2. files[Manifest].data' = files[Manifest].data
    OBVIOUS
  <2> QED  BY <2>1, <2>2, ManifestKeys DEF AllWrapped
<1>2. ASSUME NEW p \in Processes
      PROVE  /\ job'[p].step \in {"enter", "update", "entering"} /\ job'[p].entry.status = "success"
                    => Wrapped(job[p].key)'
             /\ job'[p].step \in {"update", "entering"} => AllWrapped(job[p].read)'
  <2>1. CASE job'[p] = job[p]
    <3>1. job[p].step \in {"enter", "update", "entering"} => job[p].key \in Keys /\ job[p].read \in Manifests
      BY JobsAre DEF FilesInv, JobSteps
    <3>2. job[p].step \in {"enter", "update", "entering"} /\ job[p].entry.status = "success" => Wrapped(job[p].key)
      BY DEF EntriesInv
    <3>3. job[p].step \in {"update", "entering"} => AllWrapped(job[p].read)
      BY DEF EntriesInv, Updates
    <3>4. job[p].key' = job[p].key /\ job[p].read' = job[p].read
      BY <2>1
    <3>5. ASSUME job[p].step \in {"enter", "update", "entering"}, job[p].entry.status = "success"
          PROVE  Wrapped(job[p].key)'
      <4>1. files[WrapperOf(job[p].key)] # Absent /\ job[p].key \in Keys
        BY <3>1, <3>2, <3>5 DEF Wrapped
      <4>2. files'[WrapperOf(job[p].key)] # Absent
        BY <4>1 DEF Wrapped
      <4> QED  BY <4>2, <3>4 DEF Wrapped
    <3>6. ASSUME job[p].step \in {"update", "entering"} PROVE AllWrapped(job[p].read)'
      BY <3>1, <3>3, <3>4, <3>6, ManifestKeys DEF AllWrapped
    <3> QED  BY <2>1, <3>5, <3>6
  <2>2. CASE job'[p].step \notin {"update", "entering"} /\ (job'[p].step = "enter" => job'[p].entry = Failure)
    BY <2>2, EntriesAre
  <2> QED  BY <2>1, <2>2
<1> QED  BY <1>1, <1>2 DEF EntriesInv, Updates

\* What a process that begins or ends to write a wrapper or the manifest does to files and job.
LEMMA FileMovesAre ==
    ASSUME FilesInv, WriterInv, NEW p \in Processes, FileMoves(p),
           ~(p = W /\ wizard = "writingConfig")
    PROVE  \E j \in Jobs :
              /\ SetJob(p, j)
              /\ \/ /\ job[p].key \in Keys /\ j.key = job[p].key
                    /\ j.step \in {"writing", "enter"}
                    /\ \E c \in {Torn, Whole(Code)} :
                          files' = [files EXCEPT ![WrapperOf(job[p].key)] = c]
                 \/ /\ job[p].step = "enter" /\ job[p].key \in Keys
                    /\ j.step = "update" /\ j.key = job[p].key /\ j.entry = job[p].entry
                    /\ j.read \in ReadManifest(p)
                    /\ UNCHANGED files
                 \/ /\ job[p].step = "update" /\ job[p].key \in Keys
                    /\ j.step = "entering" /\ j.key = job[p].key /\ j.entry = job[p].entry
                    /\ j.read = job[p].read
                    /\ files' = [files EXCEPT ![Manifest] = Torn]
                 \/ /\ job[p].step = "entering" /\ j.step = "ended"
                    /\ \E c \in {Torn, Whole(WithEntry(p))} :
                          files' = [files EXCEPT ![Manifest] = c]
<1>0. JobSteps = {"begun", "write", "writing", "enter", "update", "entering"} /\ job[p] \in Jobs
  BY DEF JobSteps, FilesInv
<1>1. CASE BeginWrapper(p)
  <2> DEFINE j == [job[p] EXCEPT !.step = "writing"]
  <2>1. /\ job[p].step = "write" /\ SetJob(p, j)
        /\ files' = [files EXCEPT ![WrapperOf(job[p].key)] = Torn]
    BY <1>1 DEF BeginWrapper, JobAt, JobTo, BeginWrite
  <2>2. j \in Jobs /\ j.step = "writing" /\ j.key = job[p].key /\ job[p].key \in Keys
    BY <1>0, <2>1, JobsMoved, JobsAre
  <2> HIDE DEF j
  <2> QED  BY <2>1, <2>2
<1>2. CASE EndWrapper(p)
  <2> DEFINE j == [job[p] EXCEPT !.step = "enter"]
  <2>1. job[p].step = "writing" /\ EndWrite(p, Code) /\ SetJob(p, j)
    BY <1>2 DEF EndWrapper, JobAt, JobTo
  <2>2. j \in Jobs /\ j.step = "enter" /\ j.key = job[p].key /\ job[p].key \in Keys
    BY <1>0, <2>1, JobsMoved, JobsAre
  <2>3. writing[p].file = WrapperOf(job[p].key)
    BY <2>1 DEF WriterInv, FileOf, JobAt
  <2> HIDE DEF j
  <2>4. \E c \in {Torn, Whole(Code)} : files' = [files EXCEPT ![WrapperOf(job[p].key)] = c]
    BY <2>1, <2>3 DEF EndWrite
  <2> QED  BY <2>1, <2>2, <2>4
<1>3. CASE ReadToEnter(p)
  <2>1. PICK m \in ReadManifest(p) : SetJob(p, [job[p] EXCEPT !.step = "update", !.read = m])
    BY <1>3 DEF ReadToEnter
  <2> DEFINE j == [job[p] EXCEPT !.step = "update", !.read = m]
  <2>2. job[p].step = "enter" /\ m \in Manifests /\ UNCHANGED files
    BY <1>3, ManifestsRead DEF ReadToEnter, JobAt, fileVars
  <2>3. job[p].step \in JobSteps /\ job[p].key \in Keys
    BY <1>0, <2>2, JobsAre
  <2>4. LET r == [job[p] EXCEPT !.step = "update", !.read = m]
        IN  /\ r \in Jobs /\ r.step = "update" /\ r.read = m
            /\ r.key = job[p].key /\ r.entry = job[p].entry
    <3>1. \A i \in Jobs : i.step \in JobSteps =>
            \A n \in Manifests : LET r == [i EXCEPT !.step = "update", !.read = n]
                                 IN  /\ r \in Jobs /\ r.step = "update" /\ r.read = n
                                     /\ r.key = i.key /\ r.entry = i.entry
      BY ONLY JobsMoved
    <3>2. job[p] \in Jobs /\ job[p].step \in JobSteps /\ m \in Manifests
      BY <1>0, <2>2, <2>3
    <3> QED  BY ONLY <3>1, <3>2
  <2>5. /\ j \in Jobs /\ j.step = "update" /\ j.read = m
        /\ j.key = job[p].key /\ j.entry = job[p].entry
    BY <2>4
  <2>6. SetJob(p, j)
    BY <2>1
  <2> HIDE DEF j
  <2> QED  BY <2>1, <2>2, <2>3, <2>5, <2>6
<1>5. CASE OpenManifest(p)
  <2> DEFINE j == [job[p] EXCEPT !.step = "entering"]
  <2>1. /\ job[p].step = "update" /\ SetJob(p, j)
        /\ files' = [files EXCEPT ![Manifest] = Torn]
    BY <1>5 DEF OpenManifest, JobAt, JobTo, BeginWrite
  <2>2. /\ j \in Jobs /\ j.step = "entering" /\ j.key = job[p].key /\ job[p].key \in Keys
        /\ j.entry = job[p].entry /\ j.read = job[p].read
    BY <1>0, <2>1, JobsMoved, JobsAre
  <2> HIDE DEF j
  <2> QED  BY <2>1, <2>2
<1>4. CASE WriteManifest(p)
  <2> DEFINE j == [step |-> "ended", key |-> job[p].key]
  <2>1. job[p].step = "entering" /\ EndWrite(p, WithEntry(p)) /\ SetJob(p, j)
    BY <1>4 DEF WriteManifest, JobAt, JobEnds
  <2>2. j \in Jobs /\ j.step = "ended"
    BY <1>0, <2>1, JobsMoved
  <2>3. writing[p].file = Manifest
    BY <2>1 DEF WriterInv, FileOf, JobAt
  <2> HIDE DEF j
  <2>4. \E c \in {Torn, Whole(WithEntry(p))} : files' = [files EXCEPT ![Manifest] = c]
    BY <2>1, <2>3 DEF EndWrite
  <2> QED  BY <2>1, <2>2, <2>4
<1> QED  BY <1>1, <1>2, <1>3, <1>4, <1>5 DEF FileMoves

\* Writing a wrapper or the manifest takes no wrapper away and leaves the configuration.
LEMMA FileMovesLeave ==
    ASSUME FilesInv, NEW f \in FileNames \ {Config}, NEW c, c # Absent,
           files' = [files EXCEPT ![f] = c]
    PROVE  /\ files'[Config] = files[Config]
           /\ f # Manifest => files'[Manifest] = files[Manifest]
           /\ f = Manifest => files'[Manifest] = c
           /\ \A k \in Keys : Wrapped(k) => Wrapped(k)'
           /\ \A k \in Keys : f = WrapperOf(k) => Wrapped(k)'
<1>1. /\ files'[Config] = files[Config]
      /\ f # Manifest => files'[Manifest] = files[Manifest]
      /\ f = Manifest => files'[Manifest] = c
  BY NamesDiffer DEF FilesInv
<1>2. ASSUME NEW k \in Keys
      PROVE  (Wrapped(k) => Wrapped(k)') /\ (f = WrapperOf(k) => Wrapped(k)')
  <2>1. files'[WrapperOf(k)] = IF f = WrapperOf(k) THEN c ELSE files[WrapperOf(k)]
    BY NamesDiffer DEF FilesInv
  <2> QED  BY <2>1 DEF Wrapped
<1> QED  BY <1>1, <1>2

\* The entries stay true of the wrappers while a wrapper or the manifest is written.
LEMMA FileMovesEntries ==
    ASSUME FilesInv, WriterInv, EntriesInv, NEW p \in Processes, FileMoves(p),
           ~(p = W /\ wizard = "writingConfig")
    PROVE  EntriesInv' /\ files'[Config] = files[Config]
<1>1. PICK j \in Jobs :
         /\ SetJob(p, j)
         /\ \/ /\ job[p].key \in Keys /\ j.key = job[p].key
               /\ j.step \in {"writing", "enter"}
               /\ \E c \in {Torn, Whole(Code)} :
                     files' = [files EXCEPT ![WrapperOf(job[p].key)] = c]
            \/ /\ job[p].step = "enter" /\ job[p].key \in Keys
               /\ j.step = "update" /\ j.key = job[p].key /\ j.entry = job[p].entry
               /\ j.read \in ReadManifest(p)
               /\ UNCHANGED files
            \/ /\ job[p].step = "update" /\ job[p].key \in Keys
               /\ j.step = "entering" /\ j.key = job[p].key /\ j.entry = job[p].entry
               /\ j.read = job[p].read
               /\ files' = [files EXCEPT ![Manifest] = Torn]
            \/ /\ job[p].step = "entering" /\ j.step = "ended"
               /\ \E c \in {Torn, Whole(WithEntry(p))} :
                     files' = [files EXCEPT ![Manifest] = c]
  BY FileMovesAre
<1>2. job'[p] = j /\ \A q \in Processes \ {p} : job'[q] = job[q]
  BY <1>1 DEF SetJob, FilesInv
<1>3. ASSUME \A k \in Keys : Wrapped(k) => Wrapped(k)', NEW q \in Processes \ {p}
      PROVE  /\ job'[q].step \in {"enter", "update", "entering"} /\ job'[q].entry.status = "success"
                    => Wrapped(job[q].key)'
             /\ job'[q].step \in {"update", "entering"} => AllWrapped(job[q].read)'
  <2>1. job'[q] = job[q]
    BY <1>2
  <2>2. job[q].step \in {"enter", "update", "entering"} => job[q].key \in Keys /\ job[q].read \in Manifests
    BY JobsAre DEF FilesInv, JobSteps
  <2>3. ASSUME job[q].step \in {"enter", "update", "entering"}, job[q].entry.status = "success"
        PROVE  Wrapped(job[q].key)'
    <3>1. files[WrapperOf(job[q].key)] # Absent
      BY <2>3 DEF Wrapped, EntriesInv
    <3>2. files'[WrapperOf(job[q].key)] # Absent
      BY <1>3, <2>2, <2>3, <3>1 DEF Wrapped
    <3> QED  BY <2>1, <3>2 DEF Wrapped
  <2>4. ASSUME job[q].step \in {"update", "entering"} PROVE AllWrapped(job[q].read)'
    <3>1. job[q].read \in Manifests /\ AllWrapped(job[q].read)
      BY <2>2, <2>4 DEF EntriesInv, Updates
    <3>2. job[q].read' = job[q].read
      BY <2>1
    <3> QED  BY <1>3, <3>1, <3>2, ManifestKeys DEF AllWrapped
  <2> QED  BY <2>1, <2>3, <2>4
<1>4. CASE /\ job[p].key \in Keys /\ j.key = job[p].key
           /\ j.step \in {"writing", "enter"}
           /\ \E c \in {Torn, Whole(Code)} : files' = [files EXCEPT ![WrapperOf(job[p].key)] = c]
  <2>1. PICK c \in {Torn, Whole(Code)} : files' = [files EXCEPT ![WrapperOf(job[p].key)] = c]
    BY <1>4
  <2> DEFINE f == WrapperOf(job[p].key)
  <2>2. f \in FileNames \ {Config} /\ f # Manifest /\ c # Absent
    BY <1>4, NamesDiffer, ContentsDiffer
  <2>3. /\ files'[Config] = files[Config] /\ files'[Manifest] = files[Manifest]
        /\ \A k \in Keys : Wrapped(k) => Wrapped(k)'
        /\ \A k \in Keys : f = WrapperOf(k) => Wrapped(k)'
    BY <2>1, <2>2, FileMovesLeave
  <2>4. files'[f] # Absent
    BY <1>4, <2>3 DEF Wrapped
  <2>5. Wrapped(job[p].key)'
    BY <1>2, <1>4, <2>4 DEF Wrapped
  <2>6. IsWhole(Manifest)' => AllWrapped(files[Manifest].data)'
    <3> SUFFICES ASSUME IsWhole(Manifest) PROVE AllWrapped(files[Manifest].data)'
      BY <2>3 DEF IsWhole
    <3>1. files[Manifest].data \in Manifests /\ AllWrapped(files[Manifest].data)
      BY HeldIs DEF FilesInv, EntriesInv, IsWhole
    <3>2. files[Manifest].data' = files[Manifest].data
      BY <2>3
    <3> QED  BY <2>3, <3>1, <3>2, ManifestKeys DEF AllWrapped
  <2>7. job'[p].step \notin {"update", "entering"}
    BY <1>2, <1>4
  <2>8. ASSUME NEW q \in Processes
        PROVE  /\ job'[q].step \in {"enter", "update", "entering"} /\ job'[q].entry.status = "success"
                    => Wrapped(job[q].key)'
               /\ job'[q].step \in {"update", "entering"} => AllWrapped(job[q].read)'
    <3>1. CASE q = p
      BY <2>5, <2>7, <3>1
    <3>2. CASE q # p
      BY <1>3, <2>3, <3>2
    <3> QED  BY <3>1, <3>2
  <2> QED  BY <2>3, <2>6, <2>8 DEF EntriesInv, Updates
<1>5. CASE /\ job[p].step = "enter" /\ job[p].key \in Keys
           /\ j.step = "update" /\ j.key = job[p].key /\ j.entry = job[p].entry
           /\ j.read \in ReadManifest(p)
           /\ UNCHANGED files
  <2>1. \A k \in Keys : Wrapped(k)' <=> Wrapped(k)
    BY <1>5 DEF Wrapped
  <2>2. IsWhole(Manifest)' => AllWrapped(files[Manifest].data)'
    <3>1. IsWhole(Manifest)' => IsWhole(Manifest)
      BY <1>5 DEF IsWhole
    <3>2. IsWhole(Manifest) => files[Manifest].data \in Manifests /\ AllWrapped(files[Manifest].data)
      BY HeldIs DEF FilesInv, EntriesInv, IsWhole
    <3>3. files[Manifest].data' = files[Manifest].data
      BY <1>5
    <3> QED  BY <2>1, <3>1, <3>2, <3>3, ManifestKeys DEF AllWrapped
  <2>3. ASSUME j.entry.status = "success" PROVE Wrapped(job[p].key)'
    <3>1. files[WrapperOf(job[p].key)] # Absent
      BY <1>5, <2>3 DEF EntriesInv, Wrapped
    <3>2. files'[WrapperOf(job[p].key)] # Absent
      BY <1>5, <3>1
    <3> QED  BY <1>2, <1>5, <3>2 DEF Wrapped
  <2>4. j.read \in Manifests /\ AllWrapped(j.read)
    <3>1. j.read = EmptyManifest \/ (IsWhole(Manifest) /\ j.read = files[Manifest].data)
      BY <1>5 DEF ReadManifest
    <3>2. CASE j.read = EmptyManifest
      BY <3>2, JobsAre DEF EmptyManifest, AllWrapped
    <3>3. CASE IsWhole(Manifest) /\ j.read = files[Manifest].data
      BY <3>3, HeldIs DEF FilesInv, EntriesInv, IsWhole
    <3> QED  BY <3>1, <3>2, <3>3
  <2>5. AllWrapped(job[p].read)'
    <3>1. job[p].read' = j.read
      BY <1>2
    <3> QED  BY <2>1, <2>4, <3>1, ManifestKeys DEF AllWrapped
  <2>6. ASSUME NEW q \in Processes
        PROVE  /\ job'[q].step \in {"enter", "update", "entering"} /\ job'[q].entry.status = "success"
                    => Wrapped(job[q].key)'
               /\ job'[q].step \in {"update", "entering"} => AllWrapped(job[q].read)'
    <3>1. CASE q = p
      BY <1>2, <2>3, <2>5, <3>1
    <3>2. CASE q # p
      BY <1>3, <2>1, <3>2
    <3> QED  BY <3>1, <3>2
  <2> QED  BY <1>5, <2>2, <2>6 DEF EntriesInv, Updates
<1>7. CASE /\ job[p].step = "update" /\ job[p].key \in Keys
           /\ j.step = "entering" /\ j.key = job[p].key /\ j.entry = job[p].entry
           /\ j.read = job[p].read
           /\ files' = [files EXCEPT ![Manifest] = Torn]
  <2>1. /\ files'[Config] = files[Config] /\ files'[Manifest] = Torn
        /\ \A k \in Keys : Wrapped(k) => Wrapped(k)'
    BY <1>7, FileMovesLeave, NamesDiffer, ContentsDiffer
  <2>2. ~IsWhole(Manifest)'
    BY <2>1, ContentsDiffer DEF IsWhole
  <2>3. ASSUME j.entry.status = "success" PROVE Wrapped(job[p].key)'
    <3>1. files[WrapperOf(job[p].key)] # Absent
      BY <1>7, <2>3 DEF EntriesInv, Wrapped
    <3>2. files'[WrapperOf(job[p].key)] # Absent
      BY <1>7, <2>1, <3>1 DEF Wrapped
    <3> QED  BY <1>2, <1>7, <3>2 DEF Wrapped
  <2>4. j.read \in Manifests /\ AllWrapped(j.read)
    BY <1>7, JobsAre DEF EntriesInv, Updates, FilesInv, JobSteps
  <2>5. AllWrapped(job[p].read)'
    <3>1. job[p].read' = j.read
      BY <1>2
    <3> QED  BY <2>1, <2>4, <3>1, ManifestKeys DEF AllWrapped
  <2>6. ASSUME NEW q \in Processes
        PROVE  /\ job'[q].step \in {"enter", "update", "entering"} /\ job'[q].entry.status = "success"
                    => Wrapped(job[q].key)'
               /\ job'[q].step \in {"update", "entering"} => AllWrapped(job[q].read)'
    <3>1. CASE q = p
      BY <1>2, <2>3, <2>5, <3>1
    <3>2. CASE q # p
      BY <1>3, <2>1, <3>2
    <3> QED  BY <3>1, <3>2
  <2> QED  BY <2>1, <2>2, <2>6 DEF EntriesInv, Updates
<1>6. CASE /\ job[p].step = "entering" /\ j.step = "ended"
           /\ \E c \in {Torn, Whole(WithEntry(p))} : files' = [files EXCEPT ![Manifest] = c]
  <2> DEFINE m == WithEntry(p)
  <2>1. PICK c \in {Torn, Whole(m)} : files' = [files EXCEPT ![Manifest] = c]
    BY <1>6
  <2>2. /\ files'[Config] = files[Config] /\ files'[Manifest] = c
        /\ \A k \in Keys : Wrapped(k) => Wrapped(k)'
    BY <2>1, FileMovesLeave, NamesDiffer, ContentsDiffer
  <2>3. job[p].read \in Manifests /\ job[p].key \in Keys
    BY <1>6, JobsAre DEF FilesInv, JobSteps
  <2>4. m \in Manifests /\ AllWrapped(m)
    <3>1. m \in Manifests
      BY <1>6, ManifestsRead DEF JobSteps
    <3>2. AllWrapped(job[p].read) /\ (job[p].entry.status = "success" => Wrapped(job[p].key))
      BY <1>6 DEF EntriesInv, Updates
    <3> QED  BY <3>1, <3>2 DEF AllWrapped, WithEntry
  <2> HIDE DEF m
  <2>5. IsWhole(Manifest)' => AllWrapped(files[Manifest].data)'
    <3> SUFFICES ASSUME IsWhole(Manifest)' PROVE AllWrapped(files[Manifest].data)'
      OBVIOUS
    <3>1. files[Manifest].data' = m
      BY <2>2, ContentsDiffer DEF IsWhole
    <3>2. \A k \in DOMAIN m : k \in Keys /\ (m[k].status = "success" => Wrapped(k))
      BY <2>4, ManifestKeys DEF AllWrapped
    <3>3. \A k \in DOMAIN m : m[k].status = "success" => Wrapped(k)'
      BY <3>2, <2>2
    <3> QED  BY <3>1, <3>3 DEF AllWrapped
  <2>6. ASSUME NEW q \in Processes
        PROVE  /\ job'[q].step \in {"enter", "update", "entering"} /\ job'[q].entry.status = "success"
                    => Wrapped(job[q].key)'
               /\ job'[q].step \in {"update", "entering"} => AllWrapped(job[q].read)'
    <3>1. CASE q = p
      BY <1>2, <1>6, <3>1
    <3>2. CASE q # p
      BY <1>3, <2>2, <3>2
    <3> QED  BY <3>1, <3>2
  <2> QED  BY <2>2, <2>5, <2>6 DEF EntriesInv, Updates
<1> QED  BY <1>1, <1>4, <1>5, <1>6, <1>7

\* Two processes that are updating the manifest at once have collided.
LEMMA TwoCollide ==
    ASSUME Remember, NEW p \in Processes, NEW q \in Processes, p # q,
           Updates(p)', Updates(q)'
    PROVE  collided'
<1> DEFINE U == {r \in Processes : Updates(r)'}
<1>1. IsFiniteSet(U) /\ IsFiniteSet({p, q})
  BY FilesAssumption, FS_Subset, FS_EmptySet, FS_AddElement
<1>2. Cardinality({p, q}) = 2
  <2>1. Cardinality({p}) = 1 /\ IsFiniteSet({p})
    BY FS_Singleton
  <2>2. Cardinality({p} \cup {q}) = Cardinality({p}) + 1
    BY <2>1, FS_AddElement
  <2>3. {p} \cup {q} = {p, q}
    OBVIOUS
  <2> QED  BY <2>1, <2>2, <2>3
<1>3. {p, q} \subseteq U
  OBVIOUS
<1>4. Cardinality({p, q}) <= Cardinality(U)
  BY <1>1, <1>3, FS_Subset
<1>5. Cardinality(U) \in Nat
  BY <1>1, FS_CardinalityType
<1>6. Updating' = U
  BY DEF Updating, Updates, JobAt
<1> HIDE DEF U
<1>7. Cardinality(Updating') > 1
  BY <1>2, <1>4, <1>5, <1>6
<1> QED  BY <1>7 DEF Remember

\* What Remember keeps of the manifest.
LEMMA RememberAdds ==
    ASSUME Remember
    PROVE  /\ IsWhole(Manifest)' => entered' = entered \cup DOMAIN files'[Manifest].data
           /\ ~IsWhole(Manifest)' => entered' = entered
           /\ collided => collided'
           /\ original' = original
BY DEF Remember

\* A step that leaves the manifest alone, and lets nobody read it for an update.
LEMMA ManifestUntouched ==
    ASSUME FilesInv, ManifestInv, Remember, files'[Manifest] = files[Manifest],
           \A p \in Processes : Updates(p)' => Updates(p) /\ job'[p].read = job[p].read
    PROVE  ManifestInv'
<1>1. IsWhole(Manifest)' <=> IsWhole(Manifest)
  BY DEF IsWhole
<1>2. \A p, q \in Processes : Updates(p)' /\ Updates(q)' /\ p # q => collided'
  BY TwoCollide
<1>3. entered' = entered
  BY <1>1, RememberAdds DEF ManifestInv
<1>4. ASSUME ~collided', NEW p \in Processes, Updates(p)'
      PROVE  entered' \subseteq DOMAIN job'[p].read
  BY <1>3, <1>4, RememberAdds DEF ManifestInv
<1>5. ~collided' => ~collided
  BY RememberAdds
<1>6. files'[Manifest].data = files[Manifest].data
  OBVIOUS
<1> QED  BY <1>1, <1>2, <1>3, <1>4, <1>5, <1>6 DEF ManifestInv

\* A write of a wrapper or of the manifest loses no entry as long as it is alone.
LEMMA FileMovesManifest ==
    ASSUME FilesInv, WriterInv, ManifestInv, Remember, NEW p \in Processes, FileMoves(p),
           ~(p = W /\ wizard = "writingConfig"), entered \subseteq Keys
    PROVE  ManifestInv'
<1>1. PICK j \in Jobs :
         /\ SetJob(p, j)
         /\ \/ /\ job[p].key \in Keys /\ j.key = job[p].key
               /\ j.step \in {"writing", "enter"}
               /\ \E c \in {Torn, Whole(Code)} :
                     files' = [files EXCEPT ![WrapperOf(job[p].key)] = c]
            \/ /\ job[p].step = "enter" /\ job[p].key \in Keys
               /\ j.step = "update" /\ j.key = job[p].key /\ j.entry = job[p].entry
               /\ j.read \in ReadManifest(p)
               /\ UNCHANGED files
            \/ /\ job[p].step = "update" /\ job[p].key \in Keys
               /\ j.step = "entering" /\ j.key = job[p].key /\ j.entry = job[p].entry
               /\ j.read = job[p].read
               /\ files' = [files EXCEPT ![Manifest] = Torn]
            \/ /\ job[p].step = "entering" /\ j.step = "ended"
               /\ \E c \in {Torn, Whole(WithEntry(p))} :
                     files' = [files EXCEPT ![Manifest] = c]
  BY FileMovesAre
<1>2. job'[p] = j /\ \A q \in Processes \ {p} : job'[q] = job[q]
  BY <1>1 DEF SetJob, FilesInv
<1>3. \A q, r \in Processes : Updates(q)' /\ Updates(r)' /\ q # r => collided'
  BY TwoCollide
<1>8. ASSUME NEW q \in Processes \ {p}, Updates(q)' PROVE Updates(q) /\ job'[q].read = job[q].read
  BY <1>2, <1>8 DEF Updates
<1>4. CASE /\ job[p].key \in Keys /\ j.key = job[p].key
           /\ j.step \in {"writing", "enter"}
           /\ \E c \in {Torn, Whole(Code)} : files' = [files EXCEPT ![WrapperOf(job[p].key)] = c]
  <2>1. files'[Manifest] = files[Manifest]
    BY <1>4, NamesDiffer DEF FilesInv
  <2>2. ~Updates(p)'
    BY <1>2, <1>4 DEF Updates
  <2>3. \A q \in Processes : Updates(q)' => Updates(q) /\ job'[q].read = job[q].read
    BY <1>8, <2>2
  <2> QED  BY <2>1, <2>3, ManifestUntouched
<1>5. CASE /\ job[p].step = "enter" /\ job[p].key \in Keys
           /\ j.step = "update" /\ j.key = job[p].key /\ j.entry = job[p].entry
           /\ j.read \in ReadManifest(p)
           /\ UNCHANGED files
  <2>1. entered' = entered /\ (IsWhole(Manifest)' <=> IsWhole(Manifest))
    BY <1>5, RememberAdds DEF ManifestInv, IsWhole
  <2>2. ASSUME ~collided' PROVE entered \subseteq DOMAIN j.read
    <3>1. ~collided
      BY <2>2, RememberAdds
    <3>2. CASE files[Manifest] = Absent
      BY <3>1, <3>2 DEF ManifestInv
    <3>3. CASE IsWhole(Manifest) /\ files[Manifest] # Absent
      BY <3>1, <3>3, <1>5 DEF ManifestInv, ReadManifest
    <3> QED  BY <3>2, <3>3, <1>5 DEF ReadManifest
  <2>3. ASSUME ~collided', NEW q \in Processes, Updates(q)' PROVE entered' \subseteq DOMAIN job'[q].read
    <3>1. Updates(p)'
      BY <1>2, <1>5 DEF Updates
    <3>2. q = p
      BY <1>3, <2>3, <3>1
    <3> QED  BY <1>2, <2>1, <2>2, <2>3, <3>2
  <2>4. ~collided' => ~collided
    BY RememberAdds
  <2>5. files' = files
    BY <1>5
  <2> QED  BY <1>3, <2>1, <2>3, <2>4, <2>5 DEF ManifestInv
<1>7. CASE /\ job[p].step = "update" /\ job[p].key \in Keys
           /\ j.step = "entering" /\ j.key = job[p].key /\ j.entry = job[p].entry
           /\ j.read = job[p].read
           /\ files' = [files EXCEPT ![Manifest] = Torn]
  <2>1. files'[Manifest] = Torn /\ ~IsWhole(Manifest)'
    BY <1>7, NamesDiffer, ContentsDiffer DEF FilesInv, IsWhole
  <2>2. entered' = entered
    BY <2>1, RememberAdds
  <2>3. Updates(p) /\ Updates(p)'
    BY <1>2, <1>7 DEF Updates
  <2>4. ASSUME ~collided', NEW q \in Processes, Updates(q)' PROVE entered' \subseteq DOMAIN job'[q].read
    <3>1. q = p
      BY <1>3, <2>3, <2>4
    <3>2. entered \subseteq DOMAIN job[p].read
      BY <2>3, <2>4, RememberAdds DEF ManifestInv
    <3> QED  BY <1>2, <1>7, <2>2, <3>1, <3>2
  <2> QED  BY <1>3, <2>1, <2>4, ContentsDiffer DEF ManifestInv
<1>6. CASE /\ job[p].step = "entering" /\ j.step = "ended"
           /\ \E c \in {Torn, Whole(WithEntry(p))} : files' = [files EXCEPT ![Manifest] = c]
  <2> DEFINE m == WithEntry(p)
  <2>1. PICK c \in {Torn, Whole(m)} : files' = [files EXCEPT ![Manifest] = c]
    BY <1>6
  <2>2. files'[Manifest] = c /\ c # Absent
    BY <2>1, NamesDiffer, ContentsDiffer DEF FilesInv
  <2>3. DOMAIN job[p].read \subseteq DOMAIN m
    BY <1>6, ManifestsRead DEF JobSteps
  <2> HIDE DEF m
  <2>4. ASSUME ~collided' PROVE entered \subseteq DOMAIN job[p].read
    BY <1>6, <2>4, RememberAdds DEF ManifestInv, Updates
  <2>5. ASSUME IsWhole(Manifest)'
        PROVE  /\ DOMAIN files'[Manifest].data \subseteq entered'
               /\ ~collided' => entered' \subseteq DOMAIN files'[Manifest].data
    <3>1. files'[Manifest].data = m
      BY <2>2, <2>5, ContentsDiffer DEF IsWhole
    <3> QED  BY <2>3, <2>4, <2>5, <3>1, RememberAdds
  <2>6. ASSUME ~collided', NEW q \in Processes, Updates(q)' PROVE FALSE
    <3>1. q # p /\ Updates(q) /\ Updates(p)
      BY <1>2, <1>6, <1>8, <2>6 DEF Updates
    <3>2. collided
      BY <3>1 DEF ManifestInv
    <3> QED  BY <2>6, <3>2, RememberAdds
  <2> QED  BY <1>3, <2>2, <2>5, <2>6 DEF ManifestInv
<1> QED  BY <1>1, <1>4, <1>5, <1>6, <1>7

-------------------------------------------------------------------------------
(* All about files and jobs together *)

FileRules == FilesInv /\ WriterInv /\ EntriesInv /\ ManifestInv

\* A step of a process that generates, of one that ends its job, or of one that dies.
LEMMA GeneratorKeeps ==
    ASSUME FileRules, Remember, entered \subseteq Keys, NEW p \in Processes,
           JobMoves(p) \/ WriteStops(p) \/ FileMoves(p),
           p # W => wizard' = wizard,
           p = W => wizard' # "writingConfig",
           p = W /\ wizard = "writingConfig" => WriteStops(p)
    PROVE  /\ FileRules'
           /\ files'[Config] = files[Config]
           /\ \A q \in Processes \ {p} : job'[q] = job[q]
<1>1. CASE FileMoves(p) /\ ~(p = W /\ wizard = "writingConfig")
  <2>1. wizard = "writingConfig" <=> wizard' = "writingConfig"
    BY <1>1 
  <2>2. FilesInv' /\ WriterInv'
    BY <1>1, <2>1, FileMovesKeep DEF FileRules
  <2>3. EntriesInv' /\ files'[Config] = files[Config]
    BY <1>1, FileMovesEntries DEF FileRules
  <2>4. ManifestInv'
    BY <1>1, FileMovesManifest DEF FileRules
  <2>5. \A q \in Processes \ {p} : job'[q] = job[q]
    BY <1>1, FileMovesAre DEF FileRules, SetJob, FilesInv
  <2> QED  BY <2>2, <2>3, <2>4, <2>5 DEF FileRules
<1>2. CASE JobMoves(p) \/ WriteStops(p)
  <2>1. PICK j \in Jobs :
          /\ SetJob(p, j)
          /\ j.step \notin {"writing", "update", "entering"}
          /\ j.step = "enter" => j.entry = Failure
    BY <1>2 DEF JobMoves, WriteStops
  <2>2. UNCHANGED files
    BY <1>2 DEF JobMoves, WriteStops, FailWrite, fileVars
  <2>3. job'[p] = j /\ \A q \in Processes \ {p} : job'[q] = job[q]
    BY <2>1 DEF FileRules, FilesInv, SetJob
  <2>4. FilesInv' /\ WriterInv'
    <3>1. CASE WriteStops(p)
      BY <3>1, WriteStopsKeeps DEF FileRules
    <3>2. CASE JobMoves(p) /\ ~WriteStops(p)
      BY <3>2, JobMovesKeep DEF FileRules
    <3> QED  BY <1>2, <3>1, <3>2
  <2>5. \A k \in Keys : Wrapped(k) => Wrapped(k)'
    BY <2>2 DEF Wrapped
  <2>6. EntriesInv'
    BY <2>1, <2>2, <2>3, <2>5, EntriesUntouched DEF FileRules
  <2>7. ManifestInv'
    BY <2>1, <2>2, <2>3, ManifestUntouched DEF FileRules, Updates
  <2> QED  BY <2>2, <2>3, <2>4, <2>6, <2>7 DEF FileRules
<1> QED  BY <1>1, <1>2

\* A step that has nothing to do with generated files.
LEMMA OthersKeep ==
    ASSUME FileRules, Remember, UNCHANGED job,
           \/ UNCHANGED fileVars /\ (wizard = "writingConfig" <=> wizard' = "writingConfig")
           \/ /\ W \in Processes /\ job[W] = Idle /\ configRead \in Configurations
              /\ \/ BeginWrite(W, Config) /\ wizard' = "writingConfig"
                 \/ /\ EndWrite(W, configRead) \/ FailWrite(W)
                    /\ wizard = "writingConfig" /\ wizard' # "writingConfig"
    PROVE  FileRules'
<1>1. /\ FilesInv' /\ WriterInv' /\ files'[Manifest] = files[Manifest]
      /\ \A k \in Keys : files'[WrapperOf(k)] = files[WrapperOf(k)]
  <2>1. CASE UNCHANGED fileVars /\ (wizard = "writingConfig" <=> wizard' = "writingConfig")
    <3>1. UNCHANGED <<files, writing>>
      BY <2>1 DEF fileVars
    <3>2. FilesInv'
      BY <3>1 DEF FileRules, FilesInv
    <3>3. \A p \in Processes : FileOf(p)' = FileOf(p)
      BY <2>1 DEF FileOf, JobAt
    <3> QED  BY <3>1, <3>2, <3>3 DEF FileRules, WriterInv
  <2>2. CASE ~(UNCHANGED fileVars /\ (wizard = "writingConfig" <=> wizard' = "writingConfig"))
    BY <2>2, ConfigMovesKeep DEF FileRules
  <2> QED  BY <2>1, <2>2
<1>2. \A k \in Keys : Wrapped(k) => Wrapped(k)'
  BY <1>1 DEF Wrapped
<1>3. EntriesInv'
  BY <1>1, <1>2, EntriesUntouched DEF FileRules
<1>4. ManifestInv'
  BY <1>1, ManifestUntouched DEF FileRules, Updates
<1> QED  BY <1>1, <1>3, <1>4 DEF FileRules

-------------------------------------------------------------------------------
(* The wizard *)

\* On the way from the backup to the end of the write, what was there is in a backup.
ConfigInv ==
    /\ SettingsRecoverable
    /\ wizard = "writeConfig" /\ IsWhole(Config) => files[Config].data \in backups
    /\ wizard = "writingConfig" => ~IsWhole(Config)

WizardRules == WizardTypes /\ LockInv

\* The steps of the wizard that touch no file of these, and no job.
WizardQuiet ==
    \/ Start
    \/ \E yes \in BOOLEAN :
          \/ RunBootstrap(yes) \/ AcquireLock(yes) \/ SelectTools(yes)
          \/ AskConfigQuestions(yes) \/ AskSampling(yes) \/ BackUpConfig(yes)
          \/ SelectMCPServers(yes)
    \/ \E mode \in {"keep", "merge", "reset", "cancel"} : PromptConfigUpdate(mode)
    \/ ReadConfig
    \/ \E found \in {"some", "none", "outside"} : DiscoverServers(found)
    \/ SelectLanguagePerMCP
    \/ \E choice \in {"missing", "force", "skip"} : PromptWrapperRegeneration(choice)
    \/ AllGenerated \/ ConfigureDailySync \/ Release

\* A configuration that was read or backed up is one.
LEMMA ConfigurationsAre ==
    ASSUME FilesInv
    PROVE  /\ Readable \subseteq Configurations
           /\ IsWhole(Config) => files[Config].data \in Configurations
           /\ \A c \in Configurations : c \cup {Ours} \in Configurations
           /\ {} \in Configurations
<1>1. IsWhole(Config) => files[Config].data \in Configurations
  BY HeldIs DEF FilesInv, IsWhole
<1>2. {} \in Configurations /\ \A c \in Configurations : c \cup {Ours} \in Configurations
  BY DEF Configurations
<1> QED  BY <1>1, <1>2 DEF Readable

\* The lists of tasks are sequences of wrappers.
LEMMA TaskListsAre ==
    ASSUME NEW list \in TaskLists
    PROVE  list \in Seq(Keys)
BY DEF TaskLists

\* Each of the wizard's quiet steps goes its way, from the lock to the release.
LEMMA WizardQuietKeeps ==
    ASSUME FilesInv, WizardRules, WizardQuiet
    PROVE  /\ WizardRules'
           /\ UNCHANGED <<fileVars, job>>
           /\ wizard \notin {"writingConfig", "generating", "writeConfig"}
           /\ wizard' \notin {"writingConfig", "generating"}
           /\ backups \subseteq backups'
           /\ wizard' = "writeConfig" /\ IsWhole(Config) => files[Config].data \in backups'
<1> USE DEF WizardRules, WizardTypes, LockInv, Protected, Step, Leave, filesAndJobs
<1> DEFINE G == /\ WizardRules'
                /\ UNCHANGED <<fileVars, job>>
                /\ wizard \notin {"writingConfig", "generating", "writeConfig"}
                /\ wizard' \notin {"writingConfig", "generating"}
                /\ backups \subseteq backups'
                /\ wizard' = "writeConfig" /\ IsWhole(Config) => files[Config].data \in backups'
<1>1. CASE Start
  BY <1>1 DEF Start
<1>2. ASSUME NEW yes \in BOOLEAN, RunBootstrap(yes) PROVE G
  BY <1>2 DEF RunBootstrap
<1>3. ASSUME NEW yes \in BOOLEAN, AcquireLock(yes) PROVE G
  BY <1>3 DEF AcquireLock
<1>4. ASSUME NEW yes \in BOOLEAN, SelectTools(yes) PROVE G
  BY <1>4 DEF SelectTools
<1>5. ASSUME NEW yes \in BOOLEAN, AskConfigQuestions(yes) PROVE G
  BY <1>5 DEF AskConfigQuestions
<1>6. ASSUME NEW yes \in BOOLEAN, AskSampling(yes) PROVE G
  BY <1>6 DEF AskSampling
<1>7. ASSUME NEW yes \in BOOLEAN, BackUpConfig(yes) PROVE G
  <2>1. backups \subseteq WithBackup /\ WithBackup \subseteq Configurations
        /\ (IsWhole(Config) => files[Config].data \in WithBackup)
    BY ConfigurationsAre DEF WithBackup
  <2> QED  BY <1>7, <2>1 DEF BackUpConfig
<1>8. ASSUME NEW yes \in BOOLEAN, SelectMCPServers(yes) PROVE G
  BY <1>8 DEF SelectMCPServers
<1>9. ASSUME NEW mode, PromptConfigUpdate(mode) PROVE G
  BY <1>9 DEF PromptConfigUpdate
<1>10. CASE ReadConfig
  <2>1. configRead' \in Configurations
    BY <1>10, ConfigurationsAre DEF ReadConfig
  <2> QED  BY <1>10, <2>1 DEF ReadConfig
<1>11. ASSUME NEW found, DiscoverServers(found) PROVE G
  BY <1>11 DEF DiscoverServers
<1>12. CASE SelectLanguagePerMCP
  <2>1. tasks' \in Seq(Keys)
    BY <1>12, TaskListsAre DEF SelectLanguagePerMCP
  <2> QED  BY <1>12, <2>1 DEF SelectLanguagePerMCP
<1>13. ASSUME NEW choice \in {"missing", "force", "skip"}, PromptWrapperRegeneration(choice) PROVE G
  <2>1. <<>> \in Seq(Keys)
    OBVIOUS
  <2> QED  BY <1>13, <2>1 DEF PromptWrapperRegeneration
<1>14. CASE AllGenerated
  BY <1>14 DEF AllGenerated
<1>15. CASE ConfigureDailySync
  BY <1>15 DEF ConfigureDailySync
<1>16. CASE Release
  BY <1>16, ConfigurationsAre DEF Release, ReleasedLock
<1> HIDE DEF G
<1>17. G
  <2>1. CASE Start \/ ReadConfig \/ SelectLanguagePerMCP \/ AllGenerated \/ ConfigureDailySync \/ Release
    BY <2>1, <1>1, <1>10, <1>12, <1>14, <1>15, <1>16 DEF G
  <2>2. ASSUME NEW yes \in BOOLEAN,
               \/ RunBootstrap(yes) \/ AcquireLock(yes) \/ SelectTools(yes)
               \/ AskConfigQuestions(yes) \/ AskSampling(yes) \/ BackUpConfig(yes)
               \/ SelectMCPServers(yes)
        PROVE  G
    BY <2>2, <1>2, <1>3, <1>4, <1>5, <1>6, <1>7, <1>8
  <2> QED  BY <2>1, <2>2, <1>9, <1>11, <1>13 DEF WizardQuiet
<1> QED  BY <1>17 DEF G

\* The tools that a generator is called with.
LEMMA BeginMoves ==
    ASSUME FilesInv, NEW p \in Processes, NEW key \in Keys, NEW tools \in ToolLists,
           NEW option \in {"missing", "force"}, Begin(p, key, tools, option), UNCHANGED fileVars
    PROVE  JobMoves(p)
<1> DEFINE j == [step |-> "begun", key |-> key, option |-> option,
                 entry |-> Success(tools), read |-> EmptyManifest]
<1>1. j \in Jobs /\ j.step = "begun"
  BY EntriesAre, JobsAre DEF Jobs, JobSteps
<1>2. SetJob(p, j) /\ job[p].step = "idle"
  BY JobsAre DEF Begin
<1> HIDE DEF j
<1> QED  BY <1>1, <1>2 DEF JobMoves

\* A process that goes on after its job has ended, and one that dies in any.
LEMMA JobIsLeft ==
    ASSUME FilesInv, NEW p \in Processes, job' = [job EXCEPT ![p] = Idle]
    PROVE  /\ job[p].step = "ended" /\ UNCHANGED fileVars => JobMoves(p)
           /\ FailWrite(p) => WriteStops(p)
           /\ job'[p] = Idle
<1>1. SetJob(p, Idle) /\ Idle \in Jobs /\ Idle.step = "idle"
  BY JobsAre DEF SetJob
<1>2. job'[p] = Idle
  BY DEF FilesInv
<1> QED  BY <1>1, <1>2 DEF JobMoves, WriteStops

\* The wizard's steps that generate a wrapper, or die.
WizardWorks == FetchTools \/ WizardGenerates \/ TaskEnds \/ WizardDies

\* They go on with a task, or the next one; and without the wizard there is no job of it.
LEMMA WizardWorksKeeps ==
    ASSUME FilesInv, WizardRules, W \in Processes, WizardWorks,
           wizard # "generating" => job[W] = Idle
    PROVE  /\ WizardRules'
           /\ JobMoves(W) \/ WriteStops(W) \/ FileMoves(W)
           /\ wizard' \notin {"writingConfig", "writeConfig"}
           /\ wizard = "writingConfig" => WriteStops(W)
           /\ wizard' # "generating" => job'[W] = Idle
           /\ UNCHANGED backups
<1>1. CASE FetchTools
  <2>1. PICK version \in NoTools..MaxVersion :
          Begin(W, Head(tasks), [version |-> version, parameters |-> TRUE], regenOption)
    BY <1>1 DEF FetchTools
  <2>2. Head(tasks) \in Keys
    BY <1>1 DEF FetchTools, WizardRules, WizardTypes
  <2>3. [version |-> version, parameters |-> TRUE] \in ToolLists
    BY DEF ToolLists
  <2>4. JobMoves(W)
    BY <1>1, <2>1, <2>2, <2>3, BeginMoves DEF FetchTools, WizardRules, WizardTypes
  <2> QED  BY <1>1, <2>4 DEF FetchTools, Step, WizardRules, WizardTypes, LockInv, Protected
<1>2. CASE WizardGenerates
  <2>1. JobMoves(W) \/ WriteStops(W) \/ FileMoves(W)
    BY <1>2, GeneratesMoves DEF WizardGenerates, FilesInv
  <2>2. UNCHANGED <<wizard, setupLock, backups, configRead, tasks, regenOption>>
    BY <1>2 DEF WizardGenerates, wizardVars
  <2> QED  BY <1>2, <2>1, <2>2 DEF WizardGenerates, WizardRules, WizardTypes, LockInv
<1>3. CASE TaskEnds
  <2>1. JobMoves(W) /\ job'[W] = Idle
    BY <1>3, JobIsLeft DEF TaskEnds
  <2>2. tasks' \in Seq(Keys)
    <3>1. tasks \in Seq(Keys) /\ tasks # <<>> /\ tasks' = Tail(tasks)
      BY <1>3 DEF TaskEnds, TasksLeft, Step, WizardRules, WizardTypes
    <3> QED  BY <3>1
  <2> QED  BY <1>3, <2>1, <2>2 DEF TaskEnds, Step, WizardRules, WizardTypes, LockInv, Protected
<1>4. CASE WizardDies
  <2>1. WriteStops(W) /\ job'[W] = Idle
    BY <1>4, JobIsLeft DEF WizardDies
  <2>2. {} \in Configurations /\ <<>> \in Seq(Keys)
    BY ConfigurationsAre
  <2> QED  BY <1>4, <2>1, <2>2 DEF WizardDies, WizardRules, WizardTypes, LockInv, Protected
<1> QED  BY <1>1, <1>2, <1>3, <1>4 DEF WizardWorks

\* The wizard's steps that write the configuration.
WizardConfigures == BeginConfig \/ EndConfig \/ ConfigFails

\* They go on to it, and from it.
LEMMA WizardConfiguresKeeps ==
    ASSUME WizardRules, WizardConfigures
    PROVE  /\ WizardRules' /\ UNCHANGED <<job, backups>>
           /\ wizard # "generating" /\ wizard' # "generating"
           /\ wizard' # "writeConfig"
           /\ \/ wizard = "writeConfig" /\ BeginWrite(W, Config) /\ wizard' = "writingConfig"
              \/ /\ EndWrite(W, configRead) \/ FailWrite(W)
                 /\ wizard = "writingConfig" /\ wizard' # "writingConfig"
BY DEF WizardConfigures, BeginConfig, EndConfig, ConfigFails, Step, Leave, WizardRules,
       WizardTypes, LockInv, Protected

\* Each step of the wizard is of one of these kinds.
LEMMA WizardStepsAre ==
    ASSUME Start \/ WizardGoesOn \/ WizardDies
    PROVE  WizardQuiet \/ WizardWorks \/ WizardConfigures
BY DEF WizardGoesOn, WizardQuiet, WizardWorks, WizardConfigures

\* What keeps the configuration and adds to the backups keeps what was there recoverable.
LEMMA ConfigUntouched ==
    ASSUME ConfigInv, files'[Config] = files[Config], original' = original,
           backups \subseteq backups',
           wizard' = "writeConfig" /\ IsWhole(Config) => files[Config].data \in backups',
           wizard' = "writingConfig" => wizard = "writingConfig"
    PROVE  ConfigInv'
<1>1. IsWhole(Config)' <=> IsWhole(Config)
  BY DEF IsWhole
<1>2. SettingsRecoverable'
  BY <1>1 DEF SettingsRecoverable, ConfigInv
<1> QED  BY <1>1, <1>2 DEF ConfigInv

\* While the configuration is written, what was there is in a backup.
LEMMA ConfigWritten ==
    ASSUME FilesInv, WriterInv, ConfigInv, W \in Processes, UNCHANGED <<original, backups>>,
           wizard' # "writeConfig",
           \/ wizard = "writeConfig" /\ BeginWrite(W, Config) /\ wizard' = "writingConfig"
           \/ /\ EndWrite(W, configRead) \/ FailWrite(W)
              /\ wizard = "writingConfig" /\ wizard' # "writingConfig"
    PROVE  ConfigInv'
<1>1. original # Absent /\ original # Torn => \E b \in backups : Theirs \in b
  BY DEF ConfigInv, SettingsRecoverable
<1>2. SettingsRecoverable'
  BY <1>1 DEF SettingsRecoverable
<1>3. wizard' = "writingConfig" => ~IsWhole(Config)'
  <2> SUFFICES ASSUME wizard' = "writingConfig" PROVE ~IsWhole(Config)'
    OBVIOUS
  <2>1. files' = [files EXCEPT ![Config] = Torn]
    BY DEF BeginWrite
  <2>2. files'[Config] = Torn
    BY <2>1, NamesDiffer DEF FilesInv
  <2> QED  BY <2>2, ContentsDiffer DEF IsWhole
<1> QED  BY <1>2, <1>3 DEF ConfigInv

-------------------------------------------------------------------------------
(* The daily sync *)

SyncTypes ==
    /\ sync \in {"off", "read", "compare", "regenerating", "finish"}
    /\ sees \in [Servers -> NoTools..MaxVersion]
    /\ DOMAIN todo \subseteq Keys

\* The tools that the sync lists, in the form in which it has them.
LEMMA ListedAre ==
    ASSUME SyncTypes, NEW server \in Servers, NEW tools \in Listed(server)
    PROVE  tools \in ToolLists /\ ToCLI(tools) \in ToolLists
<1>1. sees[server] \in NoTools..MaxVersion /\ NoTools \in NoTools..MaxVersion
  BY GeneratorAssumption DEF SyncTypes, NoTools
<1>2. tools \in ToolLists
  <2>1. PICK v \in {sees[server], NoTools} : tools = [version |-> v, parameters |-> TRUE]
    BY DEF Listed
  <2>2. v \in NoTools..MaxVersion
    BY <1>1
  <2> QED  BY <2>1, <2>2 DEF ToolLists
<1>3. (tools.version = NoTools) \in BOOLEAN
  OBVIOUS
<1> QED  BY <1>2, <1>3 DEF ToCLI, ToolLists

\* The process that is gone knows nothing.
LEMMA GoneIs ==
    ASSUME Gone
    PROVE  SyncTypes' /\ sync' = "off"
<1>1. NoServerSeen \in [Servers -> NoTools..MaxVersion]
  BY GeneratorAssumption DEF NoServerSeen, NoTools
<1>2. DOMAIN EmptyManifest \subseteq Keys
  BY DEF EmptyManifest
<1> QED  BY <1>1, <1>2 DEF Gone, SyncTypes

\* The steps of the sync that touch no file and no job, and those that do.
SyncQuiet ==
    \/ StartSync \/ ReadManifestForSync \/ AllCompared \/ FinishSync
    \/ \E k \in DOMAIN todo : SyncUnchanged(k)

SyncWorks ==
    \/ SyncGenerates \/ RegenerationEnds \/ SyncDies
    \/ \E k \in DOMAIN todo : Regenerate(k)

\* Each step of the sync is of one of these kinds.
LEMMA SyncStepsAre ==
    ASSUME StartSync \/ SyncGoesOn \/ SyncDies
    PROVE  SyncQuiet \/ SyncWorks
BY DEF SyncGoesOn, SyncQuiet, SyncWorks

\* The sync reads what there is to do, and goes on.
LEMMA SyncQuietKeeps ==
    ASSUME FilesInv, SyncTypes, SyncQuiet
    PROVE  SyncTypes' /\ UNCHANGED <<fileVars, job>>
           /\ sync # "regenerating" /\ sync' # "regenerating"
<1>1. CASE StartSync
  BY <1>1 DEF StartSync, SyncTypes
<1>2. CASE ReadManifestForSync
  <2>1. IsWhole(Manifest) => DOMAIN files[Manifest].data \subseteq Keys
    BY HeldIs, ManifestKeys DEF FilesInv, IsWhole
  <2> QED  BY <1>2, <2>1 DEF ReadManifestForSync, SyncTypes
<1>3. CASE AllCompared
  BY <1>3 DEF AllCompared, SyncTypes
<1>4. CASE FinishSync
  BY <1>4, GoneIs DEF FinishSync
<1>5. ASSUME NEW k \in DOMAIN todo, SyncUnchanged(k)
      PROVE  SyncTypes' /\ UNCHANGED <<fileVars, job>>
             /\ sync # "regenerating" /\ sync' # "regenerating"
  BY <1>5 DEF SyncUnchanged, NextEntry, SyncTypes, Without
<1> QED  BY <1>1, <1>2, <1>3, <1>4, <1>5 DEF SyncQuiet

\* The sync generates a wrapper, or dies.
LEMMA SyncWorksKeeps ==
    ASSUME FilesInv, SyncTypes, S \in Processes, SyncWorks,
           sync # "regenerating" => job[S] = Idle
    PROVE  /\ SyncTypes'
           /\ JobMoves(S) \/ WriteStops(S) \/ FileMoves(S)
           /\ sync' # "regenerating" => job'[S] = Idle
<1>1. CASE SyncGenerates
  <2>1. JobMoves(S) \/ WriteStops(S) \/ FileMoves(S)
    BY <1>1, GeneratesMoves DEF SyncGenerates, FilesInv
  <2>2. UNCHANGED <<sync, sees, todo>> /\ sync = "regenerating"
    BY <1>1 DEF SyncGenerates, syncVars
  <2> QED  BY <2>1, <2>2 DEF SyncTypes
<1>2. CASE RegenerationEnds
  <2>1. JobMoves(S) /\ job'[S] = Idle
    BY <1>2, JobIsLeft DEF RegenerationEnds
  <2> QED  BY <1>2, <2>1 DEF RegenerationEnds, SyncTypes, Without
<1>3. CASE SyncDies
  <2>1. WriteStops(S) /\ job'[S] = Idle
    BY <1>3, JobIsLeft DEF SyncDies
  <2> QED  BY <1>3, <2>1, GoneIs DEF SyncDies
<1>4. ASSUME NEW k \in DOMAIN todo, Regenerate(k)
      PROVE  JobMoves(S) /\ SyncTypes' /\ sync' = "regenerating"
  <2>1. PICK tools \in Listed(k.server) : Begin(S, k, ToCLI(tools), "force")
    BY <1>4 DEF Regenerate
  <2>2. k \in Keys
    BY DEF SyncTypes
  <2>3. k.server \in Servers
    BY <2>2 DEF Keys
  <2>4. ToCLI(tools) \in ToolLists
    BY <2>3, ListedAre
  <2>5. JobMoves(S)
    BY <1>4, <2>1, <2>2, <2>4, BeginMoves DEF Regenerate
  <2> QED  BY <1>4, <2>5 DEF Regenerate, SyncTypes
<1> QED  BY <1>1, <1>2, <1>3, <1>4 DEF SyncWorks

-------------------------------------------------------------------------------
(* The invariant *)

HistoryTypes ==
    /\ starts \in 0..MaxStarts
    /\ entered \subseteq Keys
    /\ collided \in BOOLEAN

IInv ==
    /\ FileRules /\ WizardRules /\ SyncTypes /\ JobsInv
    /\ ConfigInv
    /\ HistoryTypes

\* W and S are processes, and not the same.
LEMMA TwoProcesses == W \in Processes /\ S \in Processes /\ W # S
BY SetupAssumption DEF W, S

\* What was ever entered is of the wrappers that there may be.
LEMMA HistoryKept ==
    ASSUME HistoryTypes, Remember, FilesInv', Counted \/ UNCHANGED starts
    PROVE  HistoryTypes'
<1>1. starts' \in 0..MaxStarts
  BY SetupAssumption DEF HistoryTypes, Counted
<1>2. collided' \in BOOLEAN
  BY DEF HistoryTypes, Remember
<1>3. IsWhole(Manifest)' => DOMAIN files'[Manifest].data \subseteq Keys
  <2> SUFFICES ASSUME IsWhole(Manifest)' PROVE DOMAIN files'[Manifest].data \subseteq Keys
    OBVIOUS
  <2>1. files'[Manifest] \in Holding(Manifests) /\ files'[Manifest].status = "whole"
    BY DEF FilesInv, IsWhole
  <2>2. files'[Manifest].data \in Manifests
    BY <2>1, HeldIs
  <2> QED  BY <2>2, ManifestKeys
<1>4. entered' \subseteq Keys
  BY <1>3, RememberAdds DEF HistoryTypes
<1> QED  BY <1>1, <1>2, <1>4 DEF HistoryTypes

\* A step of the wizard keeps the invariant.
LEMMA WizardKeeps ==
    ASSUME IInv, Start \/ WizardGoesOn \/ WizardDies, Remember,
           Counted \/ UNCHANGED starts, UNCHANGED syncVars
    PROVE  IInv'
<1>1. UNCHANGED <<sync, sees, todo>> /\ SyncTypes'
  BY DEF syncVars, IInv, SyncTypes
<1>2. entered \subseteq Keys /\ FileRules /\ FilesInv /\ WriterInv /\ WizardRules /\ ConfigInv /\ JobsInv
  BY DEF IInv, HistoryTypes, FileRules
<1>3. CASE WizardQuiet
  <2>1. /\ WizardRules'
        /\ UNCHANGED <<fileVars, job>>
        /\ wizard \notin {"writingConfig", "generating", "writeConfig"}
        /\ wizard' \notin {"writingConfig", "generating"}
        /\ backups \subseteq backups'
        /\ wizard' = "writeConfig" /\ IsWhole(Config) => files[Config].data \in backups'
    BY <1>2, <1>3, WizardQuietKeeps
  <2>2. FileRules'
    BY <1>2, <2>1, OthersKeep
  <2>3. ConfigInv'
    BY <1>2, <2>1, ConfigUntouched, RememberAdds DEF fileVars
  <2>4. JobsInv'
    BY <1>1, <1>2, <2>1 DEF JobsInv
  <2>5. HistoryTypes'
    BY <2>2, HistoryKept DEF IInv, FileRules
  <2> QED  BY <1>1, <2>1, <2>2, <2>3, <2>4, <2>5 DEF IInv
<1>4. CASE WizardWorks
  <2>1. /\ WizardRules'
        /\ JobMoves(W) \/ WriteStops(W) \/ FileMoves(W)
        /\ wizard' \notin {"writingConfig", "writeConfig"}
        /\ wizard = "writingConfig" => WriteStops(W)
        /\ wizard' # "generating" => job'[W] = Idle
        /\ UNCHANGED backups
    BY <1>2, <1>4, WizardWorksKeeps, TwoProcesses DEF JobsInv
  <2>2. /\ FileRules'
        /\ files'[Config] = files[Config]
        /\ \A q \in Processes \ {W} : job'[q] = job[q]
    BY <1>2, <2>1, GeneratorKeeps, TwoProcesses
  <2>3. ConfigInv'
    BY <1>2, <2>1, <2>2, ConfigUntouched, RememberAdds
  <2>4. JobsInv'
    BY <1>1, <1>2, <2>1, <2>2, TwoProcesses DEF JobsInv
  <2>5. HistoryTypes'
    BY <2>2, HistoryKept DEF IInv, FileRules
  <2> QED  BY <1>1, <2>1, <2>2, <2>3, <2>4, <2>5 DEF IInv
<1>5. CASE WizardConfigures
  <2>1. /\ WizardRules' /\ UNCHANGED <<job, backups>>
        /\ wizard # "generating" /\ wizard' # "generating"
        /\ wizard' # "writeConfig"
        /\ \/ wizard = "writeConfig" /\ BeginWrite(W, Config) /\ wizard' = "writingConfig"
           \/ /\ EndWrite(W, configRead) \/ FailWrite(W)
              /\ wizard = "writingConfig" /\ wizard' # "writingConfig"
    BY <1>2, <1>5, WizardConfiguresKeeps
  <2>2. job[W] = Idle /\ configRead \in Configurations
    BY <1>2, <2>1 DEF JobsInv, WizardRules, WizardTypes
  <2>3. FileRules'
    BY <1>2, <2>1, <2>2, OthersKeep, TwoProcesses
  <2>4. ConfigInv'
    BY <1>2, <2>1, ConfigWritten, RememberAdds, TwoProcesses
  <2>5. JobsInv'
    BY <1>1, <1>2, <2>1 DEF JobsInv
  <2>6. HistoryTypes'
    BY <2>3, HistoryKept DEF IInv, FileRules
  <2> QED  BY <1>1, <2>1, <2>3, <2>4, <2>5, <2>6 DEF IInv
<1> QED  BY <1>3, <1>4, <1>5, WizardStepsAre

\* A step of the sync keeps the invariant.
LEMMA SyncKeeps ==
    ASSUME IInv, StartSync \/ SyncGoesOn \/ SyncDies, Remember,
           Counted \/ UNCHANGED starts, UNCHANGED wizardVars
    PROVE  IInv'
<1>1. UNCHANGED <<wizard, setupLock, backups, configRead, tasks, regenOption>> /\ WizardRules'
  BY DEF wizardVars, IInv, WizardRules, WizardTypes, LockInv
<1>2. entered \subseteq Keys /\ FileRules /\ FilesInv /\ SyncTypes /\ ConfigInv /\ JobsInv
  BY DEF IInv, HistoryTypes, FileRules
<1>3. ASSUME FileRules', files'[Config] = files[Config] PROVE ConfigInv' /\ HistoryTypes'
  <2>1. ConfigInv'
    BY <1>1, <1>2, <1>3, ConfigUntouched, RememberAdds DEF ConfigInv
  <2>2. HistoryTypes'
    BY <1>3, HistoryKept DEF IInv, FileRules
  <2> QED  BY <2>1, <2>2
<1>4. CASE SyncQuiet
  <2>1. SyncTypes' /\ UNCHANGED <<fileVars, job>> /\ sync # "regenerating" /\ sync' # "regenerating"
    BY <1>2, <1>4, SyncQuietKeeps
  <2>2. FileRules'
    BY <1>1, <1>2, <2>1, OthersKeep
  <2>3. JobsInv'
    BY <1>1, <1>2, <2>1 DEF JobsInv
  <2> QED  BY <1>1, <1>3, <2>1, <2>2, <2>3 DEF IInv, fileVars
<1>5. CASE SyncWorks
  <2>1. /\ SyncTypes'
        /\ JobMoves(S) \/ WriteStops(S) \/ FileMoves(S)
        /\ sync' # "regenerating" => job'[S] = Idle
    BY <1>2, <1>5, SyncWorksKeeps, TwoProcesses DEF JobsInv
  <2>2. /\ FileRules'
        /\ files'[Config] = files[Config]
        /\ \A q \in Processes \ {S} : job'[q] = job[q]
    BY <1>1, <1>2, <2>1, GeneratorKeeps, TwoProcesses
  <2>3. JobsInv'
    BY <1>1, <1>2, <2>1, <2>2, TwoProcesses DEF JobsInv
  <2> QED  BY <1>1, <1>3, <2>1, <2>2, <2>3 DEF IInv
<1> QED  BY <1>4, <1>5, SyncStepsAre

\* Each step of the two processes keeps the invariant.
LEMMA IInvKept == IInv /\ [Next]_vars => IInv'
<1> SUFFICES ASSUME IInv, [Next]_vars PROVE IInv'
  OBVIOUS
<1>1. CASE WizardStarts \/ WizardSteps \/ WizardCrashes
  BY <1>1, WizardKeeps DEF WizardStarts, WizardSteps, WizardCrashes
<1>2. CASE SyncStarts \/ SyncSteps \/ SyncCrashes
  BY <1>2, SyncKeeps DEF SyncStarts, SyncSteps, SyncCrashes
<1>3. CASE UNCHANGED vars
  <2>1. UNCHANGED <<files, writing, job, wizard, setupLock, backups, configRead, tasks,
                    regenOption, sync, sees, todo, starts, original, entered, collided>>
    BY <1>3 DEF vars, fileVars, wizardVars, syncVars, history
  <2>2. FilesInv' /\ WriterInv'
    BY <2>1 DEF IInv, FileRules, FilesInv, WriterInv, FileOf, JobAt
  <2>3. EntriesInv' /\ ManifestInv'
    BY <2>1 DEF IInv, FileRules, EntriesInv, AllWrapped, Wrapped, IsWhole, Updates, ManifestInv
  <2>4. WizardRules' /\ SyncTypes' /\ JobsInv' /\ HistoryTypes'
    BY <2>1 DEF IInv, WizardRules, WizardTypes, LockInv, SyncTypes, JobsInv, HistoryTypes
  <2>5. ConfigInv'
    BY <2>1 DEF IInv, ConfigInv, SettingsRecoverable, IsWhole
  <2> QED  BY <2>2, <2>3, <2>4, <2>5 DEF IInv, FileRules
<1> QED  BY <1>1, <1>2, <1>3 DEF Next

\* The manifest that an earlier wizard has left.
LEMMA EarlierEntriesAre ==
    EarlierEntries \in Manifests /\ DOMAIN EarlierEntries = Earlier /\ Earlier \subseteq Keys
<1>1. [version |-> MaxVersion, parameters |-> TRUE] \in ToolLists
  BY GeneratorAssumption DEF ToolLists, NoTools
<1>2. Success([version |-> MaxVersion, parameters |-> TRUE]) \in Entries
  BY <1>1, EntriesAre
<1>3. EarlierEntries \in [Earlier -> Entries]
  BY <1>2 DEF EarlierEntries
<1>4. Earlier \subseteq Keys
  BY DEF Earlier
<1> QED  BY <1>3, <1>4 DEF Manifests

\* It holds in the beginning: of a first wizard, and of one after an earlier one.
LEMMA IInvInit == Init => IInv
<1> SUFFICES ASSUME Init PROVE IInv
  OBVIOUS
<1>1. /\ {Theirs} \in Configurations /\ {Theirs, Ours} \in Configurations /\ {} \in Configurations
      /\ Theirs \in {Theirs} /\ Theirs \in {Theirs, Ours}
  BY DEF Configurations
<1>2. /\ \A c : Absent \in Holding(c) /\ Torn \in Holding(c) /\ \A d \in c : Whole(d) \in Holding(c)
  BY DEF Holding
<1>3. /\ files = [f \in FileNames |-> files[f]] /\ files[Config] = original
      /\ original \in {Absent, Torn, Whole({Theirs}), Whole({Theirs, Ours})}
      /\ \/ files[Manifest] = Absent /\ \A k \in Keys : files[WrapperOf(k)] = Absent
         \/ /\ files[Manifest] = Whole(EarlierEntries)
            /\ \A k \in Keys : files[WrapperOf(k)] = IF k \in Earlier THEN Whole(Code) ELSE Absent
  BY NamesDiffer, EarlierEntriesAre DEF Init
<1>4. /\ writing = [p \in Processes |-> NotWriting]
      /\ NotWriting \in [file : FileNames \cup {NoFileName}, mixed : BOOLEAN]
      /\ NotWriting.file = NoFileName
  BY DEF Init, NotWriting
<1>5. job = [p \in Processes |-> Idle] /\ Idle \in Jobs /\ Idle.step = "idle"
  BY JobsAre DEF Init
<1>6. FilesInv
  <2>1. files[Config] \in Holding(Configurations)
    BY <1>1, <1>2, <1>3
  <2>2. files[Manifest] \in Holding(Manifests)
    BY <1>2, <1>3, EarlierEntriesAre
  <2>3. \A k \in Keys : files[WrapperOf(k)] \in Holding({Code})
    BY <1>2, <1>3
  <2>4. writing \in [Processes -> [file : FileNames \cup {NoFileName}, mixed : BOOLEAN]]
    BY <1>4
  <2>5. job \in [Processes -> Jobs]
    BY <1>5
  <2> QED  BY <1>3, <2>1, <2>2, <2>3, <2>4, <2>5 DEF FilesInv
<1>7. wizard = "off" /\ setupLock = "free" /\ backups = {} /\ configRead = {} /\ tasks = <<>>
      /\ regenOption = "missing"
  BY DEF Init, WizardInit
<1>8. WriterInv
  BY <1>4, <1>5, <1>7 DEF WriterInv, FileOf, JobAt
<1>9. EntriesInv
  <2>1. IsWhole(Manifest) => AllWrapped(files[Manifest].data)
    <3>1. CASE files[Manifest] = Absent
      BY <3>1, ContentsDiffer DEF IsWhole
    <3>2. CASE /\ files[Manifest] = Whole(EarlierEntries)
               /\ \A k \in Keys : files[WrapperOf(k)] = IF k \in Earlier THEN Whole(Code) ELSE Absent
      BY <3>2, ContentsDiffer, EarlierEntriesAre DEF AllWrapped, Wrapped
    <3> QED  BY <1>3, <3>1, <3>2
  <2> QED  BY <1>5, <2>1 DEF EntriesInv, Updates
<1>10. entered = IF IsWhole(Manifest) THEN Earlier ELSE {}
  BY DEF Init
<1>11. ManifestInv
  <2>1. IsWhole(Manifest) => entered = DOMAIN files[Manifest].data
    BY <1>3, <1>10, ContentsDiffer, EarlierEntriesAre DEF IsWhole
  <2>2. files[Manifest] = Absent => entered = {}
    BY <1>10, ContentsDiffer DEF IsWhole
  <2> QED  BY <1>5, <2>1, <2>2 DEF ManifestInv, Updates
<1>12. WizardRules
  BY <1>1, <1>7 DEF WizardRules, WizardTypes, LockInv, Protected
<1>13. SyncTypes
  <2>1. NoServerSeen \in [Servers -> NoTools..MaxVersion]
    BY GeneratorAssumption DEF NoServerSeen, NoTools
  <2> QED  BY <2>1 DEF Init, SyncInit, SyncTypes, EmptyManifest
<1>14. JobsInv
  BY <1>5, TwoProcesses DEF JobsInv
<1>15. ConfigInv
  <2>1. SettingsRecoverable
    BY <1>1, <1>3, ContentsDiffer DEF SettingsRecoverable, IsWhole
  <2> QED  BY <1>7, <2>1 DEF ConfigInv
<1>16. HistoryTypes
  <2>1. starts \in {0, 1} /\ collided = FALSE
    BY DEF Init
  <2>2. 0 \in 0..MaxStarts /\ 1 \in 0..MaxStarts
    BY SetupAssumption
  <2> QED  BY <1>10, <2>1, <2>2, EarlierEntriesAre DEF HistoryTypes
<1> QED  BY <1>6, <1>8, <1>9, <1>11, <1>12, <1>13, <1>14, <1>15, <1>16 DEF IInv, FileRules

\* What each process is doing agrees with the file it writes, the wizard has a backup while it
\* writes the configuration, and the manifest is of wrappers that are there; whoever has read it
\* to write it has read all that was entered, unless two updates overlapped: for any servers
\* and versions, and wherever the wizard and the sync die.
THEOREM SetupInvariance == Spec => []IInv
BY IInvInit, IInvKept, PTL DEF Spec

\* The types of the specification, from those of the invariant.
LEMMA SetupTypes ==
    ASSUME IInv
    PROVE  TypeOK
<1>0. FilesInv /\ WizardRules /\ SyncTypes /\ HistoryTypes
  BY DEF IInv, FileRules
<1>1. DOMAIN files = FileNames
  BY <1>0 DEF FilesInv
<1>2. ASSUME NEW f \in FileNames PROVE files[f].status \in {"absent", "torn", "whole"}
  <2>1. CASE f = Config
    BY <1>0, <2>1, HeldIs DEF FilesInv
  <2>2. CASE f = Manifest
    BY <1>0, <2>2, HeldIs DEF FilesInv
  <2>3. ASSUME NEW k \in Keys, f = WrapperOf(k) PROVE files[f].status \in {"absent", "torn", "whole"}
    BY <1>0, <2>3, HeldIs DEF FilesInv
  <2> QED  BY <2>1, <2>2, <2>3, NamesDiffer
<1>3. FilesTypeOK
  BY <1>0, <1>1, <1>2 DEF FilesTypeOK, FilesInv
<1>4. ASSUME NEW p \in Processes
      PROVE  \/ job[p] = Idle
             \/ job[p].step = "ended" /\ job[p].key \in Keys
             \/ /\ job[p].step \in JobSteps /\ job[p].key \in Keys
                /\ job[p].option \in {"missing", "force"} /\ job[p].entry \in Entries
  <2>1. job[p] \in Jobs
    BY <1>0 DEF FilesInv
  <2>2. CASE job[p].step = "idle"
    BY <2>1, <2>2, JobsAre
  <2>3. CASE job[p].step = "ended"
    BY <2>1, <2>3, JobsAre
  <2>4. CASE job[p].step \in JobSteps
    BY <2>1, <2>4, JobsAre
  <2> QED  BY <2>1, <2>2, <2>3, <2>4, JobsAre
<1>5. IsWhole(Manifest) => /\ DOMAIN files[Manifest].data \subseteq Keys
                           /\ \A k \in DOMAIN files[Manifest].data : files[Manifest].data[k] \in Entries
  BY <1>0, HeldIs, ManifestKeys DEF FilesInv, IsWhole
<1>6. GeneratorTypeOK
  BY <1>3, <1>4, <1>5 DEF GeneratorTypeOK
<1>7. WizardTypeOK
  BY <1>0, ConfigurationsAre DEF WizardTypeOK, WizardRules, WizardTypes
<1>8. SyncTypeOK
  BY <1>0 DEF SyncTypeOK, SyncTypes
<1> QED  BY <1>0, <1>6, <1>7, <1>8 DEF TypeOK, HistoryTypes

\* A wrapper that the manifest calls a success is there, and the wizard works under its lock
\* and leaves it behind only if it dies (SetupInv).
THEOREM SetupIsConsistent == Spec => []SetupInv
<1>1. ASSUME IInv PROVE SetupInv
  <2>1. EntriesHaveWrappers
    BY <1>1 DEF EntriesHaveWrappers, IInv, FileRules, EntriesInv, AllWrapped, Wrapped
  <2>2. LockIsReleased
    BY <1>1 DEF LockIsReleased, IInv, WizardRules, LockInv, Protected
  <2> QED  BY <1>1, <2>1, <2>2, SetupTypes DEF SetupInv
<1> QED  BY <1>1, SetupInvariance, PTL

\* What the configuration had before the first wizard is in the file or in a backup, wherever
\* wizards die (SettingsRecoverable).
THEOREM SettingsSurvive == Spec => []SettingsRecoverable
<1>1. IInv => SettingsRecoverable
  BY DEF IInv, ConfigInv
<1> QED  BY <1>1, SetupInvariance, PTL

\* Unless two updates of the manifest overlap, no wrapper drops out of it (NoEntryLostAlone).
THEOREM EntriesStay == Spec => []NoEntryLostAlone
<1>1. IInv => NoEntryLostAlone
  BY DEF IInv, FileRules, ManifestInv, NoEntryLostAlone
<1> QED  BY <1>1, SetupInvariance, PTL

===============================================================================
