----------------------------- MODULE ConfigManager -----------------------------
(***************************************************************************)
(* updateConfig() of the configuration writer                              *)
(* (src/services/config-manager.ts): read, merge, copy to the backup,      *)
(* write to a temporary file of a fixed name, rename.  A process runs one  *)
(* update at a time, under the lock of its instance; several processes     *)
(* have nothing in common but the files, and may die at any time.          *)
(*                                                                         *)
(* A configuration is the set of the settings in it: each process adds one *)
(* of its own, and the merge keeps what the file had.  writeConfig() is    *)
(* the same from the copy on, with nothing but the process's own settings. *)
(* Backups have several names; there is one here, which nothing reads.     *)
(*                                                                         *)
(* An operator written right above another one, with a name that says what *)
(* is wrong with it, is a faulty variant of it: the properties are known   *)
(* to notice it in its place.  No specification uses it.                   *)
(***************************************************************************)
EXTENDS SharedFiles

CONSTANT UserSettings    \* what the file holds in the beginning, if it is there

VARIABLES
    updating,    \* where the update of each process is
    merged,      \* what it is about to write
    replacing,   \* the processes that called writeConfig()
    saved,       \* history: the settings that are in the file by a finished update
    overlapped   \* history: two updates were under way at the same time

configVars == <<fileVars, updating, merged, replacing, saved, overlapped>>

ConfigFile == <<"config">>
TempFile == <<"config", "tmp">>
BackupFile == <<"config", "backup">>

Settings == UserSettings \cup Processes

ConfigTypeOK ==
    /\ FilesTypeOK
    /\ updating \in [Processes -> {"idle", "copy", "write", "writing", "rename", "failed", "dead"}]
    /\ merged \in [Processes -> SUBSET Settings]
    /\ replacing \subseteq Processes
    /\ saved \subseteq Settings /\ overlapped \in BOOLEAN

ConfigInit ==
    /\ \E first \in {Whole(UserSettings), Absent} :
         /\ files = [f \in {ConfigFile, TempFile, BackupFile} |->
                       IF f = ConfigFile THEN first ELSE Absent]
         /\ saved = IF first = Absent THEN {} ELSE UserSettings
    /\ writing = [p \in Processes |-> NotWriting]
    /\ updating = [p \in Processes |-> "idle"]
    /\ merged = [p \in Processes |-> {}]
    /\ replacing = {}
    /\ overlapped = FALSE

UnderWay == {p \in Processes : updating[p] \in {"copy", "write", "writing", "rename"}}

Proceed(p, where) ==
    /\ updating' = [updating EXCEPT ![p] = where]
    /\ overlapped' = (overlapped \/ Cardinality(UnderWay') > 1)

NoConfig == files[ConfigFile] = Absent

\* Without a file everything begins with {}.
Existing == IF NoConfig THEN {} ELSE files[ConfigFile].data

MergedWith(p) == [merged EXCEPT ![p] = {p} \cup Existing]

ReadConfig(p) ==
    /\ updating[p] = "idle" /\ (IsWhole(ConfigFile) \/ NoConfig)
    /\ merged' = MergedWith(p)
    /\ replacing' = replacing \ {p}
    /\ Proceed(p, "copy")
    /\ UNCHANGED <<fileVars, saved>>

WriteConfig(p) ==
    /\ updating[p] = "idle"
    /\ merged' = [merged EXCEPT ![p] = {p}]
    /\ replacing' = replacing \cup {p}
    /\ Proceed(p, "copy")
    /\ UNCHANGED <<fileVars, saved>>

BackupConfig(p) ==
    /\ updating[p] = "idle" /\ ~NoConfig
    /\ files' = [files EXCEPT ![BackupFile] = files[ConfigFile]]
    /\ UNCHANGED <<writing, updating, merged, replacing, saved, overlapped>>

\* The file cannot be read, or JSON.parse() throws.
ReadConfigFails(p) ==
    /\ updating[p] = "idle" /\ ~NoConfig
    /\ Proceed(p, "failed")
    /\ UNCHANGED <<fileVars, merged, replacing, saved>>

\* createBackup is an option; a copy that fails is passed over.
CopyToBackup(p) ==
    /\ updating[p] = "copy"
    /\ \/ UNCHANGED files
       \/ ~NoConfig /\ files' = [files EXCEPT ![BackupFile] = files[ConfigFile]]
    /\ Proceed(p, "write")
    /\ UNCHANGED <<writing, merged, replacing, saved>>

WrittenInPlace == ConfigFile
WrittenFile == TempFile

WriteTemp(p) ==
    /\ updating[p] = "write"
    /\ BeginWrite(p, WrittenFile)
    /\ Proceed(p, "writing")
    /\ UNCHANGED <<merged, replacing, saved>>

TempWritten(p) ==
    /\ updating[p] = "writing"
    /\ EndWrite(p, merged[p])
    /\ Proceed(p, "rename")
    /\ UNCHANGED <<merged, replacing, saved>>

WriteTempFails(p) ==
    /\ updating[p] = "writing"
    /\ FailWrite(p)
    /\ Proceed(p, "failed")
    /\ UNCHANGED <<merged, replacing, saved>>

\* Somebody who is still writing to the temporary file now writes to the configuration.
Rename(p) ==
    /\ updating[p] = "rename" /\ files[WrittenFile] # Absent
    /\ files' = [files EXCEPT ![ConfigFile] = files[WrittenFile],
                              ![TempFile] = Absent]
    /\ writing' = [q \in Processes |-> IF writing[q].file = TempFile
                                       THEN [writing[q] EXCEPT !.file = ConfigFile]
                                       ELSE writing[q]]
    /\ saved' = IF p \in replacing THEN {p} ELSE saved \cup {p}
    /\ Proceed(p, "idle")
    /\ UNCHANGED <<merged, replacing>>

RenameFails(p) ==
    /\ updating[p] = "rename" /\ files[WrittenFile] = Absent
    /\ Proceed(p, "failed")
    /\ UNCHANGED <<fileVars, merged, replacing, saved>>

UpdaterDies(p) ==
    /\ updating[p] # "dead"
    /\ FailWrite(p)
    /\ Proceed(p, "dead")
    /\ UNCHANGED <<merged, replacing, saved>>

ConfigNext ==
    \E p \in Processes :
        \/ ReadConfig(p) \/ ReadConfigFails(p) \/ WriteConfig(p) \/ CopyToBackup(p)
        \/ WriteTemp(p) \/ TempWritten(p) \/ WriteTempFails(p)
        \/ Rename(p) \/ RenameFails(p)
        \/ BackupConfig(p)
        \/ UpdaterDies(p)

-------------------------------------------------------------------------------
(* Properties *)

\* Wherever a process dies or fails, the configuration is whole and has all settings that
\* were saved, or is still not there and none were, unless two processes updated it at the
\* same time.
ConfigIsWhole ==
    ~overlapped => \/ NoConfig /\ saved = {}
                   \/ IsWhole(ConfigFile) /\ saved \subseteq files[ConfigFile].data
================================================================================
