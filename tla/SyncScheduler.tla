----------------------------- MODULE SyncScheduler -----------------------------
(***************************************************************************)
(* The timer of the daily sync on each platform (src/cli/schedulers):      *)
(* install() and uninstall() as sequences of commands and file operations, *)
(* any of which may fail, and may be the last thing the process does.  A   *)
(* failure ends install(), and is passed over by uninstall().  Files are   *)
(* written in place: truncated first, and whole only when the write ends.  *)
(* (runSystemctl() also takes an exit code of 3 for success; systemctl     *)
(* answers it to is-active only, whose result exists() compares with 0.)   *)
(***************************************************************************)
EXTENDS Integers, Sequences, FiniteSets, SequencesExt

VARIABLES
    platform,       \* "none" until create()
    effects,        \* what is in effect: files, and what the service manager has
    halfWritten,    \* files that were truncated and not written to the end
    operation,      \* "install", "uninstall" or "none"
    position,       \* the next step of the operation
    reported,       \* history: the last thing install() or uninstall() said
    passedOver      \* history: an uninstall() passed over something that was in effect

schedulerVars == <<platform, effects, halfWritten, operation, position, reported, passedOver>>

\* systemd needs a timer, a service, and three commands; launchd a file and one command;
\* the Task Scheduler one script.
SystemdSteps(op) ==
    IF op = "install" THEN <<"timer", "service", "reload", "enabled", "active">>
    ELSE <<"active", "enabled", "timer", "service">>
LaunchdSteps(op) == IF op = "install" THEN <<"plist", "active">> ELSE <<"active", "plist">>
TaskSteps(op) == <<"task">>

Steps(op) ==
    CASE platform = "linux"  -> SystemdSteps(op)
      [] platform = "darwin" -> LaunchdSteps(op)
      [] platform = "win32"  -> TaskSteps(op)

Files == {"timer", "service", "plist"}

\* Reloading the configuration leaves nothing behind.
Lasting(op) == ToSet(Steps(op)) \ {"reload"}

SchedulerTypeOK ==
    /\ platform \in {"none", "linux", "darwin", "win32"}
    /\ effects \subseteq {"timer", "service", "enabled", "active", "plist", "task"}
    /\ halfWritten \subseteq Files
    /\ operation \in {"none", "install", "uninstall"}
    /\ position \in 1..5
    /\ reported \in {"nothing", "installed", "failed", "uninstalled"}
    /\ passedOver \in BOOLEAN

SchedulerInit ==
    /\ platform = "none" /\ effects = {} /\ halfWritten = {}
    /\ operation = "none" /\ position = 1
    /\ reported = "nothing" /\ passedOver = FALSE

\* create(): other platforms are refused.
CreateScheduler ==
    /\ platform = "none"
    /\ platform' \in {"linux", "darwin", "win32"}
    /\ UNCHANGED <<effects, halfWritten, operation, position, reported, passedOver>>

\* install() looks at its arguments first, and throws if they will not do.
BeginOperation(op) ==
    /\ platform # "none" /\ operation = "none"
    /\ operation' = op /\ position' = 1
    /\ reported' = IF op = "uninstall" THEN "nothing" ELSE reported
    /\ UNCHANGED <<platform, effects, halfWritten, passedOver>>

Step == Steps(operation)[position]

EndOperation(outcome) ==
    /\ operation' = "none" /\ position' = 1
    /\ reported' = outcome

Advance ==
    IF position = Len(Steps(operation))
    THEN EndOperation(IF operation = "install" THEN "installed" ELSE "uninstalled")
    ELSE position' = position + 1 /\ UNCHANGED <<operation, reported>>

\* The file is there from now on, and empty.
OpenFile ==
    /\ operation = "install" /\ Step \in Files \ halfWritten
    /\ effects' = effects \cup {Step} /\ halfWritten' = halfWritten \cup {Step}
    /\ UNCHANGED <<platform, operation, position, reported, passedOver>>

StepWorks ==
    /\ operation # "none"
    /\ operation = "install" /\ Step \in Files => Step \in halfWritten
    /\ effects' = IF operation = "install" THEN effects \cup ({Step} \ {"reload"})
                  ELSE effects \ {Step}
    /\ halfWritten' = halfWritten \ {Step}
    /\ Advance
    /\ UNCHANGED <<platform, passedOver>>

InstallStepFails ==
    /\ operation = "install"
    /\ EndOperation("failed")
    /\ UNCHANGED <<platform, effects, halfWritten, passedOver>>

UninstallStepFails ==
    /\ operation = "uninstall"
    /\ passedOver' = (passedOver \/ Step \in effects)
    /\ Advance
    /\ UNCHANGED <<platform, effects, halfWritten>>

SchedulerDies ==
    /\ operation # "none"
    /\ EndOperation("nothing")
    /\ UNCHANGED <<platform, effects, halfWritten, passedOver>>

SchedulerNext ==
    \/ CreateScheduler
    \/ \E op \in {"install", "uninstall"} : BeginOperation(op)
    \/ OpenFile \/ StepWorks \/ InstallStepFails \/ UninstallStepFails
    \/ SchedulerDies

\* exists()
Exists ==
    CASE platform = "linux"  -> {"timer", "active"} \subseteq effects
      [] platform = "darwin" -> {"plist", "active"} \subseteq effects
      [] platform = "win32"  -> "task" \in effects
      [] OTHER               -> FALSE

-------------------------------------------------------------------------------
(* Properties *)

\* Nothing of what exists() calls installed is missing, wherever operations failed or
\* processes died, unless an uninstall() passed over something that stayed; and what install()
\* said it installed stays complete until an uninstall() begins, with files that are whole
\* until the next install().  (exists() itself takes a file cut short for a whole one.)
ExistsMeansComplete ==
    /\ Exists /\ ~passedOver => Lasting("install") \subseteq effects
    /\ reported = "installed" /\ operation # "uninstall" => Lasting("install") \subseteq effects
    /\ reported = "installed" /\ operation = "none" => halfWritten = {}
================================================================================
