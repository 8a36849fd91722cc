------------------------------ MODULE SetupWizard ------------------------------
(***************************************************************************)
(* The setup wizard, a process of its own: main() of src/cli/index.ts with *)
(* the prompts of src/cli/wizard.ts, the bootstrap of src/cli/             *)
(* self-installer.ts, the configuration file of src/cli/                   *)
(* config-location-detector.ts and the discovery of src/cli/               *)
(* mcp-discovery.ts.                                                       *)
(*                                                                         *)
(* One action is one prompt, with what the user answers, or one access to  *)
(* a file.  How processes compete for the setup lock is LockFile; here it  *)
(* is free, or was left by a wizard that died, and is taken over then.     *)
(*                                                                         *)
(* An operator written right above another one, with a name that says what *)
(* is wrong with it, is a faulty variant of it: the properties are known   *)
(* to notice it in its place.  No specification uses it.                   *)
(***************************************************************************)
EXTENDS WrapperGenerator

CONSTANT MaxTasks    \* bounds the wrappers that one wizard generates

ASSUME WizardAssumption == MaxTasks \in Nat

VARIABLES
    wizard,       \* where main() is; "off" when there is no such process
    setupLock,    \* the lock file: "free", "held", or "left" by a dead process
    backups,      \* what the backups of the configuration hold
    configRead,   \* the configuration as main() merged it
    tasks,        \* the wrappers to generate
    regenOption

wizardVars == <<wizard, setupLock, backups, configRead, tasks, regenOption>>

W == "wizard"
Config == <<"config">>

\* Entries of mcpServers: those that were there, and our own.
Theirs == "theirs"
Ours == "code-executor"
Configurations == SUBSET {Theirs, Ours}

\* The finally of main() releases the lock on every way out of these.
Protected == {"tools", "update", "questions", "sampling", "readConfig", "backup", "writeConfig",
              "writingConfig", "discover", "servers", "languages", "regenerate", "generate",
              "generating", "dailySync", "release"}

WizardTypeOK ==
    /\ wizard \in {"off", "bootstrap", "lock"} \cup Protected
    /\ setupLock \in {"free", "held", "left"}
    /\ backups \subseteq Configurations
    /\ configRead \in Configurations
    /\ tasks \in Seq(Keys)
    /\ regenOption \in {"missing", "force"}
    /\ IsWhole(Config) => files[Config].data \in Configurations

WizardInit ==
    /\ wizard = "off"
    /\ setupLock = "free"
    /\ backups = {}
    /\ configRead = {}
    /\ tasks = <<>>
    /\ regenOption = "missing"

-------------------------------------------------------------------------------
filesAndJobs == <<fileVars, job>>

Step(from, to) == wizard = from /\ wizard' = to

\* A return or an error, after which the process exits with 0 or 1.
Leave(from) == Step(from, "release")

Start ==
    /\ Step("off", "bootstrap")
    /\ UNCHANGED <<filesAndJobs, setupLock, backups, configRead, tasks, regenOption>>

\* npm lists the package, or installs it, or fails.  There is no lock yet.
RunBootstrap(installed) ==
    /\ IF installed THEN Step("bootstrap", "lock")
                    ELSE Step("bootstrap", "off")
    /\ UNCHANGED <<filesAndJobs, setupLock, backups, configRead, tasks, regenOption>>

\* An error of acquire() is outside the try whose finally releases the lock.
AcquireLock(acquired) ==
    /\ IF acquired THEN Step("lock", "tools") /\ setupLock' = "held"
                   ELSE Step("lock", "off") /\ UNCHANGED setupLock
    /\ UNCHANGED <<filesAndJobs, backups, configRead, tasks, regenOption>>

SelectTools(some) ==
    /\ IF some THEN Step("tools", "update") ELSE Leave("tools")
    /\ UNCHANGED <<filesAndJobs, setupLock, backups, configRead, tasks, regenOption>>

\* detectExistingConfigs() names a configuration of every selected tool, there or not, so
\* that the prompt is always shown; main() only looks at whether it was answered.
PromptConfigUpdate(mode) ==
    /\ IF mode = "cancel" THEN Leave("update")
                          ELSE Step("update", "questions")
    /\ UNCHANGED <<filesAndJobs, setupLock, backups, configRead, tasks, regenOption>>

\* The defaults, or five answers that the schema validates; any of them may be cancelled.
AskConfigQuestions(answered) ==
    /\ IF answered THEN Step("questions", "sampling")
                   ELSE Leave("questions")
    /\ UNCHANGED <<filesAndJobs, setupLock, backups, configRead, tasks, regenOption>>

\* To cancel the choice of a provider is a TypeError; without a key there is no sampling.
AskSampling(answered) ==
    /\ IF answered THEN Step("sampling", "readConfig")
                   ELSE Leave("sampling")
    /\ UNCHANGED <<filesAndJobs, setupLock, backups, configRead, tasks, regenOption>>

-------------------------------------------------------------------------------
(* The configuration file *)

\* readOrCreateMCPConfig(): a file that is not JSON is an error.
Readable == IF files[Config] = Absent THEN {{}}
            ELSE IF IsWhole(Config) THEN {files[Config].data}
            ELSE {}

\* Our entry is replaced or added, and all else is kept, whatever PromptConfigUpdate said.
ReadConfig ==
    /\ IF Readable = {}
       THEN Leave("readConfig") /\ UNCHANGED configRead
       ELSE /\ Step("readConfig", "backup")
            /\ configRead' \in {servers \cup {Ours} : servers \in Readable}
    /\ UNCHANGED <<filesAndJobs, setupLock, backups, tasks, regenOption>>

\* writeMCPConfig(): a copy of what exists, in a file with a name of its own.
NoBackup == backups
WithBackup == backups \cup (IF IsWhole(Config) THEN {files[Config].data} ELSE {})

BackUpConfig(copied) ==
    /\ IF copied
       THEN Step("backup", "writeConfig") /\ backups' = WithBackup
       ELSE Leave("backup") /\ UNCHANGED backups
    /\ UNCHANGED <<filesAndJobs, setupLock, configRead, tasks, regenOption>>

BeginConfig ==
    /\ Step("writeConfig", "writingConfig")
    /\ BeginWrite(W, Config)
    /\ UNCHANGED <<job, setupLock, backups, configRead, tasks, regenOption>>

EndConfig ==
    /\ Step("writingConfig", "discover")
    /\ EndWrite(W, configRead)
    /\ UNCHANGED <<job, setupLock, backups, configRead, tasks, regenOption>>

ConfigFails ==
    /\ Leave("writingConfig")
    /\ FailWrite(W)
    /\ UNCHANGED <<job, setupLock, backups, configRead, tasks, regenOption>>

-------------------------------------------------------------------------------
(* The wrappers *)

\* The configurations of the selected tools and of a project, whose path must be in the
\* home or the current directory; files that cannot be read are left out.
DiscoverServers(found) ==
    /\ \/ found = "some" /\ Step("discover", "servers")
       \/ found = "none" /\ Leave("discover")
       \/ found = "outside" /\ Leave("discover")
    /\ UNCHANGED <<filesAndJobs, setupLock, backups, configRead, tasks, regenOption>>

SelectMCPServers(some) ==
    /\ IF some THEN Step("servers", "languages")
               ELSE Leave("servers")
    /\ UNCHANGED <<filesAndJobs, setupLock, backups, configRead, tasks, regenOption>>

\* What becomes of the selected servers with their languages, in any order: a task for each
\* of the languages of each of them.  A server that several tools and the project configure
\* is listed, and may be selected, as often.
TaskLists == UNION {[1..n -> Keys] : n \in 1..MaxTasks}

SelectLanguagePerMCP ==
    /\ \/ Step("languages", "regenerate") /\ tasks' \in TaskLists
       \/ Leave("languages") /\ UNCHANGED tasks
    /\ UNCHANGED <<filesAndJobs, setupLock, backups, configRead, regenOption>>

\* To cancel this prompt is to choose "missing".
PromptWrapperRegeneration(choice) ==
    /\ IF choice = "skip"
       THEN Step("regenerate", "dailySync") /\ tasks' = <<>> /\ UNCHANGED regenOption
       ELSE Step("regenerate", "generate") /\ regenOption' = choice /\ UNCHANGED tasks
    /\ UNCHANGED <<filesAndJobs, setupLock, backups, configRead>>

\* fetchToolsForServer(): a server that fails is one without tools.
FetchTools ==
    /\ tasks # <<>>
    /\ Step("generate", "generating")
    /\ \E version \in NoTools..MaxVersion :
          Begin(W, Head(tasks), [version |-> version, parameters |-> TRUE], regenOption)
    /\ UNCHANGED <<fileVars, setupLock, backups, configRead, tasks, regenOption>>

\* Whether the wrapper was generated, skipped, failed or threw: the next one.
TasksLeftUnchanged == tasks
TasksLeft == Tail(tasks)

TaskEnds ==
    /\ job[W].step = "ended"
    /\ Step("generating", "generate")
    /\ tasks' = TasksLeft
    /\ job' = [job EXCEPT ![W] = Idle]
    /\ UNCHANGED <<fileVars, setupLock, backups, configRead, regenOption>>

AllGenerated ==
    /\ tasks = <<>>
    /\ Step("generate", "dailySync")
    /\ UNCHANGED <<filesAndJobs, setupLock, backups, configRead, tasks, regenOption>>

\* What SyncScheduler does, with its errors caught; or nothing, if not wanted.
ConfigureDailySync ==
    /\ Leave("dailySync")
    /\ UNCHANGED <<filesAndJobs, setupLock, backups, configRead, tasks, regenOption>>

ReleaseLockForgotten == setupLock
ReleasedLock == "free"

\* What main() had read is of no use to the next wizard.
Release ==
    /\ Step("release", "off")
    /\ setupLock' = ReleasedLock
    /\ configRead' = {}
    /\ tasks' = <<>>
    /\ regenOption' = "missing"
    /\ UNCHANGED <<filesAndJobs, backups>>

\* Nothing handles a signal, or the loss of power.
WizardDies ==
    /\ wizard # "off"
    /\ wizard' = "off"
    /\ setupLock' = IF wizard \in Protected THEN "left" ELSE setupLock
    /\ job' = [job EXCEPT ![W] = Idle]
    /\ FailWrite(W)
    /\ configRead' = {}
    /\ tasks' = <<>>
    /\ regenOption' = "missing"
    /\ UNCHANGED backups

-------------------------------------------------------------------------------
WizardGenerates == wizard = "generating" /\ Generates(W) /\ UNCHANGED wizardVars

\* The user answers, or cancels, every prompt.
WizardGoesOn ==
    \/ \E yes \in BOOLEAN :
          \/ RunBootstrap(yes) \/ AcquireLock(yes) \/ SelectTools(yes)
          \/ AskConfigQuestions(yes) \/ AskSampling(yes) \/ BackUpConfig(yes)
          \/ SelectMCPServers(yes)
    \/ \E mode \in {"keep", "merge", "reset", "cancel"} : PromptConfigUpdate(mode)
    \/ ReadConfig \/ BeginConfig \/ EndConfig \/ ConfigFails
    \/ \E found \in {"some", "none", "outside"} : DiscoverServers(found)
    \/ SelectLanguagePerMCP
    \/ \E choice \in {"missing", "force", "skip"} : PromptWrapperRegeneration(choice)
    \/ FetchTools \/ WizardGenerates \/ TaskEnds \/ AllGenerated
    \/ ConfigureDailySync \/ Release
=================================================================================
