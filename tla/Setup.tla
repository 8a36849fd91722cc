--------------------------------- MODULE Setup ---------------------------------
(***************************************************************************)
(* The setup wizard and the daily sync beside each other, on the same      *)
(* files.  Each may die at any time, and be started again; at most one of  *)
(* each runs at a time.                                                    *)
(***************************************************************************)
EXTENDS SetupWizard, DailySync

CONSTANT MaxStarts    \* bounds how often a process is started

ASSUME SetupAssumption == {W, S} \subseteq Processes /\ MaxStarts \in Nat \ {0}

VARIABLES
    starts,      \* of wizards and syncs, the wizard before the beginning included
    original,    \* the configuration before the first wizard; never changes
    entered,     \* history: the wrappers that were entered into the manifest
    collided     \* history: two updates of the manifest overlapped

history == <<starts, original, entered, collided>>
vars == <<fileVars, job, wizardVars, syncVars, history>>

TypeOK ==
    /\ GeneratorTypeOK /\ WizardTypeOK /\ SyncTypeOK
    /\ starts \in 0..MaxStarts
    /\ entered \subseteq Keys
    /\ collided \in BOOLEAN

\* What a wizard may have left before: the wrappers of all servers, in one language.
Earlier == {k \in Keys : k.language = "typescript"}
EarlierEntries == [k \in Earlier |-> Success([version |-> MaxVersion, parameters |-> TRUE])]

FileNames == {Config} \cup GeneratedFiles

Init ==
    /\ \/ /\ original \in {Absent, Torn, Whole({Theirs})}
          /\ files = [f \in FileNames |-> IF f = Config THEN original ELSE Absent]
       \/ /\ original = Whole({Theirs, Ours})
          /\ files = [f \in FileNames |-> CASE f = Config -> original
                                          [] f = Manifest -> Whole(EarlierEntries)
                                          [] f \in {WrapperOf(k) : k \in Earlier} -> Whole(Code)
                                          [] OTHER -> Absent]
    /\ writing = [p \in Processes |-> NotWriting]
    /\ job = [p \in Processes |-> Idle]
    /\ WizardInit
    /\ SyncInit
    /\ starts = IF IsWhole(Manifest) THEN 1 ELSE 0
    /\ entered = IF IsWhole(Manifest) THEN Earlier ELSE {}
    /\ collided = FALSE

\* Who has read the manifest to write it again.
Updating == {p \in Processes : JobAt(p, "update") \/ JobAt(p, "entering")}

Remember ==
    /\ entered' = entered \cup (IF IsWhole(Manifest)' THEN DOMAIN files'[Manifest].data ELSE {})
    /\ collided' = (collided \/ Cardinality(Updating') > 1)
    /\ UNCHANGED original

Counted == starts < MaxStarts /\ starts' = starts + 1

WizardStarts == Start /\ Counted /\ UNCHANGED syncVars /\ Remember
WizardSteps ==
    WizardGoesOn /\ UNCHANGED <<starts, syncVars>> /\ Remember
WizardCrashes == WizardDies /\ UNCHANGED <<starts, syncVars>> /\ Remember

SyncStarts == StartSync /\ Counted /\ UNCHANGED wizardVars /\ Remember
SyncSteps == SyncGoesOn /\ UNCHANGED <<starts, wizardVars>> /\ Remember
SyncCrashes == SyncDies /\ UNCHANGED <<starts, wizardVars>> /\ Remember

Next ==
    \/ WizardStarts \/ WizardSteps \/ WizardCrashes
    \/ SyncStarts \/ SyncSteps \/ SyncCrashes

\* Users answer, and both processes go on; nothing makes anybody start or die.
Spec == Init /\ [][Next]_vars /\ WF_vars(WizardSteps) /\ WF_vars(SyncSteps)

-------------------------------------------------------------------------------
(* Properties *)

\* A wrapper the manifest calls a success was written, and is still there, though perhaps
\* half written by somebody who died.
EntriesHaveWrappers ==
    IsWhole(Manifest) =>
        \A k \in DOMAIN files[Manifest].data :
            files[Manifest].data[k].status = "success" => files[WrapperOf(k)] # Absent

\* The wizard works under its lock, and leaves it behind only if it dies.
LockIsReleased ==
    /\ wizard \in Protected => setupLock = "held"
    /\ wizard = "off" => setupLock # "held"

SetupInv == TypeOK /\ EntriesHaveWrappers /\ LockIsReleased

\* What the configuration had before the first wizard is never lost, wherever wizards die:
\* it is in the file, or in a backup.
SettingsRecoverable ==
    original # Absent /\ original # Torn =>
        \/ IsWhole(Config) /\ Theirs \in files[Config].data
        \/ \E b \in backups : Theirs \in b

\* As long as no two updates of the manifest overlap, no wrapper drops out of it: a process
\* that dies may damage the manifest, and nobody mistakes a damaged one for an empty one.
NoEntryLostAlone ==
    ~collided /\ IsWhole(Manifest) => entered \subseteq DOMAIN files[Manifest].data

\* The wizard always ends again if its user answers or cancels every prompt, and so does the
\* sync.
SetupEnds == []<>(wizard = "off") /\ []<>(sync = "off")
=================================================================================
