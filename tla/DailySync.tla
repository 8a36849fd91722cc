------------------------------- MODULE DailySync -------------------------------
(***************************************************************************)
(* The daily sync of wrappers, a process of its own that a timer or the    *)
(* user starts: src/cli/sync-wrappers-cli.ts and src/cli/daily-sync.ts.    *)
(* It regenerates the wrappers of the manifest whose tools have changed.   *)
(* It does not take the setup lock.                                        *)
(***************************************************************************)
EXTENDS WrapperGenerator

VARIABLES
    sync,           \* where sync() is; "off" when there is no such process
    sees,           \* the tools of each server as the process knows them, NoTools if none
    todo            \* the entries of the manifest that are still to be compared

syncVars == <<sync, sees, todo>>

S == "sync"

SyncTypeOK ==
    /\ sync \in {"off", "read", "compare", "regenerating", "finish"}
    /\ sees \in [Servers -> NoTools..MaxVersion]
    /\ DOMAIN todo \subseteq Keys

NoServerSeen == [s \in Servers |-> NoTools]

SyncInit ==
    /\ sync = "off"
    /\ sees = NoServerSeen
    /\ todo = EmptyManifest

-------------------------------------------------------------------------------
\* computeCurrentSchemaHash(): the tools as the client pool lists them, with their
\* "parameters", sorted.
CurrentHash(tools) == HashOf("parameters", tools)

\* listAllToolSchemas() names what the client pool listed when it connected, and leaves out
\* tools whose schema cannot be fetched.
Listed(server) == {[version |-> v, parameters |-> TRUE] : v \in {sees[server], NoTools}}

\* convertToCLIToolSchema() looks for an "inputSchema", which these do not have.
ToCLI(tools) == [tools EXCEPT !.parameters = tools.version = NoTools]

\* The client pool lists the tools of the servers that it can reach; initialize() throws if
\* there is none.  A server's tools may be others each time.
StartSync ==
    /\ sync = "off"
    /\ sees' \in [Servers -> NoTools..MaxVersion]
    /\ sync' = "read"
    /\ UNCHANGED <<fileVars, job, todo>>

\* Without a manifest, with an empty one, or with one that is not JSON, there is nothing to
\* do.
ReadManifestForSync ==
    /\ sync = "read"
    /\ IF IsWhole(Manifest) /\ files[Manifest].data # EmptyManifest
       THEN sync' = "compare" /\ todo' = files[Manifest].data
       ELSE sync' = "finish" /\ UNCHANGED todo
    /\ UNCHANGED <<fileVars, job, sees>>

Without(f, k) == [x \in DOMAIN f \ {k} |-> f[x]]

\* The entries are looked at one by one, in the order of the manifest.
NextEntry(k) == sync = "compare" /\ todo # EmptyManifest /\ k = CHOOSE x \in DOMAIN todo : TRUE

SyncUnchanged(k) ==
    /\ NextEntry(k)
    /\ \E tools \in Listed(k.server) : CurrentHash(tools) = todo[k].hash
    /\ todo' = Without(todo, k)
    /\ UNCHANGED <<fileVars, job, sync, sees>>

\* The tools are listed a second time.
Regenerate(k) ==
    /\ NextEntry(k)
    /\ \E tools \in Listed(k.server) : CurrentHash(tools) # todo[k].hash
    /\ \E tools \in Listed(k.server) : Begin(S, k, ToCLI(tools), "force")
    /\ sync' = "regenerating"
    /\ UNCHANGED <<fileVars, sees, todo>>

RegenerationEnds ==
    /\ sync = "regenerating"
    /\ job[S].step = "ended"
    /\ todo' = Without(todo, job[S].key)
    /\ job' = [job EXCEPT ![S] = Idle]
    /\ sync' = "compare"
    /\ UNCHANGED <<fileVars, sees>>

AllCompared ==
    /\ sync = "compare"
    /\ todo = EmptyManifest
    /\ sync' = "finish"
    /\ UNCHANGED <<fileVars, job, sees, todo>>

Gone ==
    /\ sync' = "off"
    /\ sees' = NoServerSeen
    /\ todo' = EmptyManifest

\* What was regenerated, unchanged or failed is reported, and the clients are disconnected.
FinishSync ==
    /\ sync = "finish"
    /\ Gone
    /\ UNCHANGED <<fileVars, job>>

SyncDies ==
    /\ sync # "off"
    /\ Gone
    /\ job' = [job EXCEPT ![S] = Idle]
    /\ FailWrite(S)

-------------------------------------------------------------------------------
SyncGenerates ==
    sync = "regenerating" /\ Generates(S) /\ UNCHANGED syncVars

SyncGoesOn ==
    \/ ReadManifestForSync
    \/ \E k \in DOMAIN todo : SyncUnchanged(k) \/ Regenerate(k)
    \/ SyncGenerates \/ RegenerationEnds
    \/ AllCompared \/ FinishSync
=================================================================================
