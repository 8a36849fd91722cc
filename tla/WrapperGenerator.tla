--------------------------- MODULE WrapperGenerator ---------------------------
(***************************************************************************)
(* Generation of the wrappers of MCP servers (src/cli/                     *)
(* wrapper-generator.ts): generateWrapper() renders a file of one server   *)
(* and one language, and enters it into the manifest, a file that is read, *)
(* changed and overwritten in place.  The setup wizard and the daily sync  *)
(* generate wrappers in processes of their own.                            *)
(*                                                                         *)
(* The tools of a server are the version of their schemas, and whether the *)
(* generator is given their parameters; version 0 is a server that lists   *)
(* no tools, or does not answer.                                           *)
(*                                                                         *)
(* An operator written right above another one, with a name that says what *)
(* is wrong with it, is a faulty variant of it: the properties are known   *)
(* to notice it in its place.  No specification uses it.                   *)
(***************************************************************************)
EXTENDS SharedFiles

CONSTANTS Servers, MaxVersion

ASSUME GeneratorAssumption == MaxVersion \in Nat

VARIABLE job    \* the generateWrapper() each process is in

Languages == {"typescript", "python"}
Keys == [server : Servers, language : Languages]

Manifest == <<"manifest">>
WrapperOf(k) == <<"wrapper", k.server, k.language>>
GeneratedFiles == {Manifest} \cup {WrapperOf(k) : k \in Keys}

\* The text of a wrapper is of no interest here.
Code == "code"

NoTools == 0
ToolLists == [version : NoTools..MaxVersion, parameters : BOOLEAN]

\* calculateSchemaHash() hashes the text of the tools in the form of the generator, with
\* their "inputSchema"; a hash stands for the text.
NoHash == [form |-> "none"]
HashOf(form, tools) ==
    IF tools.version = NoTools THEN [form |-> "no tools"]
    ELSE [form |-> form, tools |-> tools]
SchemaHash(tools) == HashOf("inputSchema", tools)

Success(tools) == [hash |-> SchemaHash(tools), status |-> "success"]
Failure == [hash |-> NoHash, status |-> "failed"]
Entries == {Success(t) : t \in ToolLists} \cup {Failure}

\* What the manifest holds: an entry for some of the wrappers.
EmptyManifest == [k \in {} |-> Failure]

Idle == [step |-> "idle"]
JobSteps == {"begun", "write", "writing", "enter", "update", "entering"}
JobAt(p, step) == job[p].step = step

GeneratorTypeOK ==
    /\ FilesTypeOK
    /\ \A p \in Processes :
          \/ job[p] = Idle
          \/ job[p].step = "ended" /\ job[p].key \in Keys
          \/ /\ job[p].step \in JobSteps
             /\ job[p].key \in Keys
             /\ job[p].option \in {"missing", "force"}
             /\ job[p].entry \in Entries
    /\ IsWhole(Manifest) => /\ DOMAIN files[Manifest].data \subseteq Keys
                            /\ \A k \in DOMAIN files[Manifest].data :
                                  files[Manifest].data[k] \in Entries

-------------------------------------------------------------------------------
SetJob(p, j) == job' = [job EXCEPT ![p] = j]
JobTo(p, step) == SetJob(p, [job[p] EXCEPT !.step = step])
JobEnds(p) == SetJob(p, [step |-> "ended", key |-> job[p].key])

\* The catch of generateWrapper(): the failure is entered into the manifest, and a failure
\* to do this is thrown.
Fails(p) ==
    IF job[p].entry.status = "success"
    THEN SetJob(p, [job[p] EXCEPT !.step = "enter", !.entry = Failure, !.read = EmptyManifest])
    ELSE JobEnds(p)

Begin(p, key, tools, option) ==
    /\ job[p] = Idle
    /\ SetJob(p, [step |-> "begun", key |-> key, option |-> option,
                  entry |-> Success(tools), read |-> EmptyManifest])

\* validateMCPName() refuses a name that is not made of letters, digits, - and _, before
\* anything else is done.
RefuseName(p) ==
    /\ JobAt(p, "begun")
    /\ JobEnds(p)
    /\ UNCHANGED fileVars

\* The directory, the template, its rendering, or the opening of the wrapper.
RenderFails(p) ==
    /\ JobAt(p, "begun")
    /\ Fails(p)
    /\ UNCHANGED fileVars

\* With "missing", a wrapper that exists is left as it is, and so is the manifest.
LookForWrapper(p) ==
    /\ JobAt(p, "begun")
    /\ IF job[p].option = "missing" /\ files[WrapperOf(job[p].key)] # Absent
       THEN JobEnds(p)
       ELSE JobTo(p, "write")
    /\ UNCHANGED fileVars

BeginWrapper(p) ==
    /\ JobAt(p, "write")
    /\ BeginWrite(p, WrapperOf(job[p].key))
    /\ JobTo(p, "writing")

EndWrapper(p) ==
    /\ JobAt(p, "writing")
    /\ EndWrite(p, Code)
    /\ JobTo(p, "enter")

WrapperFails(p) ==
    /\ JobAt(p, "writing")
    /\ FailWrite(p)
    /\ Fails(p)

\* updateManifest() holds a lock, but one of this process alone: the manifest is read, and
\* opened for the write later.  readManifest() takes a missing file for an empty manifest,
\* and throws if it is not JSON.
ReadManifestAsEmpty(p) == {IF IsWhole(Manifest) THEN files[Manifest].data ELSE EmptyManifest}
ReadManifest(p) == IF files[Manifest] = Absent THEN {EmptyManifest}
                   ELSE IF IsWhole(Manifest) THEN {files[Manifest].data}
                   ELSE {}

ReadToEnter(p) ==
    /\ JobAt(p, "enter")
    /\ \E read \in ReadManifest(p) :
          SetJob(p, [job[p] EXCEPT !.step = "update", !.read = read])
    /\ UNCHANGED fileVars

\* Its directory is made, and the file is emptied.
OpenManifest(p) ==
    /\ JobAt(p, "update")
    /\ BeginWrite(p, Manifest)
    /\ JobTo(p, "entering")

\* It is damaged, or cannot be read or opened.
EnterFails(p) ==
    /\ JobAt(p, "enter") \/ JobAt(p, "update")
    /\ Fails(p)
    /\ UNCHANGED fileVars

\* The entry of this server and language is replaced, or a new one appended.
WithEntry(p) == [k \in DOMAIN job[p].read \cup {job[p].key} |->
                    IF k = job[p].key THEN job[p].entry ELSE job[p].read[k]]

WriteManifest(p) ==
    /\ JobAt(p, "entering")
    /\ EndWrite(p, WithEntry(p))
    /\ JobEnds(p)

ManifestFails(p) ==
    /\ JobAt(p, "entering")
    /\ FailWrite(p)
    /\ Fails(p)

Generates(p) ==
    \/ RefuseName(p)
    \/ RenderFails(p) \/ LookForWrapper(p)
    \/ BeginWrapper(p) \/ EndWrapper(p) \/ WrapperFails(p)
    \/ ReadToEnter(p) \/ OpenManifest(p) \/ EnterFails(p)
    \/ WriteManifest(p) \/ ManifestFails(p)
=================================================================================
