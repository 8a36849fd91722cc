------------------------------ MODULE SharedFiles ------------------------------
(***************************************************************************)
(* Files that several processes read whole and overwrite in place, by      *)
(* Node's readFile() and writeFile().  A write empties the file first, and *)
(* a process that ends meanwhile leaves it so.  Two writes that overlap    *)
(* may leave a mixture of both.                                            *)
(***************************************************************************)
EXTENDS Integers, FiniteSets, Sequences

CONSTANT Processes

ASSUME FilesAssumption == IsFiniteSet(Processes)

VARIABLES
    files,     \* what each file holds
    writing    \* the write each process is in the middle of

fileVars == <<files, writing>>

Absent == [status |-> "absent"]
Torn == [status |-> "torn"]
Whole(data) == [status |-> "whole", data |-> data]

IsWhole(f) == files[f].status = "whole"

NoFileName == <<>>
NotWriting == [file |-> NoFileName, mixed |-> FALSE]

Writers(f) == {p \in Processes : writing[p].file = f}

FilesTypeOK ==
    /\ \A f \in DOMAIN files : files[f].status \in {"absent", "torn", "whole"}
    /\ writing \in [Processes -> [file : DOMAIN files \cup {NoFileName}, mixed : BOOLEAN]]

BeginWrite(p, f) ==
    /\ files' = [files EXCEPT ![f] = Torn]
    /\ writing' = [q \in Processes |->
                     IF q = p THEN [file |-> f, mixed |-> Writers(f) # {}]
                     ELSE IF q \in Writers(f) THEN [file |-> f, mixed |-> TRUE]
                     ELSE writing[q]]

StopWriting(p) == writing' = [writing EXCEPT ![p] = NotWriting]

EndWrite(p, data) ==
    /\ \/ files' = [files EXCEPT ![writing[p].file] = Whole(data)]
       \/ writing[p].mixed /\ files' = [files EXCEPT ![writing[p].file] = Torn]
    /\ StopWriting(p)

\* The disk is full, or the process ends.
FailWrite(p) == StopWriting(p) /\ UNCHANGED files
=================================================================================
