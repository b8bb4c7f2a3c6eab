--------------------------- MODULE WorkflowStore ---------------------------
(***************************************************************************)
(* How code becomes a stored version, while servers change and discovery   *)
(* rewrites what code is compiled against.                                 *)
(*                                                                         *)
(* Several processes (an MCP server per host, the CLI) compile the code of *)
(* one workflow: pyright reads the stubs on disk, the pins are read from   *)
(* the tools table, the file is written, and the row is inserted, each at  *)
(* its own moment.  A discovery (init, sync, connect) asks the servers,    *)
(* commits the table and then regenerates the stubs; nothing keeps two of  *)
(* them apart.  Any process may be killed.                                 *)
(*                                                                         *)
(* A code stands for the text with its two schemas, and for its hash.      *)
(***************************************************************************)
EXTENDS Naturals, FiniteSets

CONSTANTS
    Procs,         \* processes that call create_workflow and edit_workflow
    Syncs,         \* processes that call discover_and_persist
    Codes,         \* what the workflow's code may be
    Tools,         \* the tools every one of them calls, each of its own server
    Schemas,       \* schema hashes
    Fits,          \* the schemas each code typechecks against
    Absent,        \* no such tool, no such version
    Nobody,        \* no process, no code, no answer
    Discoveries    \* bound on how many discoveries commit

ASSUME StoreAssumption ==
    /\ Fits \in [Codes -> SUBSET Schemas]
    /\ Absent \notin Schemas \cup [Tools -> Schemas \cup {Absent}]
    /\ Nobody \notin Procs \cup Codes
    /\ Discoveries \in Nat

VARIABLES
    table,         \* the tools table
    stubs,         \* the generated runlace_types
    sync,          \* where each discovery stands
    found,         \* what the servers answered it, less the stubs it has written
    committed,     \* how many discoveries have committed
    lone,          \* history: no other discovery has been between commit and stubs
                   \* since the last commit, nor was one killed there
    pc,            \* where each process stands
    code,          \* the code it compiles
    pins,          \* the pins it has read so far
    calm,          \* history: it typechecked what one discovery left, and none
                   \* has committed since
    writer,        \* who holds the database's write lock over several statements
    exists,        \* the row of `workflows` is committed
    latest,        \* workflows.latest_version
    versions,      \* the rows of workflow_versions
    files,         \* <workflow>/<hash>.py
    contested,     \* history: codes two processes were storing at once
    told           \* the last answer anybody got, until the next call begins

syncVars  == <<sync, found, committed, lone, table, stubs>>
procVars  == <<pc, code, pins, calm>>
rowVars   == <<writer, exists, latest, versions>>
diskVars  == <<files, contested>>
vars == <<syncVars, procVars, rowVars, diskVars, told>>

-----------------------------------------------------------------------------
Seen  == [Tools -> Schemas \cup {Absent}]
Bare  == [t \in Tools |-> Absent]
Pcs   == {"idle", "given", "typed", "new", "known", "looking", "writing", "flushing", "inserting"}
SyncPcs == {"idle", "committed", "unlinked"}
Oks   == [code : Codes, pins : Seen, created : BOOLEAN]

\* Between the commit of its table and the last of its stubs.
Midway(d) == sync[d] # "idle"

\* schema_drift, of a version that is stored.
Drifted(c) == \E t \in Tools : table[t] = Absent \/ table[t] # versions[c][t]

\* Past find_version_by_hash, and about to write the file and the row.
Storing(p) == pc[p] \in {"writing", "flushing", "inserting"}

LockFree(p) == writer \in {Nobody, p}

Init ==
    /\ table \in [Tools -> Schemas] /\ stubs = table
    /\ sync = [d \in Syncs |-> "idle"] /\ found = [d \in Syncs |-> Bare]
    /\ committed = 0 /\ lone = TRUE
    /\ pc = [p \in Procs |-> "idle"]
    /\ code = [p \in Procs |-> Nobody]
    /\ pins = [p \in Procs |-> Bare]
    /\ calm = [p \in Procs |-> TRUE]
    /\ writer = Nobody /\ exists = FALSE /\ latest = Nobody
    /\ versions = [c \in Codes |-> Absent]
    /\ files = [c \in Codes |-> "none"]
    /\ contested = {}
    /\ told = Nobody

\* The call is over: the connection is closed, and rolls back what is open.
Return(p, answer) ==
    /\ pc' = [pc EXCEPT ![p] = "idle"]
    /\ code' = [code EXCEPT ![p] = Nobody]
    /\ pins' = [pins EXCEPT ![p] = Bare]
    /\ calm' = [calm EXCEPT ![p] = TRUE]
    /\ writer' = IF writer = p THEN Nobody ELSE writer
    /\ told' = answer

Goto(p, next) == pc' = [pc EXCEPT ![p] = next]

-----------------------------------------------------------------------------
\* Bugs this code could have had; not part of Next.

\* Stubs that are there are left alone.
LeaveStubs(d) ==
    /\ sync[d] = "committed"
    /\ sync' = [sync EXCEPT ![d] = "idle"] /\ found' = [found EXCEPT ![d] = Bare]
    /\ UNCHANGED <<committed, lone, table, stubs, procVars, rowVars, diskVars, told>>

\* The file is still in a buffer when the row is committed.
WriteFileLater(p) ==
    /\ pc[p] = "flushing"
    /\ Goto(p, "inserting")
    /\ UNCHANGED <<syncVars, code, pins, calm, rowVars, diskVars, told>>

\* INSERT OR REPLACE ...
InsertOrReplace(p) ==
    /\ pc[p] = "inserting" /\ LockFree(p)
    /\ versions' = [versions EXCEPT ![code[p]] = pins[p]]
    /\ latest' = code[p] /\ exists' = TRUE
    /\ Return(p, [code |-> code[p], pins |-> pins[p], created |-> TRUE])
    /\ UNCHANGED <<syncVars, diskVars>>

\* ... or INSERT OR IGNORE.
InsertOrIgnore(p) ==
    /\ pc[p] = "inserting" /\ LockFree(p)
    /\ versions' = [versions EXCEPT ![code[p]] =
                      IF @ = Absent THEN pins[p] ELSE @]
    /\ latest' = code[p] /\ exists' = TRUE
    /\ Return(p, [code |-> code[p], pins |-> pins[p], created |-> TRUE])
    /\ UNCHANGED <<syncVars, diskVars>>

-----------------------------------------------------------------------------
(* Discovery.                                                              *)

\* discover_all, then prune_connectors and _write_connector in one transaction.  The
\* table is whatever the servers have answered by then, which nobody sees before; one
\* that cannot be reached has no tools.
CommitTable(d, answer) ==
    /\ committed < Discoveries
    /\ sync[d] = "idle" /\ writer = Nobody
    /\ committed' = committed + 1
    /\ found' = [found EXCEPT ![d] = answer] /\ table' = answer
    /\ sync' = [sync EXCEPT ![d] = "committed"]
    /\ lone' = \A e \in Syncs : ~Midway(e)
    /\ calm' = [p \in Procs |-> calm[p] /\ pc[p] # "typed"]
    /\ UNCHANGED <<stubs, pc, code, pins, rowVars, diskVars, told>>

\* stubs.generate: what is there goes first ...
UnlinkStubs(d) ==
    /\ sync[d] = "committed"
    /\ stubs' = Bare
    /\ sync' = [sync EXCEPT ![d] = "unlinked"]
    /\ UNCHANGED <<committed, found, lone, table, procVars, rowVars, diskVars, told>>

\* ... then a stub is written for every server that answered ...
WriteStub(d, t) ==
    /\ sync[d] = "unlinked" /\ found[d][t] # Absent
    /\ stubs' = [stubs EXCEPT ![t] = found[d][t]]
    /\ found' = [found EXCEPT ![d][t] = Absent]
    /\ UNCHANGED <<committed, sync, lone, table, procVars, rowVars, diskVars, told>>

\* ... until all are there.
EndSync(d) ==
    /\ sync[d] = "unlinked" /\ found[d] = Bare
    /\ sync' = [sync EXCEPT ![d] = "idle"]
    /\ UNCHANGED <<committed, found, lone, table, stubs, procVars, rowVars, diskVars, told>>

\* Killed, or a stub was gone before it was unlinked: stubs and table are no longer
\* of one discovery.  Before the commit, nothing has happened.
KillSync(d) ==
    /\ Midway(d)
    /\ sync' = [sync EXCEPT ![d] = "idle"] /\ found' = [found EXCEPT ![d] = Bare]
    /\ lone' = FALSE
    /\ UNCHANGED <<committed, table, stubs, procVars, rowVars, diskVars, told>>

-----------------------------------------------------------------------------
(* create_workflow and edit_workflow.                                      *)

\* The code comes whole, or is the latest version's with one string replaced;
\* without its file, or in one just emptied, there is nothing to replace.
Begin(p, c) ==
    /\ pc[p] = "idle"
    /\ Goto(p, "given")
    /\ code' = [code EXCEPT ![p] = c]
    /\ told' = Nobody
    /\ UNCHANGED <<syncVars, pins, calm, rowVars, diskVars>>

Create(p, c) == Begin(p, c)
Edit(p, c)   == latest # Nobody /\ c # latest /\ files[latest] = "whole" /\ Begin(p, c)

\* A refusal, or an exception the server turns into one.
Refuse(p) ==
    /\ Return(p, Nobody)
    /\ UNCHANGED <<syncVars, exists, latest, versions, diskVars>>

\* compile_workflow, up to pyright's verdict on a copy of the stubs.
Typecheck(p) ==
    /\ pc[p] = "given"
    /\ \A t \in Tools : stubs[t] \in Fits[code[p]]
    /\ Goto(p, "typed")
    /\ calm' = [calm EXCEPT ![p] = lone /\ \A d \in Syncs : ~Midway(d)]
    /\ UNCHANGED <<syncVars, code, pins, rowVars, diskVars, told>>

FailTypecheck(p) ==
    /\ pc[p] = "given"
    /\ \E t \in Tools : stubs[t] \notin Fits[code[p]]
    /\ Refuse(p)

\* _extract_and_pin: one SELECT for each tool.
Pin(p, t) ==
    /\ pc[p] = "typed" /\ pins[p][t] = Absent
    /\ table[t] # Absent
    /\ pins' = [pins EXCEPT ![p][t] = table[t]]
    /\ UNCHANGED <<syncVars, pc, code, calm, rowVars, diskVars, told>>

FailToPin(p, t) ==
    /\ pc[p] = "typed" /\ pins[p][t] = Absent
    /\ table[t] = Absent
    /\ Refuse(p)

\* _store: find_workflow.
FindWorkflow(p) ==
    /\ pc[p] = "typed"
    /\ \A t \in Tools : pins[p][t] # Absent
    /\ Goto(p, IF exists THEN "known" ELSE "new")
    /\ UNCHANGED <<syncVars, code, pins, calm, rowVars, diskVars, told>>

\* insert_workflow opens a transaction; workflows.name is UNIQUE.
InsertWorkflow(p) ==
    /\ pc[p] = "new" /\ writer = Nobody
    /\ ~exists
    /\ writer' = p
    /\ Goto(p, "looking")
    /\ UNCHANGED <<syncVars, code, pins, calm, exists, latest, versions, diskVars, told>>

InsertWorkflowTooLate(p) ==
    /\ pc[p] = "new" /\ writer = Nobody
    /\ exists
    /\ Refuse(p)

\* update_workflow_description opens one too, if the description is another.
Describe(p) ==
    /\ pc[p] = "known"
    /\ Goto(p, "looking")
    /\ \/ writer' = writer
       \/ writer = Nobody /\ writer' = p
    /\ UNCHANGED <<syncVars, code, pins, calm, exists, latest, versions, diskVars, told>>

\* find_version_by_hash: identical to an existing version, which is reported
\* with the pins of this compilation.
FindVersion(p) ==
    /\ pc[p] = "looking"
    /\ versions[code[p]] # Absent
    /\ Return(p, [code |-> code[p], pins |-> pins[p], created |-> FALSE])
    /\ UNCHANGED <<syncVars, exists, latest, versions, diskVars>>

FindNoVersion(p) ==
    /\ pc[p] = "looking"
    /\ versions[code[p]] = Absent
    /\ Goto(p, "writing")
    /\ contested' = IF \E q \in Procs : Storing(q) /\ code[q] = code[p]
                      THEN contested \cup {code[p]} ELSE contested
    /\ UNCHANGED <<syncVars, code, pins, calm, rowVars, files, told>>

\* write_text empties the file, whatever is in it, ...
OpenFile(p) ==
    /\ pc[p] = "writing"
    /\ files' = [files EXCEPT ![code[p]] = "empty"]
    /\ Goto(p, "flushing")
    /\ UNCHANGED <<syncVars, code, pins, calm, rowVars, contested, told>>

\* ... and writes the code.
WriteFile(p) ==
    /\ pc[p] = "flushing"
    /\ files' = [files EXCEPT ![code[p]] = "whole"]
    /\ Goto(p, "inserting")
    /\ UNCHANGED <<syncVars, code, pins, calm, rowVars, contested, told>>

\* insert_workflow_version with its UPDATE of latest_version, and the commit.
InsertVersion(p) ==
    /\ pc[p] = "inserting" /\ LockFree(p)
    /\ versions[code[p]] = Absent
    /\ versions' = [versions EXCEPT ![code[p]] = pins[p]]
    /\ latest' = code[p] /\ exists' = TRUE
    /\ Return(p, [code |-> code[p], pins |-> pins[p], created |-> TRUE])
    /\ UNCHANGED <<syncVars, diskVars>>

\* UNIQUE(workflow_id, version_hash)
InsertVersionTooLate(p) ==
    /\ pc[p] = "inserting" /\ LockFree(p)
    /\ versions[code[p]] # Absent
    /\ Refuse(p)

\* "database is locked", when busy_timeout is over.
GiveUpOnLock(p) ==
    /\ pc[p] \in {"new", "known", "inserting"}
    /\ ~LockFree(p)
    /\ Refuse(p)

Kill(p) == pc[p] # "idle" /\ Refuse(p)

-----------------------------------------------------------------------------
SyncStep(d) ==
    \/ \E answer \in Seen : CommitTable(d, answer)
    \/ UnlinkStubs(d) \/ EndSync(d) \/ KillSync(d)
    \/ \E t \in Tools : WriteStub(d, t)

CompileStep(p) ==
    \/ \E c \in Codes : Create(p, c) \/ Edit(p, c)
    \/ Typecheck(p) \/ FailTypecheck(p)
    \/ \E t \in Tools : Pin(p, t) \/ FailToPin(p, t)

StoreStep(p) ==
    \/ FindWorkflow(p) \/ InsertWorkflow(p) \/ InsertWorkflowTooLate(p) \/ Describe(p)
    \/ FindVersion(p) \/ FindNoVersion(p) \/ OpenFile(p) \/ WriteFile(p)
    \/ InsertVersion(p) \/ InsertVersionTooLate(p) \/ GiveUpOnLock(p) \/ Kill(p)

Next ==
    \/ \E d \in Syncs : SyncStep(d)
    \/ \E p \in Procs : CompileStep(p) \/ StoreStep(p)

Spec == Init /\ [][Next]_vars

-----------------------------------------------------------------------------
TypeOK ==
    /\ table \in Seen /\ stubs \in Seen /\ found \in [Syncs -> Seen]
    /\ sync \in [Syncs -> SyncPcs] /\ committed \in 0..Discoveries /\ lone \in BOOLEAN
    /\ pc \in [Procs -> Pcs] /\ code \in [Procs -> Codes \cup {Nobody}]
    /\ pins \in [Procs -> Seen] /\ calm \in [Procs -> BOOLEAN]
    /\ writer \in Procs \cup {Nobody} /\ exists \in BOOLEAN
    /\ latest \in Codes \cup {Nobody}
    /\ versions \in [Codes -> Seen \cup {Absent}]
    /\ files \in [Codes -> {"none", "empty", "whole"}] /\ contested \subseteq Codes
    /\ told \in Oks \cup {Nobody}

(* Every version can be read back: its file is whole before its row is     *)
(* there, whoever is killed in between (workflows.py:295-313).  Only where *)
(* two processes were storing the same code may one be emptying the file   *)
(* of the version the other has just inserted.                             *)
VersionIsReadable ==
    \A c \in Codes : versions[c] # Absent => files[c] = "whole" \/ c \in contested

(* A workflow that can be found has a version: its row and its first       *)
(* version become visible together (workflows.py:262-313).                 *)
NoEmptyWorkflow ==
    exists <=> latest # Nobody /\ versions[latest] # Absent

(* Whoever reads the store finds workflows with versions with files.       *)
StoreIsWhole == TypeOK /\ VersionIsReadable /\ NoEmptyWorkflow

(* An answer that says a version was created names one that is stored with *)
(* the pins the answer lists, also for the loser of a race for one hash    *)
(* (workflows.py:315-323); an answer that says it existed names a version. *)
OkIsStored ==
    told # Nobody =>
        /\ versions[told.code] # Absent
        /\ told.created => versions[told.code] = told.pins

(* What is about to be stored is pinned to schemas its code typechecks     *)
(* against, though stubs and table are written and read one after the      *)
(* other by processes that do not wait for each other (compiler.py:99-140, *)
(* init_cmd.py:163-205).  This takes that no discovery committed between   *)
(* the typecheck and the last pin, and that the one before had the stubs   *)
(* to itself and finished them.  Two that overlapped, or one killed after  *)
(* its commit, leave stubs of other tools than the table's, and until the  *)
(* next discovery everything compiled may be pinned to what it was not     *)
(* checked against.                                                        *)
CheckedAsPinned ==
    \A p \in Procs : calm[p] =>
        \A t \in Tools : pins[p][t] # Absent => pins[p][t] \in Fits[code[p]]

(* Versions are immutable: whatever is created, edited or discovered, a    *)
(* stored version keeps its pins (SPEC.md:38, db.py:344).                  *)
VersionsAreImmutable ==
    [][\A c \in Codes : versions[c] # Absent => versions'[c] = versions[c]]_vars

(* Whoever reads the store sees an archive: each step of the store is one  *)
(* of the archive or none.                                                 *)
Archive == INSTANCE VersionArchive WITH
    Pinnings <- [Tools -> Schemas], kept <- versions, listed <- exists, texts <- files

(* A version is kept once, with all its pins and a whole text that nobody  *)
(* writes again unless its code was contested, and what an answer names is *)
(* kept, whoever is killed between file, row and commit, and however the   *)
(* processes interleave (workflows.py:262-323, db.py:344).                 *)
ImplementsArchive == Archive!ArchiveSpec

-----------------------------------------------------------------------------
(* "review what changed with get_workflow, and create a new version if the *)
(* workflow still makes sense." (runs.py:297): a workflow that was created *)
(* again, and compiled against the tools as they are now, is not refused   *)
(* for drift.                                                              *)
RecreatingCures ==
    told # Nobody /\ told.pins = table => ~Drifted(told.code)
=============================================================================
