------------------------------- MODULE StateFile -------------------------------
(***************************************************************************)
(* The life of state.db from setup to unload: the first creation of the    *)
(* file, the checks of an existing one, the out-of-place migration from    *)
(* schema 1 to 2 (storage/database.py 77-186) and the set-up of the config *)
(* entry around it (__init__.py, runtime.py).  The process may end between *)
(* any two steps, and each file operation may fail.                        *)
(*                                                                         *)
(* A step is one file operation, or one SQLite transaction; what a process *)
(* crash leaves of a transaction is all or nothing.                        *)
(***************************************************************************)
EXTENDS Naturals, FiniteSets

CONSTANTS
    LegacyRows,     \* rows a schema-1 file may hold in the four tables it has
    Versions,       \* schema versions an existing file may have
    NoFile,
    MaxFaults       \* bound on process crashes and failing file operations

ASSUME StateFileAssumption ==
    /\ Versions \subseteq Nat \ {0}
    /\ NoFile \notin [version : Nat, tables : BOOLEAN, rows : SUBSET LegacyRows]
    /\ MaxFaults \in Nat

DB_SCHEMA_VERSION == 2

VARIABLES
    phase,      \* "down", "opening", "ready", "published", "loaded", "closing"
    step,       \* where _initialize_state_database is while "opening"
    file,       \* state.db
    backup,     \* state.db.pre-migration-v1.bak
    candidate,  \* .state.db.v2-migration
    faults,
    origin      \* history: state.db as the first process found it

files == <<file, backup, candidate>>
bounds == <<faults, origin>>
fileVars == <<phase, step, files, bounds>>

\* Version 0 is a file without a version row.
File(version, tables, rows) == [version |-> version, tables |-> tables, rows |-> rows]

FileInit ==
    /\ phase = "down" /\ step = "look"
    /\ \/ file = NoFile
       \/ \E v \in Versions, rows \in SUBSET LegacyRows : file = File(v, TRUE, rows)
    /\ backup = NoFile /\ candidate = NoFile
    /\ faults = 0
    /\ origin = file

-----------------------------------------------------------------------------
\* Home Assistant sets the entry up: at start, on a reload, after a failure.
SetUpEntry ==
    /\ phase = "down"
    /\ phase' = "opening" /\ step' = "look"
    /\ UNCHANGED <<files, bounds>>

Opening(s) == phase = "opening" /\ step = s

Then(s) == step' = s /\ UNCHANGED <<phase, bounds>>

\* An exception closes what async_open had opened, and setup fails.
GiveUp == phase' = "down" /\ step' = "look" /\ UNCHANGED <<files, bounds>>

-----------------------------------------------------------------------------
(* No state.db yet. *)

\* sqlite3.connect makes the file, which _configure_state_connection sets to WAL.
CreateFile ==
    /\ Opening("look") /\ file = NoFile
    /\ file' = File(0, FALSE, {})
    /\ UNCHANGED <<backup, candidate>>
    /\ Then("script")

\* executescript commits each statement by itself.
CreateTables ==
    /\ Opening("script")
    /\ file' = [file EXCEPT !.tables = TRUE]
    /\ UNCHANGED <<backup, candidate>>
    /\ Then("stamp")

StampVersion ==
    /\ Opening("stamp")
    /\ file' = [file EXCEPT !.version = DB_SCHEMA_VERSION]
    /\ UNCHANGED <<backup, candidate>>
    /\ Then("connect")

-----------------------------------------------------------------------------
(* A state.db to check. *)

Unreadable == ~file.tables \/ file.version = 0 \/ file.version > DB_SCHEMA_VERSION

RefuseFile ==
    /\ Opening("look") /\ file # NoFile /\ Unreadable
    /\ GiveUp

\* The same schema script again, a no-op on a complete schema.
KeepFile ==
    /\ Opening("look") /\ file # NoFile /\ ~Unreadable /\ file.version = DB_SCHEMA_VERSION
    /\ UNCHANGED files
    /\ Then("connect")

\* An older file: its WAL is checkpointed, an earlier backup removed ...
DropBackup ==
    /\ Opening("look") /\ file # NoFile /\ ~Unreadable /\ file.version < DB_SCHEMA_VERSION
    /\ backup' = NoFile
    /\ UNCHANGED <<file, candidate>>
    /\ Then("backup")

\* ... and a new one taken.
TakeBackup ==
    /\ Opening("backup")
    /\ backup' = file
    /\ UNCHANGED <<file, candidate>>
    /\ Then("clear")

-----------------------------------------------------------------------------
(* _migrate_state_database *)

\* Mutant of ClearCandidate: an earlier candidate stays.
KeepCandidate ==
    /\ Opening("clear")
    /\ UNCHANGED files
    /\ Then("build")

\* Only a schema-1 file has a migration; no other older schema was released.
ClearCandidate ==
    /\ Opening("clear")
    /\ candidate' = NoFile
    /\ UNCHANGED <<file, backup>>
    /\ Then("build")

\* CREATE TABLE IF NOT EXISTS: an old candidate would be kept as it is.
BuildCandidate ==
    /\ Opening("build")
    /\ candidate' = IF candidate = NoFile THEN File(0, TRUE, {}) ELSE candidate
    /\ UNCHANGED <<file, backup>>
    /\ Then("copy")

\* Mutant of CopyRows: a table is forgotten.
CopyFewerRows ==
    /\ Opening("copy")
    /\ candidate' = File(DB_SCHEMA_VERSION, TRUE, {})
    /\ UNCHANGED <<file, backup>>
    /\ Then("verify")

\* One transaction: the version row and the rows of the four tables.  What is
\* there already breaks a constraint, and the exception ends the setup.
CopyRows ==
    /\ Opening("copy")
    /\ IF candidate.version = 0
       THEN /\ candidate' = File(DB_SCHEMA_VERSION, TRUE, file.rows)
            /\ UNCHANGED <<file, backup>>
            /\ Then("verify")
       ELSE GiveUp

\* integrity_check, foreign_key_check and the checkpoint of the candidate.
VerifyCandidate ==
    /\ Opening("verify")
    /\ UNCHANGED files
    /\ Then("replace")

\* os.replace
ReplaceFile ==
    /\ Opening("replace")
    /\ file' = candidate
    /\ candidate' = NoFile
    /\ UNCHANGED backup
    /\ Then("connect")

-----------------------------------------------------------------------------
(* The entry around it. *)

\* The writer connection, and the content generations: storage is open.
ConnectWriter ==
    /\ Opening("connect")
    /\ phase' = "ready" /\ step' = "look"
    /\ UNCHANGED <<files, bounds>>

\* The bundled installs may fail without failing the setup.
PublishRuntime ==
    /\ phase = "ready"
    /\ phase' = "published"
    /\ UNCHANGED <<step, files, bounds>>

\* Platforms and panel are registered.
FinishSetUp ==
    /\ phase = "published"
    /\ phase' = "loaded"
    /\ UNCHANGED <<step, files, bounds>>

\* An unload, or the undoing of a setup that failed in a platform or the
\* panel, takes the runtime out of hass.data first ...
WithdrawRuntime ==
    /\ phase \in {"published", "loaded"}
    /\ phase' = "closing"
    /\ UNCHANGED <<step, files, bounds>>

\* ... and closes it.  A setup that failed in async_create closes the storage.
CloseStorage ==
    /\ phase \in {"ready", "closing"}
    /\ phase' = "down"
    /\ UNCHANGED <<step, files, bounds>>

-----------------------------------------------------------------------------
(* Failures. *)

\* A full disk, a locked file, a failed check: the step has no effect.
FaultInOpen ==
    /\ phase = "opening"
    /\ phase' = "down" /\ step' = "look"
    /\ faults < MaxFaults /\ faults' = faults + 1
    /\ UNCHANGED <<files, origin>>

Crash ==
    /\ phase # "down"
    /\ phase' = "down" /\ step' = "look"
    /\ faults < MaxFaults /\ faults' = faults + 1
    /\ UNCHANGED <<files, origin>>

\* Sessions, answers, progress and audit rows are written while it is open.
CommitRows ==
    /\ phase \in {"published", "loaded", "closing"}
    /\ \E row \in LegacyRows \ file.rows : file' = [file EXCEPT !.rows = @ \cup {row}]
    /\ UNCHANGED <<phase, step, backup, candidate, bounds>>

OpenStep ==
    \/ CreateFile \/ CreateTables \/ StampVersion
    \/ RefuseFile \/ KeepFile \/ DropBackup \/ TakeBackup
    \/ ClearCandidate \/ BuildCandidate \/ CopyRows
    \/ VerifyCandidate \/ ReplaceFile \/ ConnectWriter

FileNext ==
    \/ SetUpEntry \/ OpenStep
    \/ PublishRuntime \/ FinishSetUp \/ WithdrawRuntime \/ CloseStorage
    \/ FaultInOpen \/ Crash \/ CommitRows

FileSpec == FileInit /\ [][FileNext]_fileVars

-----------------------------------------------------------------------------
(* Properties. *)

FileSet == [version : {0, DB_SCHEMA_VERSION} \cup Versions, tables : BOOLEAN, rows : SUBSET LegacyRows]

FileTypeOK ==
    /\ phase \in {"down", "opening", "ready", "published", "loaded", "closing"}
    /\ step \in {"look", "script", "stamp", "backup", "clear", "build", "copy", "verify",
                  "replace", "connect"}
    /\ {file, backup, candidate, origin} \subseteq FileSet \cup {NoFile}
    /\ faults \in 0 .. MaxFaults

\* Whatever crashes and errors strike it, the migration leaves either the
\* schema-1 file as it was, or the schema-2 file with all of its rows and a
\* backup that is that schema-1 file ("Failure leaves the original state.db
\* and migration backup untouched", ADR-0019:100).
UpgradeAtomic ==
    origin # NoFile /\ origin.version = 1 =>
        \/ file = origin
        \/ /\ file # NoFile /\ file.version = DB_SCHEMA_VERSION
           /\ origin.rows \subseteq file.rows
           /\ backup = origin

\* A file of a supported schema is refused only by an error or a crash in
\* that very setup: what an earlier one left behind does not stand in the
\* way ("Candidate SQLite sidecars are cleaned before retries.", ADR-0019:101).
LegacyOpens ==
    [][origin # NoFile /\ origin.version <= DB_SCHEMA_VERSION /\ phase = "opening" /\ phase' = "down"
         => faults' # faults]_fileVars
=============================================================================
