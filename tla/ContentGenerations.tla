-------------------------- MODULE ContentGenerations --------------------------
(***************************************************************************)
(* The content generation manager (storage/content.py,                     *)
(* ContentGenerationManager) with its callers in storage/database.py: the  *)
(* reader gate and its leases, the out-of-place build, activation and      *)
(* rollback, the executor job that moves the current.db pointer under a    *)
(* switch journal, and what a new process recovers from the disk.          *)
(*                                                                         *)
(* Every asyncio critical section under the manager's Condition is one     *)
(* step; every file operation of the executor job is one step, so that a   *)
(* crash, an I/O error or another task can come between any two of them.   *)
(* A rename followed by an fsync of the directory is one step: a crash     *)
(* between the two loses the rename or keeps it, and the states around the *)
(* step are exactly those two outcomes.                                    *)
(***************************************************************************)
EXTENDS Naturals, FiniteSets

CONSTANTS
    Gens,           \* generation ids (a fresh uuid per build)
    NoGen,          \* Python's None
    Readers,        \* tasks inside SQLiteStorage._async_reader
    Switchers,      \* tasks that build, activate or roll back generations
    MaxRestarts,    \* bound on crashes and unload/reload cycles
    MaxFaults,      \* bound on OSErrors raised by file operations
    CancelReads,    \* may a task awaiting a running reader be cancelled?
    CancelDrains    \* may a switch be cancelled while it drains readers?

ASSUME ConstantsAssumption ==
    /\ NoGen \notin Gens
    /\ IsFiniteSet(Readers) /\ IsFiniteSet(Switchers)
    /\ Readers \cap Switchers = {}
    /\ MaxRestarts \in Nat /\ MaxFaults \in Nat
    /\ CancelReads \in BOOLEAN /\ CancelDrains \in BOOLEAN

Clients == Readers \cup Switchers
MaybeGen == Gens \cup {NoGen}
NoJob == [pc |-> "none", op |-> "none", target |-> NoGen, prev |-> NoGen]

VARIABLES
    \* the manager object
    phase,          \* "down" | "opening" | "open" | "closeWait" | "closeDrain" | "closed"
    active,         \* _active (and _active_path, which is generations/<active>.db)
    previous,       \* _previous_id
    switching,      \* _switching
    leases,         \* _leases: generation -> number of pins
    \* its clients
    hold,           \* the unreleased ContentReaderLease of each client, or NoGen
    task,           \* asyncio side of a reader
    thread,         \* executor side of a reader
    path,           \* the generation file handed to the reader's thread
    sw,             \* program counter of a switcher
    cand,           \* the candidate a switcher built
    job,            \* the executor job that changes files
    \* the disk
    current,        \* the generation current.db is a hard link to
    files,          \* generations/*.db
    staged,         \* complete candidates in staging/
    parent,         \* parent_generation_id inside each generation
    built,          \* ids already used
    catalog,        \* catalog.json: <<active, previous>>
    journal,        \* switch-journal.json: <<from, to>>, or <<>> when absent
    \* bounds
    restarts, faults

memory == <<phase, active, previous, switching, leases>>
clients == <<hold, task, thread, path, sw, cand>>
disk == <<current, files, staged, parent, built, catalog, journal>>
bounds == <<restarts, faults>>
vars == <<memory, clients, job, disk, bounds>>

JobPcs == {"none", "validate", "move", "journal", "link", "unjournal",
           "catalog", "clear", "cleanup", "done", "failed"}
JobOps == {"none", "open", "bootstrap", "activate", "rollback"}
SwitchPcs == {"idle", "awaitGate", "building", "awaitActivate", "drainActivate",
              "awaitRollback", "drainRollback", "running"}

ManagerType ==
    /\ phase \in {"down", "opening", "open", "closeWait", "closeDrain", "closed"}
    /\ active \in MaybeGen /\ previous \in MaybeGen
    /\ switching \in BOOLEAN
    /\ leases \in [Gens -> Nat]
ClientType ==
    /\ hold \in [Clients -> MaybeGen]
    /\ task \in [Readers -> {"idle", "waiting", "reading"}]
    /\ thread \in [Readers -> {"none", "queued", "starting", "attached"}]
    /\ path \in [Readers -> MaybeGen]
    /\ sw \in [Switchers -> SwitchPcs]
    /\ cand \in [Switchers -> MaybeGen]
JobType ==
    /\ job \in [pc : JobPcs, op : JobOps, target : MaybeGen, prev : MaybeGen]
    /\ job.pc \notin {"none", "validate", "failed"} => job.target \in Gens
DiskType ==
    /\ current \in MaybeGen
    /\ files \subseteq Gens /\ staged \subseteq Gens /\ built \subseteq Gens
    /\ parent \in [Gens -> MaybeGen]
    /\ catalog \in MaybeGen \X MaybeGen
    /\ journal \in {<<>>} \cup (MaybeGen \X MaybeGen)
BoundType == restarts \in Nat /\ faults \in Nat

\* Every variable keeps the shape its Python counterpart has.
TypeOK == ManagerType /\ ClientType /\ JobType /\ DiskType /\ BoundType

-----------------------------------------------------------------------------
(* The reader gate *)

Closed == phase \in {"closeWait", "closeDrain", "closed"}
GateOpen == phase = "open" /\ ~switching
Drained == \A g \in Gens : leases[g] = 0

\* acquire_reader under the condition: pin the active generation.
Pin(c) ==
    /\ hold' = [hold EXCEPT ![c] = active]
    /\ leases' = [leases EXCEPT ![active] = @ + 1]

\* Mutant of Unpin: every pin of the generation dropped at once.
UnpinAll(c) ==
    /\ hold' = [hold EXCEPT ![c] = NoGen]
    /\ leases' = [leases EXCEPT ![hold[c]] = 0]

\* _release_reader: the count drops, and the entry with it when it was the last.
Unpin(c) ==
    /\ hold' = [hold EXCEPT ![c] = NoGen]
    /\ leases' = [leases EXCEPT ![hold[c]] = IF @ <= 1 THEN 0 ELSE @ - 1]

\* _async_reader of an idle client: wait out a switch, or take a lease and
\* submit _run_reader with the pinned path.
StartRead(r) ==
    /\ phase = "open" /\ task[r] = "idle" /\ thread[r] = "none"
    /\ IF switching
       THEN /\ task' = [task EXCEPT ![r] = "waiting"]
            /\ UNCHANGED <<hold, leases, thread, path>>
       ELSE /\ task' = [task EXCEPT ![r] = "reading"]
            /\ Pin(r)
            /\ thread' = [thread EXCEPT ![r] = "queued"]
            /\ path' = [path EXCEPT ![r] = active]
    /\ UNCHANGED <<phase, active, previous, switching, sw, cand, job, disk, bounds>>

\* A waiting reader is woken with the gate open.
GrantRead(r) ==
    /\ GateOpen /\ task[r] = "waiting"
    /\ task' = [task EXCEPT ![r] = "reading"]
    /\ Pin(r)
    /\ thread' = [thread EXCEPT ![r] = "queued"]
    /\ path' = [path EXCEPT ![r] = active]
    /\ UNCHANGED <<phase, active, previous, switching, sw, cand, job, disk, bounds>>

\* A waiting reader finds the manager closed, or is cancelled while it waits.
LeaveGate(r) ==
    /\ task[r] = "waiting" /\ (Closed \/ CancelReads)
    /\ task' = [task EXCEPT ![r] = "idle"]
    /\ UNCHANGED <<memory, hold, thread, path, sw, cand, job, disk, bounds>>

EndThread(r) ==
    /\ thread' = [thread EXCEPT ![r] = "none"]
    /\ path' = [path EXCEPT ![r] = NoGen]

\* The reader thread picks the call up; then it attaches generations/<path>.db,
\* or fails when the file is gone; then it closes its connection.
ThreadStart(r) ==
    /\ thread[r] = "queued"
    /\ thread' = [thread EXCEPT ![r] = "starting"]
    /\ UNCHANGED <<memory, hold, task, path, sw, cand, job, disk, bounds>>

ThreadAttach(r) ==
    /\ thread[r] = "starting"
    /\ IF path[r] \in files
       THEN thread' = [thread EXCEPT ![r] = "attached"] /\ UNCHANGED path
       ELSE EndThread(r)
    /\ UNCHANGED <<memory, hold, task, sw, cand, job, disk, bounds>>

ThreadClose(r) ==
    /\ thread[r] = "attached"
    /\ EndThread(r)
    /\ UNCHANGED <<memory, hold, task, sw, cand, job, disk, bounds>>

\* Mutant of FinishRead: the lease goes back before the thread has closed its
\* connection.
FinishReadEarly(r) ==
    /\ task[r] = "reading"
    /\ task' = [task EXCEPT ![r] = "idle"]
    /\ Unpin(r)
    /\ UNCHANGED <<phase, active, previous, switching, thread, path, sw, cand,
                   job, disk, bounds>>

\* The awaited result arrives and the lease's __aexit__ releases the pin.
FinishRead(r) ==
    /\ task[r] = "reading" /\ thread[r] = "none"
    /\ task' = [task EXCEPT ![r] = "idle"]
    /\ Unpin(r)
    /\ UNCHANGED <<phase, active, previous, switching, thread, path, sw, cand,
                   job, disk, bounds>>

\* Cancelling the awaiting task runs __aexit__ at once: a queued call is
\* dropped, a running one keeps running without its pin.
CancelRead(r) ==
    /\ CancelReads /\ task[r] = "reading" /\ thread[r] # "none"
    /\ task' = [task EXCEPT ![r] = "idle"]
    /\ IF thread[r] = "queued" THEN EndThread(r) ELSE UNCHANGED <<thread, path>>
    /\ Unpin(r)
    /\ UNCHANGED <<phase, active, previous, switching, sw, cand, job, disk, bounds>>

-----------------------------------------------------------------------------
(* Building, activating and rolling back *)

\* The call of a switcher ends, with its local candidate.
Return(t) ==
    /\ sw' = [sw EXCEPT ![t] = "idle"]
    /\ cand' = [cand EXCEPT ![t] = NoGen]

\* async_build_content_generation takes a reader lease for the whole build.
StartBuild(t) ==
    /\ phase = "open" /\ sw[t] = "idle"
    /\ IF switching
       THEN /\ sw' = [sw EXCEPT ![t] = "awaitGate"]
            /\ UNCHANGED <<hold, leases>>
       ELSE /\ sw' = [sw EXCEPT ![t] = "building"]
            /\ Pin(t)
    /\ UNCHANGED <<phase, active, previous, switching, task, thread, path, cand,
                   job, disk, bounds>>

GrantBuild(t) ==
    /\ GateOpen /\ sw[t] = "awaitGate"
    /\ sw' = [sw EXCEPT ![t] = "building"]
    /\ Pin(t)
    /\ UNCHANGED <<phase, active, previous, switching, task, thread, path, cand,
                   job, disk, bounds>>

\* The builder copies the leased generation and records it as the parent.
FinishBuild(t) ==
    /\ sw[t] = "building"
    /\ \E g \in Gens \ built :
          /\ built' = built \cup {g}
          /\ staged' = staged \cup {g}
          /\ parent' = [parent EXCEPT ![g] = hold[t]]
          /\ cand' = [cand EXCEPT ![t] = g]
    /\ sw' = [sw EXCEPT ![t] = "awaitActivate"]
    /\ Unpin(t)
    /\ UNCHANGED <<phase, active, previous, switching, task, thread, path, job,
                   current, files, catalog, journal, bounds>>

\* The build fails, or its cancelled task was kept until the build had ended.
FailBuild(t) ==
    /\ sw[t] = "building"
    /\ sw' = [sw EXCEPT ![t] = "idle"]
    /\ Unpin(t)
    /\ UNCHANGED <<phase, active, previous, switching, task, thread, path, cand,
                   job, disk, bounds>>

RequestRollback(t) ==
    /\ phase = "open" /\ sw[t] = "idle"
    /\ sw' = [sw EXCEPT ![t] = "awaitRollback"]
    /\ UNCHANGED <<memory, hold, task, thread, path, cand, job, disk, bounds>>

\* async_activate and async_rollback past their first wait: the gate closes.
StartSwitch(t) ==
    /\ GateOpen
    /\ \/ /\ sw[t] = "awaitActivate"
          /\ sw' = [sw EXCEPT ![t] = "drainActivate"]
       \/ /\ sw[t] = "awaitRollback" /\ previous # NoGen
          /\ sw' = [sw EXCEPT ![t] = "drainRollback"]
    /\ switching' = TRUE
    /\ UNCHANGED <<phase, active, previous, leases, hold, task, thread, path,
                   cand, job, disk, bounds>>

\* The errors raised before the gate closes, and cancellation while waiting.
RefuseSwitch(t) ==
    /\ \/ sw[t] \in {"awaitGate", "awaitActivate", "awaitRollback"} /\ (Closed \/ CancelDrains)
       \/ sw[t] = "awaitRollback" /\ GateOpen /\ previous = NoGen
    /\ Return(t)
    /\ UNCHANGED <<memory, hold, task, thread, path, job, disk, bounds>>

\* The last lease is gone: submit _activate_sync or _switch_existing_sync.
SubmitSwitch(t) ==
    /\ sw[t] \in {"drainActivate", "drainRollback"} /\ Drained
    /\ job' = [pc |-> "validate",
               op |-> IF sw[t] = "drainActivate" THEN "activate" ELSE "rollback",
               target |-> IF sw[t] = "drainActivate" THEN cand[t] ELSE previous,
               prev |-> active]
    /\ sw' = [sw EXCEPT ![t] = "running"]
    /\ UNCHANGED <<memory, hold, task, thread, path, cand, disk, bounds>>

\* Cancellation inside the drain loop is raised outside the try block whose
\* finally reopens the gate: the task ends and _switching stays set.
CancelDrain(t) ==
    /\ CancelDrains /\ sw[t] \in {"drainActivate", "drainRollback"}
    /\ Return(t)
    /\ UNCHANGED <<memory, hold, task, thread, path, job, disk, bounds>>

\* Mutants of FinishSwitch: the result is not published; the gate reopens only
\* after success.
FinishUnpublished(t) ==
    /\ sw[t] = "running" /\ job.pc \in {"done", "failed"}
    /\ switching' = FALSE
    /\ Return(t)
    /\ job' = NoJob
    /\ UNCHANGED <<phase, active, previous, leases, hold, task, thread, path, disk, bounds>>
FinishShut(t) ==
    /\ sw[t] = "running" /\ job.pc \in {"done", "failed"}
    /\ IF job.pc = "done"
       THEN active' = job.target /\ previous' = job.prev /\ switching' = FALSE
       ELSE UNCHANGED <<active, previous, switching>>
    /\ Return(t)
    /\ job' = NoJob
    /\ UNCHANGED <<phase, leases, hold, task, thread, path, disk, bounds>>

\* The shielded future completes (a cancellation meanwhile only changes what
\* the caller sees): memory follows a committed switch and the gate reopens.
FinishSwitch(t) ==
    /\ sw[t] = "running" /\ job.pc \in {"done", "failed"}
    /\ IF job.pc = "done"
       THEN active' = job.target /\ previous' = job.prev
       ELSE UNCHANGED <<active, previous>>
    /\ switching' = FALSE
    /\ Return(t)
    /\ job' = NoJob
    /\ UNCHANGED <<phase, leases, hold, task, thread, path, disk, bounds>>

-----------------------------------------------------------------------------
(* The executor job, one file operation at a time *)

Go(pc) == job' = [job EXCEPT !.pc = pc]
Fault == faults < MaxFaults /\ faults' = faults + 1
jobOnly == <<memory, clients, restarts>>

\* Mutant of JobValidate: the candidate's parent is not compared.
ValidateNoParent ==
    /\ job.pc = "validate"
    /\ IF job.op = "rollback"
       THEN Go(IF job.target \in files THEN "journal" ELSE "failed")
       ELSE Go(IF job.target \in staged \ files THEN "move" ELSE "failed")
    /\ UNCHANGED <<jobOnly, disk, faults>>

\* _activate_sync / _switch_existing_sync up to the first change.
JobValidate ==
    /\ job.pc = "validate"
    /\ IF job.op = "rollback"
       THEN Go(IF job.target \in files THEN "journal" ELSE "failed")
       ELSE Go(IF /\ job.target \in staged \ files
                  /\ parent[job.target] = job.prev
               THEN "move" ELSE "failed")
    /\ UNCHANGED <<jobOnly, disk, faults>>

\* os.replace(candidate, target), chmod, fsync of generations/.
JobMove ==
    /\ job.pc = "move"
    /\ \/ /\ staged' = staged \ {job.target} /\ files' = files \cup {job.target}
          /\ \/ Go("journal") /\ UNCHANGED faults
             \/ Go("failed") /\ Fault
       \/ Go("failed") /\ Fault /\ UNCHANGED <<staged, files>>
    /\ UNCHANGED <<jobOnly, current, parent, built, catalog, journal>>

\* Mutant of JobJournal: the pointer moves without a recorded intent.
JobNoJournal ==
    /\ job.pc = "journal" /\ Go("link")
    /\ UNCHANGED <<jobOnly, current, files, staged, parent, built, catalog, journal, faults>>

\* _write_switch_journal, outside the try block that would clear it.
JobJournal ==
    /\ job.pc = "journal"
    /\ \/ /\ journal' = <<job.prev, job.target>>
          /\ \/ Go("link") /\ UNCHANGED faults
             \/ Go("failed") /\ Fault
       \/ Go("failed") /\ Fault /\ UNCHANGED journal
    /\ UNCHANGED <<jobOnly, current, files, staged, parent, built, catalog>>

\* _replace_current_link: the commit point. Its fsync may fail after the rename.
JobLink ==
    /\ job.pc = "link"
    /\ \/ /\ current' = job.target
          /\ \/ Go("catalog") /\ UNCHANGED faults
             \/ Go("unjournal") /\ Fault
       \/ Go("unjournal") /\ Fault /\ UNCHANGED current
    /\ UNCHANGED <<jobOnly, files, staged, parent, built, catalog, journal>>

\* The exception handler: clear the journal (or fail to, suppressed), re-raise.
JobUnjournal ==
    /\ job.pc = "unjournal"
    /\ Go("failed")
    /\ \/ journal' = <<>> /\ UNCHANGED faults
       \/ UNCHANGED journal /\ Fault
    /\ UNCHANGED <<jobOnly, current, files, staged, parent, built, catalog>>

\* Opening an existing generation ends where a switch goes on to clean up.
AfterBookkeeping == IF job.op = "open" THEN "done" ELSE "cleanup"

\* _write_catalog: an OSError is swallowed and leaves the journal in place.
JobCatalog ==
    /\ job.pc = "catalog"
    /\ \/ /\ catalog' = <<job.target, job.prev>>
          /\ \/ Go("clear") /\ UNCHANGED faults
             \/ Go(AfterBookkeeping) /\ Fault
       \/ Go(AfterBookkeeping) /\ Fault /\ UNCHANGED catalog
    /\ UNCHANGED <<jobOnly, current, files, staged, parent, built, journal>>

JobClear ==
    /\ job.pc = "clear"
    /\ Go(AfterBookkeeping)
    /\ \/ journal' = <<>> /\ UNCHANGED faults
       \/ UNCHANGED journal /\ Fault
    /\ UNCHANGED <<jobOnly, current, files, staged, parent, built, catalog>>

\* _cleanup_generations unlinks what is neither active nor previous, in the
\* order glob yields; an OSError ends it.
Stale == files \ {job.target, job.prev}
JobCleanup ==
    /\ job.pc = "cleanup"
    /\ \/ \E g \in Stale : files' = files \ {g} /\ UNCHANGED <<job, faults>>
       \/ Stale = {} /\ Go("done") /\ UNCHANGED <<files, faults>>
       \/ Stale # {} /\ Go("done") /\ Fault /\ UNCHANGED files
    /\ UNCHANGED <<jobOnly, current, staged, parent, built, catalog, journal>>

JobStep == \/ JobValidate \/ JobMove \/ JobJournal \/ JobLink \/ JobUnjournal
           \/ JobCatalog \/ JobClear \/ JobCleanup

-----------------------------------------------------------------------------
(* Opening, closing and crashing *)

\* _read_switch_journal_previous, _read_catalog_previous, then the parent.
JournalPrevious == IF journal # <<>> /\ journal[2] = current THEN journal[1] ELSE NoGen
CatalogPrevious == IF catalog[1] = current THEN catalog[2] ELSE NoGen
RecordedPrevious ==
    IF JournalPrevious # NoGen THEN JournalPrevious
    ELSE IF CatalogPrevious # NoGen THEN CatalogPrevious
    ELSE parent[current]

\* What _open_sync takes the rollback generation to be: its file must validate.
RecoveredPrevious ==
    IF current # NoGen /\ RecordedPrevious \in files THEN RecordedPrevious ELSE NoGen

\* _open_sync: bootstrap when there is no current.db, else recover from it.
Open ==
    /\ phase = "down"
    /\ phase' = "opening"
    /\ \/ /\ current = NoGen
          /\ \E g \in Gens \ built :
                /\ built' = built \cup {g}
                /\ staged' = staged \cup {g}
                /\ job' = [pc |-> "validate", op |-> "bootstrap", target |-> g, prev |-> NoGen]
          /\ UNCHANGED files
       \/ /\ current # NoGen
          /\ files' = files \cup {current}
          /\ job' = [pc |-> "catalog", op |-> "open", target |-> current,
                     prev |-> RecoveredPrevious]
          /\ UNCHANGED <<built, staged>>
    /\ UNCHANGED <<active, previous, switching, leases, clients, current, parent,
                   catalog, journal, bounds>>

\* async_open stores the result; a failure closes the storage again.
FinishOpen ==
    /\ phase = "opening" /\ job.pc \in {"done", "failed"}
    /\ IF job.pc = "done"
       THEN /\ phase' = "open" /\ active' = job.target /\ previous' = job.prev
            /\ UNCHANGED restarts
       ELSE /\ phase' = "down" /\ restarts < MaxRestarts /\ restarts' = restarts + 1
            /\ UNCHANGED <<active, previous>>
    /\ job' = NoJob
    /\ UNCHANGED <<switching, leases, clients, disk, faults>>

\* async_close: refuse new readers, wait out a switch, drain.
StartClose ==
    /\ phase = "open"
    /\ phase' = "closeWait"
    /\ UNCHANGED <<active, previous, switching, leases, clients, job, disk, bounds>>

CloseGate ==
    /\ phase = "closeWait" /\ ~switching
    /\ phase' = "closeDrain" /\ switching' = TRUE
    /\ UNCHANGED <<active, previous, leases, clients, job, disk, bounds>>

FinishClose ==
    /\ phase = "closeDrain" /\ Drained
    /\ phase' = "closed"
    /\ UNCHANGED <<active, previous, switching, leases, clients, job, disk, bounds>>

\* A new manager object starts from nothing but the disk.
Forget ==
    /\ phase' = "down" /\ active' = NoGen /\ previous' = NoGen
    /\ switching' = FALSE /\ leases' = [g \in Gens |-> 0]
    /\ hold' = [c \in Clients |-> NoGen]
    /\ task' = [r \in Readers |-> "idle"]
    /\ thread' = [r \in Readers |-> "none"]
    /\ path' = [r \in Readers |-> NoGen]
    /\ sw' = [t \in Switchers |-> "idle"]
    /\ cand' = [t \in Switchers |-> NoGen]
    /\ job' = NoJob
    /\ restarts < MaxRestarts /\ restarts' = restarts + 1
    /\ UNCHANGED <<disk, faults>>

\* _shutdown_executors joins the reader threads; the entry may load again.
Reload ==
    /\ phase = "closed" /\ \A r \in Readers : thread[r] = "none"
    /\ Forget

Crash == phase # "down" /\ Forget

-----------------------------------------------------------------------------
Init ==
    /\ phase = "down" /\ active = NoGen /\ previous = NoGen
    /\ switching = FALSE /\ leases = [g \in Gens |-> 0]
    /\ hold = [c \in Clients |-> NoGen]
    /\ task = [r \in Readers |-> "idle"]
    /\ thread = [r \in Readers |-> "none"]
    /\ path = [r \in Readers |-> NoGen]
    /\ sw = [t \in Switchers |-> "idle"]
    /\ cand = [t \in Switchers |-> NoGen]
    /\ job = NoJob
    /\ current = NoGen /\ files = {} /\ staged = {} /\ built = {}
    /\ parent = [g \in Gens |-> NoGen]
    /\ catalog = <<NoGen, NoGen>> /\ journal = <<>>
    /\ restarts = 0 /\ faults = 0

ReaderStep(r) ==
    \/ StartRead(r) \/ GrantRead(r) \/ LeaveGate(r) \/ ThreadStart(r)
    \/ ThreadAttach(r) \/ ThreadClose(r) \/ FinishRead(r) \/ CancelRead(r)

SwitcherStep(t) ==
    \/ StartBuild(t) \/ GrantBuild(t) \/ FinishBuild(t) \/ FailBuild(t)
    \/ RequestRollback(t) \/ StartSwitch(t) \/ RefuseSwitch(t)
    \/ SubmitSwitch(t) \/ CancelDrain(t) \/ FinishSwitch(t)

LifecycleStep == \/ Open \/ FinishOpen \/ StartClose \/ CloseGate \/ FinishClose
                 \/ Reload \/ Crash

Next == \/ \E r \in Readers : ReaderStep(r)
        \/ \E t \in Switchers : SwitcherStep(t)
        \/ JobStep
        \/ LifecycleStep

Spec == Init /\ [][Next]_vars

\* Threads finish what they run, an awaiting task resumes when its future is
\* done, and the executor runs its job: weak fairness.  Waiters of the
\* Condition are woken in order each time the gate opens, ahead of later
\* arrivals, so a waiting task is not overtaken for ever: strong fairness.
\* Nothing makes a client start a request, cancel one, or close the manager.
Fairness ==
    /\ WF_vars(JobStep) /\ WF_vars(FinishOpen)
    /\ WF_vars(CloseGate) /\ WF_vars(FinishClose)
    /\ \A r \in Readers :
          /\ SF_vars(GrantRead(r)) /\ WF_vars(Closed /\ LeaveGate(r))
          /\ WF_vars(ThreadStart(r)) /\ WF_vars(ThreadAttach(r))
          /\ WF_vars(ThreadClose(r)) /\ WF_vars(FinishRead(r))
    /\ \A t \in Switchers :
          /\ SF_vars(GrantBuild(t)) /\ WF_vars(FinishBuild(t) \/ FailBuild(t))
          /\ SF_vars(StartSwitch(t)) /\ SF_vars(previous = NoGen /\ RefuseSwitch(t))
          /\ WF_vars(Closed /\ RefuseSwitch(t))
          /\ WF_vars(SubmitSwitch(t)) /\ WF_vars(FinishSwitch(t))

FairSpec == Spec /\ Fairness

-----------------------------------------------------------------------------
(* Properties *)

Holders(g) == {c \in Clients : hold[c] = g}

\* The count of a generation is the number of clients holding an unreleased
\* lease on it: a pin is neither lost nor left behind by any interleaving of
\* reads, builds and cancellations (acquire_reader, _release_reader).
LeaseAccounting == \A g \in Gens : leases[g] = Cardinality(Holders(g))

\* A lease protects the file it names: whatever switches happen meanwhile, no
\* cleanup removes the generation a client has pinned.
LeasedFileExists == \A c \in Clients : hold[c] # NoGen => hold[c] \in files

\* While the manager is open the generation it serves, the one current.db
\* points at and the one it would roll back to are all complete files.
ServedFilesExist ==
    phase = "open" =>
        /\ active \in files /\ current \in files
        /\ (previous # NoGen /\ ~switching) => previous \in files

\* ADR-0013, "wait for all leases and their real SQLite connections to close":
\* no reader thread works on a content file while a switch runs.  Kept while
\* no read is cancelled; a cancelled one gives its lease back at once (README).
SwitchAfterConnectionsClose ==
    job.op \in {"activate", "rollback"} =>
        \A r \in Readers : thread[r] \notin {"starting", "attached"}

\* ADR-0013, "the validated current.db inode is authoritative": whenever the
\* gate lets readers in, they get the generation the pointer names.
ReadersFollowPointer == GateOpen => active = current

\* Generation-level compare-and-swap: the pointer moves to a generation built
\* from the one it leaves, or back to the retained one, however builds,
\* activations and rollbacks interleave and whenever the process dies.
NoLostActivation ==
    [][current # NoGen => parent[current'] = current \/ current' = RecoveredPrevious]_current

\* The manager implements the atomic register: the commit point of a switch is
\* the rename of the link, and at every instant the disk alone determines both
\* the value and the rollback target a restart would recover.
Register == INSTANCE GenerationRegister WITH
    value <- current, retained <- RecoveredPrevious, pinned <- hold
ImplementsRegister == Register!Spec

\* Closing ends, so that unload can shut the executors down, unless the process
\* dies first.
CloseReturns == phase = "closeWait" ~> phase \in {"closed", "down"}

\* No call waits for ever: a reader held up by a switch is answered, a requested
\* activation or rollback returns, and closing ends.
CallsReturn ==
    /\ \A r \in Readers : task[r] = "waiting" ~> task[r] # "waiting"
    /\ \A t \in Switchers : sw[t] # "idle" ~> sw[t] = "idle"
    /\ CloseReturns

-----------------------------------------------------------------------------
(* The inductive invariant behind the safety properties *)

Opened == phase \in {"open", "closeWait", "closeDrain", "closed"}
Exclusive(t) == sw[t] \in {"drainActivate", "drainRollback", "running"}
Switch == job.op \in {"activate", "rollback"}

\* Exactly the clients inside a read or a build hold a lease, all on the
\* active generation.
HolderInv ==
    /\ \A r \in Readers : hold[r] # NoGen <=> task[r] = "reading"
    /\ \A t \in Switchers : hold[t] # NoGen <=> sw[t] = "building"
    /\ \A c \in Clients : hold[c] # NoGen => Opened /\ hold[c] = active

\* One switcher at a time is past the gate, and a switch runs for it alone,
\* with every lease returned.
ExclusionInv ==
    /\ \A t \in Switchers : Exclusive(t) => switching /\ phase \in {"open", "closeWait"}
    /\ \A t, u \in Switchers : Exclusive(t) /\ Exclusive(u) => t = u
    /\ Switch <=> \E t \in Switchers : sw[t] = "running"
    /\ Switch => job.prev = active /\ \A c \in Clients : hold[c] = NoGen

\* What the executor job has established at each of its steps.
JobInv ==
    /\ job.pc = "none" <=> job.op = "none"
    /\ phase = "opening" <=> job.op \in {"open", "bootstrap"}
    /\ job.pc \notin {"none", "validate", "move", "failed"} => job.target \in files
    /\ job.pc \in {"catalog", "clear", "cleanup", "done"} => current = job.target
    /\ job.op = "open" => /\ job.pc \in {"catalog", "clear", "done"}
                          /\ job.prev \in files \cup {NoGen}
    /\ job.op = "bootstrap" => job.prev = NoGen

\* The served, the linked and the retained generation are files.
FilesInv ==
    /\ Opened => active \in files /\ current \in files
    /\ Opened /\ previous # NoGen /\ job.pc \notin {"cleanup", "done"} => previous \in files

\* The protocol of a switch, as it must hold before every step of any task.
ProtocolInv == HolderInv /\ ExclusionInv /\ JobInv /\ FilesInv /\ LeaseAccounting
=============================================================================
