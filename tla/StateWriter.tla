------------------------------ MODULE StateWriter ------------------------------
(***************************************************************************)
(* The single-writer path of state.db (storage/database.py): the asyncio   *)
(* lock that gates writes, the one-thread executor that owns the writer    *)
(* connection, the implicit transaction that connection may be left in,    *)
(* the Home Assistant backup hooks (backup.py) that hold the gate while    *)
(* the configuration is archived, and the unload that closes the storage.  *)
(*                                                                         *)
(* One step is what runs between two awaits of a task, or one job of the   *)
(* executor thread.  asyncio.Lock is fair: a release hands the lock to the *)
(* first waiter, which resumes in a later step.                            *)
(***************************************************************************)
EXTENDS Naturals, Sequences, FiniteSets

CONSTANTS
    Writers,        \* calls of _async_writer, each with one operation
    HA,             \* Home Assistant's backup manager, running the two hooks
    Unloader,       \* the task that unloads the config entry
    Nobody,         \* an unlocked gate, an idle thread
    MaxBackups,     \* bound on backups
    Timeouts,       \* may the 10 s timeout of the pre-backup hook expire?
    Unloads,        \* may the entry be unloaded?
    SlowReaders,    \* may a reader keep the WAL busy for the whole busy_timeout?
    Cancellable     \* the write calls whose awaiting task may be cancelled

ASSUME ConstantsAssumption ==
    /\ IsFiniteSet(Writers)
    /\ HA # Unloader /\ HA # Nobody /\ Unloader # Nobody
    /\ {HA, Unloader, Nobody} \cap Writers = {}
    /\ MaxBackups \in Nat
    /\ {Timeouts, Unloads, SlowReaders} \subseteq BOOLEAN
    /\ Cancellable \subseteq Writers

Actors == Writers \cup {HA, Unloader}

VARIABLES
    gate,           \* _writes_gate: its owner, or Nobody
    waiters,        \* tasks blocked in its acquire, first come first served
    backupActive,   \* _backup_active
    closed,         \* _closed
    loaded,         \* is the runtime in hass.data?
    wpc,            \* where each write call is
    write,          \* its operation: does it open a transaction, is it valid?
    bpc,            \* where the backup is
    upc,            \* where the unload is
    backups,
    jobs,           \* submitted to the writer executor and not started
    running,        \* the job on the thread, and whether a task awaits it
    result,         \* what the awaited job returned
    connected,      \* is the writer connection open?
    inTransaction,  \* connection.in_transaction between two jobs
    db,             \* the writes committed to state.db
    wal             \* those whose frames are still in the WAL

gateVars == <<gate, waiters, backupActive, closed, loaded>>
taskVars == <<wpc, write, bpc, upc, backups>>
execVars == <<jobs, running, result>>
dbVars == <<connected, inTransaction, db, wal>>
vars == <<gateVars, taskVars, execVars, dbVars>>

Operations == [opens : BOOLEAN, valid : BOOLEAN]
Idle == [actor |-> Nobody, awaited |-> FALSE]

\* Every variable keeps the shape of its Python counterpart, and a task waits
\* for the gate at most once.
TypeOK ==
    /\ gate \in Actors \cup {Nobody}
    /\ waiters \in Seq(Actors)
    /\ \A i, j \in DOMAIN waiters : waiters[i] = waiters[j] => i = j
    /\ {backupActive, closed, loaded, connected, inTransaction} \subseteq BOOLEAN
    /\ wpc \in [Writers -> {"idle", "queued", "submitted", "done", "failed", "cancelled"}]
    /\ write \in [Writers -> Operations]
    /\ bpc \in {"idle", "queued", "checkpoint", "archive", "failed"}
    /\ upc \in {"up", "stopping", "content", "queued", "closing", "shutdown", "joining", "down"}
    /\ backups \in 0..MaxBackups
    /\ jobs \in Seq(Actors)
    /\ running \in [actor : Actors \cup {Nobody}, awaited : BOOLEAN]
    /\ result \in [Actors -> {"none", "ok", "error", "cancelled"}]
    /\ db \subseteq Writers /\ wal \subseteq db

-----------------------------------------------------------------------------
(* The gate and the executor *)

\* Lock.acquire: at once when the lock is free, else in the queue.
Free == gate = Nobody /\ waiters = <<>>
Queue(a) == waiters' = Append(waiters, a) /\ UNCHANGED gate

\* Lock.release, which does not look at who releases; its RuntimeError on a
\* free lock is the caller's outcome.
Release ==
    IF waiters = <<>>
    THEN gate' = Nobody /\ UNCHANGED waiters
    ELSE gate' = Head(waiters) /\ waiters' = Tail(waiters)

\* s with its entry a, of which it has at most one, taken out.
Without(s, a) ==
    IF \A i \in DOMAIN s : s[i] # a THEN s
    ELSE LET k == CHOOSE i \in DOMAIN s : s[i] = a IN
         [i \in 1..(Len(s) - 1) |-> IF i < k THEN s[i] ELSE s[i + 1]]

\* A task cancelled in acquire leaves the queue, or passes on the lock it was
\* just handed.
LeaveQueue(a) ==
    IF gate = a THEN Release
    ELSE waiters' = Without(waiters, a) /\ UNCHANGED gate

ExecutorShut == upc \in {"joining", "down"}
Submit(a) == jobs' = Append(jobs, a) /\ UNCHANGED <<running, result>>

\* Cancelling the awaiting task withdraws a job that has not started; the
\* thread goes on with one that has.
Abandon(a) ==
    /\ jobs' = Without(jobs, a)
    /\ running' = IF running.actor = a THEN [running EXCEPT !.awaited = FALSE] ELSE running
    /\ result' = [result EXCEPT ![a] = "none"]

Collect(a) == result' = [result EXCEPT ![a] = "none"] /\ UNCHANGED <<jobs, running>>

-----------------------------------------------------------------------------
(* _async_writer *)

\* A call is refused once _closed is set; else it takes the gate and submits
\* its operation, or waits for the gate.
CallWriter(w) ==
    /\ wpc[w] = "idle"
    /\ \E op \in Operations : write' = [write EXCEPT ![w] = op]
    /\ \/ /\ closed
          /\ wpc' = [wpc EXCEPT ![w] = "failed"]
          /\ UNCHANGED <<gate, waiters, execVars>>
       \/ /\ ~closed /\ Free
          /\ gate' = w
          /\ wpc' = [wpc EXCEPT ![w] = "submitted"]
          /\ Submit(w)
          /\ UNCHANGED waiters
       \/ /\ ~closed /\ ~Free
          /\ Queue(w)
          /\ wpc' = [wpc EXCEPT ![w] = "queued"]
          /\ UNCHANGED execVars
    /\ UNCHANGED <<backupActive, closed, loaded, bpc, upc, backups, dbVars>>

\* The gate has been handed over; a shut executor raises RuntimeError.
ResumeWriter(w) ==
    /\ wpc[w] = "queued" /\ gate = w
    /\ IF ExecutorShut
       THEN wpc' = [wpc EXCEPT ![w] = "failed"] /\ Release /\ UNCHANGED execVars
       ELSE wpc' = [wpc EXCEPT ![w] = "submitted"] /\ Submit(w) /\ UNCHANGED <<gate, waiters>>
    /\ UNCHANGED <<backupActive, closed, loaded, write, bpc, upc, backups, dbVars>>

WriteOutcome(w) ==
    CASE gate = Nobody \/ result[w] = "error" -> "failed"
      [] gate # Nobody /\ result[w] = "ok" -> "done"
      [] gate # Nobody /\ result[w] = "cancelled" -> "cancelled"

\* The result arrives and the gate is released; Lock.release raises if the
\* gate was released by another task meanwhile.
ReturnWriter(w) ==
    /\ wpc[w] = "submitted" /\ result[w] # "none"
    /\ wpc' = [wpc EXCEPT ![w] = WriteOutcome(w)]
    /\ Release
    /\ Collect(w)
    /\ UNCHANGED <<backupActive, closed, loaded, write, bpc, upc, backups, dbVars>>

\* Mutant of CancelWriter: the gate stays locked by the cancelled task.
CancelWriterKeepingGate(w) ==
    /\ w \in Cancellable /\ wpc[w] = "submitted" /\ result[w] = "none"
    /\ wpc' = [wpc EXCEPT ![w] = "cancelled"]
    /\ Abandon(w)
    /\ UNCHANGED <<gate, waiters, backupActive, closed, loaded, write, bpc, upc, backups, dbVars>>

\* The awaiting task is cancelled, at the gate or behind its job.
CancelWriter(w) ==
    /\ w \in Cancellable /\ wpc[w] \in {"queued", "submitted"} /\ result[w] = "none"
    /\ wpc' = [wpc EXCEPT ![w] = "cancelled"]
    /\ IF wpc[w] = "queued"
       THEN LeaveQueue(w) /\ UNCHANGED execVars
       ELSE Release /\ Abandon(w)
    /\ UNCHANGED <<backupActive, closed, loaded, write, bpc, upc, backups, dbVars>>

-----------------------------------------------------------------------------
(* The writer thread *)

StartJob ==
    /\ running.actor = Nobody /\ jobs # <<>>
    /\ running' = [actor |-> Head(jobs), awaited |-> TRUE]
    /\ jobs' = Tail(jobs)
    /\ UNCHANGED <<gateVars, taskVars, result, dbVars>>

EndJob(outcome) ==
    /\ running' = Idle
    /\ result' = IF running.awaited THEN [result EXCEPT ![running.actor] = outcome] ELSE result
    /\ UNCHANGED jobs

Commit(w) == db' = db \cup {w} /\ wal' = wal \cup {w} /\ inTransaction' = FALSE

\* Mutants of RunWrite: no rollback when BEGIN IMMEDIATE or a statement fails;
\* a single statement returned without its commit.
RunWriteNoRollback(w) ==
    IF connected /\ write[w].valid /\ ~(write[w].opens /\ inTransaction)
    THEN Commit(w) /\ EndJob("ok")
    ELSE /\ inTransaction' = (connected /\ (inTransaction \/ ~write[w].opens))
         /\ EndJob("error") /\ UNCHANGED <<db, wal>>
RunWriteNoCommit(w) ==
    IF connected /\ write[w].valid /\ ~(write[w].opens /\ inTransaction)
    THEN /\ inTransaction' = ~write[w].opens
         /\ IF write[w].opens THEN Commit(w) ELSE UNCHANGED <<db, wal>>
         /\ EndJob("ok")
    ELSE /\ inTransaction' = (connected /\ ~write[w].opens)
         /\ EndJob("error") /\ UNCHANGED <<db, wal>>

\* An operation that opens a transaction cannot inside another; it rolls back
\* whatever is open when it fails.  An operation of one statement has no
\* handler: when the statement fails, the transaction that sqlite3 opened
\* for it stays open; when it succeeds its commit ends what was open.
RunWrite(w) ==
    IF connected /\ write[w].valid /\ ~(write[w].opens /\ inTransaction)
    THEN Commit(w) /\ EndJob("ok")
    ELSE /\ inTransaction' = (connected /\ ~write[w].opens)
         /\ EndJob("error") /\ UNCHANGED <<db, wal>>

\* PRAGMA wal_checkpoint(TRUNCATE) fails inside a transaction; when readers
\* keep the WAL busy it reports so in the row the code does not look at.
RunCheckpoint ==
    /\ IF connected /\ ~inTransaction
       THEN /\ EndJob("ok")
            /\ wal' = {} \/ (SlowReaders /\ wal' = wal)
       ELSE EndJob("error") /\ UNCHANGED wal
    /\ UNCHANGED <<db, inTransaction>>

\* _close_sync: the open transaction is lost with the connection.
RunClose ==
    /\ connected' = FALSE /\ inTransaction' = FALSE
    /\ wal' = {} /\ UNCHANGED db
    /\ EndJob("ok")

RunJob ==
    /\ \/ \E w \in Writers : running.actor = w /\ RunWrite(w) /\ UNCHANGED connected
       \/ running.actor = HA /\ RunCheckpoint /\ UNCHANGED connected
       \/ running.actor = Unloader /\ RunClose
    /\ UNCHANGED <<gateVars, taskVars>>

-----------------------------------------------------------------------------
(* The backup hooks *)

\* async_pre_backup: nothing to do without a runtime or with a backup already
\* active; else async_prepare_ha_backup takes the gate.
PreBackup ==
    /\ bpc = "idle" /\ backups < MaxBackups
    /\ backups' = backups + 1
    /\ \/ /\ ~loaded \/ backupActive
          /\ bpc' = "archive"
          /\ UNCHANGED <<gate, waiters, backupActive, execVars>>
       \/ /\ loaded /\ ~backupActive /\ Free
          /\ gate' = HA /\ backupActive' = TRUE
          /\ bpc' = "checkpoint"
          /\ Submit(HA)
          /\ UNCHANGED waiters
       \/ /\ loaded /\ ~backupActive /\ ~Free
          /\ Queue(HA)
          /\ bpc' = "queued"
          /\ UNCHANGED <<backupActive, execVars>>
    /\ UNCHANGED <<closed, loaded, wpc, write, upc, dbVars>>

\* A prepare that waits found the runtime loaded, so it is ahead of the unload
\* in the queue and the executor is still up.
ResumePrepare ==
    /\ bpc = "queued" /\ gate = HA
    /\ bpc' = "checkpoint" /\ backupActive' = TRUE
    /\ Submit(HA)
    /\ UNCHANGED <<gate, waiters, closed, loaded, wpc, write, upc, backups, dbVars>>

\* Mutant of ReturnPrepare: the gate is released with the checkpoint.
ReturnPrepareOpen ==
    /\ bpc = "checkpoint" /\ result[HA] # "none"
    /\ bpc' = IF result[HA] = "ok" THEN "archive" ELSE "failed"
    /\ backupActive' = FALSE /\ Release
    /\ Collect(HA)
    /\ UNCHANGED <<closed, loaded, wpc, write, upc, backups, dbVars>>

\* The checkpoint returns; only an error releases the gate.
ReturnPrepare ==
    /\ bpc = "checkpoint" /\ result[HA] # "none"
    /\ IF result[HA] = "ok"
       THEN bpc' = "archive" /\ UNCHANGED <<gate, waiters, backupActive>>
       ELSE bpc' = "failed" /\ backupActive' = FALSE /\ Release
    /\ Collect(HA)
    /\ UNCHANGED <<closed, loaded, wpc, write, upc, backups, dbVars>>

\* asyncio.timeout cancels the hook.  CancelledError is no Exception: past
\* the acquire the gate stays locked, until the post-backup hook.
TimeoutPrepare ==
    /\ Timeouts /\ bpc \in {"queued", "checkpoint"} /\ result[HA] = "none"
    /\ bpc' = "failed"
    /\ IF bpc = "queued"
       THEN LeaveQueue(HA) /\ UNCHANGED execVars
       ELSE Abandon(HA) /\ UNCHANGED <<gate, waiters>>
    /\ UNCHANGED <<backupActive, closed, loaded, wpc, write, upc, backups, dbVars>>

\* async_finish_ha_backup
Finish ==
    IF backupActive
    THEN backupActive' = FALSE /\ Release
    ELSE UNCHANGED <<gate, waiters, backupActive>>

\* Mutant of PostBackup: only a successful backup resumes writes.
PostSuccessfulBackup ==
    /\ bpc \in {"archive", "failed"}
    /\ bpc' = "idle"
    /\ IF loaded /\ bpc = "archive" THEN Finish ELSE UNCHANGED <<gate, waiters, backupActive>>
    /\ UNCHANGED <<closed, loaded, wpc, write, upc, backups, execVars, dbVars>>

\* Home Assistant has archived, or given up; async_post_backup resumes writes
\* of the runtime it finds.
PostBackup ==
    /\ bpc \in {"archive", "failed"}
    /\ bpc' = "idle"
    /\ IF loaded THEN Finish ELSE UNCHANGED <<gate, waiters, backupActive>>
    /\ UNCHANGED <<closed, loaded, wpc, write, upc, backups, execVars, dbVars>>

-----------------------------------------------------------------------------
(* Unloading *)

\* async_unload_entry takes the runtime out of hass.data and cancels its
\* operations.
Unload ==
    /\ Unloads /\ upc = "up"
    /\ loaded' = FALSE
    /\ upc' = "stopping"
    /\ UNCHANGED <<gate, waiters, backupActive, closed, wpc, write, bpc, backups, execVars, dbVars>>

\* SQLiteStorage.async_close ends a backup that is active, then closes the
\* content.
CloseStorage ==
    /\ upc = "stopping"
    /\ Finish
    /\ upc' = "content"
    /\ UNCHANGED <<closed, loaded, wpc, write, bpc, backups, execVars, dbVars>>

\* content_generations.async_close has returned: take the gate.
CloseAtGate ==
    /\ upc = "content"
    /\ IF Free
       THEN gate' = Unloader /\ UNCHANGED waiters /\ upc' = "closing" /\ Submit(Unloader)
       ELSE Queue(Unloader) /\ upc' = "queued" /\ UNCHANGED execVars
    /\ UNCHANGED <<backupActive, closed, loaded, wpc, write, bpc, backups, dbVars>>

ResumeClose ==
    /\ upc = "queued" /\ gate = Unloader
    /\ upc' = "closing" /\ Submit(Unloader)
    /\ UNCHANGED <<gateVars, wpc, write, bpc, backups, dbVars>>

\* The connection is closed: release the gate, then refuse further calls.
ReturnClose ==
    /\ upc = "closing" /\ result[Unloader] # "none"
    /\ Release /\ closed' = TRUE
    /\ upc' = "shutdown"
    /\ Collect(Unloader)
    /\ UNCHANGED <<backupActive, loaded, wpc, write, bpc, backups, dbVars>>

\* _shutdown_executors cancels what has not started and joins the thread.
Shutdown ==
    /\ upc = "shutdown"
    /\ upc' = "joining"
    /\ jobs' = <<>>
    /\ result' = [a \in Actors |->
                     IF \E i \in DOMAIN jobs : jobs[i] = a THEN "cancelled" ELSE result[a]]
    /\ UNCHANGED <<gateVars, wpc, write, bpc, backups, running, dbVars>>

Joined ==
    /\ upc = "joining" /\ running = Idle
    /\ upc' = "down"
    /\ UNCHANGED <<gateVars, wpc, write, bpc, backups, execVars, dbVars>>

-----------------------------------------------------------------------------
Init ==
    /\ gate = Nobody /\ waiters = <<>> /\ backupActive = FALSE
    /\ closed = FALSE /\ loaded = TRUE
    /\ wpc = [w \in Writers |-> "idle"]
    /\ write = [w \in Writers |-> [opens |-> TRUE, valid |-> TRUE]]
    /\ bpc = "idle" /\ upc = "up" /\ backups = 0
    /\ jobs = <<>> /\ running = Idle /\ result = [a \in Actors |-> "none"]
    /\ connected = TRUE /\ inTransaction = FALSE /\ db = {} /\ wal = {}

WriterStep(w) == CallWriter(w) \/ ResumeWriter(w) \/ ReturnWriter(w) \/ CancelWriter(w)
BackupStep == \/ PreBackup \/ ResumePrepare \/ ReturnPrepare \/ TimeoutPrepare \/ PostBackup
UnloadStep == \/ Unload \/ CloseStorage \/ CloseAtGate \/ ResumeClose \/ ReturnClose \/ Shutdown \/ Joined

Next == \/ \E w \in Writers : WriterStep(w)
        \/ StartJob \/ RunJob
        \/ BackupStep
        \/ UnloadStep

Spec == Init /\ [][Next]_vars

\* Woken tasks run, the thread runs its jobs, Home Assistant ends a backup it
\* began and calls the post-backup hook, an unload goes on.
Fairness ==
    /\ WF_vars(StartJob \/ RunJob)
    /\ \A w \in Writers : WF_vars(ResumeWriter(w) \/ ReturnWriter(w))
    /\ WF_vars(ResumePrepare \/ ReturnPrepare \/ PostBackup)
    /\ WF_vars(CloseStorage \/ CloseAtGate \/ ResumeClose \/ ReturnClose \/ Shutdown \/ Joined)

FairSpec == Spec /\ Fairness

-----------------------------------------------------------------------------
(* Properties *)

\* No backup has met an unload yet.
Undisturbed == loaded \/ backups = 0

\* The gate belongs to a task that is past its acquire and not past its
\* release, and an active backup owns it: Lock.release does not check its
\* caller, so a stale _backup_active would open the gate under another task.
GateOwnership ==
    Undisturbed =>
        /\ \A w \in Writers : wpc[w] = "submitted" => gate = w
        /\ backupActive => gate = HA
        /\ upc = "closing" => gate = Unloader
        /\ gate \in Writers => wpc[gate] \in {"queued", "submitted"}
        /\ gate = HA => backupActive \/ bpc = "queued"

\* A caller that got a result finds its write committed, and one that got an
\* error finds no trace of it, whatever backups, cancellations, closes and
\* shutdowns came between.
AcknowledgedStored ==
    \A w \in Writers :
        /\ wpc[w] = "done" => w \in db
        /\ Undisturbed /\ wpc[w] = "failed" => w \notin db

\* The transaction a failed single statement leaves open costs at most one
\* valid operation: the next one rolls it back.
Collateral == {w \in Writers : wpc[w] = "failed" /\ write[w].valid}
Culprits == {w \in Writers : wpc[w] \in {"failed", "cancelled", "submitted"} /\ ~write[w].valid}
BoundedCollateral == loaded => Cardinality(Collateral) <= Cardinality(Culprits)

\* ADR-0004, "keeps the gate closed until post-backup": while Home Assistant
\* archives, neither state.db nor its WAL changes.
ArchiveFrozen ==
    [][loaded' /\ bpc = "archive" /\ bpc' = "archive" => UNCHANGED <<db, wal>>]_vars

\* Every write call returns (each writer calls once), and an unload that finds no
\* backup hook at work ends.
CallsReturn ==
    /\ []<>((\A w \in Writers : wpc[w] \notin {"queued", "submitted"}) \/ ~Undisturbed)
    /\ upc = "stopping" /\ bpc = "idle" ~> upc = "down"

-----------------------------------------------------------------------------
(* What the documents say and the code does not keep; see README *)

\* "Always resume writes after HA backup completion/failure": closing ends
\* beside a backup too.
CloseReturns == upc # "up" ~> upc = "down"

\* GateOwnership where a backup meets an unload: a write that has its turn holds
\* the gate until it returns.
WritesHoldGate == \A w \in Writers : wpc[w] = "submitted" => gate = w

\* ADR-0004, the hook "checkpoints WAL" and writes wait for post-backup: the
\* archive is complete without the WAL and stands still although the entry is
\* unloaded.
ArchiveComplete ==
    [][bpc' = "archive" => wal' = {} /\ (bpc = "archive" => db' = db)]_vars
=============================================================================
