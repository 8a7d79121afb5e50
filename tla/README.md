# LockLearn: a TLA+ model

LockLearn is a Home Assistant integration that teaches vocabulary: it keeps learner state in a SQLite database
(`state.db`), language content in immutable SQLite files (one per *generation*), and serves a browser panel over Home
Assistant's WebSocket. This directory holds TLA+ modules that model its concurrent and persistent parts and the
pure algorithms they call, TLC configurations that check them on small instances, and proofs that TLAPS checks.

`src/` below is the repository; `core/`, `storage/`, `datasets/`, `api/` are under `src/custom_components/locklearn/`.

- [The system](#the-system): components, their state, how they interact, what is hard
- [The modules](#the-modules): how each corresponds to the code
- [The runs](#the-runs): questions, bounds, fairness, what they show
- [Disagreements](#disagreements-between-the-code-and-its-documents)
- [The proofs](#the-proofs)
- [What is not modelled](#what-is-not-modelled)
- [Plan](#plan)

## The system

One Python process. Home Assistant's event loop runs every WebSocket handler, service and hook as an asyncio task;
blocking SQLite and file work runs on executor threads. Two kinds of shared state survive a task: objects in memory
(`ContentGenerationManager`, `SQLiteStorage`, `SessionService`, `DatasetManager`, `OperationRegistry`), touched only on
the loop or under a lock, and the disk. Between two `await`s a task runs alone; at each `await` anything else may run.

| Component | Source | State | Operations | Must hold |
|---|---|---|---|---|
| content generations | `storage/content.py` (1410-1810), readers in `storage/database.py` | active and previous generation, lease counts, gate (`_switching`, `_closed`); on disk `current.db`, `generations/`, `staging/`, `catalog.json`, `switch-journal.json` | open, acquire and release a reader, build, activate, roll back, close | a switch is atomic for readers and for a crash; a file that is read, served or kept for rollback is never removed; no lease is lost or counted twice |
| state writer | `storage/database.py`, `backup.py` | write gate, one-thread executor, the connection and its implicit transaction, the WAL | write, pre and post backup hook, close | an acknowledged write is stored, a refused one is not; the archive stands still; nobody waits for ever |
| tracks | `core/tracks.py`, `storage/repositories.py` | rows of `tracks`, `track_pack_versions`, `track_card_rules` | create, update, integrate, delete | pin, rules, mode and settings agree; an explicit choice is never changed silently |
| learning plan | `core/planning.py` | a key of the Track's settings | set plan, forecast | a stored plan stays; the forecast is what the plan would do |
| dataset manager | `datasets/manager.py` | a lock, releases on offer, errors, Repairs; on disk `packages/`, `assets/` | discover, install, bundled install, remove, roll back, status | a call changes its own dataset only; what a rebuild needs stays cached; a removal spares what tracks pin |
| sessions | `core/sessions.py`, `storage/database.py`, `api/websocket.py` | `sessions`, `session_answers`, listener sets | start, get, answer, subscribe | one answer per version, open subscribers are told, everything detaches at unload |
| review events | `core/reviews.py`, `storage/repositories.py` | `review_events`, `progress` | record, list, rebuild | the log is append-only; progress is a projection of it |
| profiles, ACL | `core/profiles.py`, `core/acl.py` | `profiles`, `profile_members`, the onboarding lock | onboard, create, update, delete, share, unshare | a profile keeps an owner; a user has one personal profile |
| content reports | `core/content_reports.py` | rows of `audit_events` | report | a report belongs to a profile that exists |
| state migration | `storage/database.py`, `storage/schema.py` | `state.db`, a backup and a candidate file | first open, check, migrate | a crash leaves the old file or the new one, whole |
| runtime, setup | `runtime.py`, `__init__.py` | `hass.data` | set up, publish, withdraw, unload | what is published is usable, what fails is undone |
| learning state machine | `core/learning.py`, `core/review_policy.py`, `core/signals.py` | the progress row, through its caller | introduce, step, graduate, review | boxes are earned, steps passed in a row, intervals as long as demonstrated |
| quiz, grading, selection | `core/quiz.py`, `core/grading.py`, `core/selection.py`, `core/localization.py` | none (pure, seeded choice) | compose, grade, decide | one right answer among distinct choices; a card opens when its last gap ends |
| content merge, lifecycle | `storage/content.py` (883-1316) | rows of a candidate generation | build, validate | identities, tombstones and history tell one story |
| package trust | `datasets/package.py`, `trust.py`, `manifest.py`, `policy.py` | bundled keys and policies | verify | only published packages are installed |
| operations | `core/operations.py` | task, state and listeners per operation | start, update, cancel, subscribe, close | each operation reaches a final state, once |
| glue | `datasets/transport.py`, `config_flow.py`, `panel.py`, `update.py`, `notifications/`, frontend | none of their own | — | — |

**How they meet.** A WebSocket handler (`api/websocket.py`) authorizes, then calls a service; services read and write
`state.db` through `_async_reader` and `_async_writer`, and read content under a lease. A write holds `_writes_gate`
while its operation runs on the writer thread; the backup hooks hold the same gate from pre- to post-backup. The dataset
manager builds a generation and activates it, and reads the pins of tracks from `state.db` before it removes a dataset:
the two databases share no transaction and no foreign key. `SessionService.async_answer` writes, re-reads and then calls
the listeners. `async_unload_entry` removes the runtime, closes the services, the readers and the writer, in that order,
while handlers are still running.

**What is hard.** Everything between two awaits that another task can change; cancellation of a task that awaits an
executor job (the job runs on); a crash between two file operations of a switch; an unload under running handlers; two
databases without a common transaction; threads that outlive the call, the lock and the runtime they worked for;
archives that anyone may have written; a clock that may be set back under a log ordered by it and under the schedule of
a card. `PROJECT.json`
`hazards` lists each one at its line with the properties that watch it.

## The modules

| Module | Models | One step is |
|---|---|---|
| `ContentGenerations` | the generation manager, its readers and switchers, the files | a critical section under the Condition, or one file operation |
| `GenerationRegister` | what that manager promises (ADR-0013) | a whole pin, release, switch or crash |
| `StateWriter` | the write gate, the writer thread, backup, unload | code between two awaits, or one executor job |
| `TrackPins` | tracks and plans against dataset installs, removals, rollbacks | one read, one resolution, one transaction |
| `Sessions` | one session with its answers, subscribers and unload | a database job, or the loop between two awaits |
| `ReviewLog` | record calls, projection, rebuild, deletions | one await, one transaction |
| `StateFile` | the life of `state.db`: first open, checks, migration, set-up and unload of the entry | one file operation or SQLite transaction |
| `Profiles` | profiles, members, onboarding, content reports | one reader job, or one transaction |
| `StateStore` | `Profiles` in the file of `StateFile` | one step of either, or a close or crash of both |
| `ContentMerge` | what a generation is built from, and its validation | operators |
| `PackageTrust` | the checks on a downloaded archive | operators |
| `DatasetInstall` | the dataset manager with its caches, on `PackageTrust` and `ContentMerge` | code between two awaits, or one file operation of a thread |
| `CardReview` | what answers do to one card | one call of the learning services |
| `Quiz`, `Grading`, `LoadForecast` | question composition and selection, free-text grading, planning forecast | operators |
| `LearningCore` | the four modules before it | a step of the card; a sample for each pure service |
| `MC*` | model values, views and symmetry for TLC | |
| `*_proofs` | theorems | |

`StateStore` EXTENDS `Profiles` and `StateFile`; `DatasetInstall` EXTENDS `PackageTrust`, which EXTENDS `ContentMerge`;
`LearningCore` EXTENDS `CardReview`, `Quiz`, `Grading` and `LoadForecast`; `ContentGenerations` INSTANCEs
`GenerationRegister` under a refinement mapping.

Every module repeats its source's names where TLA+ allows. Definitions headed "Mutant of" are deliberate mistakes used
to test the properties; no action uses them.

**ContentGenerations.** `phase, active, previous, switching, leases` are the manager's fields
(`_active`, `_previous_id`, `_switching`, `_leases`); `hold` is the `ContentReaderLease` a client has not released;
`task`/`thread`/`path` split a reader into its asyncio side and its executor side, so that cancelling the first leaves
the second running (`CancelRead`); `sw`, `cand` are a switcher in `async_build_candidate`, `async_activate` or
`async_rollback`; `job` is the executor job (`_activate_sync`, `_rollback_sync`, `_open_sync`), one action per file
operation, each with its I/O error; the rest is the disk. `Open` is what a new process recovers from journal, link and
catalog. `Crash` and `Reload` drop memory at any step. A rename with the fsync of its directory is one step: a crash
between the two either loses the rename or keeps it, which are the states before and after the step.

**StateWriter.** `gate` and `waiters` are `_writes_gate` as asyncio's lock works: a release hands the lock to the first
waiter, which resumes later. `jobs`, `running`, `result` are the one-thread executor. `inTransaction` is what sqlite3's
implicit transaction leaves behind when an operation that did not open its own fails: the next `commit` on the
connection carries it. A cancelled write gives the gate back while its job still runs.

**TrackPins.** `track` holds the row, pin, rules, mode, direction and plan of each Track; `gens`, `active`, `retained`
are the generations with the PackVersions they know and the version installed; `manager` is the operation under
`DatasetManager._lock`. Each request (`req`) keeps what it read, as the Python locals do. For the properties there are
history variables: `chosen` and `planned` are what the caller was last told is stored, `overtaken` is what other
requests stored for a Track since a request read it, and `lost` what such a request has then written over.

**Sessions.** `version`, `answers` are the two tables (`session/get` only reads, and is no request here); `pc`, `row`,
`asked` are the handlers; `entry`, `members`, `joined` keep the identity of the listener set objects, because an
unsubscribe closure removes from the set it closed over and deletes whichever set is registered. `stage` is how far
unload is: closing `SessionService`, then readers, then the writer.

**ReviewLog.** A progress row is named by the event whose snapshot it holds. `Rebuild(scope)` deletes and replays in
`(created_at_utc, id)` order. The clock may be set back when `ClockSteps`.

**StateFile, Profiles, StateStore.** `step` is where `_initialize_state_database` is; each of its actions is one file
operation, `FaultInOpen` fails any of them without effect and `Crash` ends the process after any. A file is its schema
version, whether it has its tables, and its rows: `executescript` commits each statement, so a crash can leave a file
without a version row. In `Profiles`, `req` holds each handler with what it has read: `Check` is
`_require_profile_permission`, `Require` is `async_require` of the ACL service, and the transaction that follows reads
the owners but not the caller. `lock` is `_personal_profile_lock`. `born` are the ids ever drawn, and `shared`, for a
property, the users whose roles some share named. `StateStore` lets handlers start while a runtime is published, run on
while it is withdrawn, and lose what they have not committed when the storage closes or the process ends
(`DropRequests`).

**ContentMerge, PackageTrust, DatasetInstall.** `Candidate(catalog, cs, gen)` is the generation built from the packages
`cs` over the active one, and `Builds` says whether conflicts or `validate_generation` refuse it. Identity rows are
never deleted; `tombs` and `trail` are the tombstones and the latest history rows. `Acceptable` lists the checks of
`validate_dataset_package` in their order on archives whose bytes are digests. In `DatasetInstall`, `call` is each
coroutine with its locals, `lock` is `DatasetManager._lock`, `strays` are threads whose call was cancelled or whose
runtime was unloaded: they go on outside the lock. `shelf` is `assets/`, whose replacement is a removal and a rename
(`ClearShelf`, `PlaceShelf`), and `cut`, for a property, the versions in which such a swap was interrupted. The
download and all checks on private files belong to the step that ends them. Activation is one step here; that it is
atomic is what `ContentGenerations` shows.

**CardReview, Quiz, Grading, LoadForecast, LearningCore.** One action per call of `learning.py` and
`apply_review_signal`; `Evaluate` is `signals.evaluate`, over every interaction. `ready` says that the caller holds a
transition that is ready for long review, which `ForgetResult` loses. `proved`, `earned` and `row` are history: the
last call was a verified success; there was one since the box was entered; steps passed in a row. The pure services are
operators. A text is a sequence of characters of one letter in its forms (small, capital, full-width, accented, and
followed by a combining accent), other letters, spaces and punctuation: what tells the steps of `normalize_text` apart.
`Canonical` and `Composed` are its first step, NFC or NFKC; `Kept` is what a text is at some of its places, in
terms of which composing, trimming, collapsing and dropping marks are said. A pool is the set of its places.
`LearningCore` starts a behaviour for each sample and its invariants compare the operator with a different
definition: the gradings with `WithinOneEdit`, the forecast with the cards introduced and reviewed one by one, the
waiting time of a card with a decision at each minute.

## The runs

`CHECK_DEADLOCK FALSE` is used in every run: requests, backups and restarts are bounded, and when all of them have
ended the system rests. Where not ending would be a fault there is a liveness property.

| Run | Instance | Shows |
|---|---|---|
| `gens_faults` | 3 generations, 2 readers, 2 switchers, 1 restart, 1 I/O error, reads and drains cancelled | the inductive invariant of the proofs: lease counts exact, switches exclusive, no pinned, served or retained file removed |
| `gens_register` | 4 generations, 1 reader, 2 switchers, 2 restarts, drains cancelled, no I/O error | the multi-file switch implements the atomic register of `GenerationRegister` at every crash point; readers get what the pointer names; no thread reads a content file during a switch; no activation is lost |
| `gens_liveness` | 2 generations, 1 reader, 2 switchers, 1 I/O error, nothing cancelled | waiting readers are served, switches return, closing ends |
| `writer` | 3 writes, the first cancellable, 1 backup, hook timeouts, slow readers, unload | an acknowledged write is stored and a failed one leaves no trace; the gate is not opened under its owner; the archive stands still while the entry is loaded; each call that fails, or is cancelled, harms at most one other; calls return |
| `tracks_serial` | 1 track, 1 caller, 4 generations, 4 cards, every operation | requests one at a time keep pin, rules and mode one selection under installs and removals; a removal spares the pins it checked |
| `tracks_races` | 1 track, 2 callers, 3 cards, 2 generations, rollbacks, every operation | whatever two requests do to each other, a choice is widened or a plan undone only by one that read the track before it was stored; the recorded generation contained the pin; a deleted track stays deleted |
| `sessions` | 2 answers and one of another user, 2 subscribers, versions to 2, drops, deletion | the version check stores one answer per version; open subscribers stay attached |
| `sessions_unload` | 2 answers, 1 subscriber, unload, drop, deletion | every request settles, unload ends, a reply agrees with the log |
| `reviews` | 3 overlapping calls, 2 tracks in 2 profiles, a clock set back, rebuilds, new rows, deletions | progress is a snapshot of an event of its card, and only an event that commits behind a later one (or a row created without an event) makes a rebuild differ |
| `state_store` | `state.db` absent or of schema 1, 2, 3; 1 row, 1 fault; 3 calls of 2 users on 3 profiles | a migration is all or nothing, keeps a backup and can be retried; a profile keeps an owner; onboarding makes one profile; a report has its profile |
| `datasets` | 2 calls, 2 datasets, 4 published packages and one forged, 9 downloads, 3 generations, 2 upsets | a call changes its own dataset only; what a rebuild needs stays cached; tombstones and history agree; a medium resolves unless a swap of its version was cut; only published packages get in |
| `learning` | 10 calls on a card of 4 boxes, times to 8, jitter of both signs; about 180,000 samples | promotions are earned, steps passed in a row, intervals demonstrated; questions, selections, gradings (of an empty text too) and forecasts agree with their reference definitions |

Type invariants are proved (below) rather than run, except those that an inductive invariant of `gens_faults` contains.
`datasets` has a VIEW: `errors` and `issues` are written and never read, so that states that differ in nothing else have
the same steps, and no property of the run looks at them.
`sessions_unload` is a run of its own, and smaller, because symmetry is not sound for liveness.

### Why the bounds are enough

Two switchers are the fewest that compete for a parent and for the gate; three generations are the active one, the
retained one and a stale one, and the fourth lets a second activation follow a rollback. Two restarts let a crash strike
the recovery from a crash. Three writes are one that holds the gate, one in the executor or the queue, and one that
arrives later, so that what a cancelled or failed write leaves behind has a victim and a witness; only one of them is
cancellable, because the properties compare it with writes that are not. Two callers are enough for a race on a Track;
two versions with four cards give a card that leaves, one that arrives, one that changes nothing and one in the other
direction (`tracks_races` keeps the first three, its properties do not look at directions). Three
answers are two that race and one that follows with the new version. Three events give a commit order that differs from
the time order, with a tie. Three calls on profiles are two that race and a third that undoes what one of them relied
on; one row shows whether a migration copies, and one fault at any step leaves what the next set-up finds. In
`datasets`, d1 goes through versions 1 to 3, of which the second supersedes an identity and the third drops one and the
image, and 4 is forged, by five archives that each fail another check; two upsets (cancellations, reloads, crashes,
failed renames) let a crash follow a cancelled call whose thread goes on. Ten calls take a card through its steps, over
the gate, through a lapse and back. What does not depend on the size is proved (below).

### Fairness

`FairSpec` is used by the runs with a liveness property. Weak fairness stands for steps that the loop or an executor
thread runs as soon as they are ready: jobs, the completion of a future, the resumption of a lock holder. Strong
fairness is used for tasks that wait on the generation manager's Condition (`GrantRead`, `GrantBuild`, `StartSwitch`):
the gate may shut again before they run, but `notify_all` wakes waiters first come first served and each switch ends,
so none is passed over for ever. The write gate needs none: asyncio's lock hands over in order and the model keeps the
queue. There one weak fairness per task suffices, as a task has one step at a time; Home Assistant runs the
post-backup hook whatever the backup did, so `PostBackup` is among its steps. Nothing is assumed of
users: no request, cancellation, deletion, disconnect, backup or unload has to happen.

## Disagreements between the code and its documents

Where a document, a docstring or a comment of the repository says more than the code does, no run of the project expects
it; the properties that fail are in the modules all the same. Each row is reproduced by giving the named run's
configuration these constants and this property alone; the statement it contradicts follows.

**Content generations**

| Start from | Change | Property | What happens; what it contradicts |
|---|---|---|---|
| `gens_register` | `CancelReads = TRUE` | `SwitchAfterConnectionsClose` | a cancelled reader gives its lease back while its thread still uses the file, and a switch runs beside it; `content.py:1418`, "A generation pin held until one reader has closed its SQLite connection." |
| `gens_liveness` | `CancelDrains = TRUE` | `CallsReturn` | a switch cancelled while it drains (`content.py:1589`, outside the `try`) never reopens the gate: readers and close wait for ever; `content.py:1781`, "Prevent new readers, wait out a switch, and drain every in-flight lease." |
| `gens_register` | `MaxFaults = 1` | `ReadersFollowPointer` | a failing directory fsync (`content.py:1703`) reports a failed switch with `current.db` already moved, and the old generation goes on being served; ADR-0013, "The validated `current.db` inode is authoritative." |

**State writer**

| Start from | Change | Property | What happens; what it contradicts |
|---|---|---|---|
| `writer` | `SlowReaders = FALSE` | `ArchiveComplete` | unload during a backup (`database.py:849`) lets queued writes into the archive; ADR-0004:20, the gate is "closed until post-backup" |
| `writer` | `Unloads = FALSE` | `ArchiveComplete` | the row of a busy checkpoint is dropped (`database.py:830`) and the backup starts with frames in the WAL; SPEC_V1.md:3486, "Une copie brute d'un fichier avec WAL actif est interdite." |
| `writer` | none | `CloseReturns` | a backup hook queued at the gate overtakes the close (`database.py:851`); nobody releases the gate, and the close waits for ever; `backup.py:30`, "Always resume writes after HA backup completion/failure." |

**Tracks**

| Start from | Change | Property | What happens; what it contradicts |
|---|---|---|---|
| `tracks_serial` | `Callers = {c1, c2}`, `Ops = {"create", "update", "integrate"}`, `MaxGenerations = 2` | `RulesFollowPin` | an update that resolved cards in the old version commits after an integration (`tracks.py:202`); ADR-0020:70, "Pin replacement and regenerated card rules are written in one state transaction." |
| `tracks_serial` | `Callers = {c1, c2}`, `Ops = {"create", "update"}`, `MaxGenerations = 2` | `ChoiceNotWidened` | a rename replaces an explicit selection by the direction's cards (`tracks.py:206`); ADR-0020:68, "LockLearn never silently drops an explicit learner choice." |
| `tracks_serial` | `Callers = {c1, c2}`, `Ops = {"create", "update", "plan"}`, `MaxGenerations = 2` | `PlanKept` | an update writes back settings it read before a plan was stored (`tracks.py:202`); `planning.py:122`, "Persist a Track plan" |
| `tracks_serial` | `MaxGenerations = 3` | `ChoiceKept` | a rename after an install drops chosen cards (`tracks.py:232`); ADR-0020:68, as above |
| `tracks_serial` | `MaxGenerations = 3` | `NoInjection` | a rename after an install adds new cards (`tracks.py:219`); ADR-0020:82, "A Pack update cannot silently inject new cards into an existing Track." |
| `tracks_serial` | `Ops = {"create"}`, `MaxGenerations = 3` | `RemovalUnreferenced` | a track is pinned between a removal's check and its activation (`manager.py:563`); ADR-0016:81, removal is refused "when any PackVersion in the dataset is referenced" |
| `tracks_serial` | `Ops = {"create"}`, `MaxGenerations = 3`, `Rollbacks = TRUE` | `RemovalSparesCheckedPins` | after a rollback a removal does not see the pins on the newer PackVersion (`manager.py:562`); DATA_UPDATES.md:124, removal "is rejected when persistent track state references one of its PackVersions" |

**Sessions**

| Start from | Change | Property | What happens; what it contradicts |
|---|---|---|---|
| `sessions` | none | `SubscribersSynchronised` | an answer published between a subscription's read and its listener (`websocket.py:803`) reaches neither; SPEC_V1.md:2634-2640, "pour synchroniser les clients ouverts" |
| `sessions` | none | `EventsNeverGoBack` | publications run in the order of their re-reads (`sessions.py:45`); `sessions.py:44`, "publish the winning state" |
| `sessions_unload` | none | `DetachedOnUnload` | a listener is registered in a closed service (`sessions.py:51`); docs/plan/P0.md:109, "Subscriptions cleanly detach on unload/client disconnect." |
| `sessions` | none | `DetachedOnDisconnect` | a listener is registered on a closed connection (`websocket.py:810`); the same line |
| `sessions` | none | `OneAnswerPerQuestion` | two clients, one version apart, both answer one question: the version is compared, the question is not (`database.py:367`); docs/plan/P0.md:108, "Two clients cannot both mutate the same question successfully." |

**Review log**

| Start from | Change | Property | What happens; what it contradicts |
|---|---|---|---|
| `reviews` | none, or `Creates = FALSE` | `RebuildChangesNothing` | the last event by `created_at_utc` need not be the last applied (`reviews.py:110`), and a row from `create_if_absent` has no event to be rebuilt from (`repositories.py:1383`); SPEC_V1.md:1783, a rebuild serves to "reconstruire la projection telle qu'elle a réellement été appliquée" |
| `reviews` | none | `DeletedProfileLeavesNothing` | a record call that read the profile before its deletion stores its event after it (`repositories.py:1512`); SPEC_V1.md:4571, deletion removes the data "y compris review_events" |

**Read in the code, and in the models as the code has it.** No line of a document rules these out, or they need no
search to be seen; the properties are stated around them.

- Removing punctuation comes after composing (`localization.py:253-265`): `e!` and a combining acute is, under NFC, left
  as `e` and the accent, which normalizing once more composes to `é`. So what `normalize_text` returns need not be
  normal, and a text and its stored normalized form can be graded apart: `NormalizedForGood` fails in `learning`.
  `AccentSetFree` names these texts.
- A checkpoint that fails after the close has ended the backup releases the gate a second time (`database.py:832`), and
  with it the turn of a write that runs by then, whose own release then fails: `WritesHoldGate` fails in `writer`.
- An answer whose re-read fails, because the entry unloads or the Track is deleted (`database.py:396`), is stored and
  its client gets an error: `ErrorMeansUnstored` fails in `sessions_unload`.
- A rollback looks at no pin (`manager.py:541`): a Track created or integrated since the install pins a PackVersion that
  the reactivated catalog does not have. `SelectionConsistent` fails in `tracks_serial` with `Ops = {"create"}`,
  `MaxGenerations = 3`, `Rollbacks = TRUE`.

- A first open that dies before its version row is committed leaves a file that every later open refuses
  (`database.py:80-84`, 97, 100): `CreateFile` and `CreateTables` followed by `Crash`, then `RefuseFile` for ever.
  SPEC_V1.md:3498 wants migrations "récupérable"; `LegacyOpens` speaks of files that were there before.
- A share, an update or a deletion of a profile checks the caller's role in a reader job and writes in a later
  transaction that does not look at the caller again (`acl.py:147`, `profiles.py:149`), so that a role revoked in
  between still acts. The last-owner rule is inside the transaction, and holds.
- `async_update_profile` writes back all the settings it read (`profiles.py:159-192`): of two patches that overlap the
  first is lost.
- The same version with other content is refused while that version is installed, not after another one replaced it
  (`manager.py:499-504`); storing it replaces the cached package that the retained generation came from. ADR-0016:72 says
  that "A dataset version is immutable". The theorems about the cache assume `NoRepublish`.
- A package that drops a medium cannot be installed over one that had it: the identity row stays, its asset goes, and
  the validation refuses the generation. ADR-0013:67 says that stable "identity rows and lifecycle history survive". In
  `datasets` this is version 3 of d1, installed as a first version and refused as an update.
- A version's assets are removed before the new directory takes their place (`manager.py:1022-1023`): a crash or an
  error in between leaves an installed or retained version without files until it is installed anew (`cut`).
- The thread of a cancelled install works on after the lock is released (`strays`) and may replace what the next
  install of the same version has just stored.
- A bundled dataset that was removed is installed again at the next start (`manager.py:431`).
- A completed sequence of steps whose graduation is not stored leaves a card without a due date, which one more success
  graduates (`StepsInARow` counts that success as a step).
- `ceil(selected * coverage)` multiplies floats (`planning.py:162`): 7 % of 100 cards are 8. And a plan whose target
  date has come cannot be forecast any more: the date is validated as if it were new (`planning.py:154`).

## The proofs

`tlapm` checks every leaf. Each result holds for every value of the constants that satisfies the module's assumption
(`ConstantsAssumption` and the like: sets finite and disjoint, bounds natural numbers, packages and keys well formed),
so for any number of clients, requests, crashes and errors. Every safety property that a run checks is a theorem; the
list `theorems` of `PROJECT.json` says which states which. Hypotheses beyond the assumptions are in the theorem:

| Hypothesis | Of | Without it |
|---|---|---|
| `CancelReads = FALSE` | `ConnectionsDrained` | refuted: Disagreements, first row |
| `MaxFaults = 0` | `HistoryRecorded`, `PointerFollowed`, `ActivationsKept`, `RegisterImplemented` | a failed directory fsync after the commit point leaves memory behind the pointer: Disagreements, third row; crashes, reloads and cancelled drains are allowed |
| `Rollbacks = FALSE` | `PinsStayKnown`, `RemovalSpares`, `SelectionStaysConsistent` | refuted: Disagreements, Tracks and the rollbacks below them |
| `OneCaller` | `SelectionStaysConsistent` | two requests on one Track at once, which the handlers allow, break it (`RulesFollowPin` in Disagreements); what holds for any callers is `WideningIsOvertaken` and `UndoingIsOvertaken` |
| `~AccentSetFree` | `NormalizedOnce`, and the part of `GradesSound` about stored texts | refuted: Disagreements, last part |
| `Unforged` | `OnlyPublishedInstalled` | whoever holds a bundled key decides what is installed |
| `NoRepublish` | `RebuildStaysPossible`, `OthersStayKept`, `MediaStayServed` | the same version with other content replaces what was cached: Disagreements, last part |

**Content generations** (`ContentGenerations_proofs`). `TypeCorrect`; then `Protocol`, the inductive invariant
`ProtocolInv`, a conjunction of

- `HolderInv`: exactly the clients inside a read or a build hold a lease, all on the active generation;
- `ExclusionInv`: at most one switcher is between taking the gate and giving it back, and only while `switching`;
- `JobInv`: the executor job belongs to that switcher or to the opening, and each of its steps has its guards;
- `FilesInv`: the served, linked and retained generations, and what journal and catalog can make of them, are files;
- `LeaseAccounting`: the count of a generation is the number of its holders.

`LeasedFilesKept` and `ServedFilesKept` read it for the pinned and for the served, linked and retained files (the
second, `ServedFilesExist`, no run checks: it follows from the invariant that is checked). The argument needs all five:
a cleanup deletes whatever is neither target nor previous, so that nothing it deletes is pinned follows from the drain
(counts are zero), that counts mean holders (`LeaseAccounting`), and that nobody enters while a switch runs
(`ExclusionInv`). I/O errors, crashes, cancelled reads and cancelled drains are all allowed. `ConnectionsDrained`
(`SwitchAfterConnectionsClose`) assumes reads are not cancelled and adds `ThreadInv` (a working thread's task still has
its lease).

That a switch is atomic needs `HistoryInv` beside them: what the disk records of it. `DiskInv` says that the linked
generation and the rollback target are two different files; `SettledInv` that up to the rename of the link
(`Uncommitted`) the manager's memory is what journal, catalog and lineage say; `CommitInv` what the job has written at
each of its steps. From it `PointerMove`: only `JobLink` moves the pointer, with the gate drained, and to a generation
built over the one it leaves or to the one retained; and `RetainedStable`: no other step changes the rollback target a
restart would recover, although the two journal steps and the catalog step change where it is recorded. Those two are
the cases of `RegisterImplemented` (`value` is `current`, `retained` is `RecoveredPrevious`, `pinned` is `hold`) and of
`ActivationsKept`; `PointerFollowed` is `SettledInv` where no job runs.

**Sessions** (`Sessions_proofs`). `AnswersLinear`, `WinnersDistinct`, `RepliesAgree` from `SessionInv`: steps that write
nothing are covered by one lemma (`MoveInv`), the compare-and-set by another (`WinInv`), deletion by a third. The heart
is that a stored answer's `resulting_version` is at most the row's version, so the next winner's is new.
`SubscribersStay` needs `ListenerInv`: only the set that is registered has members, and a subscriber is in the set its
own closure works on. `SubscribersAttached` alone does not say that, and a closure over a set that was replaced would
break it one step later.

**Review log** (`ReviewLog_proofs`). `ProjectionHolds`, `AcknowledgementsHold` from `LogInv` (a written call's event is
in the log or its Track is gone; an unwritten one left nothing; each snapshot's event exists and is of its card), and
`LogGrows`, an action property, from the shape of each transaction. `OnlyOvertakersDrift` has one lemma for each kind of
transaction: (time, id) is a total order, so an event behind none of its card is the latest of them (`AppendRebuilt`),
which no transaction of another card or scope can change.

**State writer** (`StateWriter_proofs`). `Inv` is `TypeInv`, `GateInv` (who is in the queue waits), `JobInv` (each job
is that of a task behind it, or the thread runs one whose task was cancelled), `StoredInv` (what is in `db`, by where
each call is), `PhaseInv`, `OwnInv` (until a backup meets an unload, who works under the gate owns it) and `FrozenInv`
(from the end of the checkpoint on no job is left). `GateOwned`, `ResultIsStored` and `ArchiveStaysFrozen` each read one
part; none is inductive alone, because a hand-over of the gate takes the queue, the jobs and the phases together.
`CollateralBounded` counts: `DebtInv` says that the valid operations that failed (`Victims`), and one more while a
transaction is open, are no more than the invalid operations that ran (`Spent`). An operation fails when a transaction
is open and thereby ends it, and only an invalid one opens the next.

**Tracks** (`TrackPins_proofs`). `PinInv`: types, and a row or a request names a generation that listed the version
beside it; from it `GenerationRecorded` and `NeverRevived`, for any callers and with rollbacks. Without rollbacks,
`GrowInv` (later catalogs know what earlier ones knew) and `SparedInv` (a removal under way has met every pin that is
not in `repinned`) give `PinsStayKnown` and `RemovalSpares`. With one caller, `SerialInv` adds that rows agree with
themselves (`RowsAgree`) and that what a request has read still holds (`Fresh`): `SelectionStaysConsistent`. For any
callers and with rollbacks, `HeldInv` says the same of what nobody has overtaken: a row is within the choice and has the
plan unless that is `lost` (`RowHeld`), and so is what a request has read or resolved unless that is in its `overtaken`
(`RequestHeld`). A transaction makes the others overtaken in what it stores, and loses what it writes back though it was
overtaken (`WritesBack`): `WideningIsOvertaken` and `UndoingIsOvertaken`.

**State store** (`StateStore_proofs`). `FileInv` is `FileTypeOK`, `StepsTyped` and `Migration`: a supported file is
before or after the replacement, and each step of the opening has what it needs; a candidate is absent when it is built,
which is why a retry is not in its own way. `ProfileInv` is `RowInv` (`RowsOK`, `OwnerKept`, `ReportsHaveProfile`) and
`Onboarding`: who is inside the locked block holds the lock (`BlockLocked`), who is about to insert found no profile and
nobody else can have made one (`FirstProfile`), and a personal profile is owned by its user until a share named him
(`PersonalOwned`, `TargetsShared`).

**Dataset installs** (`DatasetInstall_proofs`). `DrawnInv(S)`: all that is cached, installed, in a call or in a stray
thread comes from a set `S` of contents that downloads do not leave; with all contents it types the state, with the
published ones it is `OnlyPublishedInstalled`. `TombstonesInStep` rests on a lemma about `Candidate`
(`CandidateTraced`). `HoldInv` says what a call may rely on where it is (`Turn`), and that the cache has what the active
and the retained generation, and a candidate, were made of; with `NoRepublish` a thread beside the lock can only store
what is there already, which gives `RebuildStaysPossible` and `OthersStayKept`. `MediaStayServed` adds `ServedInv`: the
assets of a catalog are those of its packages (`AssetsOf`), and the directory of each package that the active, the
retained or a candidate generation has is on the shelf, being swapped or cut short (`Shelved`). The argument is that no
step takes a directory away but a swap of its own version (`Lasting`, case by case over calls, stray threads, reloads
and crashes), and that a call has put its own there before its package is stored (`Prepared`).

**The learning core** (`LearningCore_proofs`). The card: `CardInv` is `CardTypeOK`, `StepsCounted` (a streak counts no
more than the row), `ProofCounted` (a counted proof is earned) and `DueOK`. `IntervalSound` needs that integer division
and clamping keep an interval positive for every difficulty and jitter, which are lemmas. `CardAmongServices` carries
what is proved of `CardReview` over to `LearningCore`.

The pure services are proved to agree with their reference definitions for every input, not only for the samples of
`learning`. Each theorem is an invariant in form (the sample stays what it was) and its content is a chain of lemmas
about the operators:

- *Selections.* A gap blocks a card until the end it has (`Blocks` are the `Ends` that lie ahead), and a finite set of
  ends has a last one (`GreatestNumber`): until it there is one ahead, at it there is none. Hence `WaitsAreExact`.
- *The comparison of two texts.* `Verdict` says in closed form what the walk of `_edit_distance_at_most_one` is to find
  from any pair of places: the rests are alike, or alike but for one character more. It satisfies the equation of the
  walk (`WalkStep`, `VerdictWalks`), and two functions that do agree (`WalkVerdict`). With `OneLeftOut`, which relates
  that to removing a character, `OneEditFound` is the equivalence with `WithinOneEdit`.
- *Gradings.* `Kept(text, places)` is the text at these places; `PositionsCount` says that places are counted without a
  gap and in their order, so that `KeptAt` gives each character. Keeping is then composed: `NormalizedOnce` holds because
  what is left by composing, casing, dropping marks and collapsing spaces has nothing left to change. For composing that
  is so as long as no accent comes to stand beside a letter it joins (`Unjoined`): casing does not bring one there, nor
  do spaces, and dropping a mark does only where an accent follows it (`MarkFree`, from `~AccentSetFree`).
  `TypoIsOneEdit` and `NormalizedOnce` give `GradesSound`.
- *Forecasts.* `Total(f)` folds an addition over a set; `SumUnique` says that what grows by `f[x]` with each `x` is that
  total, and the number of cards reviewed (`ReviewsSummed`) does. `DivBetween` and `CeilBetween` place the quotients.
  Hence `ForecastCounts`.
- *Questions.* `Eligible` decides place by place, from those taken before (`TakenExists`); what it takes is safe and
  pairwise unlike, and what is safe and not taken is like one that is (`EligibleSound`), so that there are at least as
  many as harmless texts. `RankedFirst` picks the first by rank, `Inserted` puts the right one among them.

The assumptions of `LearningCore`, which TLC evaluates on the samples, are those of the code: numbers of days, cards and
minutes are not negative (`planning.py` validates plans, `schema.py:97` checks budgets) and a horizon is at least a day;
an accepted answer is not empty (`grading.py:52` refuses it), while a submitted one may be; an answer id names one
candidate with one text and the right text is among the accepted ones, which `QuizEngine` relies on and does not check
(its only callers at this commit are tests, which build prompts so); `"idk"`, the model's word for Python's `None`, is
no answer id.

**How recursion was proved about.** The library's induction theorems take an operator as a parameter, which the provers
cannot instantiate. The modules have no RECURSIVE operator, and a recursive function is proved about in two steps: that
a function satisfying the equation exists, and what every such function computes, both by looking at the least number
at which it would fail (`LeastNumber`, from the library's theorem that a well-founded relation has minimal elements).
`Grading` and `Quiz` were stated anew for it: a text or a pool is cut down to a set of places, where the first version
folded over a sequence with a local operator. Doing so showed that `Grade` left out the refusal of empty
accepted answers, which it now has.

**Only model-checked.** Liveness: `CallsReturn` of the generations and of the writer, and `RequestsSettle`; they need
fairness and ENABLED, which are out of the prover's reach. The properties listed under Disagreements are refuted.

## What is not modelled

Inside the modelled components:

- acquiring the Condition's lock is atomic with the critical section under it, and so is a rename with its fsync;
- corrupt or hand-edited files; the legacy layout that `_open_sync` migrates; removal of staged candidates;
- TrackPins: one dataset with one pack; names, weights, priorities and status; errors of foreign keys to profiles;
- Sessions: one session in one life of the entry; the order of the write gate, which StateWriter has;
- ReviewLog: what a snapshot says (the caller computes it); validity of a card is nondeterministic; reading the active
  content is one step.

- StateFile: the contents of rows; sidecar files apart from the candidate; the checkpoint of an old file before its copy
  is part of the copy;
- Profiles: names, timezones, presets and statuses; Tracks of a profile are there or not (TrackPins has them);
- DatasetInstall: progress texts, freshness warnings and update entities; the check of a removal against pins is in
  TrackPins; one generation is retained, as in ContentGenerations;
- ContentMerge: text columns, levels, tags and pack contents, opaque to every property here;
- Grading: characters whose casefold or compatible form is several characters, and more than one accent on a letter;
- CardReview: mastery, a label derived from what is kept; the hash behind the jitter, any value of its range; the state
  "leech", which `learning.py:114` accepts and nothing assigns.

Left out altogether:

- operations: no code of this commit starts one, and every handler of the registry runs without an await, so that
  nothing interleaves;
- `datasets/transport.py` (bounded HTTP reads, whose answers may be anything in `DatasetInstall`) and notifications
  (lookups and a decision table): nothing is kept;
- config flow, panel, update entities and frontend: forms and glue that Home Assistant drives;
- the offline dataset pipeline and the scripts: not part of the running program;
- language fallback, content blocks and paging of lists: validation of single values without state.

## Plan

The plan was to model the switch of generations first, then what writes and pins, then profiles and files, installs, and
the learning rules; that is done. What is left, the most consequential first:

1. `DatasetInstall` over `ContentGenerations` instead of an atomic switch, so that a crash strikes both at once.
2. Proofs: with I/O errors, `ReadersFollowPointer` up to the first failure after a commit point, and the register with a
   reader of the old value; a coupling of `TrackPins` with `DatasetInstall`, whose removals both model.
3. `Operations`, once installs run as operations. Liveness: every operation ends.
4. A second migration of `state.db`, when there is one: `StateFile` has one step from schema 1 to 2.
