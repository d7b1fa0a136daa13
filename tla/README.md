# A verification development for spider-back

spider-back walks a directory, splits every new or changed file into encrypted
parts, and stores `COPY_COUNT` copies of each version on different accounts
(GitHub Releases and Telegram channels). A SQLite registry remembers which local
file is stored as which version, and where.

This directory holds TLA+ modules translated from the Python under `src/app`, TLC
configurations that check them on small instances, and theorems that TLAPS
checks for every value of the constants. `PROJECT.json` maps each definition to
the lines it models.

## 1. Inventory

| Part | Source | State | Operations | Interacts with |
|---|---|---|---|---|
| Registry | `registry.py` | SQLite tables `files`, `versions`, `uploaded_versions`, `assets`, `releases`, `meta` | one committed statement per call (`_execute`), streamed `iter_files` | every task; one connection per thread, WAL |
| Sync task | `service.py` 357-710, 1640-1930 | loop locals, `_runtime_unavailable_accounts`, counters | walk, fast path, hash, adopt, upload, record | registry, disk, accounts, state document |
| Verify task | `service.py` 730-925, 1495-1640 | cursor, rotation budget | walk over the rows, check copies, record | registry (own thread), disk, accounts |
| Releases backend | `service.py` 1050-1493 | `_remote_assets`, `_releases_touched` | open, create and seal a release; upload, reuse, delete an asset; manifest | registry, GitHub |
| GitHub client, rate limiter | `github_api.py`, `rate_limit.py` | budgets, penalties, gate | request with retry, wait, observe | all tasks |
| Telegram client | `telegram_api.py` | session, event loop | send, commit copy, reset | sync, login |
| Telegram login | `telegram_login.py`, `web.py` 274-316 | login attempts, session file and its backup | start, code, password, cancel, expiry | web workers, sync's session |
| Task runner, state document | `service.py` 258-345, `state.py`, `runtime.py` | `index.json`, task locks, `_live_state` | run, probe, load, save | scheduler and web processes |
| Web interface | `web.py` | sessions | pages, manual triggers, re-login | runner, login |
| Part format, cryptography | `asset_format.py`, `crypto.py` | none | pack, encrypt | releases backend, restore |
| Configuration | `config.py` | none | `load_config` | all |
| Start of a process | `state.py` 21-59, `service.py` 179-197, `registry.py` 790-836, `gunicorn.conf.py` | `secrets.json`, the import flag in `meta` | bootstrap the secrets, import the old file map | all processes |
| Migrations | `state_migrations.py`, `src/migrations` | documents on disk | defaults of a loaded document, two scripts | state document |

What makes it hard: each statement of the registry is a transaction of its own, so
a crash (or a concurrent reader) can fall between any two; the user edits files at
any moment; sync and verify run on different threads with different database
snapshots; accounts fail for a file, for a run or for good; uploads can succeed
with their answer lost; several processes rewrite one JSON document.

What makes each part correct:

* Registry and sync: a `complete` row really is replicated; an id names one
  content; nothing recorded is forgotten; a successful run means that the files
  are backed up; unfinished work resumes under its id; in the end everything is
  backed up.
* Verify: it never spoils what sync wrote, and what it records is about the version
  it checked.
* Releases: a recorded part exists remotely, a release never exceeds its
  capacity, a resumed upload does not repeat what is there, the manifest is
  complete.
* Rate limiter: no more requests pass than the budgets allow, no wake-up is lost,
  every call ends after a bounded number of requests.
* Telegram: the working session survives every login that does not succeed; an
  account is not retired while its session is good; a re-login is not lost.
* Task runner and state document: a task runs once at a time, what the web shows
  as live is live, `index.json` is never half a document, the schedule goes on.
* Start of a process: one encryption key for ever, an import that loses nothing and
  undoes nothing.

The hazards behind these are listed, each at its line, in `PROJECT.json`.

## 2. Modules

| Module | Models | Relation |
|---|---|---|
| `Registry` | the tables and their statements, `Replicated`, `ActiveVersion` | state module, no behaviour of its own |
| `Sync` | `_sync_impl`, `_process_upload`, `_adopt_version`, `_upload_file_version`, the user | EXTENDS `Registry` |
| `Backup` | `_verify_impl`, crash and restart, the whole service; specifications and properties | EXTENDS `Sync` |
| `Vault` | what the backup promises, without tables or steps | implemented by `Backup` (INSTANCE in `Backup`) |
| `MCBackup` | symmetry for TLC | EXTENDS `Backup` |
| `ReleaseStore` | one GitHub account: `_open_release` to `_write_release_manifest`, the tables `assets` and `releases`, what the account does with requests | below `Sync.GitHubCopy`, checked by itself |
| `MCReleaseStore` | symmetry for TLC | EXTENDS `ReleaseStore` |
| `RateLimiter` | an account's budget and gate (`rate_limit.py`) and the retry loop `GitHubClient._request`, shared by the threads of a process | under every GitHub request |
| `StateDocument` | one save of `index.json`, at the level of files | state module |
| `Tasks` | `_run_task`, its locks and handler, schedulers, web requests, crashes and restarts | EXTENDS `StateDocument`; around `Sync` and `Verify` |
| `MCTasks` | the threads of the gunicorn master and of a worker | EXTENDS `Tasks` |
| `TelegramLogin` | `TelegramLoginManager`, one per worker, and the session files | no clients, no sync |
| `TelegramAccount` | the account as the sync and the web share it: clients, `_request`, retired accounts, the flag in `index.json`, deaths | EXTENDS `TelegramLogin` |
| `MCTelegram` | symmetry, and the constraint `NotCrossed` | EXTENDS `TelegramAccount` |
| `Startup` | `bootstrap_secrets`, `_import_legacy_file_map`, in every process | checked by itself |
| `Backup_proofs`, `ReleaseStore_proofs`, `RateLimiter_proofs`, `Tasks_proofs`, `Telegram_proofs`, `Startup_proofs` | theorems and proofs | each EXTENDS its module |
| `Copies_proofs` | two action properties of `Backup` | EXTENDS `Backup_proofs` |
| `Outcome_proofs` | what a run and its walk promise, and that `Backup` implements `Vault` | EXTENDS `Copies_proofs` |

### How `Sync` corresponds to the code

`pc` is the point in the loop body, `job` the locals that survive to a later
point, `todo` the paths still to visit. An action ends where another actor can
interfere: after a read of the disk, after a committed statement, after a copy.

| Action | Code |
|---|---|
| `StartSync`, `StatFile`, `StatFails` | the walk, `next_counter("sync_run")`, `stat`, which may raise for a file that is there (`Fragile`) and is then no failure |
| `SkipUnchanged` | case 1, `touch_file` |
| `HashFile`, `HashRaises` | `sha256_file`, outside any handler |
| `MetadataOnly` | case 2, content already stored under this path |
| `AdoptVersion`, `AdoptRow`, `AdoptClear` | case 3, `_adopt_version`, three statements |
| `BeginUpload` | case 4, row set to `uploading`; the version to resume |
| `GitHubCopy`, `GitHubCopyFails`, `GitHubPhaseEnds` | the `while` over GitHub accounts |
| `EnterTelegram`, `TelegramCopy`, `TelegramCopyFails`, `TelegramPhaseEnds` | the loop over Telegram accounts |
| `SaveNewVersion`, `FinishRow`, `ClearOldCheck`, `RecordUploaded` | the end of `_process_upload`, four statements |
| `UploadRaises`, `RecordFailure` | the handler around the upload |
| `EndSync` | `mark_absent_except_run`, outcome of the run |
| `SyncDies` (in `Backup.Crash`) | the process dies; locals and retired accounts are lost |
| `Reauthenticate` | a Telegram account is logged in again |

### Verify and its snapshot

| Action | Code |
|---|---|
| `OpenCursor` | `next_counter("verify_run")` and the SELECT of `iter_files` |
| `NextRow` | the next row, `get_active_version` and `continue` where there is none |
| `LookForFile` | `local_path.exists()` |
| `RecordMissing` | `mark_missing`, a step after it |
| `RecordCheck` | the checks of the copies and `record_verification` |
| `CheckRaises` | `exists()` or the hash of a deep check raises: the run is over |
| `DatabaseLocked` | a write raises `OperationalError`: the run is over |
| `EndVerify` | no row is left |

`Registry.iter_files` yields from an open SELECT, and `_verify_impl` writes through
the same connection inside the loop. In WAL mode the open SELECT keeps the
connection in a read transaction on a fixed snapshot. Its first write upgrades the
transaction; SQLite refuses that at once (`SQLITE_BUSY_SNAPSHOT`, no timeout
applies) if another connection has committed since. `stale` is that fact: `Commit`
lists the sync steps that commit, `CanWrite` is `~stale`. Rows are taken into
`queue` when the cursor is opened, with the version `get_active_version` finds on
the same snapshot.

Python's cursor steps one row ahead of the loop. When it yields the last row the
SELECT has ended, and with it the snapshot: for that row the version is read from
the database as it is (`ReadVersion`) and the write succeeds whatever a sync has
committed (`NextRow` clears `stale`). A sync that completes a new version between
the two then gets the check of the old one; `late` is the history of these.

A write that is refused leaves the implicit transaction open, because `_execute`
rolls nothing back, so that every later write on that connection fails too. The
connection belongs to the thread. The thread of a web request ends with its run; the
scheduler's verify thread goes on living, `wedged`, and gets no further than
`next_counter` until the process restarts. `verifier` says whose run it is.

### How `ReleaseStore` corresponds to the code

Three places know what is stored: the account (`remote`, `listing`), the registry
(`assets`, `releases`) and the listings the process has cached (`cache`, which is
`_remote_assets`). Every step changes at most one statement or one request, so that
a failure or a restart can fall between any two of them.

| Action | Code |
|---|---|
| `BeginCopy`, `Adopt`, `EndCopy` | what the sync task does around `_upload_release_copy` |
| `OpenRelease`, `CreateRelease`, `OpenFails` | `_open_release`, `_create_next_release` |
| `ReusePart`, `NothingToReuse` | `_reuse_existing_part` with `_remote_asset` |
| `UploadOk`, `UploadEmpty`, `UploadRefused`, `UploadFails`, `TriesExhausted` | one turn of the loop in `_upload_asset` and its outcomes: stored; size 0; 422; the request raises; three turns used |
| `DropListFails`, `NothingToDrop`, `DropFails`, `DropOk` | `_delete_remote_asset`: the listing raises; name not there; DELETE raises; deleted |
| `ForgetPart` | `delete_asset`, a statement of its own after the deletion |
| `RecordPart`, `CountAssets`, `SealRelease` | `upsert_asset`, `sync_release_asset_count`, `seal_release` |
| `EndWalk`, `WriteManifest`, `EndRun` | `_finalize_sync`, `_write_release_manifest` |
| `AbortRun`, `Crash` | a run that raises; the process dies |

A manifest goes through the same upload and deletion as a part: `job.name` tells
them apart. `missed` and `job.trouble` are history, for the properties only.

### How `RateLimiter` corresponds to the code

`pc` is where a thread is between `before_request` and the answer. `events` is the
deque of stamps, `tokens` the history of every stamp taken, `sent` that of the content
requests of the last minute; each is a sequence of ages, the oldest first.

| Action | Code |
|---|---|
| `Begin` | a call of `_request` |
| `SkipBudget`, `TakeToken`, `AwaitBudget`, `Wake` | `before_request`: a request that only reads; a stamp; the sleep outside the lock until a window has room, and looking again |
| `Enter`, `Park`, `Leave`, `Notify` | the gate: `acquire`, its `wait()`, `release` and its `notify()` |
| `Succeeds`, `NetworkFails`, `Refused` | the outcomes of one request: an answer, an exception with its backoff, a rate limit with its penalty (`SitOut`) and, if secondary, a gate of one (`Serialise`) |
| `Tick` | time passes |

### How `Tasks` and `StateDocument` correspond to the code

A thread is a process and a job; `lock` is who holds `sync.lock` and `verify.lock`
(the lock of the process, `_task_locks`, is that a process has one thread of a job).

| Action | Code |
|---|---|
| `Acquire`, `SkipTurn`, `Load` | the two locks, taken or not; the load |
| `Open`, `Fill`, `Replace`, `ReplaceRaises` | `save`: truncate `index.json.tmp`, fill it, rename it; the rename finds nothing |
| `Flush`, `Finish` | a save in the middle of a run; the final save and the `finally` that clears `_live_state` |
| `Raise`, `Handle`, `HandlerRaises` | an exception, the handler of `_run_task` (outside the file lock), an exception of the handler itself, which ends a `SchedulerThread` |
| `Trigger`, `Probe`, `ProbeEnds` | web requests: run a task; take the lock for a moment to see whether it is held |
| `Crash`, `Restart` | a process dies, with whatever it has written; it comes back |

### How `TelegramLogin` and `TelegramAccount` correspond to the code

`disk` holds the auth keys in `<account>.session` and its backup, `authorized` those
Telegram accepts, `pending` the attempt each worker keeps in memory.

| Action | Code |
|---|---|
| `Start`, `Connect`, `CodeSent`, `StartFails` | `start`: abort the attempt before, set the session aside, connect, send the code |
| `PasswordNeeded`, `GiveUp`, `Accept` | `submit_code`, `submit_password`, `cancel`: a step further, put back, `_finalize_locked` |
| `Authorized` | `Accept` with the callback of `web.py`: reset the client, clear the flag and the worker's own set |
| `BeginRun`, `Flush` | a sync loads the document, and saves the one it has loaded |
| `LoadDocument`, `SaveDocument`, `DropDocument` | the others that load all of `index.json` and write all of it back, in any process: a verify run from `_run_task`'s load to its last save, the handler of `_run_task`, `mark_manual_trigger`, the login of another account, the import at start; or an error before the save |
| `Request`, `EnsureConnection`, `Answered`, `NetworkFails`, `SelfHeal`, `AuthFails` | `TelegramClient._request`: connect, the attempts, the one reload of the session after an unregistered key, and the account retired |
| `RefusedAtOnce` | the other errors of `_is_telegram_auth_failure`, for which there is no reload |
| `NoSession` | no session file: retired without a request |
| `SessionEnds`, `ProcessDies` | the operator ends a session from another device; a death |

### How `Startup` corresponds to the code

| Action | Code |
|---|---|
| `ReadSecrets`, `OpenSecrets`, `WriteSecrets` | `bootstrap_secrets`: read or generate; `write_text`, which truncates and then fills |
| `AlreadyImported`, `LoadLegacy` | the flag; the load of `index.json` |
| `ImportRow`, `ImportVersion`, `ImportCheck` | one file in `import_legacy_files`, three statements or more |
| `DropMap`, `SetFlag` | the save without the map; the flag |
| `SyncRow` | the scheduler's sync writes a row |
| `Die` | a worker dies, or the master and with it the container |

`MayBoot` is the order in which gunicorn starts: `when_ready` runs in the master
before there is a worker, and a worker comes up with its first request. The mutant
of `MayBoot` shows what rests on it: two processes of their own on a fresh
directory (`main.py` can start the scheduler and the web separately) may generate
two keys.

## 3. Abstractions and assumptions

* A content stands for its SHA-256; `stamp` for (size, mtime_ns), fresh at each
  edit, which is the premise of the fast path.
* A version id that nothing refers to any more may be minted again: `VersionIds`
  bounds the ids in use at once, and not how many uploads there are. Ids are
  compact UTC timestamps; two files uploaded in the same tick are not modelled.
* A copy is stored or fails as a whole; its parts belong to the releases backend.
* `Unreadable`: files whose bytes cannot be read. `Fragile`: files whose `stat()` may
  fail while they are there; it raises in `exists()` too, except where the error is
  plain absence. `Verifiers`: who starts verify, the scheduler's thread, requests or
  nobody. `Quiet`: no edit falls between a
  file's hash and its last copy (where it is TRUE the properties are about
  everything else; `torn_upload` shows what happens where it is FALSE).
  `Surprises`: an exception that no handler of a single copy expects.
  `Reliable`: accounts that are never retired for good, so their failures are
  transient.
* Verdicts of verify are nondeterministic: a version with a GitHub copy may be found
  good or bad; a version that only Telegram holds is never `ok`.
* In `ReleaseStore` an asset is its id and whether its size is above 0; every version
  has `NumParts` parts; a release has room for `Limit` assets. `Foreign` names assets
  that an installation whose registry is lost left in the first release.
  `LostDeletes`: a deletion whose request fails may have been carried out. The
  passing run and the theorems assume it FALSE; `phantom_part` shows what TRUE does.
* `MaxUploads` bounds the assets ever stored in `ReleaseStore`; ids are never reused.
* In `ReleaseStore` one process uses the account. A second one (a worker that runs
  a manual sync) has listings of its own; the file locks keep the runs apart, but the
  listings of the first are then older than what the second has done.
* In `RateLimiter` a stamp that is older than `Hour` does not age any further and is
  forgotten, which is all the code looks at. A penalty and a backoff are ticks;
  `Headers` are the waits an answer may ask for. The comment in `rate_limit.py`
  10-13 (the limiter "blocks before issuing a request that would exceed it") is true
  of stamps: `BudgetKept`. A request leaves later, when its thread has a slot, and then
  others may leave with it: `SendsNearBudget` is the bound that holds of what is sent,
  and it is tight.
* In `StateDocument` and `Tasks` a text is `whole`, `torn`, `empty` or `absent`, its
  content is not kept. `clash` is the fact that two processes have been writing at
  once: `StateManager._lock` is a lock of one process, so nothing prevents it, and
  the properties that need `~clash` say so. Writers of one process take turns.
* In `TelegramLogin` file operations and the client factory do not fail, exceptions of
  the callback are swallowed as in the code, and `interrupted` counts attempts that
  met the attempt of another worker or were cut off: after the first the properties
  that still hold are claimed, after the second nothing is (`NotCrossed`). One sync
  at a time (`Tasks.OneRunPerTask`). SQLite's locking of a session file is not
  modelled, nor messages that a repeated upload duplicates.
* `docs` is the set of the flags in documents that others than the sync hold: two
  documents with one flag are one element, which a save may leave or take away.
  `MaxDocs` bounds how many different flags are held at a time; two are all there are.
  A retired account is refused by the error the key meets, which Telegram chooses:
  `SelfHeal` and `RefusedAtOnce` are both open to it.
* In `Startup` no key is configured in the environment, a small file is written by one
  write, and one that is empty makes `json.loads` raise: the process does not come
  up, and may try again. `Legacy` are the files of the old map that have a path; all
  the versions of one are one step.
* `MaxEdits` and `MaxCrashes` bound the environment. The theorems hold for all
  their values.

## 4. Runs

| Run | Instance | Shows |
|---|---|---|
| `sync_safety` | 2 files of which one is `Fragile`, 2 contents, 3 ids, 2 GitHub accounts, 2 copies, 1 edit, 1 crash, surprises; `SyncOnlySpec` | all properties of the sync, and `ImplementsVault` |
| `verify_safety` | 2 files of which one is `Fragile`, 2 contents, 2 ids, one GitHub account, 1 edit, surprises, both verifiers; `Spec` | sync and verify do not spoil each other's writes |
| `sync_liveness` | 1 `Fragile` file, 1 GitHub and 2 Telegram accounts of which one is refused for good, 1 edit, 1 crash; `FairSyncSpec` | `EventuallyBackedUp` |
| `release_store` | 2 files, 2 versions of 2 parts, 2 releases of 3 assets, 1 foreign asset, 4 uploads, 1 crash | the properties of one account: what is recorded exists, the cache is true, three tries suffice, parts get listed, releases are sealed in time, parts are not sent twice |
| `rate_limiter` | 2 threads, windows of 2 and 5 ticks with budgets 1 and 2, a gate of 2, 2 attempts, 1 wait; `FairSpec` | budgets, what is sent, wake-ups, bounded and finished calls |
| `tasks` | the master with both schedulers, a worker with a request and a manual sync, 1 trigger, 1 exception, 1 crash; `FairSpec` | one run per task, live state, document, the schedule |
| `telegram` | 2 processes that sync and log in, 3 keys, 3 attempts, documents with either flag, 1 revocation, 1 crash | the session file, the re-login, the reload |
| `startup` | the master and 2 workers, 3 keys, 2 legacy files, 2 deaths | one key, the import |
| `torn_upload`, `verify_locked`, `phantom_part`, `relogin_ignored` | as in the cfg | the disagreements of section 6 |

Why the bounds are enough for the interesting cases: two files are needed for
deduplication and for adoption while the other file is unfinished; two accounts and
two copies for a version that is replicated in part; one edit makes every case of
the loop body happen (changed, touched, deleted, content moved), the initial disk
being arbitrary; one crash reaches every gap between two statements, and the
restarted run resumes from there; three ids let an old, an interrupted and a new
version exist together. Symmetry is used for safety only. Deadlock is not checked:
a service with nothing to do may stay idle for ever in a bounded model (all edits
and crashes used up, and the liveness run's scheduler is a fairness assumption).

In `release_store` two parts make an upload that is interrupted between parts and
resumed; a release of three assets holds one whole version and its manifest, so that
both a version inside one release and one split over two occur, as does a release
that a foreign asset nearly fills; four uploads are a whole version, one asset that
is lost, empty or deleted, and a manifest.

In `rate_limiter` the hour is longer than two minutes, so that either window may be
the one that is full; two threads meet at a gate of two that drops to one, and each
has one penalty and one backoff. In `tasks` one exception and one death may fall
into the same save, in either process, while the other has a run, a probe or a save.
In `telegram` two new keys are a login that is interrupted and one that repairs it;
three attempts are a network error, the reload and the last attempt. In `startup`
two deaths are one in the import and one in its repetition.

In `verify_safety` the first of two rows has a snapshot and the second has none; two ids
are an old version and the one that replaces it, or a version for each file; the edit
may remove a file, restore one or change one. No process dies in it, since
`CheckIsOfCurrentVersion` is about runs without deaths; those of the sync's writes are
in `sync_safety`, those of verify are no more than a run that ends anywhere.

All passing runs of the core use `Quiet = TRUE`; `torn_upload` is the run without it.
Telegram accounts are in `sync_liveness`.

### Fairness

`WF_vars(SyncTask)`: the scheduler thread starts a run after each interval and a run
has no step that waits for ever (`runtime.py` 36-49; requests have timeouts).
`SF` of a copy on each `Reliable` account: such an account may fail again and again,
but an account that is asked for ever accepts some upload. Without it a network that
is down for ever would refute liveness, with weak fairness a failure in between
would. `SF` of `StatFile` for a `Fragile` file likewise: its `stat()` does not fail in
every run. No fairness is assumed of the user, of crashes, of verify, nor of accounts
outside `Reliable`, which may be retired and stay so.

`RateLimiter.FairSpec`: time passes, and each thread that can go on does (sleeps and
requests end, a condition variable that was notified wakes). `Tasks.FairSpec`: weak
fairness of the steps of runs and requests and of the restart of a process that died
(the container's policy). Strong fairness where something else comes and goes:
`Acquire` of a scheduler, which skips its turn while a probe or another run has the
lock and comes again after its interval; `LockStep`, since the lock of the state
manager is given in time to a thread that waits; `Finish`, since a run walks over
finitely many files. No fairness of triggers, exceptions, probes or crashes.

## 5. Proofs

`Backup_proofs` proves, for all files, contents, accounts, edits and crashes, of
`Spec` (sync, verify, user and crashes interleaved):

* `Inductive`: `Spec => []IInv`;
* `TypeCorrect`: `[]TypeOK`;
* `CompleteMeansReplicated`: `[]CompleteIsReplicated`;
* `IndexMeansReplicated`: `[]DedupIndexIsReplicated`;
* `VersionNamesContent`: `[]OneContentPerVersion`.

Assumptions: those of the modules (`CopyCountAssumption`, `NullAssumption`,
`SyncAssumption`, `StoredAssumption`, `CrashAssumption`), which TLC evaluates on every
run.

The argument. That a row is `complete` only on account of a replicated version is
not inductive: the row is written from locals. `IInv` adds

* `TaskInv`: what the locals know at each `pc` — the row read by `StatFile` is still
  the row (only `present` can change underneath, by `mark_missing`), the unfinished
  row carries the job's id and hash, and after `SaveNewVersion` the saved version is
  what the locals say;
* `SavedDistinct` and `JobDistinct`: no list of copies names an account twice, nor
  asks one again. The code decides completeness by the *length* of the list, and this
  is what makes the length the number of accounts;
* `OneContentPerId`: an id means one content wherever it occurs — rows, versions, the
  index and the locals;
* `IndexSaved`: what the index offers is replicated and saved under its own content;
* `RegistryInv`: the two safety properties themselves.

There is one lemma per action, with a step per conjunct the action can disturb.
TLC has checked `IInv` on the instances of both safety runs.

`Copies_proofs` proves the action properties `CopiesNeverLost` and
`InterruptedAttemptKeepsId` on top of that invariant. `save_version` replaces the
copies of a version as a whole, so that no copy is forgotten is not a matter of the
statement but of who else uses the id: an adoption writes what the index offers, and a
resumed upload writes what it found plus what it added. `IdsInv` says when that is
enough: two files use the same id only once its version is finished
(`SharedIsFinished`), what the index offers has every copy that a user of its id has
(`IndexIsLast`), and the file that is being uploaded has its id to itself, with all
its recorded copies in hand (`JobOwnsId`). The second property then needs only the
choice of the id in `BeginUpload`.

`Outcome_proofs` proves what a run says about the disk, still of the whole `Spec`:

* `AbsentMeansGone`: `MarkedAbsentWasGone`. `WalkInv`: in a run every file is seen, still
  to come, the one being visited, was off the disk at some time since the run began, or
  is one whose `stat()` failed (`unstatted`). `AwayInv`: what verify has missed on the
  disk was off it at some time since that verify began, though it may be back.
* `SuccessMeansRecorded`: without any premise on the user's edits, a run that ends in
  success leaves every file that was not edited meanwhile, and whose `stat()` did not
  fail, complete, under the hash of what is on disk. A stamp decides for the code that nothing has changed, so `StampInv`
  says what a stamp is good for: a file with the stamp of its row, or of the job, has
  that content. `DoneInv` says that of the files that the walk is through with.
* `CopiesHoldWhatRowsClaim` and `SuccessIsBackup`: under `Quiet` (no edit falls between
  the hash of a file and its last copy) also the copies hold that content, hence
  `SuccessMeansBackedUp`. `ContentInv` says so of versions, index and locals. The
  premise is the one that `torn_upload` refutes the property without.
* `CheckIsCurrent`: `crashes = 0 => CheckIsOfCurrentVersion`. `SnapshotInv`: while verify
  may write and has rows left, its snapshot shows the versions the rows have.
  `OwnCheckInv`: a complete row shows a check of another version only between the
  statement that completes it and the one that clears the check, which is why a death in
  between has to be left out, or if verify wrote it for the last row (`late`).
* `RegistryIsAVault`: `Spec => ImplementsVault`, step by step. A save of a version is
  `Vault.Keep` or a stutter (`SaveIsKeep`, since it never drops a holder: `IdsInv`), an
  upsert of a row `Claim`, `Withdraw` or a stutter (`UpsertIsClaim`, since what it calls
  complete is replicated: `IInv` after the step), and all other statements are stutters.

`ReleaseStore_proofs` proves, for any files, versions, parts, releases, uploads and
crashes, and under `~LostDeletes`:

* `ReleaseInvariant`: `Spec => []RInv`;
* `StoredPartsStayOnAccount`: `[]StoredPartsExist`;
* `ListingsStayTrue`: `[]CacheIsTrue`;
* `RecordedPartsGetListed`: `[]PartsGetListed`;
* `ReleaseTypes`: `[]TypeOK`;
* `ThreeTriesAreEnough`: `[]ThreeTriesSuffice`;
* `SealedWithRoom`: `[]SealedInTime`;
* `PartsAreReused`: the action property `PresentPartsAreReused`.

A recorded copy is the list of parts the upload has put together, and a part gets
into that list from the cached listing without a request: `StoredPartsExist` needs
`CacheIsTrue` and `JobTrue` (every part in the list is on the account; the part in
hand is the next one). Deletions are what could spoil a recorded copy: the asset
deleted is always the part in hand, whose version has no recorded copy yet
(`JobTrue`: `stored[job.version] = Null`), or the manifest. That is `Spares`, under
which `SparesStored`, `SparesParts` and `StillInHand` handle all requests alike.
`PartsGetListed` holds because `RecordPart` touches the release, and because while
the manifests are written every touched release is queued, missed or listed
(`ManifestsDue`).

The last four have invariants of their own on top of `RInv`. `Types` adds that a release
that is being worked on has its row. `TriesInv` follows one upload: unless it met
trouble, a name that was refused as taken is free at the next try, so that a refusal
after that is for want of room. `RoomInv`: an open release has room for a part and its
manifest, or its assets are just being counted; what makes a part take one place at most
is that it is recorded once in a release. `KnownInv`: every recorded part is in the
kept listing of its release, in full, and the part in hand is in none that are known.
The last two hold up to the first death: one between `RecordPart` and `CountAssets`
leaves a full release open, and the listings are lost with the process. The proofs use
`ReleaseAssumption` and `ReleaseNullAssumption`.

`RateLimiter_proofs` proves `BudgetKept`, `RequestsBounded`, `NoIdleSlot`,
`SendsNearBudget` and `TypeOK` for any threads, budgets, windows and limits
(`LimiterAssumption`, `RequestAssumption`):

* the budget needs `EventsAreRecent` (the stamps in the deque are the last ones taken,
  and those dropped are older than the hour) and `OldestFirst`, since the code counts
  the deque where the property is about all stamps;
* the requests need `CallsCounted`: what was sent is at most attempts plus waits;
* the gate needs `GateInv`: who is inside is counted by `active`, and a thread that
  was notified counts as on its way;
* what leaves in a minute is about two histories, of stamps and of requests. `SendsInv`:
  the stamps that are held back at the gate and those of the last minute's requests are
  the last stamps of all, and although threads overtake each other there, a request is
  not older than the stamp that is as many places behind its turn as there are threads.
  With more requests than budget and threads, `BudgetKept` would put the first of them
  out of the minute;
* the types need that `active` is exactly the number of threads that are sending
  (`SlotsCounted`), and that no sleep is negative (`WaitIsNat`, `PenaltyIsNat`,
  `PowersOfTwo`). `GateHolds` follows: no more than `max_concurrency` send at a time.

`Tasks_proofs` proves `TypeOK`, `OneRunPerTask`, `LiveStateIsOfARun` and
`DocumentSurvives` for any processes, threads and bounds. `RunsHoldTheirLock` says who
has the file lock at each `pc`, `RequestsAreNoRuns` that a probe gives it back;
`LiveInv` relates `live` and `pc`. `DocumentInv` is, for `~clash`, that the document is
whole, no scheduler has ended, and the one process that writes is as far as its `pc`.

`Telegram_proofs` proves `WorkingSessionSurvives`, `SessionIsWithinReach`, `TypeOK`,
`ReloginIsRecorded` and `GoodSessionIsKept` for any processes and bounds. `SessionInv` says for each attempt
where the old key lies, and that there is one attempt as long as none has crossed.
`FlagInv` is what keeps a quiet re-login: a run or another document that was loaded
before it would have made it `busy`, and those loaded since have the flag set. `GoodSessionIsKept` rests on `KeptInv`: no key is accepted before it was made
(`KeysMade`), so the session file of an attempt is not a good one (`AttemptIsNotGood`)
and a file that stays good is the same file; hence the client that a reload has opened
on it is registered (`HealedIsRegistered`), and no second failure can retire the account.
What is left are the first failure of the last attempt and the errors without a reload.

`Startup_proofs` proves `OneKeyEver`, `LegacyFilesAreKept` and `ImportNeverUndoesASync`
(an action property) for any processes, keys, files and deaths. `MasterFirst` and
`KeysAgree`: while the master is not up no other process is, and whatever key a process
holds is the one in the file or the one in use; `FileStays`: the file never vanishes
again, and an empty one gives no key. `OneImporter` and `Recorded`: only the master
imports, before the flag and before any sync, and what is no longer to do is in all
tables.

Every safety property of a passing run, and the refinement, is stated by one of these
theorems. Only model-checked is liveness, which is out of the prover's reach:
`EventuallyBackedUp`, `CallsEnd` and `SyncKeepsRunning`; and of course what the runs of
section 6 refute. The invariants that the proofs add were checked by TLC on the
instances of section 4 first.

## 6. Findings

Each has a run whose counterexample shows it.

1. `torn_upload`: bytes are read again after the hash; an edit in between is stored
   under the hash of the old bytes and later adopted by other files.
2. `verify_locked`: a sync commit while verify iterates makes the next write of verify
   fail, and the verify run ends with rows unvisited, where its docstring has "metadata,
   every file". If it was the scheduler's, its thread verifies nothing more before a
   restart: the connection stays in the transaction that failed.
3. `phantom_part`: a deletion that fails for the client but was carried out leaves the
   part in the cached listing and in the registry; a later attempt of the same process
   reuses it and records a copy without it.
4. `relogin_ignored`: the scheduler keeps an account it has retired in its own memory,
   and a run in progress the flag it has loaded, so that a re-login in a worker, which
   "the scheduler picks up the next time it reloads state", may not be picked up before
   a restart.

What the models also made plain, without a run of its own:

* `_sync_impl` passes over any file whose `stat()` raises, without counting a failure
  (`service.py` 389-393). If the file is there (no permission, an I/O error), it is then
  flagged absent and the run reports success. `MarkedAbsentWasGone` and
  `SuccessMeansBackedUp` exempt these files, by the name `unstatted`.
* The last row of a verify run has no snapshot, and `record_verification` does not ask
  for the version: if a sync completes a new version while the old one is checked, the
  check of the old one is recorded after the new one has cleared it, and stays until the
  next verify. `CheckIsOfCurrentVersion` exempts these rows, by the name `late`.
* Between `exists()` and `mark_missing` a file may come back; it is flagged absent all
  the same, and the next sync takes it up. `MarkedAbsentWasGone` says no more than that
  the file was off the disk during the run.
* `exists()` raises for a file whose `stat()` is refused, outside any handler, which ends
  the verify run (`CheckRaises`).
* Every task and many requests load all of `index.json` and write all of it back. A
  re-login during a verify, even with no sync in progress, is undone by the save at its
  end. `ReloginIsRecorded` is about a re-login that no holder of the document meets.
* `_is_telegram_auth_failure` takes `AUTH_KEY_INVALID`, `UNAUTHORIZED` and
  `SESSION_REVOKED` as final, but `_request` reloads the session file for
  `AUTH_KEY_UNREGISTERED` only: a client in memory on an old key costs the account, even
  if a good file lies there (`RefusedAtOnce`). `GoodSessionIsKept` names this case.
* Hashing happens outside the handlers, so one unreadable file ends every run before
  the files behind it (`Sync.HashRaises`).
* Completing a row and clearing its verification are two transactions; a crash between
  them leaves the old verification. `CheckIsOfCurrentVersion` is checked, and proved,
  without crashes.
* Adopting a stored version does not touch its releases, so the new path is in no
  manifest (`ReleaseStore.Adopt`); a manifest has one entry per file id, under the
  version of its first asset.
* A release is sealed by a count of the registry alone, so that assets it does not know
  of take the slot that is kept for the manifest. `SealedInTime` is what does hold.
* `index.json` is rewritten atomically for one process only. Two that save at once
  share `index.json.tmp`: one may rename what the other has just truncated.
  `DocumentSurvives` without `~clash` is violated at once, and then a scheduler thread
  can end for good.
* Every start of every process rewrites `secrets.json` in place, although README.md:245
  has its values reused and not overwritten. A process that dies between truncation and
  text leaves a file that no later start can read; `OneKeyEver` shows that no second
  key comes of it.
* A sync that meets a login in progress finds no session file and retires the account
  (`NoSession`), even if the login is then cancelled.

A restart has a cost that is no error: the first upload to a release then caches a
listing of one entry, so that what is there already is sent again, refused, deleted
and sent once more (`PresentPartsAreReused` allows for it).

## 7. Not modelled

* Rendering, web sessions and downloads; restore.
* The part format and the ciphers: sequential, and over data that is not finite.
* The defaults that `state_migrations.py` fills into a loaded document and the two
  scripts of `src/migrations`: sequential, the latter run by hand. What the second does
  at every start is in `Startup`.
* The content of `index.json` but for an account's flag: daily counters and summaries
  that the last writer may undo, for which the code makes no promise.
* Sizes: the daily quota of an account (an account is eligible or not), the rotation
  and the byte budget of verify's deep checks, the size of a part.
* The choice of a host repository, the contents API of GitHub, the messages, captions
  and channels of Telegram.
* Directories that cannot be listed, timestamps, error texts, the dashboard's counters.

What would come next: a refinement from the copies of `ReleaseStore` to
`Sync.GitHubCopy`, `ReleaseStore` with two processes, and an abstract specification of
the task runner.
