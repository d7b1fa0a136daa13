-------------------------------- MODULE Sync --------------------------------
(***************************************************************************)
(* The sync task of app/service.py: one walk over the data directory that  *)
(* uploads what is new or changed (AppService._sync_impl and everything it *)
(* calls), next to the user who edits the files and the process that may   *)
(* die at any point.  A copy is uploaded or fails as a whole here; its      *)
(* parts, releases and assets are another component.                        *)
(*                                                                          *)
(* Each action ends at the next point where other actors can interfere:     *)
(* after a read of the disk, after a committed registry statement, after a  *)
(* copy.  `pc` names what the task does next.                               *)
(***************************************************************************)
EXTENDS Registry

CONSTANTS
    Unreadable,     \* files whose bytes the service may not read (permissions)
    Fragile,        \* files whose stat() may fail while they are there
    Reliable,       \* accounts whose failures are always transient
    Quiet,          \* TRUE: no file is edited between its hash and its last copy
    Surprises,      \* TRUE: an upload may raise what no handler per copy expects
    MaxEdits        \* bound on what the user does to the files

ASSUME SyncAssumption ==
    /\ Unreadable \subseteq Files
    /\ Fragile \subseteq Files
    /\ Reliable \subseteq Accounts
    /\ Quiet \in BOOLEAN
    /\ Surprises \in BOOLEAN
    /\ MaxEdits \in Nat

VARIABLES
    disk,        \* the data directory: content and (size, mtime_ns) of each file
    edits,       \* number of edits so far; the stamp of the next one
    pc,          \* what the sync task does next
    todo,        \* paths the walk has still to visit
    job,         \* locals of the loop body for the file being visited
    failures,    \* counters["failed"] > 0
    down,        \* _runtime_unavailable_accounts, plus the persisted Telegram flags
    result,      \* state["tasks"]["sync"]["last_result"]
    edited,      \* history: files edited since the last run began
    gone,        \* history: files that have been off the disk since then
    unstatted    \* history: files on disk whose stat() failed in the current run

taskVars == <<pc, todo, job, failures, down, result>>
userVars == <<disk, edits, edited, gone, unstatted>>
syncVars == <<registryVars, taskVars, userVars>>

Steps  == {"idle", "walk", "compare", "match", "adopt", "adopted", "github",
           "telegram", "save", "finish", "clear", "record", "fail"}
Stored == [content : Contents, stamp : Nat]
Job    == [file : Files \union {Null}, stamp : Nat, row : Row \union {Null},
           hash : Contents \union {Null}, id : VersionIds \union {Null},
           copies : Seq(Copy), used : SUBSET Accounts,
           queue : SUBSET TelegramAccounts, bytes : Contents \union {Null}]

ASSUME StoredAssumption == Null \notin Stored

NoJob == [file |-> Null, stamp |-> 0, row |-> Null, hash |-> Null, id |-> Null,
          copies |-> <<>>, used |-> {}, queue |-> {}, bytes |-> Null]

SyncTypeOK ==
    /\ RegistryTypeOK
    /\ disk \in [Files -> Stored \union {Null}]
    /\ edits \in Nat
    /\ pc \in Steps
    /\ todo \subseteq Files
    /\ job \in Job
    /\ failures \in BOOLEAN
    /\ down \subseteq Accounts
    /\ result \in {"never", "success", "error"}
    /\ edited \subseteq Files
    /\ gone \subseteq Files
    /\ unstatted \subseteq Files

SyncInit ==
    /\ RegistryInit
    /\ disk \in [Files -> {Null} \union [content : Contents, stamp : {0}]]
    /\ edits = 0
    /\ pc = "idle"
    /\ todo = {}
    /\ job = NoJob
    /\ failures = FALSE
    /\ down = {}
    /\ result = "never"
    /\ edited = {}
    /\ gone = {}
    /\ unstatted = {}

OnDisk == {f \in Files : disk[f] # Null}

-----------------------------------------------------------------------------
(* The user *)

\* From the hash of a file to its last copy.
Copying(f) == job.file = f /\ pc \in {"match", "github", "telegram"}

\* Create, overwrite or touch a file.  (size, mtime_ns) is new every time:
\* the code's premise for skipping a file it has not opened.
Write(f, c) ==
    /\ edits < MaxEdits
    /\ Quiet => ~Copying(f)
    /\ disk' = [disk EXCEPT ![f] = [content |-> c, stamp |-> edits + 1]]
    /\ edits' = edits + 1
    /\ edited' = edited \union {f}
    /\ UNCHANGED <<registryVars, taskVars, gone, unstatted>>

Delete(f) ==
    /\ edits < MaxEdits
    /\ f \in OnDisk
    /\ Quiet => ~Copying(f)
    /\ disk' = [disk EXCEPT ![f] = Null]
    /\ edits' = edits + 1
    /\ edited' = edited \union {f}
    /\ gone' = gone \union {f}
    /\ UNCHANGED <<registryVars, taskVars, unstatted>>

User == \E f \in Files : Delete(f) \/ \E c \in Contents : Write(f, c)

-----------------------------------------------------------------------------
(* The walk *)

\* iter_files collects the paths before it yields the first one.
StartSync ==
    /\ pc = "idle"
    /\ pc' = "walk"
    /\ todo' = OnDisk
    /\ failures' = FALSE
    /\ NextSyncRun
    /\ edited' = {}
    /\ gone' = Files \ OnDisk
    /\ UNCHANGED <<rows, checks, versions, uploaded, job, down, result, disk, edits,
                   unstatted>>

\* stat() raises, on a file that is gone or on one that is still there (no
\* permission, an I/O error, a stale handle): it is left out of this run, and no
\* failure is counted.
StatFails(f) ==
    /\ pc = "walk"
    /\ f \in todo
    /\ f \in Fragile \/ f \notin OnDisk
    /\ todo' = todo \ {f}
    /\ unstatted' = unstatted \union ({f} \intersect OnDisk)
    /\ UNCHANGED <<registryVars, disk, edits, edited, gone, pc, job, failures, down, result>>

StatFile(f) ==
    /\ pc = "walk"
    /\ f \in todo \intersect OnDisk
    /\ todo' = todo \ {f}
    /\ job' = [NoJob EXCEPT !.file = f, !.stamp = disk[f].stamp, !.row = rows[f]]
    /\ pc' = "compare"
    /\ UNCHANGED <<registryVars, userVars, failures, down, result>>

\* MUTANT: an unfinished row is taken for an unchanged one.
Mutant_Unchanged ==
    /\ job.row # Null
    /\ job.row.present
    /\ job.row.stamp = job.stamp

Unchanged ==
    /\ job.row # Null
    /\ job.row.status = "complete"
    /\ job.row.present
    /\ job.row.stamp = job.stamp

Visited == pc' = "walk" /\ job' = NoJob

SkipUnchanged ==
    /\ pc = "compare"
    /\ Unchanged
    /\ TouchFile(job.file, job.stamp)
    /\ Visited
    /\ UNCHANGED <<checks, versions, uploaded, userVars, todo, failures, down, result>>

Readable(f) == f \in OnDisk \ Unreadable

HashFile ==
    /\ pc = "compare"
    /\ ~Unchanged
    /\ Readable(job.file)
    /\ job' = [job EXCEPT !.hash = disk[job.file].content]
    /\ pc' = "match"
    /\ UNCHANGED <<registryVars, userVars, todo, failures, down, result>>

\* MUTANT: the aborted walk still flags what it did not reach.
Mutant_HashRaises ==
    /\ pc = "compare"
    /\ ~Unchanged
    /\ ~Readable(job.file)
    /\ MarkAbsentExceptRun
    /\ pc' = "idle"
    /\ todo' = {}
    /\ job' = NoJob
    /\ result' = "error"
    /\ unstatted' = {}
    /\ UNCHANGED <<checks, versions, uploaded, seen, disk, edits, edited, gone, failures, down>>

\* sha256_file raises outside any handler of the loop: _run_task records the
\* error and the rest of the walk, mark_absent_except_run included, never runs.
HashRaises ==
    /\ pc = "compare"
    /\ ~Unchanged
    /\ ~Readable(job.file)
    /\ pc' = "idle"
    /\ todo' = {}
    /\ job' = NoJob
    /\ result' = "error"
    /\ unstatted' = {}
    /\ UNCHANGED <<registryVars, disk, edits, edited, gone, failures, down>>

-----------------------------------------------------------------------------
(* What the hash says: known file, known content, or something to upload *)

SameHash == job.row # Null /\ job.row.hash = job.hash

\* Case 2: the row's own version holds this content and is fully replicated.
OwnVersionComplete ==
    SameHash /\ ActiveVersion(job.file) # Null /\ Replicated(ActiveVersion(job.file))

\* MUTANT: resumes the row's version whatever the content is now.
Mutant_OwnPartial == IF job.row # Null THEN ActiveVersion(job.file) ELSE Null

\* resume_version as case 2 leaves it: the row's version, replicated in part.
OwnPartial == IF SameHash THEN ActiveVersion(job.file) ELSE Null

\* Case 3: the content is stored under some other path.
StoredElsewhere ==
    /\ ~OwnVersionComplete
    /\ OwnPartial = Null
    /\ uploaded[job.hash] # Null
    /\ Replicated(uploaded[job.hash].version)

MetadataOnly ==
    /\ pc = "match"
    /\ OwnVersionComplete
    /\ UpsertFile(job.file, job.stamp, job.hash, rows[job.file].version, "complete")
    /\ Visited
    /\ UNCHANGED <<checks, versions, uploaded, userVars, todo, failures, down, result>>

\* MUTANT: the row is completed before the version is saved.
Mutant_AdoptVersion ==
    /\ pc = "match"
    /\ StoredElsewhere
    /\ UpsertFile(job.file, job.stamp, job.hash, uploaded[job.hash].id, "complete")
    /\ job' = [job EXCEPT !.id = uploaded[job.hash].id]
    /\ pc' = "adopt"
    /\ UNCHANGED <<checks, versions, uploaded, userVars, todo, failures, down, result>>

\* _adopt_version, statement by statement.
AdoptVersion ==
    /\ pc = "match"
    /\ StoredElsewhere
    /\ SaveVersion(job.file, uploaded[job.hash].id, uploaded[job.hash].version)
    /\ job' = [job EXCEPT !.id = uploaded[job.hash].id]
    /\ pc' = "adopt"
    /\ UNCHANGED <<rows, checks, uploaded, seen, userVars, todo, failures, down, result>>

AdoptRow ==
    /\ pc = "adopt"
    /\ UpsertFile(job.file, job.stamp, job.hash, job.id, "complete")
    /\ pc' = "adopted"
    /\ UNCHANGED <<checks, versions, uploaded, userVars, todo, job, failures, down, result>>

AdoptClear ==
    /\ pc = "adopted"
    /\ ClearVerification(job.file)
    /\ Visited
    /\ UNCHANGED <<rows, versions, uploaded, seen, userVars, todo, failures, down, result>>

\* Case 4.  The version whose copies are kept: the row's, or one recorded
\* for this content that was never fully replicated.
Base ==
    IF OwnPartial # Null
    THEN [id |-> rows[job.file].version, version |-> OwnPartial]
    ELSE uploaded[job.hash]

Minted == {rows[f].version : f \in {g \in Files : rows[g] # Null}}
          \union {v \in VersionIds : \E f \in Files : versions[f][v] # Null}

\* MUTANT: a fresh id for every attempt without saved copies.
Mutant_FreshAttemptIds == IF Base # Null THEN {Base.id} ELSE VersionIds \ Minted

\* MUTANT: the row's id is reused whatever its content was.
Mutant_AttemptIds ==
    IF Base # Null THEN {Base.id}
    ELSE IF job.row # Null THEN {job.row.version}
    ELSE VersionIds \ Minted

\* An interrupted attempt on the same content keeps its version id; otherwise
\* a fresh one is minted.  An id that nothing refers to any more stands for a
\* new one, so the set VersionIds only bounds how many are in use at once.
AttemptIds ==
    IF Base # Null THEN {Base.id}
    ELSE IF SameHash THEN {job.row.version}
    ELSE VersionIds \ Minted

\* Start of _process_upload: the row says `uploading` before anything is sent.
BeginUpload ==
    /\ pc = "match"
    /\ ~OwnVersionComplete
    /\ ~StoredElsewhere
    /\ \E id \in AttemptIds :
         LET kept == IF Base = Null THEN <<>> ELSE Base.version.copies IN
         /\ UpsertFile(job.file, job.stamp, job.hash, id, "uploading")
         /\ job' = [job EXCEPT !.id = id, !.copies = kept, !.used = HoldersOf(kept)]
    /\ pc' = "github"
    /\ UNCHANGED <<checks, versions, uploaded, userVars, todo, failures, down, result>>

-----------------------------------------------------------------------------
(* _upload_file_version: GitHub copies first, then Telegram *)

WantsCopies == Len(job.copies) < CopyCount

\* MUTANT: the accounts already used are not excluded.
Mutant_Eligible == GitHubAccounts \ down

\* _allocate_release_account, but for the daily quota (see GitHubPhaseEnds).
Eligible == GitHubAccounts \ (job.used \union down)

\* MUTANT: the list of copies starts anew.
Mutant_AddCopy(a, c) ==
    job' = [job EXCEPT !.copies = <<[account |-> a, holds |-> c]>>,
                       !.used = @ \union {a}, !.queue = @ \ {a}]

AddCopy(a, c) ==
    job' = [job EXCEPT !.copies = Append(@, [account |-> a, holds |-> c]),
                       !.used = @ \union {a}, !.queue = @ \ {a}]

\* A failed account is not tried again for this file; a lost permission or a
\* broken session retires it from the pool (_mark_account_unavailable).
CopyFails(a) ==
    /\ job' = [job EXCEPT !.used = @ \union {a}, !.queue = @ \ {a}]
    /\ down' \in {down} \union (IF a \in Reliable THEN {} ELSE {down \union {a}})
    /\ UNCHANGED <<registryVars, userVars, pc, todo, failures, result>>

GitHubCopy(a) ==
    /\ pc = "github"
    /\ WantsCopies
    /\ a \in Eligible
    /\ job.file \in OnDisk
    /\ AddCopy(a, disk[job.file].content)
    /\ UNCHANGED <<registryVars, userVars, pc, todo, failures, down, result>>

GitHubCopyFails(a) ==
    /\ pc = "github"
    /\ WantsCopies
    /\ a \in Eligible
    /\ CopyFails(a)

\* remaining_telegram_accounts, computed once.
TelegramPool == TelegramAccounts \ (job.used \union down)

\* An empty version is never saved.
AfterCopies == IF job.copies = <<>> THEN "fail" ELSE "save"

\* Enough copies, or no account left.  Any GitHub account may have run out of
\* daily quota for a file of this size: so Eligible need not be empty.
GitHubPhaseEnds ==
    /\ pc = "github"
    /\ ~WantsCopies \/ TelegramPool = {}
    /\ pc' = AfterCopies
    /\ UNCHANGED <<registryVars, userVars, todo, job, failures, down, result>>

\* The whole file is read once for all Telegram copies.
EnterTelegram ==
    /\ pc = "github"
    /\ WantsCopies
    /\ TelegramPool # {}
    /\ job.file \in OnDisk
    /\ job' = [job EXCEPT !.queue = TelegramPool, !.bytes = disk[job.file].content]
    /\ pc' = "telegram"
    /\ UNCHANGED <<registryVars, userVars, todo, failures, down, result>>

TelegramCopy(a) ==
    /\ pc = "telegram"
    /\ WantsCopies
    /\ a \in job.queue
    /\ AddCopy(a, job.bytes)
    /\ UNCHANGED <<registryVars, userVars, pc, todo, failures, down, result>>

TelegramCopyFails(a) ==
    /\ pc = "telegram"
    /\ WantsCopies
    /\ a \in job.queue
    /\ CopyFails(a)

TelegramPhaseEnds ==
    /\ pc = "telegram"
    /\ ~WantsCopies \/ job.queue = {}
    /\ pc' = AfterCopies
    /\ UNCHANGED <<registryVars, userVars, todo, job, failures, down, result>>

\* The file cannot be opened any more, or something unexpected happened: the
\* copies made so far are dropped and this one file fails.
UploadRaises ==
    /\ pc \in {"github", "telegram"}
    /\ Surprises \/ job.file \notin OnDisk
    /\ pc' = "fail"
    /\ UNCHANGED <<registryVars, userVars, todo, job, failures, down, result>>

-----------------------------------------------------------------------------
(* The end of _process_upload, statement by statement *)

RecordFailure ==
    /\ pc = "fail"
    /\ UpsertFile(job.file, job.stamp, job.hash, Null, "error")
    /\ failures' = TRUE
    /\ Visited
    /\ UNCHANGED <<checks, versions, uploaded, userVars, todo, down, result>>

NewVersion == [hash |-> job.hash, copies |-> job.copies]

\* MUTANT: any version counts as replicated.
Mutant_Complete == TRUE

\* version["replication_complete"]: the length of the list of copies.
Complete == Len(job.copies) >= CopyCount

\* MUTANT: the version is indexed for other files before it is complete, and
\* never saved under its own.
Mutant_SaveNewVersion ==
    /\ pc = "save"
    /\ RecordUploadedVersion(job.hash, job.id, NewVersion)
    /\ pc' = "finish"
    /\ UNCHANGED <<rows, checks, versions, seen, userVars, todo, job, failures, down, result>>

SaveNewVersion ==
    /\ pc = "save"
    /\ SaveVersion(job.file, job.id, NewVersion)
    /\ pc' = "finish"
    /\ UNCHANGED <<rows, checks, uploaded, seen, userVars, todo, job, failures, down, result>>

FinishRow ==
    /\ pc = "finish"
    /\ UpsertFile(job.file, job.stamp, job.hash, job.id,
                  IF Complete THEN "complete" ELSE "error")
    /\ pc' = "clear"
    /\ UNCHANGED <<checks, versions, uploaded, userVars, todo, job, failures, down, result>>

ClearOldCheck ==
    /\ pc = "clear"
    /\ ClearVerification(job.file)
    /\ IF Complete
       THEN pc' = "record" /\ UNCHANGED <<job, failures>>
       ELSE Visited /\ failures' = TRUE
    /\ UNCHANGED <<rows, versions, uploaded, seen, userVars, todo, down, result>>

RecordUploaded ==
    /\ pc = "record"
    /\ RecordUploadedVersion(job.hash, job.id, NewVersion)
    /\ Visited
    /\ UNCHANGED <<rows, checks, versions, seen, userVars, todo, failures, down, result>>

\* The walk completed: flag what it did not reach, report the outcome.
EndSync ==
    /\ pc = "walk"
    /\ todo = {}
    /\ MarkAbsentExceptRun
    /\ pc' = "idle"
    /\ result' = IF failures THEN "error" ELSE "success"
    /\ unstatted' = {}
    /\ UNCHANGED <<checks, versions, uploaded, seen, disk, edits, edited, gone, todo, job,
                   failures, down>>

-----------------------------------------------------------------------------
(* The process *)

\* The process dies: the locals are lost and, with them, the accounts it had
\* retired, except the Telegram flags that had reached index.json.
SyncDies ==
    /\ pc' = "idle"
    /\ todo' = {}
    /\ job' = NoJob
    /\ failures' = FALSE
    /\ \E kept \in SUBSET (down \intersect TelegramAccounts) : down' = kept
    /\ unstatted' = {}
    /\ UNCHANGED <<registryVars, disk, edits, edited, gone, result>>

\* The operator logs the account in again from the web page.
Reauthenticate(a) ==
    /\ a \in down \intersect TelegramAccounts
    /\ down' = down \ {a}
    /\ UNCHANGED <<registryVars, userVars, pc, todo, job, failures, result>>

\* Steps that commit to the registry database.  A finished GitHub copy is one
\* of them: it has written its assets and releases rows.
Commit ==
    \/ StartSync \/ EndSync \/ SkipUnchanged
    \/ MetadataOnly \/ AdoptVersion \/ AdoptRow \/ AdoptClear \/ BeginUpload
    \/ \E a \in GitHubAccounts : GitHubCopy(a)
    \/ RecordFailure \/ SaveNewVersion \/ FinishRow \/ ClearOldCheck \/ RecordUploaded

\* Steps that leave it alone.
NoCommit ==
    \/ \E f \in Files : StatFails(f) \/ StatFile(f)
    \/ HashFile \/ HashRaises
    \/ GitHubPhaseEnds \/ EnterTelegram \/ TelegramPhaseEnds \/ UploadRaises
    \/ \E a \in TelegramAccounts : TelegramCopy(a) \/ TelegramCopyFails(a)

\* A failed copy may have committed some of its parts before it failed.
MayCommit == \E a \in GitHubAccounts : GitHubCopyFails(a)

SyncStep == Commit \/ NoCommit \/ MayCommit
=============================================================================
