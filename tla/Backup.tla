------------------------------- MODULE Backup -------------------------------
(***************************************************************************)
(* The service as one process runs it: the sync task (Sync), the verify     *)
(* task below (AppService._verify_impl) on its own thread, the user, and    *)
(* the process dying.                                                       *)
(*                                                                          *)
(* Verify iterates over an open SELECT (Registry.iter_files) on its         *)
(* thread's own SQLite connection and writes through that connection inside *)
(* the loop.  The open cursor pins a snapshot of the database in WAL mode:  *)
(* what the loop reads is the snapshot, and once the sync thread has        *)
(* committed, SQLite refuses to let the stale snapshot write ("database is  *)
(* locked", at once, whatever the 30 s timeout).  Python's cursor is one    *)
(* row ahead of the loop: when the loop gets the last row the SELECT has    *)
(* ended, and with it the snapshot.                                         *)
(***************************************************************************)
EXTENDS Sync

CONSTANTS
    Verifiers,      \* who starts verify: the scheduler, requests of the web, or both
    MaxCrashes      \* bound on how often the process dies

ASSUME CrashAssumption ==
    /\ Verifiers \subseteq {"scheduler", "request"}
    /\ MaxCrashes \in Nat

VARIABLES
    vpc,         \* what the verify task does next
    verifier,    \* whose thread runs it, the scheduler's or one of a request
    queue,       \* rows of the open cursor still to visit, with their versions
    visit,       \* the row being checked
    stale,       \* another connection committed since the cursor's snapshot
    wedged,      \* the scheduler's verify thread is left in a stale transaction
    away,        \* history: files that have been off the disk since verify began
    late,        \* history: see RecordCheck
    crashes

verifyVars == <<vpc, verifier, queue, visit, stale, wedged, away, late>>
vars == <<syncVars, verifyVars, crashes>>

Target == Files \X VersionIds
Rows   == Files \X (VersionIds \union {Null})

TypeOK ==
    /\ SyncTypeOK
    /\ vpc \in {"idle", "visit", "look", "missing", "check"}
    /\ verifier \in Verifiers \union {Null}
    /\ queue \subseteq Rows
    /\ visit \in Target \union {Null}
    /\ stale \in BOOLEAN
    /\ wedged \in BOOLEAN
    /\ away \subseteq Files
    /\ late \subseteq Files
    /\ crashes \in Nat

VerifyInit ==
    /\ vpc = "idle" /\ verifier = Null /\ queue = {} /\ visit = Null
    /\ stale = FALSE /\ wedged = FALSE /\ away = {} /\ late = {}

Init == SyncInit /\ VerifyInit /\ crashes = 0

-----------------------------------------------------------------------------
(* Verify *)

\* The version get_active_version finds for a row, if it was ever saved.
SavedVersion(f) == IF ActiveVersion(f) = Null THEN Null ELSE rows[f].version

PresentRows == {f \in Files : rows[f] # Null /\ rows[f].present}

\* next_counter is the first write of a run: a thread that is left in a stale
\* transaction gets no further.
OpenCursor(thread) ==
    /\ vpc = "idle"
    /\ thread = "scheduler" => ~wedged
    /\ vpc' = "visit"
    /\ verifier' = thread
    /\ queue' = {<<f, SavedVersion(f)>> : f \in PresentRows}
    /\ away' = Files \ OnDisk
    /\ UNCHANGED <<syncVars, visit, stale, wedged, late, crashes>>

Stop ==
    /\ vpc' = "idle" /\ verifier' = Null /\ queue' = {} /\ visit' = Null
    /\ stale' = FALSE /\ away' = {}

EndVerify ==
    /\ vpc = "visit"
    /\ queue = {}
    /\ Stop
    /\ UNCHANGED <<syncVars, wedged, late, crashes>>

\* What get_active_version returns for a row: what the snapshot has, but for the
\* last row, after which there is none, what the database has now.
ReadVersion(row) == IF queue = {row} THEN SavedVersion(row[1]) ELSE row[2]

\* A row whose version was not saved is passed over.
NextRow(row) ==
    /\ vpc = "visit"
    /\ row \in queue
    /\ queue' = queue \ {row}
    /\ stale' = (stale /\ queue' # {})
    /\ IF ReadVersion(row) = Null
       THEN UNCHANGED <<vpc, visit>>
       ELSE vpc' = "look" /\ visit' = <<row[1], ReadVersion(row)>>
    /\ UNCHANGED <<syncVars, verifier, wedged, away, late, crashes>>

\* MUTANT: the file is not looked for on disk.
Mutant_LookForFile ==
    /\ vpc = "look"
    /\ vpc' \in {"check", "missing"}
    /\ UNCHANGED <<syncVars, verifier, queue, visit, stale, wedged, away, late, crashes>>

LookForFile ==
    /\ vpc = "look"
    /\ vpc' = IF visit[1] \in OnDisk THEN "check" ELSE "missing"
    /\ UNCHANGED <<syncVars, verifier, queue, visit, stale, wedged, away, late, crashes>>

\* MUTANT: a stale snapshot may write (a connection without isolation).
Mutant_CanWrite == TRUE

\* A write of the verify thread is refused while its cursor pins an old snapshot.
CanWrite == ~stale

RecordMissing ==
    /\ vpc = "missing"
    /\ CanWrite
    /\ MarkMissing(visit[1])
    /\ vpc' = "visit"
    /\ visit' = Null
    /\ UNCHANGED <<checks, versions, uploaded, seen, taskVars, userVars, verifier, queue,
                   stale, wedged, away, late, crashes>>

\* A copy that only Telegram holds is skipped: it never makes a file `ok`.
\* A GitHub copy passes or not (a listing fails, a part is damaged, the local
\* file has changed since).
Verdicts(t) ==
    {FALSE} \union
    (IF \E a \in HoldersOf(versions[t[1]][t[2]].copies) : a \in GitHubAccounts
     THEN {TRUE} ELSE {})

\* `late' has the files whose last check verify wrote without a snapshot, for the
\* last row, about another version than the row had by then.
RecordCheck ==
    /\ vpc = "check"
    /\ CanWrite
    /\ \E ok \in Verdicts(visit) : RecordVerification(visit[1], ok, visit[2])
    /\ late' = IF queue = {} /\ rows[visit[1]].version # visit[2]
               THEN late \union {visit[1]} ELSE late \ {visit[1]}
    /\ vpc' = "visit"
    /\ visit' = Null
    /\ UNCHANGED <<rows, versions, uploaded, seen, taskVars, userVars, verifier, queue,
                   stale, wedged, away, crashes>>

\* Outside any handler: exists() raises what is not plain absence, and the hash of
\* a file selected for the deep check what open() does.
CheckRaises ==
    /\ \/ vpc = "look" /\ visit[1] \in Fragile
       \/ vpc = "check" /\ ~Readable(visit[1])
    /\ Stop
    /\ UNCHANGED <<syncVars, wedged, late, crashes>>

\* OperationalError from mark_missing or record_verification: the run is over.
\* Nothing rolls back the transaction the write began, and its connection belongs
\* to the thread: the scheduler's goes on living, that of a web request ends.
DatabaseLocked ==
    /\ vpc \in {"missing", "check"}
    /\ ~CanWrite
    /\ Stop
    /\ wedged' = (wedged \/ verifier = "scheduler")
    /\ UNCHANGED <<syncVars, late, crashes>>

VerifyStep ==
    \/ \E thread \in Verifiers : OpenCursor(thread)
    \/ \E row \in Rows : NextRow(row)
    \/ EndVerify \/ LookForFile \/ RecordMissing \/ RecordCheck \/ CheckRaises \/ DatabaseLocked

-----------------------------------------------------------------------------
(* The process *)

\* The cursor is open as long as it has rows for the loop.
SyncTask ==
    /\ \/ Commit /\ stale' = (queue # {})
       \/ NoCommit /\ UNCHANGED stale
       \/ MayCommit /\ stale' \in {stale, queue # {}}
    /\ UNCHANGED <<vpc, verifier, queue, visit, wedged, away, late, crashes>>

UserStep ==
    /\ User
    /\ away' = IF vpc = "idle" THEN {} ELSE away \union (Files \ {f \in Files : disk'[f] # Null})
    /\ UNCHANGED <<vpc, verifier, queue, visit, stale, wedged, late, crashes>>

Relogin ==
    /\ \E a \in TelegramAccounts : Reauthenticate(a)
    /\ UNCHANGED <<verifyVars, crashes>>

Environment == UserStep \/ Relogin

\* With the process all its connections are gone.
Crash ==
    /\ crashes < MaxCrashes
    /\ pc # "idle" \/ vpc # "idle"
    /\ crashes' = crashes + 1
    /\ SyncDies
    /\ Stop
    /\ wedged' = FALSE
    /\ UNCHANGED late

Next ==
    \/ SyncTask
    \/ VerifyStep
    \/ Crash
    \/ Environment

Spec == Init /\ [][Next]_vars

\* The same with verify never started (its interval may be as long as one
\* likes): what the larger instances of the sync are checked on.
SyncOnlyNext == SyncTask \/ Crash \/ Environment
SyncOnlySpec == Init /\ [][SyncOnlyNext]_vars

\* The scheduler thread keeps running sync, a file that is there can be stat'ed at
\* some time if it keeps being tried, and an account that is not refused for good
\* accepts an upload it keeps being asked for.
SyncFairness ==
    /\ WF_vars(SyncTask)
    /\ \A f \in Fragile : SF_vars(SyncTask /\ StatFile(f))
    /\ \A a \in Reliable \intersect GitHubAccounts : SF_vars(SyncTask /\ GitHubCopy(a))
    /\ \A a \in Reliable \intersect TelegramAccounts : SF_vars(SyncTask /\ TelegramCopy(a))

FairSyncSpec == SyncOnlySpec /\ SyncFairness

-----------------------------------------------------------------------------
(* What must hold *)

IsComplete(f) == rows[f] # Null /\ rows[f].status = "complete"

\* A `complete` row (registry.py, STATUS_COMPLETE) points at a saved version of
\* the row's own content with copies on CopyCount different accounts, whatever
\* was resumed, adopted, retried or interrupted on the way.
CompleteIsReplicated ==
    \A f \in Files : IsComplete(f) =>
        /\ ActiveVersion(f) # Null
        /\ ActiveVersion(f).hash = rows[f].hash
        /\ Replicated(ActiveVersion(f))

\* Only fully replicated versions get into the table that step 3 of the sync
\* adopts from, each under its own content (record_uploaded_version).
DedupIndexIsReplicated ==
    \A h \in Contents : uploaded[h] # Null =>
        uploaded[h].version.hash = h /\ Replicated(uploaded[h].version)

\* A version id names one content, for every file that has a version of that
\* id: asset names and manifest paths are derived from it (paths_for_version).
OneContentPerVersion ==
    \A f, g \in Files, v \in VersionIds :
        versions[f][v] # Null /\ versions[g][v] # Null =>
            versions[f][v].hash = versions[g][v].hash

\* Resuming a version adds copies and never forgets one that was recorded, nor
\* does an id ever change content (_upload_file_version, save_version).
CopiesNeverLost ==
    [][\A f \in Files, v \in VersionIds : versions[f][v] # Null =>
         /\ versions'[f][v] # Null
         /\ versions'[f][v].hash = versions[f][v].hash
         /\ HoldersOf(versions[f][v].copies) \subseteq HoldersOf(versions'[f][v].copies)
      ]_versions

\* An unfinished row keeps its version id through failures and crashes as long
\* as its content is the same, unless it adopts a finished version: the parts
\* already uploaded are found again under that id.
InterruptedAttemptKeepsId ==
    [][\A f \in Files :
         /\ rows[f] # Null /\ ~IsComplete(f)
         /\ rows'[f].hash = rows[f].hash
         /\ rows'[f].version # rows[f].version
         => rows'[f].status = "complete"]_rows

\* A file is flagged absent (mark_absent_except_run, mark_missing) only if it
\* has been off the disk since the run that flags it began, or the walk could not
\* inspect it (the code takes that for absence): never because a walk broke off.
MarkedAbsentWasGone ==
    [][\A f \in Files :
         rows[f] # Null /\ rows[f].present /\ ~rows'[f].present
         => IF pc' = pc THEN f \in away ELSE f \in gone \union unstatted]_rows

\* When a sync reports success, every file that was on disk and left alone
\* during the run is recorded complete with the content it has, and each copy
\* of its version holds that content: unless its stat() failed, which the code
\* does not count as a failure.
SuccessMeansBackedUp ==
    [][pc = "walk" /\ pc' = "idle" /\ UNCHANGED crashes /\ result' = "success" =>
         \A f \in OnDisk \ (edited \union unstatted) :
             /\ IsComplete(f)
             /\ rows[f].hash = disk[f].content
             /\ \A i \in DOMAIN ActiveVersion(f).copies :
                    ActiveVersion(f).copies[i].holds = disk[f].content]_pc

\* The copies of a complete row hold the content the row claims: step 3 adopts
\* a version because "this content is already stored" (service.py:439-440).
CopiesHoldTheirContent ==
    \A f \in Files : IsComplete(f) =>
        \A i \in DOMAIN ActiveVersion(f).copies :
            ActiveVersion(f).copies[i].holds = rows[f].hash

\* Between runs, a complete row shows no verification of another version:
\* "a verification of the previous version says nothing about the new one"
\* (clear_verification).  Except one that verify wrote for the last row of its
\* cursor, which no snapshot protects (late).
CheckIsOfCurrentVersion ==
    pc = "idle" => \A f \in Files \ late :
        IsComplete(f) /\ checks[f] # Null => checks[f].version = rows[f].version

\* A verify run checks, as its docstring says, "every file": it ends when its rows
\* are visited.
VerifyReachesEveryFile ==
    [][vpc # "idle" /\ vpc' = "idle" /\ UNCHANGED crashes => queue = {} /\ vpc = "visit"]_vpc

\* Once the user stops and the process stays up, every file on disk ends up
\* complete with its current content and stays so.
EventuallyBackedUp ==
    <>[](\A f \in OnDisk : IsComplete(f) /\ rows[f].hash = disk[f].content)

-----------------------------------------------------------------------------
(* The registry implements the vault: a version is kept once it is saved with  *)
(* enough copies, and a complete row claims the version it points at.          *)

Kept == [f \in Files |-> [v \in VersionIds |->
           IF versions[f][v] # Null /\ Replicated(versions[f][v])
           THEN versions[f][v].hash ELSE Null]]

Claimed == [f \in Files |-> IF IsComplete(f) THEN rows[f].version ELSE Null]

V == INSTANCE Vault WITH kept <- Kept, claimed <- Claimed

\* Every step of the service is a step of the vault or none at all.
ImplementsVault == V!Spec
=============================================================================
