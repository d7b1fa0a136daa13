--------------------------- MODULE Outcome_proofs ---------------------------
(***************************************************************************)
(* Proofs about what a run of the sync leaves behind (Backup), on top of   *)
(* its inductive invariant: which files it flags absent, what a success    *)
(* means, what the copies hold and which check a row shows.  Each rests on *)
(* an invariant of its own about the walk, the stamps, the contents or the *)
(* snapshot of verify.                                                     *)
(***************************************************************************)
EXTENDS Copies_proofs

-----------------------------------------------------------------------------
(* What a step does to the rows *)

Upserting == MetadataOnly \/ AdoptRow \/ BeginUpload \/ RecordFailure \/ FinishRow

\* The row of f is written, and no other.
Writes(f, stamp, hash, id, status) ==
    /\ \A g \in Files : g # f => rows'[g] = rows[g]
    /\ rows'[f] # Null
    /\ rows'[f].hash = hash /\ rows'[f].stamp = stamp
    /\ rows'[f].version = id /\ rows'[f].status = status
    /\ rows'[f].present = TRUE
    /\ seen' = seen \union {f}

LEMMA UpsertWrites ==
    ASSUME NEW f \in Files, NEW stamp \in Nat, NEW hash \in Contents, NEW id \in VersionIds,
           NEW status \in Status, rows \in [Files -> Row \union {Null}],
           UpsertFile(f, stamp, hash, id, status)
    PROVE  Writes(f, stamp, hash, id, status)
<1> DEFINE row == [hash |-> hash, stamp |-> stamp, version |-> id, status |-> status,
                   present |-> TRUE]
<1>1. rows' = [rows EXCEPT ![f] = row] /\ seen' = seen \union {f}
  BY NullAssumption DEF UpsertFile
<1>2. row \in Row
  BY DEF Row
<1>3. /\ row.hash = hash /\ row.stamp = stamp /\ row.version = id /\ row.status = status
      /\ row.present = TRUE
  OBVIOUS
<1> HIDE DEF row
<1>4. rows'[f] = row /\ \A g \in Files : g # f => rows'[g] = rows[g]
  BY <1>1
<1> QED BY <1>1, <1>2, <1>3, <1>4, NullAssumption DEF Writes

\* The locals an upsert writes from.
LEMMA UpsertLocals ==
    ASSUME IInv, Upserting
    PROVE  /\ job.file \in Files /\ job.hash \in Contents /\ job.stamp \in Nat
           /\ rows \in [Files -> Row \union {Null}]
           /\ pc \in {"match", "adopt", "fail", "finish"}
           /\ pc # "match" => job.id \in VersionIds
BY DEF Upserting, MetadataOnly, AdoptRow, BeginUpload, RecordFailure, FinishRow, IInv, TypeOK,
       SyncTypeOK, RegistryTypeOK, TaskInv, JobSet, Job, Named, Unfinished

\* Case 2 of the loop keeps the finished version the row had.
LEMMA MetadataOnlyWrites ==
    ASSUME IInv, MetadataOnly
    PROVE  /\ rows[job.file] # Null /\ rows[job.file].version \in VersionIds
           /\ Finished(job.file, rows[job.file].version)
           /\ Writes(job.file, job.stamp, job.hash, rows[job.file].version, "complete")
<1>1. /\ job.file \in Files /\ job.hash \in Contents /\ job.stamp \in Nat
      /\ rows \in [Files -> Row \union {Null}]
  BY UpsertLocals DEF Upserting
<1>2. /\ rows[job.file] # Null /\ rows[job.file].version \in VersionIds
      /\ Finished(job.file, rows[job.file].version)
  BY <1>1 DEF MetadataOnly, OwnVersionComplete, SameHash, ActiveVersion, IInv, TaskInv, RowKnown,
     Row, Finished
<1>3. UpsertFile(job.file, job.stamp, job.hash, rows[job.file].version, "complete")
  BY DEF MetadataOnly
<1> QED BY <1>1, <1>2, <1>3, UpsertWrites DEF Status

\* _adopt_version completes the row.
LEMMA AdoptRowWrites ==
    ASSUME IInv, AdoptRow
    PROVE  Writes(job.file, job.stamp, job.hash, job.id, "complete")
<1>1. /\ job.file \in Files /\ job.hash \in Contents /\ job.stamp \in Nat
      /\ rows \in [Files -> Row \union {Null}] /\ job.id \in VersionIds
  BY UpsertLocals DEF Upserting, AdoptRow
<1> QED BY <1>1, UpsertWrites DEF AdoptRow, Status

\* An upload starts on a version that is not finished.
LEMMA BeginUploadWrites ==
    ASSUME IInv, IdsInv, BeginUpload
    PROVE  /\ Writes(job.file, job.stamp, job.hash, job'.id, "uploading")
           /\ job'.id \in VersionIds /\ ~Finished(job.file, job'.id)
           /\ job'.file = job.file /\ job'.stamp = job.stamp /\ job'.hash = job.hash
           /\ job'.copies = IF Base = Null THEN <<>> ELSE Base.version.copies
<1>1. PICK id \in AttemptIds :
         LET kept == IF Base = Null THEN <<>> ELSE Base.version.copies IN
         /\ UpsertFile(job.file, job.stamp, job.hash, id, "uploading")
         /\ job' = [job EXCEPT !.id = id, !.copies = kept, !.used = HoldersOf(kept)]
  BY DEF BeginUpload
<1>2. id \in VersionIds /\ ~Finished(job.file, id)
  BY ChosenId
<1>3. /\ job'.id = id /\ job'.file = job.file /\ job'.stamp = job.stamp /\ job'.hash = job.hash
      /\ job'.copies = IF Base = Null THEN <<>> ELSE Base.version.copies
  BY <1>1 DEF IInv, TypeOK, SyncTypeOK, Job
<1>4. Writes(job.file, job.stamp, job.hash, id, "uploading")
  BY <1>1, <1>2, UpsertLocals, UpsertWrites DEF Upserting, Status
<1> QED BY <1>2, <1>3, <1>4

\* A failure keeps the version of the row.
LEMMA RecordFailureWrites ==
    ASSUME IInv, RecordFailure
    PROVE  Writes(job.file, job.stamp, job.hash, job.id, "error")
<1>1. /\ job.file \in Files /\ job.hash \in Contents /\ job.stamp \in Nat
      /\ rows \in [Files -> Row \union {Null}] /\ job.id \in VersionIds
  BY UpsertLocals DEF Upserting, RecordFailure
<1>2. rows[job.file].version = job.id
  BY DEF RecordFailure, IInv, TaskInv, RowKnown, Unfinished
<1>3. UpsertFile(job.file, job.stamp, job.hash, job.id, "error")
  BY <1>1, <1>2, NullAssumption DEF RecordFailure, UpsertFile
<1> QED BY <1>1, <1>3, UpsertWrites DEF Status

\* The row is complete exactly if the list of copies is long enough.
LEMMA FinishRowWrites ==
    ASSUME IInv, FinishRow
    PROVE  Writes(job.file, job.stamp, job.hash, job.id, IF Complete THEN "complete" ELSE "error")
<1>1. /\ job.file \in Files /\ job.hash \in Contents /\ job.stamp \in Nat
      /\ rows \in [Files -> Row \union {Null}] /\ job.id \in VersionIds
  BY UpsertLocals DEF Upserting, FinishRow
<1>2. (IF Complete THEN "complete" ELSE "error") \in Status
  BY DEF Status
<1> QED BY <1>1, <1>2, UpsertWrites DEF FinishRow

\* All the same, whichever statement it is.
LEMMA UpsertSays ==
    ASSUME IInv, IdsInv, Upserting
    PROVE  \E id \in VersionIds, status \in Status :
              Writes(job.file, job.stamp, job.hash, id, status)
<1>1. pc # "match" => job.id \in VersionIds
  BY UpsertLocals
<1>2. CASE MetadataOnly
  BY <1>2, MetadataOnlyWrites DEF Status
<1>3. CASE BeginUpload
  BY <1>3, BeginUploadWrites DEF Status
<1>4. CASE AdoptRow
  BY <1>1, <1>4, AdoptRowWrites DEF Status, AdoptRow
<1>5. CASE RecordFailure
  BY <1>1, <1>5, RecordFailureWrites DEF Status, RecordFailure
<1>6. CASE FinishRow
  <2>1. (IF Complete THEN "complete" ELSE "error") \in Status /\ job.id \in VersionIds
    BY <1>1, <1>6 DEF Status, FinishRow
  <2> QED BY <1>6, <2>1, FinishRowWrites
<1> QED BY <1>2, <1>3, <1>4, <1>5, <1>6 DEF Upserting

\* Every other step leaves the rows alone or changes `present' at most.
LEMMA SyncRows ==
    ASSUME SyncTask
    PROVE  Upserting \/ SkipUnchanged \/ EndSync \/ UNCHANGED rows
BY DEF SyncTask, Commit, NoCommit, MayCommit, StartSync, AdoptVersion, AdoptClear,
       GitHubCopy, SaveNewVersion, ClearOldCheck, RecordUploaded, StatFails, StatFile, HashFile,
       HashRaises, GitHubPhaseEnds, EnterTelegram, TelegramPhaseEnds, UploadRaises, TelegramCopy,
       TelegramCopyFails, GitHubCopyFails, CopyFails, Upserting, registryVars

LEMMA RowSteps ==
    ASSUME [Next]_vars
    PROVE  Upserting \/ SkipUnchanged \/ EndSync \/ RecordMissing \/ UNCHANGED rows
BY SyncRows, VerifyLeaves, ReloginLeaves, UserLeaves, CrashLeaves DEF Next, Environment

\* What is left of a row when only `present' is written.
Unmarked(f) ==
    /\ rows'[f] = Null <=> rows[f] = Null
    /\ rows[f] # Null => /\ rows'[f].hash = rows[f].hash
                         /\ rows'[f].stamp = rows[f].stamp
                         /\ rows'[f].version = rows[f].version
                         /\ rows'[f].status = rows[f].status

\* mark_absent_except_run and mark_missing write nothing else.
LEMMA MarksOnly ==
    ASSUME IInv, EndSync \/ RecordMissing
    PROVE  \A f \in Files : Unmarked(f)
<1>1. rows \in [Files -> Row \union {Null}]
  BY DEF IInv, TypeOK, SyncTypeOK, RegistryTypeOK
<1>2. CASE EndSync
  BY <1>1, <1>2, NullAssumption DEF EndSync, MarkAbsentExceptRun, Unmarked, Row
<1>3. CASE RecordMissing
  <2>1. visit[1] \in Files /\ rows[visit[1]] \in Row
    BY <1>1, <1>3 DEF RecordMissing, Target, IInv, QueueKnown
  <2> QED BY <1>1, <1>3, <2>1, NullAssumption DEF RecordMissing, MarkMissing, Unmarked, Row
<1> QED BY <1>2, <1>3

LEMMA OtherMarks ==
    ASSUME IInv, VerifyStep \/ Crash \/ Environment \/ UNCHANGED vars
    PROVE  \A f \in Files : Unmarked(f)
<1>1. CASE RecordMissing
  BY <1>1, MarksOnly
<1>2. CASE UNCHANGED rows
  BY <1>2 DEF Unmarked
<1> QED BY <1>1, <1>2, VerifyLeaves, ReloginLeaves, UserLeaves, CrashLeaves DEF Environment

\* Between two visits the job keeps its file, its stamp and, once it is known,
\* its hash.
LEMMA JobGoesOn ==
    ASSUME IInv, [Next]_vars, pc' \notin {"idle", "walk"}
    PROVE  \/ \E f \in Files : StatFile(f)
           \/ /\ pc \notin {"idle", "walk"}
              /\ job'.file = job.file /\ job'.stamp = job.stamp
              /\ HashFile \/ (job'.hash = job.hash /\ (pc' = "compare" <=> pc = "compare"))
<1>1. job \in Job
  BY DEF IInv, TypeOK, SyncTypeOK
<1>2. CASE SyncTask
  <2>1. CASE BeginUpload
    BY <1>1, <2>1 DEF BeginUpload, Job
  <2>2. CASE \E a \in Accounts : GitHubCopy(a) \/ TelegramCopy(a) \/ CopyFails(a)
    BY <1>1, <2>2 DEF GitHubCopy, TelegramCopy, CopyFails, AddCopy, Job
  <2>3. CASE HashFile \/ AdoptVersion \/ EnterTelegram
    BY <1>1, <2>3 DEF HashFile, AdoptVersion, EnterTelegram, Job
  <2>4. CASE \/ StartSync \/ EndSync \/ SkipUnchanged \/ MetadataOnly \/ AdoptClear
             \/ RecordFailure \/ RecordUploaded \/ HashRaises \/ \E f \in Files : StatFails(f)
    BY <2>4 DEF StartSync, EndSync, SkipUnchanged, MetadataOnly, AdoptClear, RecordFailure,
       RecordUploaded, HashRaises, StatFails, Visited
  <2>5. CASE \/ AdoptRow \/ SaveNewVersion \/ FinishRow \/ ClearOldCheck \/ GitHubPhaseEnds
             \/ TelegramPhaseEnds \/ UploadRaises
    BY <2>5 DEF AdoptRow, SaveNewVersion, FinishRow, ClearOldCheck, GitHubPhaseEnds,
       TelegramPhaseEnds, UploadRaises, AfterCopies, Visited
  <2> QED
    BY <1>2, <2>1, <2>2, <2>3, <2>4, <2>5
    DEF SyncTask, Commit, NoCommit, MayCommit, TelegramCopyFails, GitHubCopyFails, Accounts
<1>3. CASE VerifyStep \/ Crash \/ Environment \/ UNCHANGED vars
  BY <1>3, VerifyLeaves, ReloginLeaves, UserLeaves, CrashLeaves DEF Environment
<1> QED BY <1>2, <1>3 DEF Next

\* An edit is one file with a new stamp, or one file less.
Edits(f) ==
    /\ edits \in Nat /\ edits' = edits + 1
    /\ edited' = edited \union {f} /\ gone \subseteq gone'
    /\ \A g \in Files : g # f => disk'[g] = disk[g]
    /\ IF disk'[f] = Null THEN f \in gone' ELSE disk'[f].stamp = edits + 1
    /\ Quiet => ~Copying(f)
    /\ UNCHANGED <<rows, checks, versions, uploaded, seen, pc, todo, job, failures, down, result,
                   unstatted>>

LEMMA UserEdits ==
    ASSUME IInv, User
    PROVE  \E f \in Files : Edits(f)
<1>1. disk \in [Files -> Stored \union {Null}] /\ edits \in Nat
  BY DEF IInv, TypeOK, SyncTypeOK
<1>2. ASSUME NEW f \in Files, Delete(f) PROVE Edits(f)
  BY <1>1, <1>2 DEF Delete, Edits, taskVars, registryVars
<1>3. ASSUME NEW f \in Files, NEW c \in Contents, Write(f, c) PROVE Edits(f)
  <2> DEFINE new == [content |-> c, stamp |-> edits + 1]
  <2>1. new \in Stored /\ new.stamp = edits + 1
    BY <1>1 DEF Stored
  <2>2. disk' = [disk EXCEPT ![f] = new]
    BY <1>3 DEF Write
  <2> HIDE DEF new
  <2>3. disk'[f] = new /\ \A g \in Files : g # f => disk'[g] = disk[g]
    BY <1>1, <2>2
  <2> QED BY <1>1, <1>3, <2>1, <2>3, StoredAssumption DEF Write, Edits, taskVars, registryVars
<1> QED BY <1>2, <1>3 DEF User

-----------------------------------------------------------------------------
(* Which files the walk accounts for *)

Current == IF pc \in {"idle", "walk"} THEN {} ELSE {job.file}

\* The row of the visited file carries the number of this run.
Recorded == {"adopted", "github", "telegram", "save", "finish", "clear", "record", "fail"}

\* While a run goes on, every file has been missing at some time, could not be
\* inspected, is recorded as seen, or is still to come.
WalkInv ==
    /\ pc # "idle" =>
         /\ Files \ OnDisk \subseteq gone
         /\ Files \subseteq gone \union unstatted \union seen \union todo \union Current
    /\ pc \in Recorded => job.file \in seen

\* What the user does is noted in the history variables.
LEMMA UserWalks ==
    ASSUME IInv, WalkInv, User
    PROVE  WalkInv'
<1>1. PICK f \in Files : Edits(f)
  BY UserEdits
<1> QED BY <1>1 DEF Edits, WalkInv, Current, OnDisk

\* Steps of the sync task, by what they do to the walk.
LEMMA SyncWalks ==
    ASSUME IInv, IdsInv, WalkInv, SyncTask
    PROVE  WalkInv'
<1>1. IInv /\ [Next]_vars
  BY DEF Next
<1>2. CASE StartSync
  BY <1>2 DEF StartSync, WalkInv, OnDisk, Current, Recorded
<1>3. CASE \E f \in Files : StatFails(f) \/ StatFile(f)
  BY <1>3 DEF StatFails, StatFile, WalkInv, OnDisk, Current, Recorded, userVars, registryVars, NoJob
<1>4. CASE EndSync \/ HashRaises
  BY <1>4 DEF EndSync, HashRaises, WalkInv, Recorded
<1>5. CASE SkipUnchanged
  BY <1>5 DEF SkipUnchanged, TouchFile, Visited, WalkInv, OnDisk, Current, Recorded, userVars
<1>6. CASE Upserting
  <2>1. seen' = seen \union {job.file}
    BY <1>6, UpsertSays DEF Writes
  <2>2. /\ pc \notin {"idle", "walk"} /\ pc' # "idle"
        /\ UNCHANGED <<disk, gone, unstatted, todo>>
        /\ pc' # "walk" => job'.file = job.file
    BY <1>1, <1>6, JobGoesOn
    DEF Upserting, MetadataOnly, AdoptRow, BeginUpload, RecordFailure, FinishRow, Visited,
        StatFile, userVars
  <2> QED BY <2>1, <2>2 DEF WalkInv, OnDisk, Current, Recorded
<1>7. CASE AdoptClear \/ ClearOldCheck \/ RecordUploaded
  BY <1>7 DEF AdoptClear, ClearOldCheck, RecordUploaded, Visited, WalkInv, OnDisk, Current,
     Recorded, userVars
<1>8. CASE \/ HashFile \/ AdoptVersion \/ SaveNewVersion \/ GitHubPhaseEnds \/ EnterTelegram
           \/ TelegramPhaseEnds \/ UploadRaises
           \/ \E a \in Accounts : GitHubCopy(a) \/ TelegramCopy(a) \/ GitHubCopyFails(a)
                                  \/ TelegramCopyFails(a)
  <2>1. /\ UNCHANGED <<disk, gone, unstatted, todo, seen>>
        /\ pc \notin {"idle", "walk"} /\ pc' \notin {"idle", "walk"}
        /\ pc' \in Recorded => pc \in Recorded
    BY <1>8
    DEF HashFile, AdoptVersion, SaveNewVersion, GitHubPhaseEnds, EnterTelegram, TelegramPhaseEnds,
        UploadRaises, GitHubCopy, TelegramCopy, GitHubCopyFails, TelegramCopyFails, CopyFails,
        AfterCopies, userVars, registryVars, Recorded
  <2>2. job'.file = job.file
    BY <1>1, <2>1, JobGoesOn DEF StatFile
  <2> QED BY <2>1, <2>2 DEF WalkInv, OnDisk, Current
<1> QED
  BY <1>2, <1>3, <1>4, <1>5, <1>6, <1>7, <1>8
  DEF SyncTask, Commit, NoCommit, MayCommit, Upserting, Accounts

LEMMA WalkKept == IInv /\ IdsInv /\ WalkInv /\ [Next]_vars => WalkInv'
<1> SUFFICES ASSUME IInv, IdsInv, WalkInv, [Next]_vars PROVE WalkInv'
  OBVIOUS
<1>1. CASE SyncTask
  BY <1>1, SyncWalks
<1>2. CASE UserStep
  BY <1>2, UserLeaves, UserWalks
<1>3. CASE VerifyStep \/ UNCHANGED vars \/ Relogin
  <2>1. UNCHANGED <<pc, job, todo, seen, disk, gone, unstatted>>
    BY <1>3, VerifyLeaves, ReloginLeaves
  <2> QED BY <2>1 DEF WalkInv, OnDisk, Current
<1>4. CASE Crash
  BY <1>4, CrashLeaves DEF WalkInv, Recorded
<1> QED BY <1>1, <1>2, <1>3, <1>4 DEF Next, Environment

LEMMA WalkHolds == Spec => []WalkInv
<1>1. Init => WalkInv
  BY DEF Init, SyncInit, WalkInv, Recorded
<1> QED BY <1>1, WalkKept, Inductive, IdsHold, PTL DEF Spec

\* Verify notes what has been off the disk since its cursor was opened; the file it
\* is about to call missing is one of these, though it may have come back.
AwayInv ==
    /\ vpc # "idle" => Files \ OnDisk \subseteq away
    /\ vpc = "missing" => visit[1] \in away

LEMMA AwayKept == IInv /\ AwayInv /\ [Next]_vars => AwayInv'
<1> SUFFICES ASSUME IInv, AwayInv, [Next]_vars PROVE AwayInv'
  OBVIOUS
<1>1. CASE SyncTask
  <2>1. UNCHANGED <<disk, vpc, visit, away>>
    BY <1>1
    DEF SyncTask, Commit, NoCommit, MayCommit, StartSync, EndSync, SkipUnchanged,
        MetadataOnly, AdoptVersion, AdoptRow, AdoptClear, BeginUpload, GitHubCopy, RecordFailure,
        SaveNewVersion, FinishRow, ClearOldCheck, RecordUploaded, StatFails, StatFile, HashFile,
        HashRaises, GitHubPhaseEnds, EnterTelegram, TelegramPhaseEnds, UploadRaises, TelegramCopy,
        TelegramCopyFails, GitHubCopyFails, CopyFails, userVars
  <2> QED BY <2>1 DEF AwayInv, OnDisk
<1>2. CASE VerifyStep
  <2>1. UNCHANGED disk
    BY <1>2, VerifyLeaves
  <2>2. CASE LookForFile
    <3>1. visit[1] \in Files
      BY <2>2 DEF LookForFile, IInv, QueueKnown, Target
    <3> QED BY <2>1, <2>2, <3>1 DEF LookForFile, AwayInv, OnDisk
  <2> QED BY <1>2, <2>1, <2>2 DEF VerifyStep, OpenCursor, EndVerify, NextRow, RecordMissing,
     RecordCheck, CheckRaises, DatabaseLocked, Stop, AwayInv, OnDisk
<1>3. CASE UserStep
  BY <1>3 DEF UserStep, AwayInv, OnDisk
<1>4. CASE Relogin \/ UNCHANGED vars
  BY <1>4, ReloginLeaves DEF AwayInv, OnDisk
<1>5. CASE Crash
  BY <1>5, CrashLeaves DEF AwayInv
<1> QED BY <1>1, <1>2, <1>3, <1>4, <1>5 DEF Next, Environment

LEMMA AwayHolds == Spec => []AwayInv
<1>1. Init => AwayInv
  BY DEF Init, VerifyInit, AwayInv
<1> QED BY <1>1, AwayKept, Inductive, PTL DEF Spec

\* A file is flagged absent only if it has been off the disk since the run that
\* flags it began, or that run could not inspect it: a walk that broke off, a file
\* that could not be read or a failed upload never flags one.
THEOREM AbsentMeansGone == Spec => MarkedAbsentWasGone
<1> DEFINE Gone == \A f \in Files :
                     rows[f] # Null /\ rows[f].present /\ ~rows'[f].present
                     => IF pc' = pc THEN f \in away ELSE f \in gone \union unstatted
<1>1. IInv /\ IdsInv /\ WalkInv /\ AwayInv /\ [Next]_vars => [Gone]_rows
  <2> SUFFICES ASSUME IInv, IdsInv, WalkInv, AwayInv, [Next]_vars,
                      NEW f \in Files, rows[f].present, ~rows'[f].present
               PROVE  IF pc' = pc THEN f \in away ELSE f \in gone \union unstatted
    OBVIOUS
  <2>1. rows \in [Files -> Row \union {Null}]
    BY DEF IInv, TypeOK, SyncTypeOK, RegistryTypeOK
  <2>2. CASE Upserting
    <3>1. rows'[job.file].present = TRUE /\ (f # job.file => rows'[f] = rows[f])
      BY <2>2, UpsertSays DEF Writes
    <3> QED BY <3>1
  <2>3. CASE SkipUnchanged
    <3>1. job.file \in Files /\ rows[job.file] \in Row
      BY <2>1, <2>3 DEF SkipUnchanged, Unchanged, IInv, TaskInv, JobSet, RowKnown
    <3>2. rows'[job.file].present = TRUE /\ (f # job.file => rows'[f] = rows[f])
      BY <2>1, <2>3, <3>1 DEF SkipUnchanged, TouchFile, Row
    <3> QED BY <3>2
  <2>4. CASE EndSync
    <3>1. f \notin seen
      BY <2>1, <2>4 DEF EndSync, MarkAbsentExceptRun
    <3> QED BY <2>4, <3>1 DEF EndSync, WalkInv, Current
  <2>5. CASE RecordMissing
    <3>1. visit[1] \in away /\ pc' = pc /\ (f # visit[1] => rows'[f] = rows[f])
      BY <2>1, <2>5 DEF RecordMissing, MarkMissing, AwayInv, taskVars
    <3> QED BY <3>1
  <2> QED BY <2>2, <2>3, <2>4, <2>5, RowSteps
<1> QED BY <1>1, Inductive, IdsHold, WalkHolds, AwayHolds, PTL DEF Spec, MarkedAbsentWasGone

-----------------------------------------------------------------------------
(* What a stamp says about the content *)

\* Stamps come from the edits; a row with the stamp of the file has its content,
\* and so has the job once the file was read.
StampInv ==
    /\ \A f \in Files : rows[f] # Null => rows[f].stamp <= edits
    /\ \A f \in OnDisk :
         /\ disk[f].stamp <= edits
         /\ rows[f] # Null /\ rows[f].stamp = disk[f].stamp => rows[f].hash = disk[f].content
    /\ pc \notin {"idle", "walk"} => job.stamp <= edits
    /\ pc \notin {"idle", "walk", "compare"} /\ job.file \in OnDisk
         /\ disk[job.file].stamp = job.stamp
         => disk[job.file].content = job.hash
    /\ pc = "compare" /\ job.row # Null =>
         /\ rows[job.file].stamp = job.row.stamp
         /\ rows[job.file].status = job.row.status

\* Stamps are numbers.
LEMMA StampTypes ==
    ASSUME IInv
    PROVE  /\ edits \in Nat /\ job.stamp \in Nat
           /\ \A f \in OnDisk : disk[f].stamp \in Nat /\ disk[f].content \in Contents
           /\ \A f \in Files : rows[f] # Null => rows[f].stamp \in Nat /\ rows[f] \in Row
           /\ pc \notin {"idle", "walk"} => job.file \in Files
BY DEF IInv, TypeOK, SyncTypeOK, RegistryTypeOK, OnDisk, Stored, Row, Job, TaskInv, JobSet

\* A skipped file had the row that touch_file writes, but for its mark.
LEMMA SkipMarks ==
    ASSUME IInv, StampInv, SkipUnchanged
    PROVE  /\ \A f \in Files : Unmarked(f)
           /\ job.file \in Files /\ rows[job.file] # Null
           /\ rows[job.file].stamp = job.stamp /\ rows[job.file].status = "complete"
<1>1. /\ job.file \in Files /\ rows[job.file] # Null /\ rows[job.file] \in Row
      /\ job.row # Null /\ job.row.stamp = job.stamp /\ job.row.status = "complete"
      /\ rows \in [Files -> Row \union {Null}]
  BY DEF SkipUnchanged, Unchanged, IInv, TaskInv, JobSet, RowKnown, TypeOK, SyncTypeOK,
     RegistryTypeOK
<1>2. rows[job.file].stamp = job.stamp /\ rows[job.file].status = "complete"
  BY <1>1 DEF SkipUnchanged, StampInv
<1>3. \A f \in Files : Unmarked(f)
  BY <1>1, <1>2, NullAssumption DEF SkipUnchanged, TouchFile, Unmarked, Row
<1> QED BY <1>1, <1>2, <1>3

\* A step that changes neither the disk nor what rows say about hash, stamp and
\* status keeps this if the job goes on or the loop is between two files.
LEMMA StampRests ==
    ASSUME StampInv, UNCHANGED <<disk, edits>>, \A f \in Files : Unmarked(f),
           pc' \notin {"idle", "walk"} =>
               /\ pc \notin {"idle", "walk"}
               /\ job'.file = job.file /\ job'.stamp = job.stamp /\ job'.hash = job.hash
               /\ pc' = "compare" <=> pc = "compare"
               /\ pc' = "compare" => job' = job /\ (job.row # Null => rows[job.file] # Null)
               /\ job.file \in Files
    PROVE  StampInv'
BY DEF StampInv, OnDisk, Unmarked

\* An edit comes with a stamp that nobody has yet.
LEMMA UserStamps ==
    ASSUME IInv, StampInv, User
    PROVE  StampInv'
<1>1. PICK f \in Files : Edits(f)
  BY UserEdits
<1> QED BY <1>1, StampTypes DEF Edits, StampInv, OnDisk

\* Steps of the sync task.
LEMMA SyncStamps ==
    ASSUME IInv, IdsInv, StampInv, SyncTask
    PROVE  StampInv'
<1>1. IInv /\ [Next]_vars /\ UNCHANGED <<disk, edits>>
  BY DEF Next, SyncTask, Commit, NoCommit, MayCommit, StartSync, EndSync, SkipUnchanged,
     MetadataOnly, AdoptVersion, AdoptRow, AdoptClear, BeginUpload, GitHubCopy, RecordFailure,
     SaveNewVersion, FinishRow, ClearOldCheck, RecordUploaded, StatFails, StatFile, HashFile,
     HashRaises, GitHubPhaseEnds, EnterTelegram, TelegramPhaseEnds, UploadRaises, TelegramCopy,
     TelegramCopyFails, GitHubCopyFails, CopyFails, userVars
<1>2. CASE \E f \in Files : StatFile(f)
  <2>1. PICK f \in Files : StatFile(f)
    BY <1>2
  <2>2. job' = [NoJob EXCEPT !.file = f, !.stamp = disk[f].stamp, !.row = rows[f]]
    BY <2>1 DEF StatFile
  <2>3. job'.file = f /\ job'.stamp = disk[f].stamp /\ job'.row = rows[f]
    BY <2>2, NoJobType DEF NoJob
  <2> QED BY <2>1, <2>3, StampTypes DEF StatFile, StampInv, OnDisk, userVars, registryVars
<1>3. CASE HashFile
  <2>1. /\ job'.file = job.file /\ job'.stamp = job.stamp
        /\ job'.hash = disk[job.file].content
    BY <1>3 DEF HashFile, IInv, TypeOK, SyncTypeOK, Job
  <2> QED BY <1>3, <2>1 DEF HashFile, StampInv, OnDisk, userVars, registryVars
<1>4. CASE SkipUnchanged
  <2>1. pc' = "walk"
    BY <1>4 DEF SkipUnchanged, Visited
  <2> QED BY <1>1, <1>4, <2>1, SkipMarks, StampRests
<1>5. CASE Upserting
  <2>1. /\ \A g \in Files : g # job.file => rows'[g] = rows[g]
        /\ rows'[job.file] # Null
        /\ rows'[job.file].hash = job.hash /\ rows'[job.file].stamp = job.stamp
    BY <1>5, UpsertSays DEF Writes
  <2>2. /\ pc \notin {"idle", "walk", "compare"} /\ pc' \notin {"idle", "compare"}
    BY <1>5
    DEF Upserting, MetadataOnly, AdoptRow, BeginUpload, RecordFailure, FinishRow, Visited
  <2>3. pc' # "walk" => /\ job'.file = job.file /\ job'.stamp = job.stamp /\ job'.hash = job.hash
    BY <1>1, <1>5, <2>2, JobGoesOn DEF StatFile, HashFile
  <2> QED BY <1>1, <2>1, <2>2, <2>3, StampTypes DEF StampInv, OnDisk
<1>6. CASE EndSync
  BY <1>1, <1>6, MarksOnly, StampRests DEF EndSync
<1>7. CASE UNCHANGED rows /\ ~HashFile /\ ~\E f \in Files : StatFile(f)
  <2>1. \A f \in Files : Unmarked(f)
    BY <1>7 DEF Unmarked
  <2>2. pc' \notin {"idle", "walk"} =>
          /\ pc \notin {"idle", "walk"}
          /\ job'.file = job.file /\ job'.stamp = job.stamp /\ job'.hash = job.hash
          /\ pc' = "compare" <=> pc = "compare"
          /\ job.file \in Files
    BY <1>1, <1>7, JobGoesOn, StampTypes
  <2>3. pc' # "compare"
    BY <1>7
    DEF SyncTask, Commit, NoCommit, MayCommit, StartSync, EndSync, SkipUnchanged, MetadataOnly,
        AdoptVersion, AdoptRow, AdoptClear, BeginUpload, GitHubCopy, RecordFailure,
        SaveNewVersion, FinishRow, ClearOldCheck, RecordUploaded, StatFails, HashRaises,
        GitHubPhaseEnds, EnterTelegram, TelegramPhaseEnds, UploadRaises, TelegramCopy,
        TelegramCopyFails, GitHubCopyFails, CopyFails, Visited, AfterCopies
  <2> QED BY <1>1, <2>1, <2>2, <2>3, StampRests
<1> QED
  BY <1>1, <1>2, <1>3, <1>4, <1>5, <1>6, <1>7, SyncRows

\* Verify marks rows; a crash keeps the tables and the disk.
LEMMA StampKept == IInv /\ IdsInv /\ StampInv /\ [Next]_vars => StampInv'
<1> SUFFICES ASSUME IInv, IdsInv, StampInv, [Next]_vars PROVE StampInv'
  OBVIOUS
<1>1. CASE SyncTask
  BY <1>1, SyncStamps
<1>2. CASE UserStep
  BY <1>2, UserLeaves, UserStamps
<1>3. CASE VerifyStep \/ UNCHANGED vars \/ Relogin
  <2>1. UNCHANGED <<disk, edits, pc, job>> /\ \A f \in Files : Unmarked(f)
    BY <1>3, OtherMarks, VerifyLeaves, ReloginLeaves DEF Environment
  <2>2. pc = "compare" /\ job.row # Null => rows[job.file] # Null
    BY DEF IInv, TaskInv, RowKnown
  <2> QED BY <2>1, <2>2, StampTypes, StampRests
<1>4. CASE Crash
  <2>1. UNCHANGED <<disk, edits, rows>> /\ pc' = "idle"
    BY <1>4, CrashLeaves
  <2> QED BY <2>1, StampRests DEF Unmarked
<1> QED BY <1>1, <1>2, <1>3, <1>4 DEF Next, Environment

-----------------------------------------------------------------------------
(* What a run has done so far *)

\* A file that was left alone still has the stamp it was visited with; without
\* a failure, every such file the walk is through with, but for those it could not
\* inspect, is recorded complete with the content it has.
DoneInv ==
    /\ pc \notin {"idle", "walk"} /\ job.file \notin edited =>
         job.file \in OnDisk /\ disk[job.file].stamp = job.stamp
    /\ pc # "idle" /\ ~failures =>
         \A f \in OnDisk \ (edited \union unstatted) : f \notin todo \union Current =>
             IsComplete(f) /\ rows[f].hash = disk[f].content
    /\ pc \in {"adopted", "record"} \/ (pc = "clear" /\ Complete) =>
         IsComplete(job.file) /\ rows[job.file].hash = job.hash

\* The visited file is through with: it was left alone and has the job's hash.
LEMMA Settled ==
    ASSUME IInv, StampInv, DoneInv, pc \notin {"idle", "walk", "compare"},
           job.file \in OnDisk \ edited
    PROVE  disk[job.file].content = job.hash
BY DEF StampInv, DoneInv

\* An edited file is none of the run's business any more.
LEMMA UserDone ==
    ASSUME IInv, DoneInv, User
    PROVE  DoneInv'
<1>1. PICK f \in Files : Edits(f)
  BY UserEdits
<1>2. Complete' = Complete /\ Current' = Current
  BY <1>1 DEF Edits, Complete, Current
<1> QED BY <1>1, <1>2, StampTypes DEF Edits, DoneInv, OnDisk, IsComplete

\* A step that keeps the rows, but for their marks, and the place in the walk.
LEMMA DoneRests ==
    ASSUME DoneInv, UNCHANGED <<disk, edited, unstatted, todo, failures>>, \A f \in Files : Unmarked(f),
           pc \notin {"idle", "walk"}, pc' \notin {"idle", "walk"}, job.file \in Files,
           job'.file = job.file, job'.stamp = job.stamp, job'.hash = job.hash,
           pc' \in {"adopted", "record"} \/ (pc' = "clear" /\ Complete') =>
               IsComplete(job.file) /\ rows[job.file].hash = job.hash
    PROVE  DoneInv'
BY DEF DoneInv, OnDisk, Unmarked, IsComplete, Current

\* Steps of the sync task.
LEMMA SyncDone ==
    ASSUME IInv, IdsInv, StampInv, DoneInv, SyncTask
    PROVE  DoneInv'
<1>1. IInv /\ [Next]_vars
  BY DEF Next
<1>2. CASE StartSync
  BY <1>2 DEF StartSync, DoneInv, OnDisk, Current
<1>3. CASE \E f \in Files : StatFails(f)
  BY <1>3 DEF StatFails, DoneInv, OnDisk, Current, IsComplete, userVars, registryVars
<1>4. CASE \E f \in Files : StatFile(f)
  <2>1. PICK f \in Files : StatFile(f)
    BY <1>4
  <2>2. job' = [NoJob EXCEPT !.file = f, !.stamp = disk[f].stamp, !.row = rows[f]]
    BY <2>1 DEF StatFile
  <2>3. job'.file = f /\ job'.stamp = disk[f].stamp
    BY <2>2, NoJobType DEF NoJob
  <2> QED BY <2>1, <2>3 DEF StatFile, DoneInv, OnDisk, Current, IsComplete, userVars, registryVars
<1>5. CASE EndSync \/ HashRaises
  BY <1>5 DEF EndSync, HashRaises, DoneInv
<1>6. CASE HashFile
  <2>1. job'.file = job.file /\ job'.stamp = job.stamp
    BY <1>6 DEF HashFile, IInv, TypeOK, SyncTypeOK, Job
  <2> QED BY <1>6, <2>1 DEF HashFile, DoneInv, OnDisk, Current, IsComplete, userVars, registryVars
<1>7. CASE SkipUnchanged
  <2>1. /\ \A f \in Files : Unmarked(f)
        /\ job.file \in Files /\ rows[job.file] # Null
        /\ rows[job.file].stamp = job.stamp /\ rows[job.file].status = "complete"
    BY <1>7, SkipMarks
  <2>2. /\ pc = "compare" /\ pc' = "walk"
        /\ UNCHANGED <<disk, edited, unstatted, todo, failures>>
    BY <1>7 DEF SkipUnchanged, Visited, userVars
  <2>3. job.file \in OnDisk \ edited => rows[job.file].hash = disk[job.file].content
    BY <2>1, <2>2 DEF StampInv, DoneInv
  <2> QED BY <2>1, <2>2, <2>3 DEF DoneInv, OnDisk, Current, Unmarked, IsComplete
<1>8. CASE MetadataOnly \/ RecordFailure
  <2>1. /\ \A g \in Files : g # job.file => rows'[g] = rows[g]
        /\ rows'[job.file] # Null /\ rows'[job.file].hash = job.hash
        /\ MetadataOnly => rows'[job.file].status = "complete"
    BY <1>8, MetadataOnlyWrites, RecordFailureWrites DEF Writes
  <2>2. /\ pc \notin {"idle", "walk", "compare"} /\ pc' = "walk"
        /\ UNCHANGED <<disk, edited, unstatted, todo>>
        /\ (failures' = failures /\ MetadataOnly) \/ failures'
    BY <1>8 DEF MetadataOnly, RecordFailure, Visited, userVars
  <2> QED BY <2>1, <2>2, Settled DEF DoneInv, OnDisk, Current, IsComplete
<1>9. CASE BeginUpload \/ AdoptRow \/ FinishRow
  <2>1. /\ \A g \in Files : g # job.file => rows'[g] = rows[g]
        /\ rows'[job.file] # Null /\ rows'[job.file].hash = job.hash
        /\ AdoptRow \/ (FinishRow /\ Complete) => rows'[job.file].status = "complete"
    BY <1>9, AdoptRowWrites, BeginUploadWrites, FinishRowWrites DEF Writes
  <2>2. /\ pc \notin {"idle", "walk", "compare"} /\ pc' \in {"github", "adopted", "clear"}
        /\ pc' = "adopted" => AdoptRow
        /\ pc' = "clear" => FinishRow /\ Complete' = Complete
        /\ UNCHANGED <<disk, edited, unstatted, todo, failures>>
    BY <1>9 DEF BeginUpload, AdoptRow, FinishRow, userVars, Complete
  <2>3. job'.file = job.file /\ job'.stamp = job.stamp /\ job'.hash = job.hash
    BY <1>1, <2>2, JobGoesOn DEF StatFile, HashFile
  <2> QED BY <2>1, <2>2, <2>3 DEF DoneInv, OnDisk, Current, IsComplete
<1>10. CASE AdoptClear \/ RecordUploaded \/ (ClearOldCheck /\ ~Complete)
  <2>1. /\ UNCHANGED <<disk, edited, unstatted, todo, rows>>
        /\ pc \in {"adopted", "record", "clear"} /\ pc' = "walk"
        /\ failures' \/ (failures' = failures /\ pc \in {"adopted", "record"})
    BY <1>10 DEF AdoptClear, RecordUploaded, ClearOldCheck, Visited, userVars
  <2> QED BY <2>1, Settled DEF DoneInv, OnDisk, Current, IsComplete
<1>11. CASE \/ ClearOldCheck /\ Complete
            \/ AdoptVersion \/ SaveNewVersion \/ GitHubPhaseEnds \/ EnterTelegram
            \/ TelegramPhaseEnds \/ UploadRaises
            \/ \E a \in Accounts : GitHubCopy(a) \/ TelegramCopy(a) \/ GitHubCopyFails(a)
                                   \/ TelegramCopyFails(a)
  <2>1. /\ UNCHANGED <<disk, edited, unstatted, todo, failures, rows>>
        /\ pc \notin {"idle", "walk", "compare"} /\ pc' \notin {"idle", "walk", "adopted", "clear"}
        /\ pc' = "record" => pc = "clear" /\ Complete
    BY <1>11
    DEF ClearOldCheck, AdoptVersion, SaveNewVersion, GitHubPhaseEnds, EnterTelegram,
        TelegramPhaseEnds, UploadRaises, GitHubCopy, TelegramCopy, GitHubCopyFails,
        TelegramCopyFails, CopyFails, AfterCopies, userVars, registryVars
  <2>2. job'.file = job.file /\ job'.stamp = job.stamp /\ job'.hash = job.hash
    BY <1>1, <2>1, JobGoesOn DEF StatFile, HashFile
  <2>3. \A f \in Files : Unmarked(f)
    BY <2>1 DEF Unmarked
  <2>4. pc' = "record" => IsComplete(job.file) /\ rows[job.file].hash = job.hash
    BY <2>1 DEF DoneInv
  <2> QED BY <2>1, <2>2, <2>3, <2>4, DoneRests, StampTypes
<1> QED
  BY <1>2, <1>3, <1>4, <1>5, <1>6, <1>7, <1>8, <1>9, <1>10, <1>11
  DEF SyncTask, Commit, NoCommit, MayCommit, Accounts

LEMMA DoneKept == IInv /\ IdsInv /\ StampInv /\ DoneInv /\ [Next]_vars => DoneInv'
<1> SUFFICES ASSUME IInv, IdsInv, StampInv, DoneInv, [Next]_vars PROVE DoneInv'
  OBVIOUS
<1>1. CASE SyncTask
  BY <1>1, SyncDone
<1>2. CASE UserStep
  BY <1>2, UserLeaves, UserDone
<1>3. CASE VerifyStep \/ UNCHANGED vars \/ Relogin
  <2>1. UNCHANGED <<disk, edited, unstatted, todo, failures, pc, job>> /\ \A f \in Files : Unmarked(f)
    BY <1>3, OtherMarks, VerifyLeaves, ReloginLeaves DEF Environment
  <2>2. Complete' = Complete /\ Current' = Current
    BY <2>1 DEF Complete, Current
  <2> QED BY <2>1, <2>2, StampTypes DEF DoneInv, OnDisk, Unmarked, IsComplete
<1>4. CASE Crash
  BY <1>4, CrashLeaves DEF DoneInv
<1> QED BY <1>1, <1>2, <1>3, <1>4 DEF Next, Environment

\* What a run knows about stamps and about what it has done holds throughout.
LEMMA RunHolds == Spec => [](StampInv /\ DoneInv)
<1>1. Init => StampInv /\ DoneInv
  BY StoredAssumption, NullAssumption
  DEF Init, SyncInit, RegistryInit, StampInv, DoneInv, OnDisk, Stored
<1> QED BY <1>1, StampKept, DoneKept, Inductive, IdsHold, PTL DEF Spec

\* When a run succeeds, every file that was on disk, left alone and could be
\* inspected is recorded complete with its content, whether or not other files were
\* edited under it.
LEMMA SuccessRecords ==
    ASSUME DoneInv, EndSync, ~failures, NEW f \in OnDisk \ (edited \union unstatted)
    PROVE  IsComplete(f) /\ rows[f].hash = disk[f].content
BY DEF DoneInv, EndSync, Current

\* Only the end of the walk reports a success.
LEMMA SuccessIsEndSync ==
    ASSUME [Next]_vars, pc = "walk", pc' = "idle", UNCHANGED crashes, crashes \in Nat,
           result' = "success"
    PROVE  EndSync /\ ~failures
<1>1. ~Crash
  BY DEF Crash
<1>2. SyncTask
  BY <1>1, VerifyLeaves, ReloginLeaves, UserLeaves DEF Next, Environment
<1>3. EndSync
  BY <1>2 DEF SyncTask, Commit, NoCommit, MayCommit, StartSync, SkipUnchanged,
     MetadataOnly, AdoptVersion, AdoptRow, AdoptClear, BeginUpload, GitHubCopy, RecordFailure,
     SaveNewVersion, FinishRow, ClearOldCheck, RecordUploaded, StatFails, StatFile, HashFile,
     HashRaises, GitHubPhaseEnds, EnterTelegram, TelegramPhaseEnds, UploadRaises, TelegramCopy,
     TelegramCopyFails, GitHubCopyFails
<1> QED BY <1>3 DEF EndSync

\* Whatever is edited while it is uploaded, a success means that the files that
\* were left alone are recorded complete with the content they have, unless their
\* stat() failed while they were there, which counts as no failure.
THEOREM SuccessMeansRecorded ==
    Spec => [][pc = "walk" /\ pc' = "idle" /\ UNCHANGED crashes /\ result' = "success" =>
                 \A f \in OnDisk \ (edited \union unstatted) :
                     IsComplete(f) /\ rows[f].hash = disk[f].content]_pc
<1> DEFINE AllRecorded ==
             pc = "walk" /\ pc' = "idle" /\ UNCHANGED crashes /\ result' = "success" =>
               \A f \in OnDisk \ (edited \union unstatted) :
                   IsComplete(f) /\ rows[f].hash = disk[f].content
<1>1. IInv /\ DoneInv /\ [Next]_vars => [AllRecorded]_pc
  BY SuccessIsEndSync, SuccessRecords DEF IInv, TypeOK
<1> QED BY <1>1, Inductive, RunHolds, PTL DEF Spec

-----------------------------------------------------------------------------
(* What the copies hold, when no file is edited while it is uploaded *)

Holds(copies, h) == \A i \in DOMAIN copies : copies[i].holds = h

\* From the first copy to the last statement that names the list of copies.
Carrying == {"github", "telegram", "save", "finish", "clear", "record", "fail"}

\* Every copy, saved, indexed or just made, holds the content its version claims;
\* while copies are made, the file has the content that was hashed.
ContentInv ==
    /\ \A f \in Files, v \in VersionIds :
         versions[f][v] # Null => Holds(versions[f][v].copies, versions[f][v].hash)
    /\ \A h \in Contents :
         uploaded[h] # Null => Holds(uploaded[h].version.copies, uploaded[h].version.hash)
    /\ pc \in Carrying => Holds(job.copies, job.hash)
    /\ pc = "telegram" => job.bytes = job.hash
    /\ pc \in {"match", "github", "telegram"} =>
         job.file \in OnDisk /\ disk[job.file].content = job.hash

\* One more copy of the right content.
LEMMA AppendHolds ==
    ASSUME NEW copies \in Seq(Copy), NEW c \in Copy, NEW h \in Contents, c.holds = h,
           Holds(copies, h)
    PROVE  Holds(Append(copies, c), h)
<1>1. /\ Len(copies) \in Nat /\ DOMAIN copies = 1..Len(copies)
      /\ DOMAIN Append(copies, c) = 1..(Len(copies) + 1)
      /\ \A i \in 1..Len(copies) : Append(copies, c)[i] = copies[i]
      /\ Append(copies, c)[Len(copies) + 1] = c
  OBVIOUS
<1> QED BY <1>1 DEF Holds

\* A resumed version is one of this content.
LEMMA BaseHolds ==
    ASSUME IInv, ContentInv, BeginUpload
    PROVE  Holds(IF Base = Null THEN <<>> ELSE Base.version.copies, job.hash)
<1>1. /\ job.file \in Files /\ job.hash \in Contents
      /\ ~OwnVersionComplete /\ ~StoredElsewhere
      /\ rows \in [Files -> Row \union {Null}]
      /\ versions \in [Files -> [VersionIds -> Version \union {Null}]]
      /\ TypeOK /\ RegistryInv
      /\ SameHash => rows[job.file] # Null /\ rows[job.file].hash = job.hash
  BY DEF BeginUpload, IInv, TypeOK, SyncTypeOK, RegistryTypeOK, TaskInv, JobSet, RowKnown, SameHash
<1>2. CASE OwnPartial = Null
  <2>1. Base = Null
    BY <1>1, <1>2, BaseIsOwn
  <2> QED BY <2>1 DEF Holds
<1>3. CASE OwnPartial # Null
  <2>1. SameHash /\ OwnPartial = versions[job.file][rows[job.file].version]
    BY <1>1, <1>3 DEF OwnPartial, ActiveVersion
  <2>2. rows[job.file].version \in VersionIds
    BY <1>1, <2>1 DEF Row
  <2>3. OwnPartial \in Version
    BY <1>1, <1>3, <2>1, <2>2
  <2>4. OwnPartial.hash = job.hash
    <3>1. OwnPartial.hash \in Contents
      BY <2>3 DEF Version
    <3>2. Names(rows[job.file].version, OwnPartial.hash)
      BY <1>1, <1>3, <2>1 DEF Names
    <3>3. Names(rows[job.file].version, job.hash)
      BY <1>1, <2>1 DEF Names
    <3> QED BY <1>1, <2>2, <3>1, <3>2, <3>3 DEF RegistryInv, OneContentPerId
  <2>5. Holds(OwnPartial.copies, job.hash)
    BY <1>1, <1>3, <2>1, <2>2, <2>4 DEF ContentInv
  <2>6. Base = [id |-> rows[job.file].version, version |-> OwnPartial] /\ Base \in Indexed
    BY <1>3, <2>2, <2>3 DEF Base, Indexed
  <2>7. Base # Null /\ Base.version = OwnPartial
    BY <2>6, NullAssumption
  <2> QED BY <2>5, <2>7
<1> QED BY <1>2, <1>3

\* Steps that save and index nothing, by what they do to the job.
LEMMA ContentRests ==
    ASSUME ContentInv, UNCHANGED <<versions, uploaded, disk>>,
           pc' \in Carrying =>
               pc \in Carrying /\ job'.copies = job.copies /\ job'.hash = job.hash,
           pc' = "telegram" => pc = "telegram" /\ job'.bytes = job.bytes,
           pc' \in {"match", "github", "telegram"} =>
               /\ pc \in {"match", "github", "telegram"}
               /\ job'.file = job.file /\ job'.hash = job.hash
    PROVE  ContentInv'
BY DEF ContentInv, Holds, OnDisk, Carrying

\* A copy is made from the file, or from the bytes read from it.
LEMMA CopyHolds ==
    ASSUME IInv, ContentInv, NEW a \in Accounts, GitHubCopy(a) \/ TelegramCopy(a)
    PROVE  ContentInv'
<1> DEFINE c == [account |-> a, holds |-> job.hash]
<1>1. /\ pc \in {"github", "telegram"} /\ pc' = pc
      /\ UNCHANGED <<versions, uploaded, disk>>
      /\ AddCopy(a, job.hash)
      /\ job \in Job /\ job.hash \in Contents
  BY DEF GitHubCopy, TelegramCopy, ContentInv, IInv, TypeOK, SyncTypeOK, TaskInv, JobSet,
     registryVars, userVars
<1>2. c \in Copy /\ c.holds = job.hash /\ job.copies \in Seq(Copy)
  BY <1>1 DEF Copy, Job
<1>3. /\ job'.copies = Append(job.copies, c)
      /\ job'.file = job.file /\ job'.hash = job.hash /\ job'.bytes = job.bytes
  BY <1>1 DEF AddCopy, Job
<1> HIDE DEF c
<1>4. Holds(job'.copies, job'.hash)
  BY <1>1, <1>2, <1>3, AppendHolds DEF ContentInv, Carrying
<1> QED BY <1>1, <1>3, <1>4 DEF ContentInv, OnDisk, Carrying

LEMMA SyncContents ==
    ASSUME IInv, IdsInv, ContentInv, SyncTask
    PROVE  ContentInv'
<1>1. IInv /\ [Next]_vars /\ job \in Job
  BY DEF Next, IInv, TypeOK, SyncTypeOK
<1>2. CASE \E a \in Accounts : GitHubCopy(a) \/ TelegramCopy(a)
  BY <1>2, CopyHolds
<1>3. CASE \E a \in Accounts : GitHubCopyFails(a) \/ TelegramCopyFails(a)
  <2>1. /\ UNCHANGED <<versions, uploaded, disk, pc>>
        /\ job'.copies = job.copies /\ job'.hash = job.hash /\ job'.bytes = job.bytes
        /\ job'.file = job.file
    BY <1>1, <1>3 DEF GitHubCopyFails, TelegramCopyFails, CopyFails, Job, registryVars, userVars
  <2> QED BY <2>1, ContentRests
<1>4. CASE AdoptVersion
  <2> DEFINE f == job.file  u == uploaded[job.hash]
  <2>1. /\ f \in Files /\ job.hash \in Contents /\ u # Null
        /\ u.id \in VersionIds /\ u.version \in Version
        /\ SaveVersion(f, u.id, u.version)
    BY <1>4, AdoptKnown
  <2>2. versions \in [Files -> [VersionIds -> Version \union {Null}]] /\ UNCHANGED rows
    BY <1>4 DEF AdoptVersion, IInv, TypeOK, SyncTypeOK, RegistryTypeOK
  <2>3. /\ versions'[f][u.id] = u.version
        /\ \A g \in Files, w \in VersionIds :
             ~(g = f /\ w = u.id) => versions'[g][w] = versions[g][w]
    BY <2>1, <2>2, Saved
  <2>4. /\ UNCHANGED uploaded /\ pc' = "adopt"
    BY <1>4 DEF AdoptVersion
  <2> QED BY <2>1, <2>3, <2>4 DEF ContentInv, Carrying
<1>5. CASE SaveNewVersion
  <2> DEFINE f == job.file
  <2>1. /\ f \in Files /\ job.id \in VersionIds /\ NewVersion \in Version
        /\ NewVersion.hash = job.hash /\ NewVersion.copies = job.copies
        /\ SaveVersion(f, job.id, NewVersion)
    BY <1>5, SaveKnown
  <2>2. versions \in [Files -> [VersionIds -> Version \union {Null}]] /\ UNCHANGED rows
    BY <1>5 DEF SaveNewVersion, IInv, TypeOK, SyncTypeOK, RegistryTypeOK
  <2>3. /\ versions'[f][job.id] = NewVersion
        /\ \A g \in Files, w \in VersionIds :
             ~(g = f /\ w = job.id) => versions'[g][w] = versions[g][w]
    BY <2>1, <2>2, Saved
  <2>4. UNCHANGED <<uploaded, job>> /\ pc = "save" /\ pc' = "finish"
    BY <1>5 DEF SaveNewVersion
  <2> QED BY <2>1, <2>3, <2>4 DEF ContentInv, Carrying
<1>6. CASE RecordUploaded
  <2> DEFINE u == [id |-> job.id, version |-> NewVersion]
  <2>1. /\ UNCHANGED versions /\ pc = "record" /\ pc' = "walk"
        /\ uploaded' = [uploaded EXCEPT ![job.hash] = u]
        /\ job.hash \in Contents /\ uploaded \in [Contents -> Indexed \union {Null}]
    BY <1>6 DEF RecordUploaded, RecordUploadedVersion, Visited, IInv, TypeOK, SyncTypeOK,
       RegistryTypeOK, TaskInv, JobSet
  <2>2. /\ u.version = NewVersion
        /\ NewVersion.hash = job.hash /\ NewVersion.copies = job.copies
    BY DEF NewVersion
  <2> HIDE DEF u
  <2>3. /\ uploaded'[job.hash] = u
        /\ \A h \in Contents : h # job.hash => uploaded'[h] = uploaded[h]
    BY <2>1
  <2> QED BY <2>1, <2>2, <2>3 DEF ContentInv, Carrying
<1>7. CASE BeginUpload
  <2>1. /\ job'.hash = job.hash /\ job'.file = job.file
        /\ job'.copies = IF Base = Null THEN <<>> ELSE Base.version.copies
    BY <1>7, BeginUploadWrites
  <2>2. Holds(job'.copies, job'.hash)
    BY <1>7, <2>1, BaseHolds
  <2>3. UNCHANGED <<versions, uploaded, disk>> /\ pc = "match" /\ pc' = "github"
    BY <1>7 DEF BeginUpload, userVars
  <2> QED BY <2>1, <2>2, <2>3 DEF ContentInv, OnDisk
<1>8. CASE HashFile
  <2>1. /\ job'.file = job.file /\ job'.hash = disk[job.file].content
        /\ job.file \in OnDisk /\ pc' = "match" /\ UNCHANGED <<versions, uploaded, disk>>
    BY <1>1, <1>8 DEF HashFile, Readable, Job, registryVars, userVars
  <2> QED BY <2>1 DEF ContentInv, OnDisk, Carrying
<1>9. CASE EnterTelegram
  <2>1. /\ job'.file = job.file /\ job'.hash = job.hash /\ job'.copies = job.copies
        /\ job'.bytes = disk[job.file].content
        /\ pc = "github" /\ pc' = "telegram" /\ UNCHANGED <<versions, uploaded, disk>>
    BY <1>1, <1>9 DEF EnterTelegram, Job, registryVars, userVars
  <2> QED BY <2>1 DEF ContentInv, OnDisk, Carrying
<1>10. CASE \/ StartSync \/ EndSync \/ SkipUnchanged \/ MetadataOnly \/ AdoptRow \/ AdoptClear
            \/ RecordFailure \/ FinishRow \/ ClearOldCheck \/ HashRaises \/ GitHubPhaseEnds
            \/ TelegramPhaseEnds \/ UploadRaises \/ \E f \in Files : StatFails(f) \/ StatFile(f)
  <2>1. UNCHANGED <<versions, uploaded, disk>>
    BY <1>10 DEF StartSync, EndSync, SkipUnchanged, MetadataOnly, AdoptRow, AdoptClear,
       RecordFailure, FinishRow, ClearOldCheck, HashRaises, GitHubPhaseEnds, TelegramPhaseEnds,
       UploadRaises, StatFails, StatFile, registryVars, userVars
  <2>2. /\ pc' \in Carrying => pc \in Carrying /\ job' = job
        /\ pc' \notin {"match", "github", "telegram"}
    BY <1>10 DEF StartSync, EndSync, SkipUnchanged, MetadataOnly, AdoptRow, AdoptClear,
       RecordFailure, FinishRow, ClearOldCheck, HashRaises, GitHubPhaseEnds, TelegramPhaseEnds,
       UploadRaises, StatFails, StatFile, AfterCopies, Visited, Carrying
  <2> QED BY <2>1, <2>2, ContentRests
<1> QED
  BY <1>2, <1>3, <1>4, <1>5, <1>6, <1>7, <1>8, <1>9, <1>10
  DEF SyncTask, Commit, NoCommit, MayCommit, Accounts

LEMMA ContentKept == Quiet /\ IInv /\ IdsInv /\ ContentInv /\ [Next]_vars => ContentInv'
<1> SUFFICES ASSUME Quiet, IInv, IdsInv, ContentInv, [Next]_vars PROVE ContentInv'
  OBVIOUS
<1>1. CASE SyncTask
  BY <1>1, SyncContents
<1>2. CASE UserStep
  <2>1. PICK f \in Files : Edits(f)
    BY <1>2, UserLeaves, UserEdits
  <2>2. pc \in {"match", "github", "telegram"} => job.file # f
    BY <2>1 DEF Edits, Copying
  <2>3. UNCHANGED <<versions, uploaded, pc, job>>
    BY <2>1 DEF Edits
  <2>4. pc \in {"match", "github", "telegram"} => disk'[job.file] = disk[job.file]
    BY <2>1, <2>2, StampTypes DEF Edits
  <2> QED BY <2>3, <2>4 DEF ContentInv, OnDisk, Holds
<1>3. CASE VerifyStep \/ UNCHANGED vars \/ Relogin
  <2>1. UNCHANGED <<versions, uploaded, disk, pc, job>>
    BY <1>3, VerifyLeaves, ReloginLeaves
  <2> QED BY <2>1, ContentRests
<1>4. CASE Crash
  <2>1. UNCHANGED <<versions, uploaded, disk>> /\ pc' = "idle"
    BY <1>4, CrashLeaves
  <2> QED BY <2>1, ContentRests DEF Carrying
<1> QED BY <1>1, <1>2, <1>3, <1>4 DEF Next, Environment

\* What is saved for a complete row.
LEMMA RowsHold ==
    ASSUME IInv, ContentInv, NEW f \in Files, IsComplete(f)
    PROVE  \A i \in DOMAIN ActiveVersion(f).copies :
              ActiveVersion(f).copies[i].holds = rows[f].hash
<1>1. /\ rows[f] # Null /\ rows[f].version \in VersionIds
      /\ ActiveVersion(f) # Null /\ ActiveVersion(f).hash = rows[f].hash
  BY DEF IInv, TypeOK, SyncTypeOK, RegistryTypeOK, RegistryInv, CompleteIsReplicated, IsComplete,
     Row
<1>2. ActiveVersion(f) = versions[f][rows[f].version]
  BY <1>1 DEF ActiveVersion
<1> QED BY <1>1, <1>2 DEF ContentInv, Holds

LEMMA ContentHolds == Quiet => (Spec => []ContentInv)
<1> SUFFICES ASSUME Quiet PROVE Spec => []ContentInv
  OBVIOUS
<1>1. Init => ContentInv
  BY DEF Init, SyncInit, RegistryInit, ContentInv, Carrying
<1>2. IInv /\ IdsInv /\ ContentInv /\ [Next]_vars => ContentInv'
  BY ContentKept
<1> QED BY <1>1, <1>2, Inductive, IdsHold, PTL DEF Spec

\* If no file is edited between its hash and its last copy, the copies of a
\* complete row hold the content the row claims, resumed, adopted or saved again
\* as they may be.
THEOREM CopiesHoldWhatRowsClaim == Quiet => (Spec => []CopiesHoldTheirContent)
<1> SUFFICES ASSUME Quiet PROVE Spec => []CopiesHoldTheirContent
  OBVIOUS
<1>1. Spec => []ContentInv
  BY ContentHolds
<1>2. IInv /\ ContentInv => CopiesHoldTheirContent
  BY RowsHold DEF CopiesHoldTheirContent
<1> QED BY <1>1, <1>2, Inductive, PTL

\* When a sync reports success, every file that was on disk, left alone and could be
\* inspected during the run is recorded complete with the content it has and, if no
\* file is edited under its upload, each copy of its version holds that content.
THEOREM SuccessIsBackup == Quiet => (Spec => SuccessMeansBackedUp)
<1> SUFFICES ASSUME Quiet PROVE Spec => SuccessMeansBackedUp
  OBVIOUS
<1> DEFINE BackedUp ==
             pc = "walk" /\ pc' = "idle" /\ UNCHANGED crashes /\ result' = "success" =>
               \A f \in OnDisk \ (edited \union unstatted) :
                 /\ IsComplete(f)
                 /\ rows[f].hash = disk[f].content
                 /\ \A i \in DOMAIN ActiveVersion(f).copies :
                        ActiveVersion(f).copies[i].holds = disk[f].content
<1>1. Spec => []ContentInv
  BY ContentHolds
<1>2. IInv /\ ContentInv /\ DoneInv /\ [Next]_vars => [BackedUp]_pc
  <2> SUFFICES ASSUME IInv, ContentInv, DoneInv, [Next]_vars,
                      pc = "walk", pc' = "idle", UNCHANGED crashes, result' = "success",
                      NEW f \in OnDisk \ (edited \union unstatted)
               PROVE  /\ IsComplete(f)
                      /\ rows[f].hash = disk[f].content
                      /\ \A i \in DOMAIN ActiveVersion(f).copies :
                             ActiveVersion(f).copies[i].holds = disk[f].content
    OBVIOUS
  <2>1. EndSync /\ ~failures
    BY SuccessIsEndSync DEF IInv, TypeOK
  <2>2. IsComplete(f) /\ rows[f].hash = disk[f].content
    BY <2>1, SuccessRecords
  <2> QED BY <2>2, RowsHold DEF OnDisk
<1> QED BY <1>1, <1>2, Inductive, RunHolds, PTL DEF Spec, SuccessMeansBackedUp

-----------------------------------------------------------------------------
(* Which version a check is about *)

\* The row of f is being written: its version is finished and not yet complete,
\* or its old check not yet cleared.
Finishing(f) == f = job.file /\ pc \in {"adopt", "finish"}
Clearing(f)  == f = job.file /\ pc \in {"adopted", "clear"}

\* As long as its cursor has rows to come and nobody committed since its snapshot,
\* verify is about the versions the rows have; once the last row is out there is no
\* snapshot to be stale.
SnapshotInv ==
    /\ vpc = "idle" => queue = {}
    /\ stale => queue # {}
    /\ ~stale => \A t \in queue : t[2] # Null => rows[t[1]].version = t[2]
    /\ ~stale /\ queue # {} /\ vpc \in {"look", "missing", "check"} =>
         rows[visit[1]].version = visit[2]

\* A row on a finished version is complete: so an upsert that completes a row is
\* followed by a clearing of its check, or leaves the version alone.  A complete
\* row shows a check of its own version, unless verify wrote it late.
OwnCheck(f) ==
    rows[f] # Null =>
        /\ Finished(f, rows[f].version) /\ ~Finishing(f) => rows[f].status = "complete"
        /\ rows[f].status = "complete" /\ checks[f] # Null /\ ~Clearing(f) /\ f \notin late =>
             checks[f].version = rows[f].version

OwnCheckInv == crashes = 0 => \A f \in Files : OwnCheck(f)

\* The version of an upload that ran out of accounts is not finished.
LEMMA IncompleteIsUnfinished ==
    ASSUME IInv, pc = "finish", ~Complete
    PROVE  ~Finished(job.file, job.id)
<1>1. /\ versions[job.file][job.id] = NewVersion /\ job \in Job
      /\ DistinctHolders(job.copies)
  BY DEF IInv, TypeOK, SyncTypeOK, TaskInv, VersionKnown, JobDistinct, Unfinished
<1>2. job.copies \in Seq(Copy) /\ Len(job.copies) \in Nat /\ CopyCount \in Nat
  BY <1>1, CopyCountAssumption DEF Job
<1>3. DistinctAccountCopies(job.copies) = Len(job.copies)
  BY <1>1, <1>2, DistinctCount
<1>4. NewVersion.copies = job.copies
  BY DEF NewVersion
<1> QED BY <1>1, <1>2, <1>3, <1>4 DEF Finished, Replicated, Complete

\* Whatever the sync commits, verify does not write from an old snapshot.
LEMMA SnapshotKept == IInv /\ SnapshotInv /\ [Next]_vars => SnapshotInv'
<1> SUFFICES ASSUME IInv, SnapshotInv, [Next]_vars PROVE SnapshotInv'
  OBVIOUS
<1>1. /\ \A t \in queue : rows[t[1]] # Null
      /\ queue \subseteq Rows
      /\ vpc \in {"look", "missing", "check"} => visit \in Target /\ rows[visit[1]] # Null
      /\ \A t \in Target \union Rows : t[1] \in Files
  BY DEF IInv, TypeOK, QueueKnown, Target, Rows
<1>2. CASE SyncTask
  <2>0. UNCHANGED <<vpc, queue, visit>>
    BY <1>2 DEF SyncTask
  <2>1. CASE stale' = (queue # {})
    <3>1. stale' <=> queue # {}
      BY <2>1
    <3> QED BY <2>0, <3>1 DEF SnapshotInv
  <2>2. CASE UNCHANGED <<rows, stale>>
    BY <2>0, <2>2 DEF SnapshotInv
  <2>3. NoCommit \/ MayCommit => UNCHANGED rows
    BY DEF NoCommit, MayCommit, StatFails, StatFile, HashFile, HashRaises,
       GitHubPhaseEnds, EnterTelegram, TelegramPhaseEnds, UploadRaises, TelegramCopy,
       TelegramCopyFails, GitHubCopyFails, CopyFails, registryVars
  <2> QED
    BY <1>2, <2>1, <2>2, <2>3 DEF SyncTask
<1>3. ASSUME NEW thread \in Verifiers, OpenCursor(thread) PROVE SnapshotInv'
  <2>1. \A t \in queue' : t[2] # Null => rows[t[1]].version = t[2]
    BY <1>3 DEF OpenCursor, SavedVersion
  <2>2. vpc' = "visit" /\ UNCHANGED <<rows, stale>> /\ queue = {}
    BY <1>3 DEF OpenCursor, syncVars, registryVars, SnapshotInv
  <2> QED BY <2>1, <2>2 DEF SnapshotInv
<1>4. CASE RecordMissing
  <2>1. \A f \in Files : Unmarked(f)
    BY <1>4, MarksOnly
  <2> QED BY <1>1, <1>4, <2>1 DEF RecordMissing, SnapshotInv, Unmarked
<1>5. ASSUME NEW row \in Rows, NextRow(row) PROVE SnapshotInv'
  <2>1. /\ queue' = queue \ {row} /\ row \in queue
        /\ stale' = (stale /\ queue' # {}) /\ UNCHANGED rows
    BY <1>5 DEF NextRow, syncVars, registryVars
  <2>2. queue' # {} /\ vpc' = "look" => row[2] # Null /\ visit' = <<row[1], row[2]>>
    BY <1>5, <2>1 DEF NextRow, ReadVersion
  <2>3. vpc' \in {"visit", "look"}
    BY <1>5 DEF NextRow
  <2>4. ~stale' => \A t \in queue' : t[2] # Null => rows'[t[1]].version = t[2]
    BY <2>1 DEF SnapshotInv
  <2>5. ~stale' /\ queue' # {} /\ vpc' = "look" => rows'[visit'[1]].version = visit'[2]
    <3> SUFFICES ASSUME ~stale', queue' # {}, vpc' = "look"
                 PROVE  rows'[visit'[1]].version = visit'[2]
      OBVIOUS
    <3>1. visit' = <<row[1], row[2]>> /\ row[2] # Null
      BY <2>2
    <3>2. visit'[1] = row[1] /\ visit'[2] = row[2]
      BY <3>1
    <3> QED BY <2>1, <3>1, <3>2 DEF SnapshotInv
  <2> QED BY <2>1, <2>3, <2>4, <2>5 DEF SnapshotInv
<1>6. CASE RecordCheck \/ LookForFile
  BY <1>6 DEF RecordCheck, LookForFile, SnapshotInv, syncVars, registryVars
<1>7. CASE EndVerify \/ CheckRaises \/ DatabaseLocked \/ Crash
  BY <1>7 DEF EndVerify, CheckRaises, DatabaseLocked, Crash, Stop, SnapshotInv
<1>8. CASE Environment \/ UNCHANGED vars
  BY <1>8, UserLeaves, ReloginLeaves DEF Environment, SnapshotInv
<1> QED BY <1>2, <1>3, <1>4, <1>5, <1>6, <1>7, <1>8 DEF Next, VerifyStep

\* What only marks rows and moves the job on.
LEMMA OwnRests ==
    ASSUME OwnCheckInv, UNCHANGED <<versions, checks, late>>, \A f \in Files : Unmarked(f),
           crashes' = 0 => crashes = 0,
           crashes = 0 => \A f \in Files : (Finishing(f) => Finishing(f)')
                                           /\ (Clearing(f) => Clearing(f)')
    PROVE  OwnCheckInv'
<1> SUFFICES ASSUME crashes' = 0, NEW f \in Files, rows'[f] # Null
             PROVE  OwnCheck(f)'
  BY DEF OwnCheckInv, OwnCheck
<1>1. /\ OwnCheck(f) /\ rows[f] # Null
      /\ Finishing(f) => Finishing(f)'
      /\ Clearing(f) => Clearing(f)'
  BY DEF OwnCheckInv, Unmarked
<1>2. rows'[f].version = rows[f].version /\ rows'[f].status = rows[f].status
  BY <1>1 DEF Unmarked
<1>3. Finished(f, rows[f].version)' <=> Finished(f, rows[f].version)
  BY <1>2 DEF Finished
<1> QED BY <1>1, <1>2, <1>3 DEF OwnCheck

\* A step that writes the tables for the visited file only.
LEMMA OthersRest ==
    ASSUME OwnCheckInv, UNCHANGED <<crashes, late>>, NEW f \in Files, f = job.file,
           \A g \in Files : g # f => /\ rows'[g] = rows[g]
                                     /\ checks'[g] = checks[g]
                                     /\ versions'[g] = versions[g],
           crashes = 0 /\ OwnCheck(f) => OwnCheck(f)'
    PROVE  OwnCheckInv'
<1> SUFFICES ASSUME crashes = 0, NEW g \in Files, g # f
             PROVE  OwnCheck(g)'
  BY DEF OwnCheckInv
<1>1. OwnCheck(g)
  BY DEF OwnCheckInv
<1>2. ~Finishing(g) /\ ~Clearing(g)
  BY DEF Finishing, Clearing
<1>3. Finished(g, rows[g].version)' <=> Finished(g, rows[g].version)
  BY DEF Finished
<1> QED BY <1>1, <1>2, <1>3 DEF OwnCheck

\* Steps of the sync task.
LEMMA SyncChecks ==
    ASSUME IInv, IdsInv, StampInv, OwnCheckInv, SyncTask
    PROVE  OwnCheckInv'
<1>1. IInv /\ [Next]_vars /\ UNCHANGED <<crashes, late>>
  BY DEF Next, SyncTask
<1>2. CASE MetadataOnly
  <2>0. PICK f \in Files : f = job.file
    BY <1>2, StampTypes DEF MetadataOnly, BeginUpload, AdoptRow, FinishRow, RecordFailure,
       AdoptVersion, SaveNewVersion, AdoptClear, ClearOldCheck
  <2>1. /\ f \in Files /\ rows[f] # Null /\ Finished(f, rows[f].version)
        /\ \A g \in Files : g # f => rows'[g] = rows[g]
        /\ rows'[f].version = rows[f].version /\ rows'[f].status = "complete"
    BY <2>0, <1>2, MetadataOnlyWrites, UpsertLocals DEF Upserting, Writes
  <2>2. pc = "match" /\ pc' = "walk" /\ UNCHANGED <<versions, checks>>
    BY <2>0, <1>2 DEF MetadataOnly, Visited
  <2>3. OwnCheck(f) => OwnCheck(f)'
    BY <1>1, <2>0, <2>1, <2>2 DEF OwnCheck, Finishing, Clearing
  <2> QED BY <2>0, <1>1, <2>1, <2>2, <2>3, OthersRest
<1>3. CASE BeginUpload
  <2>0. PICK f \in Files : f = job.file
    BY <1>3, StampTypes DEF MetadataOnly, BeginUpload, AdoptRow, FinishRow, RecordFailure,
       AdoptVersion, SaveNewVersion, AdoptClear, ClearOldCheck
  <2>1. /\ f \in Files /\ ~Finished(f, job'.id)
        /\ \A g \in Files : g # f => rows'[g] = rows[g]
        /\ rows'[f].version = job'.id /\ rows'[f].status = "uploading"
    BY <2>0, <1>3, BeginUploadWrites, UpsertLocals DEF Upserting, Writes
  <2>2. UNCHANGED <<versions, checks>>
    BY <2>0, <1>3 DEF BeginUpload
  <2>3. ~Finished(f, rows[f].version)'
    BY <2>0, <2>1, <2>2 DEF Finished
  <2>4. OwnCheck(f)'
    BY <2>0, <2>1, <2>3 DEF OwnCheck
  <2> QED BY <2>0, <1>1, <2>1, <2>2, <2>4, OthersRest
<1>4. CASE AdoptRow
  <2>0. PICK f \in Files : f = job.file
    BY <1>4, StampTypes DEF MetadataOnly, BeginUpload, AdoptRow, FinishRow, RecordFailure,
       AdoptVersion, SaveNewVersion, AdoptClear, ClearOldCheck
  <2>1. /\ f \in Files /\ \A g \in Files : g # f => rows'[g] = rows[g]
        /\ rows'[f].status = "complete"
    BY <2>0, <1>4, AdoptRowWrites, UpsertLocals DEF Upserting, Writes
  <2>2. UNCHANGED <<versions, checks, job>> /\ pc' = "adopted"
    BY <2>0, <1>4 DEF AdoptRow
  <2>3. OwnCheck(f)'
    BY <2>0, <2>1, <2>2 DEF OwnCheck, Clearing
  <2> QED BY <2>0, <1>1, <2>1, <2>2, <2>3, OthersRest
<1>5. CASE FinishRow
  <2>0. PICK f \in Files : f = job.file
    BY <1>5, StampTypes DEF MetadataOnly, BeginUpload, AdoptRow, FinishRow, RecordFailure,
       AdoptVersion, SaveNewVersion, AdoptClear, ClearOldCheck
  <2>1. /\ f \in Files /\ \A g \in Files : g # f => rows'[g] = rows[g]
        /\ rows'[f].version = job.id
        /\ rows'[f].status = IF Complete THEN "complete" ELSE "error"
    BY <2>0, <1>5, FinishRowWrites, UpsertLocals DEF Upserting, Writes
  <2>2. UNCHANGED <<versions, checks, job>> /\ pc = "finish" /\ pc' = "clear"
    BY <2>0, <1>5 DEF FinishRow
  <2>3. ~Complete => ~Finished(f, rows[f].version)'
    BY <2>0, <2>1, <2>2, IncompleteIsUnfinished DEF Finished
  <2>4. OwnCheck(f)'
    BY <2>0, <2>1, <2>2, <2>3 DEF OwnCheck, Clearing
  <2> QED BY <2>0, <1>1, <2>1, <2>2, <2>4, OthersRest
<1>6. CASE RecordFailure
  <2>0. PICK f \in Files : f = job.file
    BY <1>6, StampTypes DEF MetadataOnly, BeginUpload, AdoptRow, FinishRow, RecordFailure,
       AdoptVersion, SaveNewVersion, AdoptClear, ClearOldCheck
  <2>1. /\ f \in Files /\ \A g \in Files : g # f => rows'[g] = rows[g]
        /\ rows'[f].version = job.id /\ rows'[f].status = "error"
    BY <2>0, <1>6, RecordFailureWrites, UpsertLocals DEF Upserting, Writes
  <2>2. UNCHANGED <<versions, checks>> /\ pc = "fail"
    BY <2>0, <1>6 DEF RecordFailure
  <2>3. rows[f] # Null /\ rows[f].version = job.id /\ rows[f].status # "complete"
    BY <2>0, <2>2 DEF IInv, TaskInv, RowKnown, Unfinished
  <2>4. Finished(f, rows[f].version)' <=> Finished(f, rows[f].version)
    BY <2>0, <2>1, <2>2, <2>3 DEF Finished
  <2>5. OwnCheck(f) => OwnCheck(f)'
    BY <2>0, <2>1, <2>2, <2>3, <2>4 DEF OwnCheck, Finishing
  <2> QED BY <2>0, <1>1, <2>1, <2>2, <2>5, OthersRest
<1>7. CASE AdoptVersion \/ SaveNewVersion
  <2>0. PICK f \in Files : f = job.file
    BY <1>7, StampTypes DEF MetadataOnly, BeginUpload, AdoptRow, FinishRow, RecordFailure,
       AdoptVersion, SaveNewVersion, AdoptClear, ClearOldCheck
  <2>1. /\ f \in Files /\ \A g \in Files : g # f => versions'[g] = versions[g]
        /\ \A v \in VersionIds : v # job'.id => versions'[f][v] = versions[f][v]
    <3>1. versions \in [Files -> [VersionIds -> Version \union {Null}]] /\ job \in Job
      BY DEF IInv, TypeOK, SyncTypeOK, RegistryTypeOK
    <3>2. CASE AdoptVersion
      <4>1. /\ f \in Files /\ uploaded[job.hash].id \in VersionIds
            /\ versions' = [versions EXCEPT ![f][uploaded[job.hash].id] =
                                                    uploaded[job.hash].version]
        BY <2>0, <3>2, AdoptKnown DEF SaveVersion
      <4>2. job'.id = uploaded[job.hash].id
        BY <2>0, <3>1, <3>2 DEF AdoptVersion, Job
      <4> QED BY <2>0, <3>1, <4>1, <4>2
    <3>3. CASE SaveNewVersion
      <4>1. /\ f \in Files /\ job.id \in VersionIds
            /\ versions' = [versions EXCEPT ![f][job.id] = NewVersion]
        BY <2>0, <3>3, SaveKnown DEF SaveVersion
      <4>2. job' = job
        BY <2>0, <3>3 DEF SaveNewVersion
      <4> QED BY <2>0, <3>1, <4>1, <4>2
    <3> QED BY <2>0, <1>7, <3>2, <3>3
  <2>2. /\ UNCHANGED <<rows, checks>> /\ pc \in {"match", "save"} /\ pc' \in {"adopt", "finish"}
    BY <2>0, <1>7 DEF AdoptVersion, SaveNewVersion
  <2>3. job'.file = f
    BY <2>0, <1>1, <2>2, JobGoesOn DEF StatFile
  <2>4. OwnCheck(f) => OwnCheck(f)'
    BY <1>1, <2>0, <2>2, <2>3 DEF OwnCheck, Finishing, Clearing
  <2> QED BY <2>0, <1>1, <2>1, <2>2, <2>4, OthersRest
<1>8. CASE AdoptClear \/ ClearOldCheck
  <2>0. PICK f \in Files : f = job.file
    BY <1>8, StampTypes DEF MetadataOnly, BeginUpload, AdoptRow, FinishRow, RecordFailure,
       AdoptVersion, SaveNewVersion, AdoptClear, ClearOldCheck
  <2>1. /\ f \in Files /\ checks' = [checks EXCEPT ![f] = Null]
        /\ UNCHANGED <<rows, versions>> /\ pc \in {"adopted", "clear"}
        /\ checks \in [Files -> Check \union {Null}]
    BY <2>0, <1>8 DEF AdoptClear, ClearOldCheck, ClearVerification, IInv, TypeOK, SyncTypeOK,
       RegistryTypeOK, TaskInv, JobSet
  <2>2. checks'[f] = Null /\ \A g \in Files : g # f => checks'[g] = checks[g]
    BY <2>0, <2>1
  <2>3. Finished(f, rows[f].version)' <=> Finished(f, rows[f].version)
    BY <2>0, <2>1 DEF Finished
  <2>4. OwnCheck(f) => OwnCheck(f)'
    BY <2>0, <2>1, <2>2, <2>3 DEF OwnCheck, Finishing
  <2> QED BY <2>0, <1>1, <2>1, <2>2, <2>4, OthersRest
<1>9. CASE /\ ~Upserting /\ ~AdoptVersion /\ ~SaveNewVersion /\ ~AdoptClear /\ ~ClearOldCheck
  <2>1. UNCHANGED <<versions, checks>> /\ \A f \in Files : ~Finishing(f) /\ ~Clearing(f)
    BY <1>9
    DEF SyncTask, Upserting, Commit, NoCommit, MayCommit, StartSync, EndSync, SkipUnchanged,
        GitHubCopy, RecordUploaded, StatFails, StatFile, HashFile, HashRaises, GitHubPhaseEnds,
        EnterTelegram, TelegramPhaseEnds, UploadRaises, TelegramCopy, TelegramCopyFails,
        GitHubCopyFails, CopyFails, registryVars, Finishing, Clearing
  <2>2. \A f \in Files : Unmarked(f)
    <3>1. CASE UNCHANGED rows
      BY <3>1 DEF Unmarked
    <3> QED BY <1>9, <3>1, SyncRows, MarksOnly, SkipMarks
  <2> QED BY <1>1, <2>1, <2>2, OwnRests
<1> QED BY <1>2, <1>3, <1>4, <1>5, <1>6, <1>7, <1>8, <1>9 DEF Upserting

LEMMA OwnCheckKept ==
    IInv /\ IdsInv /\ StampInv /\ SnapshotInv /\ OwnCheckInv /\ [Next]_vars => OwnCheckInv'
<1> SUFFICES ASSUME IInv, IdsInv, StampInv, SnapshotInv, OwnCheckInv, [Next]_vars
             PROVE  OwnCheckInv'
  OBVIOUS
<1>1. CASE SyncTask
  BY <1>1, SyncChecks
<1>2. CASE RecordCheck
  <2>1. PICK ok \in Verdicts(visit) : RecordVerification(visit[1], ok, visit[2])
    BY <1>2 DEF RecordCheck
  <2>2. /\ visit[1] \in Files /\ checks \in [Files -> Check \union {Null}]
        /\ checks' = [checks EXCEPT ![visit[1]] = [ok |-> ok, version |-> visit[2]]]
        /\ UNCHANGED <<rows, versions, pc, job, crashes>>
        /\ late' = IF queue = {} /\ rows[visit[1]].version # visit[2]
                   THEN late \union {visit[1]} ELSE late \ {visit[1]}
        /\ queue # {} => rows[visit[1]].version = visit[2]
    BY <1>2, <2>1 DEF RecordCheck, CanWrite, RecordVerification, QueueKnown, Target, SnapshotInv,
       IInv, TypeOK, SyncTypeOK, RegistryTypeOK, taskVars
  <2>3. /\ checks'[visit[1]].version = visit[2]
        /\ visit[1] \notin late' => rows[visit[1]].version = visit[2]
        /\ \A f \in Files : f # visit[1] => checks'[f] = checks[f] /\ (f \in late' <=> f \in late)
    BY <2>2
  <2>4. \A f \in Files : Finished(f, rows[f].version)' <=> Finished(f, rows[f].version)
    BY <2>2 DEF Finished
  <2> QED BY <2>2, <2>3, <2>4 DEF OwnCheckInv, OwnCheck, Finishing, Clearing
<1>3. CASE (VerifyStep /\ ~RecordCheck) \/ Environment \/ UNCHANGED vars
  <2>1. UNCHANGED <<versions, checks, pc, job, crashes>> /\ \A f \in Files : Unmarked(f)
    BY <1>3, OtherMarks, VerifyLeaves, UserLeaves, ReloginLeaves DEF Environment
  <2>2. UNCHANGED late
    BY <1>3, UserLeaves, ReloginLeaves
    DEF VerifyStep, OpenCursor, EndVerify, NextRow, LookForFile, RecordMissing, CheckRaises,
        DatabaseLocked, Environment
  <2> QED BY <2>1, <2>2, OwnRests DEF Finishing, Clearing
<1>4. CASE Crash
  <2>1. crashes' # 0
    BY <1>4 DEF Crash, IInv, TypeOK
  <2> QED BY <2>1 DEF OwnCheckInv
<1> QED BY <1>1, <1>2, <1>3, <1>4 DEF Next

\* Between runs a complete row shows no check of another version, unless verify wrote
\* it for the last row of its cursor after the sync had put another version there, and
\* as long as the process has not died: a crash between the completion of a row and the clearing
\* of its check leaves the old check in place.
THEOREM CheckIsCurrent == Spec => [](crashes = 0 => CheckIsOfCurrentVersion)
<1>1. Init => SnapshotInv /\ OwnCheckInv
  BY DEF Init, SyncInit, RegistryInit, VerifyInit, SnapshotInv, OwnCheckInv, OwnCheck
<1>2. OwnCheckInv => (crashes = 0 => CheckIsOfCurrentVersion)
  BY DEF OwnCheckInv, OwnCheck, Clearing, CheckIsOfCurrentVersion, IsComplete
<1> QED BY <1>1, <1>2, SnapshotKept, OwnCheckKept, Inductive, IdsHold, RunHolds, PTL DEF Spec

-----------------------------------------------------------------------------
(* The registry implements the vault *)

\* The cells of the two mapped variables.
LEMMA Cells ==
    /\ \A f \in Files, v \in VersionIds :
         Kept[f][v] = IF Finished(f, v) THEN versions[f][v].hash ELSE Null
    /\ \A f \in Files : Claimed[f] = IF IsComplete(f) THEN rows[f].version ELSE Null
BY DEF Kept, Claimed, Finished

\* The vault does not see what rows are marked.
LEMMA VaultRests ==
    ASSUME UNCHANGED versions, \A f \in Files : Unmarked(f)
    PROVE  UNCHANGED V!vaultVars
<1>1. Kept' = Kept
  BY DEF Kept
<1>2. \A f \in Files : /\ IsComplete(f)' <=> IsComplete(f)
                       /\ IsComplete(f) => rows'[f].version = rows[f].version
  BY DEF Unmarked, IsComplete
<1>3. Claimed' = Claimed
  BY <1>2 DEF Claimed
<1> QED BY <1>1, <1>3 DEF V!vaultVars

\* Saving again keeps a finished version finished; a version that gets finished
\* is kept from now on.
LEMMA SaveIsKeep ==
    ASSUME IInv, UNCHANGED rows, NEW f \in Files, NEW v \in VersionIds, NEW x \in Version,
           SaveVersion(f, v, x),
           versions[f][v] # Null =>
               /\ versions[f][v].hash = x.hash
               /\ HoldersOf(versions[f][v].copies) \subseteq HoldersOf(x.copies)
    PROVE  [V!Next]_(V!vaultVars)
<1>1. /\ versions \in [Files -> [VersionIds -> Version \union {Null}]]
      /\ x.hash \in Contents /\ x.copies \in Seq(Copy)
  BY DEF IInv, TypeOK, SyncTypeOK, RegistryTypeOK, Version
<1>2. /\ versions'[f][v] = x
      /\ Finished(f, v)' <=> Replicated(x)
      /\ \A g \in Files, w \in VersionIds : ~(g = f /\ w = v) =>
           /\ versions'[g][w] = versions[g][w]
           /\ Finished(g, w)' <=> Finished(g, w)
  BY <1>1, Saved
<1>3. Finished(f, v) => Replicated(x)
  <2> SUFFICES ASSUME Finished(f, v) PROVE Replicated(x)
    OBVIOUS
  <2> DEFINE old == HoldersOf(versions[f][v].copies)  new == HoldersOf(x.copies)
  <2>1. old \subseteq new /\ new \in SUBSET Accounts /\ Cardinality(old) >= CopyCount
    BY <1>1, HoldersAreAccounts DEF Finished, Replicated, DistinctAccountCopies
  <2>2. IsFiniteSet(new) /\ CopyCount \in Nat
    BY <2>1, CopyCountAssumption, FS_Subset
  <2>3. Cardinality(old) \in Nat /\ Cardinality(new) \in Nat /\ Cardinality(old) <= Cardinality(new)
    BY <2>1, <2>2, FS_Subset, FS_CardinalityType
  <2>4. Cardinality(new) >= CopyCount
    BY <2>1, <2>2, <2>3
  <2> QED BY <2>4 DEF Replicated, DistinctAccountCopies
<1>4. Claimed' = Claimed
  BY DEF Claimed, IsComplete
<1>5. \A g \in Files, w \in VersionIds :
        Kept'[g][w] = IF g = f /\ w = v /\ Replicated(x) THEN x.hash ELSE Kept[g][w]
  <2>1. \A g \in Files, w \in VersionIds :
          Kept'[g][w] = IF Finished(g, w)' THEN versions'[g][w].hash ELSE Null
    BY DEF Kept, Finished
  <2> QED BY <1>2, <1>3, <2>1, Cells DEF Finished
<1>6. /\ Kept = [g \in Files |-> [w \in VersionIds |-> Kept[g][w]]]
      /\ Kept' = [g \in Files |-> [w \in VersionIds |-> Kept'[g][w]]]
  BY DEF Kept
<1>7. CASE Replicated(x) /\ ~Finished(f, v)
  <2>1. Kept[f][v] = Null
    BY <1>7, Cells
  <2>2. Kept' = [Kept EXCEPT ![f][v] = x.hash]
    BY <1>5, <1>6, <1>7
  <2>3. V!Keep(f, v, x.hash)
    BY <1>4, <2>1, <2>2 DEF V!Keep
  <2> QED BY <1>1, <2>3 DEF V!Next
<1>8. CASE ~(Replicated(x) /\ ~Finished(f, v))
  <2>1. \A g \in Files, w \in VersionIds : Kept'[g][w] = Kept[g][w]
    BY <1>3, <1>5, <1>8, Cells DEF Finished
  <2>2. Kept' = Kept
    BY <1>6, <2>1
  <2> QED BY <1>4, <2>2 DEF V!vaultVars
<1> QED BY <1>7, <1>8

\* An upsert claims its version, withdraws a claim or does neither.
LEMMA UpsertIsClaim ==
    ASSUME IInv, IInv', IdsInv, Upserting
    PROVE  [V!Next]_(V!vaultVars)
<1>1. PICK f \in Files, v \in VersionIds, status \in Status :
         Writes(f, job.stamp, job.hash, v, status)
  BY UpsertSays, UpsertLocals
<1>2. UNCHANGED versions /\ versions \in [Files -> [VersionIds -> Version \union {Null}]]
  BY DEF Upserting, MetadataOnly, AdoptRow, BeginUpload, RecordFailure, FinishRow, IInv, TypeOK,
     SyncTypeOK, RegistryTypeOK
<1>3. Kept' = Kept
  BY <1>2 DEF Kept
<1>4. \A g \in Files : Claimed'[g] = IF g # f THEN Claimed[g]
                                     ELSE IF status = "complete" THEN v ELSE Null
  BY <1>1 DEF Writes, Claimed, IsComplete
<1>5. /\ Claimed = [g \in Files |-> Claimed[g]]
      /\ Claimed' = [g \in Files |-> Claimed'[g]]
  BY DEF Claimed
<1>6. CASE status = "complete"
  <2>1. Finished(f, v) /\ versions[f][v].hash \in Contents
    <3>1. versions'[f][v] # Null /\ Replicated(versions'[f][v])
      BY <1>1, <1>6 DEF Writes, IInv, RegistryInv, CompleteIsReplicated, IsComplete, ActiveVersion
    <3> QED BY <1>2, <3>1 DEF Finished, Version
  <2>2. Kept[f][v] # Null
    BY <2>1, Cells, NullAssumption
  <2>3. Claimed' = [Claimed EXCEPT ![f] = v]
    BY <1>4, <1>5, <1>6
  <2>4. V!Claim(f, v)
    BY <1>3, <2>2, <2>3 DEF V!Claim
  <2> QED BY <2>4 DEF V!Next
<1>7. CASE status # "complete" /\ Claimed[f] # Null
  <2>1. Claimed' = [Claimed EXCEPT ![f] = Null]
    BY <1>4, <1>5, <1>7
  <2>2. V!Withdraw(f)
    BY <1>3, <1>7, <2>1 DEF V!Withdraw
  <2> QED BY <2>2 DEF V!Next
<1>8. CASE status # "complete" /\ Claimed[f] = Null
  <2>1. Claimed' = Claimed
    BY <1>4, <1>5, <1>8
  <2> QED BY <1>3, <2>1 DEF V!vaultVars
<1> QED BY <1>6, <1>7, <1>8

LEMMA VaultStep == IInv /\ IInv' /\ IdsInv /\ StampInv /\ [Next]_vars => [V!Next]_(V!vaultVars)
<1> SUFFICES ASSUME IInv, IInv', IdsInv, StampInv, [Next]_vars
             PROVE  [V!Next]_(V!vaultVars)
  OBVIOUS
<1>1. CASE AdoptVersion
  <2>1. UNCHANGED rows
    BY <1>1 DEF AdoptVersion
  <2> QED BY <1>1, <2>1, AdoptKnown, AdoptVersionIds, SaveIsKeep
<1>2. CASE SaveNewVersion
  <2>1. UNCHANGED rows
    BY <1>2 DEF SaveNewVersion
  <2> QED BY <1>2, <2>1, SaveKnown, SaveNewVersionIds, SaveIsKeep
<1>3. CASE Upserting
  BY <1>3, UpsertIsClaim
<1>4. CASE SyncTask /\ ~AdoptVersion /\ ~SaveNewVersion /\ ~Upserting
  <2>1. UNCHANGED versions
    BY <1>4
    DEF SyncTask, Upserting, Commit, NoCommit, MayCommit, StartSync, EndSync, SkipUnchanged,
        AdoptClear, ClearOldCheck, GitHubCopy, RecordUploaded, StatFails, StatFile, HashFile,
        HashRaises, GitHubPhaseEnds, EnterTelegram, TelegramPhaseEnds, UploadRaises,
        TelegramCopy, TelegramCopyFails, GitHubCopyFails, CopyFails, registryVars
  <2>2. CASE UNCHANGED rows
    BY <2>1, <2>2, VaultRests DEF Unmarked
  <2> QED BY <1>4, <2>1, <2>2, SyncRows, SkipMarks, MarksOnly, VaultRests
<1>5. CASE VerifyStep \/ Crash \/ Environment \/ UNCHANGED vars
  BY <1>5, OtherIds, OtherMarks, VaultRests
<1> QED BY <1>1, <1>2, <1>3, <1>4, <1>5 DEF Next

\* The service implements the vault: a version that was once fully replicated
\* stays so with its content, and a file is called backed up only on account of
\* such a version, whatever is resumed, adopted, retried or interrupted underneath.
THEOREM RegistryIsAVault == Spec => ImplementsVault
<1>1. Init => V!Init
  BY DEF Init, SyncInit, RegistryInit, V!Init, Kept, Claimed, IsComplete
<1> QED BY <1>1, VaultStep, Inductive, IdsHold, RunHolds, PTL DEF Spec, ImplementsVault, V!Spec
=============================================================================
