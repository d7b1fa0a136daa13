---------------------------- MODULE Backup_proofs ----------------------------
(***************************************************************************)
(* Proofs about Backup, for any number of files, contents, accounts, edits  *)
(* and crashes.  That a row is complete only on account of a replicated     *)
(* version is not inductive by itself: the row is written from the locals   *)
(* of the loop body, so the invariant has to say what these locals know     *)
(* about the tables at each point (TaskInv), that no list of copies repeats *)
(* an account (SavedDistinct, JobDistinct) and that ids are not shared by   *)
(* contents (OneContentPerId).                                              *)
(***************************************************************************)
EXTENDS Backup, FiniteSetTheorems, TLAPS

-----------------------------------------------------------------------------
(* The inductive invariant *)

\* The version of the row is being filled, and the row says so.
Unfinished == {"github", "telegram", "save", "finish", "fail"}

\* From the choice of a version id to the last statement about it.
Named == Unfinished \union {"clear", "record", "adopt", "adopted"}

\* Which locals of the loop body are set.
JobSet ==
    /\ pc \notin {"idle", "walk"} => job.file \in Files
    /\ pc \notin {"idle", "walk", "compare"} => job.hash \in Contents
    /\ pc \in Named => job.id \in VersionIds
    /\ pc = "telegram" => job.bytes \in Contents

\* What the loop body knows about the row it read or wrote: nobody else changes
\* its hash, version or status (mark_missing only clears `present`).
RowKnown ==
    /\ pc \in {"compare", "match"} =>
         IF job.row = Null THEN rows[job.file] = Null
         ELSE /\ rows[job.file] # Null
              /\ rows[job.file].hash = job.row.hash
              /\ rows[job.file].version = job.row.version
    /\ pc \in Unfinished =>
         /\ rows[job.file] # Null
         /\ rows[job.file].status # "complete"
         /\ rows[job.file].hash = job.hash
         /\ rows[job.file].version = job.id

\* What the loop body has already saved.
VersionKnown ==
    /\ pc = "adopt" =>
         /\ versions[job.file][job.id] # Null
         /\ versions[job.file][job.id].hash = job.hash
         /\ Replicated(versions[job.file][job.id])
    /\ pc \in {"finish", "clear", "record"} => versions[job.file][job.id] = NewVersion
    /\ pc = "record" => Complete

\* What verify took from its snapshot: rows that existed, and still do.
QueueKnown ==
    /\ \A t \in queue : rows[t[1]] # Null
    /\ vpc \in {"look", "missing", "check"} => visit \in Target /\ rows[visit[1]] # Null

DistinctHolders(copies) ==
    \A i, j \in DOMAIN copies : copies[i].account = copies[j].account => i = j

\* No account is named twice in the list of copies being made, nor asked again.
JobDistinct ==
    /\ pc \in Unfinished => DistinctHolders(job.copies)
    /\ pc \in {"github", "telegram"} => HoldersOf(job.copies) \subseteq job.used
    /\ pc = "telegram" => job.queue \intersect job.used = {}

TaskInv == JobSet /\ RowKnown /\ VersionKnown /\ JobDistinct

\* Nor in any saved list: so the length of a list, which decides whether a
\* version is complete, is its number of accounts.
SavedDistinct ==
    /\ \A f \in Files, v \in VersionIds :
         versions[f][v] # Null => DistinctHolders(versions[f][v].copies)
    /\ \A h \in Contents :
         uploaded[h] # Null => DistinctHolders(uploaded[h].version.copies)

\* Version id v stands for content h, in a row or in a saved version.
Names(v, h) ==
    \E f \in Files :
        \/ rows[f] # Null /\ rows[f].version = v /\ rows[f].hash = h
        \/ versions[f][v] # Null /\ versions[f][v].hash = h

OneContentPerId ==
    \A v \in VersionIds, h1, h2 \in Contents : Names(v, h1) /\ Names(v, h2) => h1 = h2

\* What the deduplication index offers was saved for some file.
IndexSaved ==
    \A h \in Contents : uploaded[h] # Null =>
        \E f \in Files : /\ versions[f][uploaded[h].id] # Null
                         /\ versions[f][uploaded[h].id].hash = h

RegistryInv == /\ SavedDistinct
               /\ OneContentPerId
               /\ IndexSaved
               /\ DedupIndexIsReplicated
               /\ CompleteIsReplicated

IInv == TypeOK /\ TaskInv /\ RegistryInv /\ QueueKnown

-----------------------------------------------------------------------------
(* Lists of copies *)

\* A list that names no account twice has as many accounts as elements
\* (distinct_account_copy_count against the length the upload loop compares).
LEMMA DistinctCount ==
    ASSUME NEW copies \in Seq(Copy), DistinctHolders(copies)
    PROVE  DistinctAccountCopies(copies) = Len(copies)
<1> DEFINE h == [i \in 1..Len(copies) |-> copies[i].account]
<1>1. Len(copies) \in Nat /\ DOMAIN copies = 1..Len(copies)
  OBVIOUS
<1>2. h \in Bijection(1..Len(copies), HoldersOf(copies))
  <2>1. h \in [1..Len(copies) -> HoldersOf(copies)]
    BY <1>1 DEF HoldersOf
  <2>2. \A a, b \in 1..Len(copies) : h[a] = h[b] => a = b
    BY <1>1 DEF DistinctHolders
  <2>3. \A t \in HoldersOf(copies) : \E s \in 1..Len(copies) : h[s] = t
    BY <1>1 DEF HoldersOf
  <2> QED
    BY <2>1, <2>2, <2>3 DEF Bijection, Injection, Surjection, IsInjective
<1>3. ExistsBijection(1..Len(copies), HoldersOf(copies))
  BY <1>2 DEF ExistsBijection
<1> QED
  BY <1>1, <1>3, FS_CountingElements DEF DistinctAccountCopies

\* Appending a copy on an account the list does not name.
LEMMA AppendDistinct ==
    ASSUME NEW copies \in Seq(Copy), NEW c \in Copy
    PROVE  /\ Append(copies, c) \in Seq(Copy)
           /\ HoldersOf(Append(copies, c)) = HoldersOf(copies) \union {c.account}
           /\ DistinctHolders(copies) /\ c.account \notin HoldersOf(copies)
                => DistinctHolders(Append(copies, c))
<1>1. /\ Append(copies, c) \in Seq(Copy)
      /\ Len(copies) \in Nat
      /\ DOMAIN copies = 1..Len(copies)
      /\ DOMAIN Append(copies, c) = 1..(Len(copies) + 1)
      /\ \A i \in 1..Len(copies) : Append(copies, c)[i] = copies[i]
      /\ Append(copies, c)[Len(copies) + 1] = c
  OBVIOUS
<1>2. HoldersOf(Append(copies, c)) = HoldersOf(copies) \union {c.account}
  BY <1>1 DEF HoldersOf
<1>3. ASSUME DistinctHolders(copies), c.account \notin HoldersOf(copies)
      PROVE  DistinctHolders(Append(copies, c))
  BY <1>1, <1>3 DEF DistinctHolders, HoldersOf
<1> QED BY <1>1, <1>2, <1>3

\* The holders of a list of copies are accounts.
LEMMA HoldersAreAccounts ==
    ASSUME NEW copies \in Seq(Copy)
    PROVE  HoldersOf(copies) \in SUBSET Accounts
<1>1. \A i \in DOMAIN copies : copies[i] \in Copy
  OBVIOUS
<1> QED BY <1>1 DEF HoldersOf, Copy

\* The empty job is a job.
LEMMA NoJobType == NoJob \in Job
BY DEF NoJob, Job

-----------------------------------------------------------------------------
(* What leaves the registry part of the invariant alone *)

\* A step that writes none of the three tables keeps the registry part.
LEMMA RegistryKept ==
    ASSUME RegistryInv, UNCHANGED <<rows, versions, uploaded>>
    PROVE  RegistryInv'
BY DEF RegistryInv, SavedDistinct, OneContentPerId, Names, IndexSaved,
       DedupIndexIsReplicated, CompleteIsReplicated, IsComplete, ActiveVersion

SameRow(f) ==
    /\ rows'[f] = Null <=> rows[f] = Null
    /\ rows[f] # Null => /\ rows'[f].hash = rows[f].hash
                         /\ rows'[f].version = rows[f].version
                         /\ rows'[f].status = rows[f].status

\* So does one that changes only `present` or the stamp of rows (touch_file,
\* mark_absent_except_run, mark_missing).
LEMMA RowsKept ==
    ASSUME RegistryInv, UNCHANGED <<versions, uploaded>>, \A f \in Files : SameRow(f)
    PROVE  RegistryInv'
<1> USE DEF RegistryInv, SameRow
<1>1. SavedDistinct' /\ IndexSaved' /\ DedupIndexIsReplicated'
  BY DEF SavedDistinct, IndexSaved, DedupIndexIsReplicated
<1>2. OneContentPerId'
  BY DEF OneContentPerId, Names
<1>3. CompleteIsReplicated'
  BY DEF CompleteIsReplicated, IsComplete, ActiveVersion
<1> QED BY <1>1, <1>2, <1>3

\* A finished copy on an account that was not used yet.
LEMMA AddCopyStep ==
    ASSUME job \in Job, NEW a \in Accounts, NEW h \in Contents, AddCopy(a, h)
    PROVE  /\ job' \in Job
           /\ job'.file = job.file /\ job'.hash = job.hash /\ job'.id = job.id
           /\ job'.row = job.row /\ job'.bytes = job.bytes
           /\ pc \in {"github", "telegram"} /\ pc' = pc /\ a \notin job.used /\ JobDistinct
                => JobDistinct'
<1> DEFINE c == [account |-> a, holds |-> h]
<1>1. c \in Copy /\ c.account = a
  BY DEF Copy
<1>2. job.copies \in Seq(Copy) /\ job.used \subseteq Accounts /\ job.queue \subseteq TelegramAccounts
  BY DEF Job
<1>3. job' = [job EXCEPT !.copies = Append(job.copies, c),
                         !.used = job.used \union {a}, !.queue = job.queue \ {a}]
  BY DEF AddCopy
<1>4. /\ Append(job.copies, c) \in Seq(Copy)
      /\ HoldersOf(Append(job.copies, c)) = HoldersOf(job.copies) \union {a}
      /\ DistinctHolders(job.copies) /\ a \notin HoldersOf(job.copies)
            => DistinctHolders(Append(job.copies, c))
  BY <1>1, <1>2, AppendDistinct
<1> DEFINE cs == Append(job.copies, c)
<1> HIDE DEF c, cs
<1>5. /\ job' = [job EXCEPT !.copies = cs, !.used = job.used \union {a}, !.queue = job.queue \ {a}]
      /\ cs \in Seq(Copy)
      /\ job.used \union {a} \in SUBSET Accounts
      /\ job.queue \ {a} \in SUBSET TelegramAccounts
  BY <1>2, <1>3, <1>4 DEF cs
<1>6. job' \in Job
  BY <1>5 DEF Job
<1>7. /\ job'.copies = cs /\ job'.used = job.used \union {a} /\ job'.queue = job.queue \ {a}
      /\ job'.file = job.file /\ job'.hash = job.hash /\ job'.id = job.id
      /\ job'.row = job.row /\ job'.bytes = job.bytes
  BY <1>5 DEF Job
<1>8. ASSUME pc \in {"github", "telegram"}, pc' = pc, a \notin job.used, JobDistinct
      PROVE  JobDistinct'
  <2>1. DistinctHolders(job.copies) /\ HoldersOf(job.copies) \subseteq job.used
    BY <1>8 DEF JobDistinct, Unfinished
  <2>2. DistinctHolders(cs) /\ HoldersOf(cs) = HoldersOf(job.copies) \union {a}
    BY <1>4, <1>8, <2>1 DEF cs
  <2> QED BY <1>7, <1>8, <2>1, <2>2 DEF JobDistinct
<1> QED BY <1>6, <1>7, <1>8

-----------------------------------------------------------------------------
(* Steps of the sync task that leave rows, versions and uploaded alone *)

VerifyRests ==
    /\ UNCHANGED <<vpc, verifier, queue, visit, wedged, away, late, crashes>>
    /\ stale' \in BOOLEAN

\* A new run: rows keep what they say.
LEMMA StartSyncStep ==
    ASSUME IInv, StartSync, VerifyRests
    PROVE  IInv'
<1> USE DEF IInv, StartSync, NextSyncRun, OnDisk, VerifyRests, registryVars, userVars
<1>1. TypeOK'
  <2>1. RegistryTypeOK'
    BY DEF TypeOK, SyncTypeOK, RegistryTypeOK
  <2>2. SyncTypeOK'
    BY <2>1 DEF TypeOK, SyncTypeOK, Steps
  <2> QED BY <2>2 DEF TypeOK
<1>2. TaskInv'
  <2>1. JobSet'
    BY DEF TaskInv, JobSet, Named, Unfinished, TypeOK, SyncTypeOK, RegistryTypeOK, Job
  <2>2. RowKnown' /\ VersionKnown'
    BY DEF TaskInv, RowKnown, VersionKnown, Complete, NewVersion, Unfinished, TypeOK, SyncTypeOK, RegistryTypeOK, Job
  <2>3. JobDistinct'
    BY DEF TaskInv, JobDistinct, Unfinished, TypeOK, SyncTypeOK, Job
  <2> QED BY <2>1, <2>2, <2>3 DEF TaskInv
<1>3. RegistryInv'
  BY RegistryKept
<1>4. QueueKnown'
  BY DEF QueueKnown
<1> QED BY <1>1, <1>2, <1>3, <1>4

\* A path that vanished is dropped from the walk.
LEMMA StatFailsStep ==
    ASSUME NEW f \in Files, IInv, StatFails(f), VerifyRests
    PROVE  IInv'
<1> USE DEF IInv, StatFails, OnDisk, VerifyRests, registryVars, userVars
<1>1. TypeOK'
  BY DEF TypeOK, SyncTypeOK, RegistryTypeOK, Job, Steps
<1>2. TaskInv'
  <2>1. JobSet'
    BY DEF TaskInv, JobSet, Named, Unfinished, TypeOK, SyncTypeOK, RegistryTypeOK, Job
  <2>2. RowKnown' /\ VersionKnown'
    BY DEF TaskInv, RowKnown, VersionKnown, Complete, NewVersion, Unfinished, TypeOK, SyncTypeOK, RegistryTypeOK, Job
  <2>3. JobDistinct'
    BY DEF TaskInv, JobDistinct, Unfinished, TypeOK, SyncTypeOK, Job
  <2> QED BY <2>1, <2>2, <2>3 DEF TaskInv
<1>3. RegistryInv'
  BY RegistryKept
<1>4. QueueKnown'
  BY DEF QueueKnown
<1> QED BY <1>1, <1>2, <1>3, <1>4

\* The loop body starts with the row of its file.
LEMMA StatFileStep ==
    ASSUME NEW f \in Files, IInv, StatFile(f), VerifyRests
    PROVE  IInv'
<1> USE DEF IInv, StatFile, OnDisk, NoJob, Stored, VerifyRests, registryVars, userVars
<1>1. TypeOK'
  <2>1. RegistryTypeOK'
    BY DEF TypeOK, SyncTypeOK, RegistryTypeOK
  <2>2. job' \in Job
    BY NoJobType DEF TypeOK, SyncTypeOK, RegistryTypeOK, Job
  <2>3. SyncTypeOK'
    BY <2>1, <2>2 DEF TypeOK, SyncTypeOK, Steps
  <2> QED BY <2>3 DEF TypeOK
<1>2. TaskInv'
  <2>1. JobSet'
    BY DEF TaskInv, JobSet, Named, Unfinished, TypeOK, SyncTypeOK, RegistryTypeOK, Job
  <2>2. RowKnown' /\ VersionKnown'
    BY DEF TaskInv, RowKnown, VersionKnown, Complete, NewVersion, Unfinished, TypeOK, SyncTypeOK, RegistryTypeOK, Job
  <2>3. JobDistinct'
    BY DEF TaskInv, JobDistinct, Unfinished, TypeOK, SyncTypeOK, Job
  <2> QED BY <2>1, <2>2, <2>3 DEF TaskInv
<1>3. RegistryInv'
  BY RegistryKept
<1>4. QueueKnown'
  BY DEF QueueKnown
<1> QED BY <1>1, <1>2, <1>3, <1>4

\* The hash is kept in the locals.
LEMMA HashFileStep ==
    ASSUME IInv, HashFile, VerifyRests
    PROVE  IInv'
<1> USE DEF IInv, HashFile, Readable, OnDisk, Stored, VerifyRests, registryVars, userVars
<1>1. TypeOK'
  BY DEF TypeOK, SyncTypeOK, RegistryTypeOK, Job, Steps
<1>2. TaskInv'
  <2>1. JobSet'
    BY DEF TaskInv, JobSet, Named, Unfinished, TypeOK, SyncTypeOK, RegistryTypeOK, Job
  <2>2. RowKnown' /\ VersionKnown'
    BY DEF TaskInv, RowKnown, VersionKnown, Complete, NewVersion, Unfinished, TypeOK, SyncTypeOK, RegistryTypeOK, Job
  <2>3. JobDistinct'
    BY DEF TaskInv, JobDistinct, Unfinished, TypeOK, SyncTypeOK, Job
  <2> QED BY <2>1, <2>2, <2>3 DEF TaskInv
<1>3. RegistryInv'
  BY RegistryKept
<1>4. QueueKnown'
  BY DEF QueueKnown
<1> QED BY <1>1, <1>2, <1>3, <1>4

\* The run breaks off at an unreadable file.
LEMMA HashRaisesStep ==
    ASSUME IInv, HashRaises, VerifyRests
    PROVE  IInv'
<1> USE DEF IInv, HashRaises, NoJob, VerifyRests, registryVars, userVars
<1>1. TypeOK'
  BY DEF TypeOK, SyncTypeOK, RegistryTypeOK, Job, Steps
<1>2. TaskInv'
  <2>1. JobSet'
    BY DEF TaskInv, JobSet, Named, Unfinished, TypeOK, SyncTypeOK, RegistryTypeOK, Job
  <2>2. RowKnown' /\ VersionKnown'
    BY DEF TaskInv, RowKnown, VersionKnown, Complete, NewVersion, Unfinished, TypeOK, SyncTypeOK, RegistryTypeOK, Job
  <2>3. JobDistinct'
    BY DEF TaskInv, JobDistinct, Unfinished, TypeOK, SyncTypeOK, Job
  <2> QED BY <2>1, <2>2, <2>3 DEF TaskInv
<1>3. RegistryInv'
  BY RegistryKept
<1>4. QueueKnown'
  BY DEF QueueKnown
<1> QED BY <1>1, <1>2, <1>3, <1>4

\* The last statement of _adopt_version.
LEMMA AdoptClearStep ==
    ASSUME IInv, AdoptClear, VerifyRests
    PROVE  IInv'
<1> USE DEF IInv, AdoptClear, ClearVerification, Visited, NoJob, VerifyRests, registryVars, userVars
<1>1. TypeOK'
  BY NoJobType DEF TypeOK, SyncTypeOK, RegistryTypeOK, Steps
<1>2. TaskInv'
  <2>1. JobSet'
    BY DEF TaskInv, JobSet, Named, Unfinished, TypeOK, SyncTypeOK, RegistryTypeOK, Job
  <2>2. RowKnown' /\ VersionKnown'
    BY DEF TaskInv, RowKnown, VersionKnown, Complete, NewVersion, Unfinished, TypeOK, SyncTypeOK, RegistryTypeOK, Job
  <2>3. JobDistinct'
    BY DEF TaskInv, JobDistinct, Unfinished, TypeOK, SyncTypeOK, Job
  <2> QED BY <2>1, <2>2, <2>3 DEF TaskInv
<1>3. RegistryInv'
  BY RegistryKept
<1>4. QueueKnown'
  BY DEF QueueKnown
<1> QED BY <1>1, <1>2, <1>3, <1>4

\* A GitHub copy is appended; its account was eligible, hence unused.
LEMMA GitHubCopyStep ==
    ASSUME NEW a \in GitHubAccounts, IInv, GitHubCopy(a), VerifyRests
    PROVE  IInv'
<1> USE DEF IInv, VerifyRests, registryVars, userVars
<1>1. /\ a \in Accounts \ job.used
      /\ disk[job.file].content \in Contents
      /\ job \in Job
      /\ AddCopy(a, disk[job.file].content)
      /\ pc \in {"github", "telegram"}
      /\ UNCHANGED <<registryVars, userVars, pc, todo, failures, down, result>>
  BY DEF GitHubCopy, Eligible, OnDisk, Accounts, TypeOK, SyncTypeOK, Stored, TaskInv, JobSet, JobDistinct
<1>2. /\ job' \in Job
      /\ job'.file = job.file /\ job'.hash = job.hash /\ job'.id = job.id
      /\ job'.row = job.row /\ job'.bytes = job.bytes
      /\ JobDistinct'
  BY <1>1, AddCopyStep DEF TaskInv
<1>3. TypeOK'
  BY <1>1, <1>2 DEF TypeOK, SyncTypeOK, RegistryTypeOK
<1>4. TaskInv'
  BY <1>1, <1>2 DEF TaskInv, JobSet, RowKnown, VersionKnown, Named, Unfinished
<1>5. RegistryInv' /\ QueueKnown'
  BY <1>1, RegistryKept DEF QueueKnown
<1> QED BY <1>2, <1>3, <1>4, <1>5

\* What a failed copy leaves of the job.
LEMMA CopyFailsTyped ==
    ASSUME NEW a \in Accounts, TypeOK, CopyFails(a), VerifyRests
    PROVE  TypeOK'
<1>1. job' \in Job
  <2>1. job \in Job /\ job.used \in SUBSET Accounts /\ job.queue \in SUBSET TelegramAccounts
    BY DEF TypeOK, SyncTypeOK, Job
  <2>2. job' = [job EXCEPT !.used = job.used \union {a}, !.queue = job.queue \ {a}]
    BY DEF CopyFails
  <2>3. job.used \union {a} \in SUBSET Accounts /\ job.queue \ {a} \in SUBSET TelegramAccounts
    BY <2>1
  <2> HIDE DEF Accounts
  <2> QED BY <2>1, <2>2, <2>3 DEF Job
<1>2. down' \subseteq Accounts
  BY DEF CopyFails, TypeOK, SyncTypeOK
<1>3. RegistryTypeOK'
  BY DEF CopyFails, TypeOK, SyncTypeOK, RegistryTypeOK, registryVars
<1>4. SyncTypeOK'
  BY <1>1, <1>2, <1>3 DEF CopyFails, TypeOK, SyncTypeOK, userVars
<1> QED BY <1>4 DEF TypeOK, VerifyRests

\* A failed GitHub account is only excluded from now on.
LEMMA GitHubCopyFailsStep ==
    ASSUME NEW a \in GitHubAccounts, IInv, GitHubCopyFails(a), VerifyRests
    PROVE  IInv'
<1> USE DEF IInv, GitHubCopyFails, CopyFails, Eligible, Accounts, VerifyRests, registryVars, userVars
<1>1. TypeOK'
  <2>1. a \in Accounts /\ CopyFails(a)
    OBVIOUS
  <2> QED BY <2>1, CopyFailsTyped
<1>2. TaskInv'
  <2>1. JobSet'
    BY DEF TaskInv, JobSet, Named, Unfinished, TypeOK, SyncTypeOK, RegistryTypeOK, Job
  <2>2. RowKnown' /\ VersionKnown'
    BY DEF TaskInv, RowKnown, VersionKnown, Complete, NewVersion, Unfinished, TypeOK, SyncTypeOK, RegistryTypeOK, Job
  <2>3. JobDistinct'
    BY DEF TaskInv, JobDistinct, Unfinished, TypeOK, SyncTypeOK, Job
  <2> QED BY <2>1, <2>2, <2>3 DEF TaskInv
<1>3. RegistryInv'
  BY RegistryKept
<1>4. QueueKnown'
  BY DEF QueueKnown
<1> QED BY <1>1, <1>2, <1>3, <1>4

\* On to saving, or to the failure if nothing was stored.
LEMMA GitHubPhaseEndsStep ==
    ASSUME IInv, GitHubPhaseEnds, VerifyRests
    PROVE  IInv'
<1> USE DEF IInv, GitHubPhaseEnds, AfterCopies, VerifyRests, registryVars, userVars
<1>1. TypeOK'
  BY DEF TypeOK, SyncTypeOK, RegistryTypeOK, Job, Steps
<1>2. TaskInv'
  <2>1. JobSet'
    BY DEF TaskInv, JobSet, Named, Unfinished, TypeOK, SyncTypeOK, RegistryTypeOK, Job
  <2>2. RowKnown' /\ VersionKnown'
    BY DEF TaskInv, RowKnown, VersionKnown, Complete, NewVersion, Unfinished, TypeOK, SyncTypeOK, RegistryTypeOK, Job
  <2>3. JobDistinct'
    BY DEF TaskInv, JobDistinct, Unfinished, TypeOK, SyncTypeOK, Job
  <2> QED BY <2>1, <2>2, <2>3 DEF TaskInv
<1>3. RegistryInv'
  BY RegistryKept
<1>4. QueueKnown'
  BY DEF QueueKnown
<1> QED BY <1>1, <1>2, <1>3, <1>4

\* The accounts still to try are unused ones.
LEMMA EnterTelegramStep ==
    ASSUME IInv, EnterTelegram, VerifyRests
    PROVE  IInv'
<1> USE DEF IInv, EnterTelegram, TelegramPool, OnDisk, Stored, Accounts, VerifyRests, registryVars, userVars
<1>1. TypeOK'
  BY DEF TypeOK, SyncTypeOK, RegistryTypeOK, Job, Steps
<1>2. TaskInv'
  <2>1. JobSet'
    BY DEF TaskInv, JobSet, Named, Unfinished, TypeOK, SyncTypeOK, RegistryTypeOK, Job
  <2>2. RowKnown' /\ VersionKnown'
    BY DEF TaskInv, RowKnown, VersionKnown, Complete, NewVersion, Unfinished, TypeOK, SyncTypeOK, RegistryTypeOK, Job
  <2>3. JobDistinct'
    BY DEF TaskInv, JobDistinct, Unfinished, TypeOK, SyncTypeOK, Job
  <2> QED BY <2>1, <2>2, <2>3 DEF TaskInv
<1>3. RegistryInv'
  BY RegistryKept
<1>4. QueueKnown'
  BY DEF QueueKnown
<1> QED BY <1>1, <1>2, <1>3, <1>4

\* A Telegram copy is appended; its account leaves the queue.
LEMMA TelegramCopyStep ==
    ASSUME NEW a \in TelegramAccounts, IInv, TelegramCopy(a), VerifyRests
    PROVE  IInv'
<1> USE DEF IInv, VerifyRests, registryVars, userVars
<1>1. /\ a \in Accounts \ job.used
      /\ job.bytes \in Contents
      /\ job \in Job
      /\ AddCopy(a, job.bytes)
      /\ pc \in {"github", "telegram"}
      /\ UNCHANGED <<registryVars, userVars, pc, todo, failures, down, result>>
  BY DEF TelegramCopy, Accounts, TypeOK, SyncTypeOK, Stored, TaskInv, JobSet, JobDistinct
<1>2. /\ job' \in Job
      /\ job'.file = job.file /\ job'.hash = job.hash /\ job'.id = job.id
      /\ job'.row = job.row /\ job'.bytes = job.bytes
      /\ JobDistinct'
  BY <1>1, AddCopyStep DEF TaskInv
<1>3. TypeOK'
  BY <1>1, <1>2 DEF TypeOK, SyncTypeOK, RegistryTypeOK
<1>4. TaskInv'
  BY <1>1, <1>2 DEF TaskInv, JobSet, RowKnown, VersionKnown, Named, Unfinished
<1>5. RegistryInv' /\ QueueKnown'
  BY <1>1, RegistryKept DEF QueueKnown
<1> QED BY <1>2, <1>3, <1>4, <1>5

\* A failed Telegram account leaves the queue.
LEMMA TelegramCopyFailsStep ==
    ASSUME NEW a \in TelegramAccounts, IInv, TelegramCopyFails(a), VerifyRests
    PROVE  IInv'
<1> USE DEF IInv, TelegramCopyFails, CopyFails, Accounts, VerifyRests, registryVars, userVars
<1>1. TypeOK'
  <2>1. a \in Accounts /\ CopyFails(a)
    OBVIOUS
  <2> QED BY <2>1, CopyFailsTyped
<1>2. TaskInv'
  <2>1. JobSet'
    BY DEF TaskInv, JobSet, Named, Unfinished, TypeOK, SyncTypeOK, RegistryTypeOK, Job
  <2>2. RowKnown' /\ VersionKnown'
    BY DEF TaskInv, RowKnown, VersionKnown, Complete, NewVersion, Unfinished, TypeOK, SyncTypeOK, RegistryTypeOK, Job
  <2>3. JobDistinct'
    BY DEF TaskInv, JobDistinct, Unfinished, TypeOK, SyncTypeOK, Job
  <2> QED BY <2>1, <2>2, <2>3 DEF TaskInv
<1>3. RegistryInv'
  BY RegistryKept
<1>4. QueueKnown'
  BY DEF QueueKnown
<1> QED BY <1>1, <1>2, <1>3, <1>4

\* On to saving, or to the failure if nothing was stored.
LEMMA TelegramPhaseEndsStep ==
    ASSUME IInv, TelegramPhaseEnds, VerifyRests
    PROVE  IInv'
<1> USE DEF IInv, TelegramPhaseEnds, AfterCopies, VerifyRests, registryVars, userVars
<1>1. TypeOK'
  BY DEF TypeOK, SyncTypeOK, RegistryTypeOK, Job, Steps
<1>2. TaskInv'
  <2>1. JobSet'
    BY DEF TaskInv, JobSet, Named, Unfinished, TypeOK, SyncTypeOK, RegistryTypeOK, Job
  <2>2. RowKnown' /\ VersionKnown'
    BY DEF TaskInv, RowKnown, VersionKnown, Complete, NewVersion, Unfinished, TypeOK, SyncTypeOK, RegistryTypeOK, Job
  <2>3. JobDistinct'
    BY DEF TaskInv, JobDistinct, Unfinished, TypeOK, SyncTypeOK, Job
  <2> QED BY <2>1, <2>2, <2>3 DEF TaskInv
<1>3. RegistryInv'
  BY RegistryKept
<1>4. QueueKnown'
  BY DEF QueueKnown
<1> QED BY <1>1, <1>2, <1>3, <1>4

\* The copies made so far are dropped.
LEMMA UploadRaisesStep ==
    ASSUME IInv, UploadRaises, VerifyRests
    PROVE  IInv'
<1> USE DEF IInv, UploadRaises, VerifyRests, registryVars, userVars
<1>1. TypeOK'
  BY DEF TypeOK, SyncTypeOK, RegistryTypeOK, Job, Steps
<1>2. TaskInv'
  <2>1. JobSet'
    BY DEF TaskInv, JobSet, Named, Unfinished, TypeOK, SyncTypeOK, RegistryTypeOK, Job
  <2>2. RowKnown' /\ VersionKnown'
    BY DEF TaskInv, RowKnown, VersionKnown, Complete, NewVersion, Unfinished, TypeOK, SyncTypeOK, RegistryTypeOK, Job
  <2>3. JobDistinct'
    BY DEF TaskInv, JobDistinct, Unfinished, TypeOK, SyncTypeOK, Job
  <2> QED BY <2>1, <2>2, <2>3 DEF TaskInv
<1>3. RegistryInv'
  BY RegistryKept
<1>4. QueueKnown'
  BY DEF QueueKnown
<1> QED BY <1>1, <1>2, <1>3, <1>4

\* Only the verification columns change.
LEMMA ClearOldCheckStep ==
    ASSUME IInv, ClearOldCheck, VerifyRests
    PROVE  IInv'
<1> USE DEF IInv, ClearOldCheck, ClearVerification, Visited, NoJob, VerifyRests, registryVars, userVars
<1>1. TypeOK'
  BY NoJobType DEF TypeOK, SyncTypeOK, RegistryTypeOK, Steps
<1>2. TaskInv'
  <2>1. JobSet'
    BY DEF TaskInv, JobSet, Named, Unfinished, TypeOK, SyncTypeOK, RegistryTypeOK, Job
  <2>2. RowKnown' /\ VersionKnown'
    BY DEF TaskInv, RowKnown, VersionKnown, Complete, NewVersion, Unfinished, TypeOK, SyncTypeOK, RegistryTypeOK, Job
  <2>3. JobDistinct'
    BY DEF TaskInv, JobDistinct, Unfinished, TypeOK, SyncTypeOK, Job
  <2> QED BY <2>1, <2>2, <2>3 DEF TaskInv
<1>3. RegistryInv'
  BY RegistryKept
<1>4. QueueKnown'
  BY DEF QueueKnown
<1> QED BY <1>1, <1>2, <1>3, <1>4

-----------------------------------------------------------------------------
(* Steps of the sync task that write rows *)

\* An unchanged file: touch_file.
LEMMA SkipUnchangedStep ==
    ASSUME IInv, SkipUnchanged, VerifyRests
    PROVE  IInv'
<1> USE DEF IInv, SkipUnchanged, Visited, VerifyRests, userVars
<1>1. /\ job.file \in Files /\ rows[job.file] # Null
      /\ rows \in [Files -> Row \union {Null}]
      /\ rows[job.file] \in Row
      /\ job.stamp \in Nat
  BY DEF Unchanged, TypeOK, SyncTypeOK, RegistryTypeOK, TaskInv, JobSet, RowKnown, Job
<1>2. rows' = [rows EXCEPT ![job.file] = [rows[job.file] EXCEPT !.stamp = job.stamp, !.present = TRUE]]
  BY <1>1 DEF TouchFile
<1>3. /\ rows' \in [Files -> Row \union {Null}]
      /\ \A f \in Files : SameRow(f)
  BY <1>1, <1>2, NullAssumption DEF Row, SameRow
<1>4. TypeOK'
  BY <1>1, <1>3, NoJobType DEF TypeOK, SyncTypeOK, RegistryTypeOK, TouchFile, Steps
<1>5. TaskInv'
  BY DEF TaskInv, JobSet, RowKnown, VersionKnown, JobDistinct, Named, Unfinished
<1>6. RegistryInv'
  BY <1>3, RowsKept
<1>7. QueueKnown'
  BY <1>3 DEF QueueKnown, SameRow, TypeOK, Target, Rows
<1> QED BY <1>4, <1>5, <1>6, <1>7

\* The end of the walk: mark_absent_except_run.
LEMMA EndSyncStep ==
    ASSUME IInv, EndSync, VerifyRests
    PROVE  IInv'
<1> USE DEF IInv, EndSync, VerifyRests, userVars
<1>1. rows \in [Files -> Row \union {Null}]
  BY DEF TypeOK, SyncTypeOK, RegistryTypeOK
<1>2. /\ rows' \in [Files -> Row \union {Null}]
      /\ \A f \in Files : SameRow(f)
  BY <1>1, NullAssumption DEF Row, SameRow, MarkAbsentExceptRun
<1>3. TypeOK'
  BY <1>2 DEF TypeOK, SyncTypeOK, RegistryTypeOK, Steps
<1>4. TaskInv'
  BY DEF TaskInv, JobSet, RowKnown, VersionKnown, JobDistinct, Named, Unfinished
<1>5. RegistryInv'
  BY <1>2, RowsKept
<1>6. QueueKnown'
  BY <1>2 DEF QueueKnown, SameRow, TypeOK, Target, Rows
<1> QED BY <1>3, <1>4, <1>5, <1>6

\* What an upsert leaves in the table (upsert_file).
LEMMA UpsertRow ==
    ASSUME rows \in [Files -> Row \union {Null}],
           NEW f \in Files, NEW stamp \in Nat, NEW hash \in Contents,
           NEW id \in VersionIds \union {Null}, NEW status \in Status,
           id = Null => rows[f] # Null,
           UpsertFile(f, stamp, hash, id, status)
    PROVE  /\ rows' \in [Files -> Row \union {Null}]
           /\ \A g \in Files : g # f => rows'[g] = rows[g]
           /\ rows'[f] # Null
           /\ rows'[f].hash = hash
           /\ rows'[f].status = status
           /\ rows'[f].version = IF id = Null THEN rows[f].version ELSE id
           /\ rows'[f].version \in VersionIds
           /\ seen' = seen \union {f}
<1> DEFINE v == IF id = Null THEN rows[f].version ELSE id
           r == [hash |-> hash, stamp |-> stamp, version |-> v, status |-> status,
                 present |-> TRUE]
<1>1. v \in VersionIds
  BY DEF Row
<1>2. r \in Row
  BY <1>1 DEF Row
<1>3. rows' = [rows EXCEPT ![f] = r] /\ seen' = seen \union {f}
  BY DEF UpsertFile
<1> HIDE DEF v
<1>4. r.hash = hash /\ r.status = status /\ r.version = v
  OBVIOUS
<1> HIDE DEF r
<1>5. rows'[f] = r /\ \A g \in Files : g # f => rows'[g] = rows[g]
  BY <1>3
<1>6. v = IF id = Null THEN rows[f].version ELSE id
  BY DEF v
<1> QED BY <1>1, <1>2, <1>3, <1>4, <1>5, <1>6, NullAssumption

\* An upsert keeps the registry part if the id it writes goes with the content
\* it writes and, for a complete row, with a replicated version.
LEMMA UpsertKeeps ==
    ASSUME RegistryInv, rows \in [Files -> Row \union {Null}],
           NEW f \in Files, NEW h \in Contents, NEW v \in VersionIds,
           UNCHANGED <<versions, uploaded>>,
           \A g \in Files : g # f => rows'[g] = rows[g],
           rows'[f] # Null, rows'[f].hash = h, rows'[f].version = v,
           \A c \in Contents : Names(v, c) => c = h,
           rows'[f].status = "complete" =>
               /\ versions[f][v] # Null
               /\ versions[f][v].hash = h
               /\ Replicated(versions[f][v])
    PROVE  RegistryInv'
<1> USE DEF RegistryInv
<1>1. SavedDistinct' /\ IndexSaved' /\ DedupIndexIsReplicated'
  BY DEF SavedDistinct, IndexSaved, DedupIndexIsReplicated
<1>2. ASSUME NEW w \in VersionIds, NEW c \in Contents, Names(w, c)'
      PROVE  Names(w, c) \/ (w = v /\ c = h)
  BY <1>2 DEF Names
<1>3. OneContentPerId'
  BY <1>2 DEF OneContentPerId
<1>4. CompleteIsReplicated'
  BY DEF CompleteIsReplicated, IsComplete, ActiveVersion
<1> QED BY <1>1, <1>3, <1>4

\* Case 2 of the loop: the row is completed again on its own version.
LEMMA MetadataOnlyStep ==
    ASSUME IInv, MetadataOnly, VerifyRests
    PROVE  IInv'
<1> USE DEF IInv, MetadataOnly, Visited, VerifyRests, userVars
<1> DEFINE f == job.file  v == rows[f].version
<1>1. /\ f \in Files /\ job.hash \in Contents /\ job.stamp \in Nat
      /\ rows \in [Files -> Row \union {Null}]
      /\ rows[f] # Null
      /\ v \in VersionIds /\ v # Null
      /\ rows[f].hash = job.hash
      /\ versions[f][v] # Null /\ Replicated(versions[f][v])
  BY NullAssumption DEF OwnVersionComplete, SameHash, ActiveVersion, TypeOK, SyncTypeOK,
     RegistryTypeOK, TaskInv, JobSet, RowKnown, Job, Row
<1>2. UpsertFile(f, job.stamp, job.hash, v, "complete") /\ "complete" \in Status
  BY DEF Status
<1>3. /\ rows' \in [Files -> Row \union {Null}]
      /\ \A g \in Files : g # f => rows'[g] = rows[g]
      /\ rows'[f] # Null
      /\ rows'[f].hash = job.hash
      /\ rows'[f].version = v
      /\ seen' = seen \union {f}
  BY <1>1, <1>2, UpsertRow
<1>4. \A c \in Contents : Names(v, c) => c = job.hash
  BY <1>1 DEF RegistryInv, OneContentPerId, Names
<1>5. versions[f][v].hash = job.hash
  BY <1>1, <1>4 DEF Names, TypeOK, SyncTypeOK, RegistryTypeOK, Version
<1>6. RegistryInv'
  BY <1>1, <1>3, <1>4, <1>5, UpsertKeeps
<1>7. TypeOK'
  BY <1>1, <1>3, NoJobType DEF TypeOK, SyncTypeOK, RegistryTypeOK, Steps
<1>8. TaskInv'
  BY DEF TaskInv, JobSet, RowKnown, VersionKnown, JobDistinct, Named, Unfinished
<1>9. QueueKnown'
  BY <1>3 DEF QueueKnown, TypeOK, Target, Rows
<1> QED BY <1>6, <1>7, <1>8, <1>9

\* The second statement of _adopt_version: the version is saved already.
LEMMA AdoptRowStep ==
    ASSUME IInv, AdoptRow, VerifyRests
    PROVE  IInv'
<1> USE DEF IInv, AdoptRow, VerifyRests, userVars
<1> DEFINE f == job.file  v == job.id
<1>1. /\ f \in Files /\ job.hash \in Contents /\ job.stamp \in Nat
      /\ rows \in [Files -> Row \union {Null}]
      /\ v \in VersionIds /\ v # Null
      /\ versions[f][v] # Null
      /\ versions[f][v].hash = job.hash
      /\ Replicated(versions[f][v])
  BY NullAssumption DEF TypeOK, SyncTypeOK, RegistryTypeOK, TaskInv, JobSet, VersionKnown,
     Job, Named
<1>2. UpsertFile(f, job.stamp, job.hash, v, "complete") /\ "complete" \in Status
  BY DEF Status
<1>3. /\ rows' \in [Files -> Row \union {Null}]
      /\ \A g \in Files : g # f => rows'[g] = rows[g]
      /\ rows'[f] # Null
      /\ rows'[f].hash = job.hash
      /\ rows'[f].version = v
      /\ seen' = seen \union {f}
  BY <1>1, <1>2, UpsertRow
<1>4. \A c \in Contents : Names(v, c) => c = job.hash
  BY <1>1 DEF RegistryInv, OneContentPerId, Names
<1>5. RegistryInv'
  BY <1>1, <1>3, <1>4, UpsertKeeps
<1>6. TypeOK'
  BY <1>1, <1>3 DEF TypeOK, SyncTypeOK, RegistryTypeOK, Steps
<1>7. TaskInv'
  BY <1>1 DEF TaskInv, JobSet, RowKnown, VersionKnown, JobDistinct, Named, Unfinished
<1>8. QueueKnown'
  BY <1>3 DEF QueueKnown, TypeOK, Target, Rows
<1> QED BY <1>5, <1>6, <1>7, <1>8

\* _record_file_failure keeps the version id of the row (COALESCE).
LEMMA RecordFailureStep ==
    ASSUME IInv, RecordFailure, VerifyRests
    PROVE  IInv'
<1> USE DEF IInv, RecordFailure, Visited, VerifyRests, userVars
<1> DEFINE f == job.file  v == job.id
<1>1. /\ f \in Files /\ job.hash \in Contents /\ job.stamp \in Nat
      /\ rows \in [Files -> Row \union {Null}]
      /\ v \in VersionIds
      /\ rows[f] # Null /\ rows[f].hash = job.hash /\ rows[f].version = v
  BY DEF TypeOK, SyncTypeOK, RegistryTypeOK, TaskInv, JobSet, RowKnown, Job, Named, Unfinished
<1>2. UpsertFile(f, job.stamp, job.hash, v, "error") /\ "error" \in Status
  BY <1>1, NullAssumption DEF Status, UpsertFile
<1>3. /\ rows' \in [Files -> Row \union {Null}]
      /\ \A g \in Files : g # f => rows'[g] = rows[g]
      /\ rows'[f] # Null
      /\ rows'[f].hash = job.hash
      /\ rows'[f].version = v
      /\ rows'[f].status = "error"
      /\ seen' = seen \union {f}
  BY <1>1, <1>2, UpsertRow
<1>4. \A c \in Contents : Names(v, c) => c = job.hash
  BY <1>1 DEF RegistryInv, OneContentPerId, Names
<1>5. RegistryInv'
  BY <1>1, <1>3, <1>4, UpsertKeeps
<1>6. TypeOK'
  BY <1>1, <1>3, NoJobType DEF TypeOK, SyncTypeOK, RegistryTypeOK, Steps
<1>7. TaskInv'
  BY DEF TaskInv, JobSet, RowKnown, VersionKnown, JobDistinct, Named, Unfinished
<1>8. QueueKnown'
  BY <1>3 DEF QueueKnown, TypeOK, Target, Rows
<1> QED BY <1>5, <1>6, <1>7, <1>8

\* A list without repeated accounts and of full length is fully replicated.
LEMMA NewVersionReplicated ==
    ASSUME job \in Job, DistinctHolders(job.copies), Complete
    PROVE  Replicated(NewVersion)
<1>1. job.copies \in Seq(Copy)
  BY DEF Job
<1>2. DistinctAccountCopies(job.copies) = Len(job.copies)
  BY <1>1, DistinctCount
<1> QED BY <1>2 DEF Replicated, NewVersion, Complete

\* The row is completed only if the version just saved is replicated.
LEMMA FinishRowStep ==
    ASSUME IInv, FinishRow, VerifyRests
    PROVE  IInv'
<1> USE DEF IInv, FinishRow, VerifyRests, userVars
<1> DEFINE f == job.file  v == job.id  s == IF Complete THEN "complete" ELSE "error"
<1>1. /\ f \in Files /\ job.hash \in Contents /\ job.stamp \in Nat
      /\ rows \in [Files -> Row \union {Null}]
      /\ v \in VersionIds /\ v # Null
      /\ rows[f] # Null /\ rows[f].hash = job.hash /\ rows[f].version = v
      /\ versions[f][v] = NewVersion
      /\ versions[f][v] # Null
      /\ job \in Job
  <2>1. /\ f \in Files /\ job.hash \in Contents /\ job.stamp \in Nat
        /\ rows \in [Files -> Row \union {Null}]
        /\ v \in VersionIds /\ v # Null
        /\ rows[f] # Null /\ rows[f].hash = job.hash /\ rows[f].version = v
        /\ versions[f][v] = NewVersion
        /\ job \in Job
    BY NullAssumption DEF TypeOK, SyncTypeOK, RegistryTypeOK, TaskInv, JobSet, RowKnown,
       VersionKnown, Job, Named, Unfinished
  <2>2. NewVersion \in Version
    BY <2>1 DEF NewVersion, Version, Job
  <2> QED BY <2>1, <2>2, NullAssumption
<1>2. UpsertFile(f, job.stamp, job.hash, v, s) /\ s \in Status
  BY DEF Status
<1>3. /\ rows' \in [Files -> Row \union {Null}]
      /\ \A g \in Files : g # f => rows'[g] = rows[g]
      /\ rows'[f] # Null
      /\ rows'[f].hash = job.hash
      /\ rows'[f].version = v
      /\ rows'[f].status = s
      /\ seen' = seen \union {f}
  BY <1>1, <1>2, UpsertRow
<1>4. \A c \in Contents : Names(v, c) => c = job.hash
  BY <1>1 DEF RegistryInv, OneContentPerId, Names
<1>5. s = "complete" => Replicated(NewVersion)
  BY <1>1, NewVersionReplicated DEF TaskInv, JobDistinct, Unfinished
<1>6. NewVersion.hash = job.hash
  BY DEF NewVersion
<1>7. RegistryInv'
  BY <1>1, <1>3, <1>4, <1>5, <1>6, UpsertKeeps
<1>8. TypeOK'
  BY <1>1, <1>3 DEF TypeOK, SyncTypeOK, RegistryTypeOK, Steps
<1>9. TaskInv'
  BY <1>1 DEF TaskInv, JobSet, RowKnown, VersionKnown, JobDistinct, Named, Unfinished, NewVersion
<1>10. QueueKnown'
  BY <1>3 DEF QueueKnown, TypeOK, Target, Rows
<1> QED BY <1>7, <1>8, <1>9, <1>10

\* Only a version that was saved for this row is resumed: a content the index
\* knows is fully replicated, so it is adopted instead.
LEMMA BaseIsOwn ==
    ASSUME TypeOK, RegistryInv, ~OwnVersionComplete, ~StoredElsewhere, job.hash \in Contents
    PROVE  OwnPartial = Null => Base = Null
BY DEF RegistryInv, DedupIndexIsReplicated, StoredElsewhere, Base

\* The id that is resumed or minted names no other content.
LEMMA BeginUploadStep ==
    ASSUME IInv, BeginUpload, VerifyRests
    PROVE  IInv'
<1> USE DEF IInv, VerifyRests, userVars
<1> DEFINE f == job.file
           kept == IF Base = Null THEN <<>> ELSE Base.version.copies
<1>1. PICK id \in AttemptIds :
         /\ UpsertFile(f, job.stamp, job.hash, id, "uploading")
         /\ job' = [job EXCEPT !.id = id, !.copies = kept, !.used = HoldersOf(kept)]
  BY DEF BeginUpload
<1>2. /\ pc = "match" /\ pc' = "github"
      /\ UNCHANGED <<checks, versions, uploaded, userVars, todo, failures, down, result>>
      /\ OwnPartial = Null => Base = Null
      /\ f \in Files /\ job.hash \in Contents /\ job.stamp \in Nat /\ job \in Job
      /\ rows \in [Files -> Row \union {Null}]
      /\ versions \in [Files -> [VersionIds -> Version \union {Null}]]
  BY BaseIsOwn DEF BeginUpload, TypeOK, SyncTypeOK, RegistryTypeOK, TaskInv, JobSet, Job
<1>3. /\ id \in VersionIds
      /\ \A c \in Contents : Names(id, c) => c = job.hash
      /\ kept \in Seq(Copy) /\ DistinctHolders(kept)
  <2>1. CASE OwnPartial # Null
    <3>1. /\ rows[f] # Null /\ rows[f] \in Row
          /\ rows[f].hash = job.hash
          /\ OwnPartial = versions[f][rows[f].version]
      BY <1>2, <2>1 DEF OwnPartial, SameHash, ActiveVersion, TaskInv, RowKnown
    <3>2. rows[f].version \in VersionIds /\ OwnPartial \in Version
      BY <1>2, <2>1, <3>1 DEF Row
    <3>3. Base = [id |-> rows[f].version, version |-> OwnPartial] /\ Base \in Indexed
      BY <2>1, <3>2 DEF Base, Indexed
    <3>4. Base # Null /\ Base.id = rows[f].version /\ Base.version = OwnPartial
      BY <3>3, NullAssumption
    <3>5. id = rows[f].version /\ kept = OwnPartial.copies
      BY <3>4 DEF AttemptIds
    <3>6. kept \in Seq(Copy) /\ DistinctHolders(kept)
      BY <1>2, <2>1, <3>1, <3>2, <3>5 DEF Version, RegistryInv, SavedDistinct
    <3> QED BY <1>2, <3>1, <3>2, <3>5, <3>6 DEF RegistryInv, OneContentPerId, Names
  <2>2. CASE OwnPartial = Null
    <3>1. kept = <<>> /\ kept \in Seq(Copy) /\ DistinctHolders(kept)
      BY <1>2, <2>2 DEF DistinctHolders
    <3>2. CASE SameHash
      <4>1. id = rows[f].version /\ rows[f] # Null /\ rows[f].hash = job.hash /\ id \in VersionIds
        BY <1>2, <2>2, <3>2 DEF AttemptIds, SameHash, TaskInv, RowKnown, Row
      <4> QED BY <1>2, <3>1, <4>1 DEF RegistryInv, OneContentPerId, Names
    <3>3. CASE ~SameHash
      <4>1. id \in VersionIds \ Minted
        BY <1>2, <2>2, <3>3 DEF AttemptIds
      <4>2. \A c \in Contents : ~Names(id, c)
        BY <4>1 DEF Minted, Names
      <4> QED BY <3>1, <4>1, <4>2
    <3> QED BY <3>2, <3>3
  <2> QED BY <2>1, <2>2
<1> HIDE DEF kept
<1>4. id # Null
  BY <1>3, NullAssumption
<1>5. "uploading" \in Status /\ "uploading" # "complete"
  BY DEF Status
<1>6. /\ rows' \in [Files -> Row \union {Null}]
      /\ \A g \in Files : g # f => rows'[g] = rows[g]
      /\ rows'[f] # Null
      /\ rows'[f].hash = job.hash
      /\ rows'[f].version = id
      /\ rows'[f].status = "uploading"
      /\ seen' = seen \union {f}
  BY <1>1, <1>2, <1>3, <1>4, <1>5, UpsertRow
<1>7. RegistryInv'
  BY <1>2, <1>3, <1>5, <1>6, UpsertKeeps
<1>8. HoldersOf(kept) \in SUBSET Accounts
  BY <1>3, HoldersAreAccounts
<1>9. job' \in Job
  BY <1>1, <1>2, <1>3, <1>8 DEF Job
<1>10. /\ job'.file = f /\ job'.hash = job.hash /\ job'.id = id
       /\ job'.copies = kept /\ job'.used = HoldersOf(kept)
  BY <1>1, <1>2 DEF Job
<1>11. TypeOK'
  BY <1>2, <1>6, <1>9 DEF TypeOK, SyncTypeOK, RegistryTypeOK, Steps
<1>12. TaskInv'
  BY <1>2, <1>3, <1>5, <1>6, <1>10 DEF TaskInv, JobSet, RowKnown, VersionKnown, JobDistinct,
     Named, Unfinished
<1>13. QueueKnown'
  BY <1>6 DEF QueueKnown, TypeOK, Target, Rows
<1> QED BY <1>7, <1>11, <1>12, <1>13

-----------------------------------------------------------------------------
(* Steps of the sync task that save a version or index one *)

\* A save keeps the registry part if it goes with the content of its id.
LEMMA SaveKeeps ==
    ASSUME RegistryInv, versions \in [Files -> [VersionIds -> Version \union {Null}]],
           rows \in [Files -> Row \union {Null}],
           uploaded \in [Contents -> Indexed \union {Null}],
           NEW f \in Files, NEW v \in VersionIds, NEW version \in Version,
           SaveVersion(f, v, version), UNCHANGED <<rows, uploaded>>,
           DistinctHolders(version.copies),
           \A c \in Contents : Names(v, c) => c = version.hash,
           rows[f] # Null /\ rows[f].status = "complete" /\ rows[f].version = v
               => Replicated(version)
    PROVE  /\ RegistryInv'
           /\ versions' \in [Files -> [VersionIds -> Version \union {Null}]]
           /\ versions'[f][v] = version
           /\ \A g \in Files, w \in VersionIds :
                 g # f \/ w # v => versions'[g][w] = versions[g][w]
<1> USE DEF RegistryInv
<1>1. version # Null /\ version.hash \in Contents
  BY NullAssumption DEF Version
<1>2. /\ versions' \in [Files -> [VersionIds -> Version \union {Null}]]
      /\ versions'[f][v] = version
      /\ \A g \in Files, w \in VersionIds :
            g # f \/ w # v => versions'[g][w] = versions[g][w]
  BY DEF SaveVersion
<1>3. SavedDistinct'
  BY <1>2 DEF SavedDistinct
<1>4. ASSUME NEW w \in VersionIds, NEW c \in Contents, Names(w, c)'
      PROVE  Names(w, c) \/ (w = v /\ c = version.hash)
  BY <1>2, <1>4 DEF Names
<1>5. OneContentPerId'
  BY <1>4 DEF OneContentPerId
<1>6. ASSUME NEW g \in Files, NEW w \in VersionIds, NEW c \in Contents,
             versions[g][w] # Null, versions[g][w].hash = c
      PROVE  versions'[g][w] # Null /\ versions'[g][w].hash = c
  BY <1>1, <1>2, <1>6 DEF Names
<1>7. IndexSaved'
  <2> SUFFICES ASSUME NEW h \in Contents, uploaded[h] # Null,
                      uploaded[h].id \in VersionIds
               PROVE  \E g \in Files : /\ versions'[g][uploaded[h].id] # Null
                                      /\ versions'[g][uploaded[h].id].hash = h
    BY DEF IndexSaved, Indexed
  <2>1. PICK g \in Files : /\ versions[g][uploaded[h].id] # Null
                           /\ versions[g][uploaded[h].id].hash = h
    BY DEF IndexSaved
  <2> QED BY <1>6, <2>1
<1>8. DedupIndexIsReplicated'
  BY DEF DedupIndexIsReplicated
<1>9. CompleteIsReplicated'
  <2> SUFFICES ASSUME NEW g \in Files, IsComplete(g)
               PROVE  /\ versions'[g][rows[g].version] # Null
                      /\ versions'[g][rows[g].version].hash = rows[g].hash
                      /\ Replicated(versions'[g][rows[g].version])
    BY DEF CompleteIsReplicated, IsComplete, ActiveVersion
  <2>1. /\ rows[g] # Null /\ rows[g] \in Row /\ rows[g].status = "complete"
        /\ versions[g][rows[g].version] # Null
        /\ versions[g][rows[g].version].hash = rows[g].hash
        /\ Replicated(versions[g][rows[g].version])
    BY DEF CompleteIsReplicated, IsComplete, ActiveVersion
  <2>2. rows[g].version \in VersionIds /\ rows[g].hash \in Contents
    BY <2>1 DEF Row
  <2>3. CASE g = f /\ rows[g].version = v
    BY <1>1, <1>2, <2>1, <2>2, <2>3 DEF Names
  <2>4. CASE ~(g = f /\ rows[g].version = v)
    BY <1>2, <2>1, <2>2, <2>4
  <2> QED BY <2>3, <2>4
<1> QED BY <1>2, <1>3, <1>5, <1>7, <1>8, <1>9

\* The indexed version is saved for one more file, under its own content.
LEMMA AdoptVersionStep ==
    ASSUME IInv, AdoptVersion, VerifyRests
    PROVE  IInv'
<1> USE DEF IInv, VerifyRests, userVars
<1> DEFINE f == job.file  u == uploaded[job.hash]
<1>1. /\ pc = "match" /\ pc' = "adopt"
      /\ UNCHANGED <<rows, checks, uploaded, seen, userVars, todo, failures, down, result>>
      /\ SaveVersion(f, u.id, u.version)
      /\ job' = [job EXCEPT !.id = u.id]
      /\ f \in Files /\ job.hash \in Contents /\ job \in Job
      /\ u # Null /\ u \in Indexed
      /\ Replicated(u.version)
      /\ rows \in [Files -> Row \union {Null}]
      /\ versions \in [Files -> [VersionIds -> Version \union {Null}]]
      /\ uploaded \in [Contents -> Indexed \union {Null}]
  BY DEF AdoptVersion, StoredElsewhere, TypeOK, SyncTypeOK, RegistryTypeOK, TaskInv, JobSet
<1>2. /\ u.id \in VersionIds /\ u.version \in Version /\ u.version.hash = job.hash
      /\ DistinctHolders(u.version.copies)
      /\ Names(u.id, job.hash)
  BY <1>1 DEF Indexed, RegistryInv, DedupIndexIsReplicated, SavedDistinct, IndexSaved, Names
<1>3. \A c \in Contents : Names(u.id, c) => c = job.hash
  BY <1>1, <1>2 DEF RegistryInv, OneContentPerId
<1>4. /\ RegistryInv'
      /\ versions' \in [Files -> [VersionIds -> Version \union {Null}]]
      /\ versions'[f][u.id] = u.version
  BY <1>1, <1>2, <1>3, SaveKeeps
<1>5. /\ job' \in Job
      /\ job'.file = f /\ job'.hash = job.hash /\ job'.id = u.id
  BY <1>1, <1>2 DEF Job
<1>6. u.version # Null
  BY <1>2, NullAssumption
<1>7. TypeOK'
  BY <1>1, <1>4, <1>5 DEF TypeOK, SyncTypeOK, RegistryTypeOK, Steps
<1>8. TaskInv'
  BY <1>1, <1>2, <1>4, <1>5, <1>6 DEF TaskInv, JobSet, RowKnown, VersionKnown, JobDistinct,
     Named, Unfinished
<1>9. QueueKnown'
  BY <1>1 DEF QueueKnown
<1> QED BY <1>4, <1>7, <1>8, <1>9

\* The version is saved while its row still says `uploading`.
LEMMA SaveNewVersionStep ==
    ASSUME IInv, SaveNewVersion, VerifyRests
    PROVE  IInv'
<1> USE DEF IInv, VerifyRests, userVars
<1> DEFINE f == job.file
<1>1. /\ pc = "save" /\ pc' = "finish"
      /\ UNCHANGED <<rows, checks, uploaded, seen, userVars, todo, job, failures, down, result>>
      /\ SaveVersion(f, job.id, NewVersion)
      /\ f \in Files /\ job.hash \in Contents /\ job.id \in VersionIds /\ job \in Job
      /\ rows[f] # Null /\ rows[f].status # "complete"
      /\ rows[f].hash = job.hash /\ rows[f].version = job.id
      /\ DistinctHolders(job.copies)
      /\ rows \in [Files -> Row \union {Null}]
      /\ versions \in [Files -> [VersionIds -> Version \union {Null}]]
      /\ uploaded \in [Contents -> Indexed \union {Null}]
  BY DEF SaveNewVersion, TypeOK, SyncTypeOK, RegistryTypeOK, TaskInv, JobSet, RowKnown,
     JobDistinct, Named, Unfinished
<1>2. /\ NewVersion \in Version /\ NewVersion.hash = job.hash
      /\ NewVersion.copies = job.copies
  BY <1>1 DEF NewVersion, Version, Job
<1>3. \A c \in Contents : Names(job.id, c) => c = job.hash
  BY <1>1 DEF RegistryInv, OneContentPerId, Names
<1>4. /\ RegistryInv'
      /\ versions' \in [Files -> [VersionIds -> Version \union {Null}]]
      /\ versions'[f][job.id] = NewVersion
  BY <1>1, <1>2, <1>3, SaveKeeps
<1>5. TypeOK'
  BY <1>1, <1>4 DEF TypeOK, SyncTypeOK, RegistryTypeOK, Steps
<1>6. TaskInv'
  BY <1>1, <1>4 DEF TaskInv, JobSet, RowKnown, VersionKnown, JobDistinct, Named, Unfinished,
     NewVersion
<1>7. QueueKnown'
  BY <1>1 DEF QueueKnown
<1> QED BY <1>4, <1>5, <1>6, <1>7

\* Only a complete version is indexed.
LEMMA RecordUploadedStep ==
    ASSUME IInv, RecordUploaded, VerifyRests
    PROVE  IInv'
<1> USE DEF IInv, VerifyRests, userVars
<1> DEFINE f == job.file  h == job.hash  u == [id |-> job.id, version |-> NewVersion]
<1>1. /\ pc = "record" /\ pc' = "walk" /\ job' = NoJob
      /\ UNCHANGED <<rows, checks, versions, seen, userVars, todo, failures, down, result>>
      /\ uploaded' = [uploaded EXCEPT ![h] = u]
      /\ f \in Files /\ h \in Contents /\ job.id \in VersionIds /\ job \in Job
      /\ versions[f][job.id] = NewVersion
      /\ Complete
      /\ uploaded \in [Contents -> Indexed \union {Null}]
  BY DEF RecordUploaded, RecordUploadedVersion, Visited, TypeOK, SyncTypeOK, RegistryTypeOK,
     TaskInv, JobSet, VersionKnown, Named
<1>2. /\ NewVersion \in Version /\ NewVersion.hash = h
      /\ NewVersion.copies = job.copies
      /\ NewVersion # Null
  BY <1>1, NullAssumption DEF NewVersion, Version, Job
<1>3. DistinctHolders(job.copies)
  BY <1>1, <1>2 DEF RegistryInv, SavedDistinct
<1>4. Replicated(NewVersion)
  BY <1>1, <1>3, NewVersionReplicated
<1>5. u \in Indexed /\ u.id = job.id /\ u.version = NewVersion
  BY <1>1, <1>2 DEF Indexed
<1> HIDE DEF u
<1>6. /\ uploaded' \in [Contents -> Indexed \union {Null}]
      /\ uploaded'[h] = u
      /\ \A c \in Contents : c # h => uploaded'[c] = uploaded[c]
  BY <1>1, <1>5
<1>7. RegistryInv'
  <2>1. SavedDistinct'
    BY <1>1, <1>2, <1>3, <1>5, <1>6 DEF RegistryInv, SavedDistinct
  <2>2. IndexSaved'
    BY <1>1, <1>2, <1>5, <1>6 DEF RegistryInv, IndexSaved
  <2>3. DedupIndexIsReplicated'
    BY <1>1, <1>2, <1>4, <1>5, <1>6 DEF RegistryInv, DedupIndexIsReplicated
  <2>4. OneContentPerId' /\ CompleteIsReplicated'
    BY <1>1 DEF RegistryInv, OneContentPerId, Names, CompleteIsReplicated, IsComplete,
       ActiveVersion
  <2> QED BY <2>1, <2>2, <2>3, <2>4 DEF RegistryInv
<1>8. TypeOK'
  BY <1>1, <1>6, NoJobType DEF TypeOK, SyncTypeOK, RegistryTypeOK, Steps
<1>9. TaskInv'
  BY <1>1 DEF TaskInv, JobSet, RowKnown, VersionKnown, JobDistinct, Named, Unfinished
<1>10. QueueKnown'
  BY <1>1 DEF QueueKnown
<1> QED BY <1>7, <1>8, <1>9, <1>10

\* Every step of the sync task keeps the invariant.
LEMMA SyncTaskStep ==
    ASSUME IInv, SyncTask
    PROVE  IInv'
<1>1. VerifyRests
  BY DEF SyncTask, VerifyRests, IInv, TypeOK
<1>2. CASE Commit
  BY <1>1, <1>2, StartSyncStep, EndSyncStep, SkipUnchangedStep, MetadataOnlyStep,
     AdoptVersionStep, AdoptRowStep, AdoptClearStep, BeginUploadStep, GitHubCopyStep,
     RecordFailureStep, SaveNewVersionStep, FinishRowStep, ClearOldCheckStep,
     RecordUploadedStep DEF Commit
<1>3. CASE NoCommit
  BY <1>1, <1>3, StatFailsStep, StatFileStep, HashFileStep, HashRaisesStep,
     GitHubPhaseEndsStep, EnterTelegramStep, TelegramPhaseEndsStep, UploadRaisesStep,
     TelegramCopyStep, TelegramCopyFailsStep DEF NoCommit
<1>4. CASE MayCommit
  BY <1>1, <1>4, GitHubCopyFailsStep DEF MayCommit
<1> QED BY <1>2, <1>3, <1>4 DEF SyncTask

-----------------------------------------------------------------------------
(* Verify, the user, the process *)

\* mark_missing only clears `present`.
LEMMA RecordMissingStep ==
    ASSUME IInv, RecordMissing
    PROVE  IInv'
<1> USE DEF IInv, RecordMissing, taskVars, userVars
<1>1. /\ visit[1] \in Files /\ rows[visit[1]] # Null
      /\ rows \in [Files -> Row \union {Null}]
  BY DEF Target, QueueKnown, TypeOK, SyncTypeOK, RegistryTypeOK
<1>2. /\ rows' \in [Files -> Row \union {Null}]
      /\ \A f \in Files : SameRow(f)
  BY <1>1, NullAssumption DEF Row, SameRow, MarkMissing
<1>3. TypeOK'
  BY <1>2 DEF TypeOK, SyncTypeOK, RegistryTypeOK
<1>4. TaskInv'
  BY <1>1, <1>2 DEF TaskInv, JobSet, RowKnown, VersionKnown, JobDistinct, SameRow, Unfinished, Named, NewVersion, Complete
<1>5. RegistryInv'
  BY <1>2, RowsKept
<1>6. QueueKnown'
  BY <1>2 DEF QueueKnown, SameRow, TypeOK, Target, Rows
<1> QED BY <1>3, <1>4, <1>5, <1>6

\* What the sync task knows depends on its locals and two tables only.
LEMMA TaskKept ==
    ASSUME TaskInv, UNCHANGED <<rows, versions, pc, job>>
    PROVE  TaskInv'
BY DEF TaskInv, JobSet, RowKnown, VersionKnown, JobDistinct, NewVersion, Complete

\* What get_active_version returns is a version id.
LEMMA VersionRead ==
    ASSUME TypeOK, NEW row \in Rows, row[1] \in Files
    PROVE  /\ SavedVersion(row[1]) \in VersionIds \union {Null}
           /\ ReadVersion(row) \in VersionIds \union {Null}
<1>1. SavedVersion(row[1]) \in VersionIds \union {Null}
  BY DEF SavedVersion, ActiveVersion, Row, TypeOK, SyncTypeOK, RegistryTypeOK
<1> QED BY <1>1 DEF ReadVersion, Rows

\* Every step of verify keeps the invariant.
LEMMA VerifyTaskStep ==
    ASSUME IInv, VerifyStep
    PROVE  IInv'
<1> USE DEF IInv, registryVars, taskVars, userVars, syncVars
<1>1. ASSUME NEW thread \in Verifiers, OpenCursor(thread)
      PROVE  IInv'
  <2>1. \A f \in Files : SavedVersion(f) \in VersionIds \union {Null}
    BY DEF SavedVersion, ActiveVersion, Row, TypeOK, SyncTypeOK, RegistryTypeOK
  <2>2. queue' \subseteq Rows /\ \A t \in queue' : rows[t[1]] # Null
    BY <1>1, <2>1 DEF OpenCursor, PresentRows, Rows
  <2>3. TypeOK'
    BY <1>1, <2>2 DEF OpenCursor, OnDisk, TypeOK, SyncTypeOK, RegistryTypeOK
  <2>4. QueueKnown'
    BY <1>1, <2>2 DEF OpenCursor, QueueKnown
  <2> QED BY <1>1, <2>3, <2>4, TaskKept, RegistryKept DEF OpenCursor
<1>2. CASE EndVerify \/ CheckRaises \/ DatabaseLocked
  <2>1. TypeOK' /\ QueueKnown'
    BY <1>2 DEF EndVerify, CheckRaises, DatabaseLocked, Stop, TypeOK, SyncTypeOK,
       RegistryTypeOK, QueueKnown
  <2> QED BY <1>2, <2>1, TaskKept, RegistryKept DEF EndVerify, CheckRaises, DatabaseLocked
<1>3. CASE RecordCheck
  <2>1. PICK ok \in Verdicts(visit) : RecordVerification(visit[1], ok, visit[2])
    BY <1>3 DEF RecordCheck
  <2>2. ok \in BOOLEAN /\ visit[1] \in Files /\ visit[2] \in VersionIds
    BY <1>3, <2>1 DEF RecordCheck, Verdicts, QueueKnown, TypeOK, Target
  <2>3. checks' \in [Files -> Check \union {Null}]
    BY <2>1, <2>2 DEF RecordVerification, Check, TypeOK, SyncTypeOK, RegistryTypeOK
  <2>4. late' \subseteq Files
    BY <1>3, <2>2 DEF RecordCheck, TypeOK
  <2>5. TypeOK' /\ QueueKnown'
    BY <1>3, <2>3, <2>4 DEF RecordCheck, TypeOK, SyncTypeOK, RegistryTypeOK, QueueKnown
  <2> QED BY <1>3, <2>5, TaskKept, RegistryKept DEF RecordCheck
<1>4. CASE RecordMissing
  BY <1>4, RecordMissingStep
<1>5. ASSUME NEW row \in Rows, NextRow(row)
      PROVE  IInv'
  <2>1. row[1] \in Files /\ rows[row[1]] # Null
    BY <1>5 DEF NextRow, QueueKnown, Rows
  <2>2. ReadVersion(row) # Null => <<row[1], ReadVersion(row)>> \in Target
    BY <2>1, VersionRead DEF Target
  <2>3. queue' \subseteq queue /\ stale' \in BOOLEAN
    BY <1>5 DEF NextRow
  <2>4. TypeOK'
    BY <1>5, <2>2, <2>3 DEF NextRow, TypeOK, SyncTypeOK, RegistryTypeOK
  <2>5. QueueKnown'
    BY <1>5, <2>1, <2>2, <2>3 DEF NextRow, QueueKnown
  <2> QED BY <1>5, <2>4, <2>5, TaskKept, RegistryKept DEF NextRow
<1>6. CASE LookForFile
  <2>1. TypeOK' /\ QueueKnown'
    BY <1>6 DEF LookForFile, TypeOK, SyncTypeOK, RegistryTypeOK, QueueKnown
  <2> QED BY <1>6, <2>1, TaskKept, RegistryKept DEF LookForFile
<1> QED BY <1>1, <1>2, <1>3, <1>4, <1>5, <1>6 DEF VerifyStep

\* A crash leaves the tables as they are and forgets the job.
LEMMA CrashStep ==
    ASSUME IInv, Crash
    PROVE  IInv'
<1> USE DEF IInv, Crash, SyncDies, Stop, registryVars, userVars
<1>1. down' \subseteq Accounts
  BY DEF TypeOK, SyncTypeOK
<1>2. TypeOK'
  <2>1. SyncTypeOK'
    BY <1>1, NoJobType DEF TypeOK, SyncTypeOK, RegistryTypeOK, Steps
  <2>2. crashes' \in Nat
    BY DEF TypeOK
  <2>3. /\ vpc' = "idle" /\ verifier' = Null /\ queue' = {} /\ visit' = Null
        /\ stale' = FALSE /\ wedged' = FALSE /\ away' = {} /\ late' = late
    OBVIOUS
  <2> QED BY <2>1, <2>2, <2>3 DEF TypeOK
<1>3. TaskInv'
  BY DEF TaskInv, JobSet, RowKnown, VersionKnown, JobDistinct, Named, Unfinished
<1> QED BY <1>2, <1>3, RegistryKept DEF QueueKnown

\* So do the user and the operator.
LEMMA EnvironmentStep ==
    ASSUME IInv, Environment
    PROVE  IInv'
<1> USE DEF IInv, registryVars, taskVars, userVars, verifyVars
<1>1. CASE UserStep
  <2>1. /\ disk' \in [Files -> Stored \union {Null}]
        /\ edits' \in Nat /\ edited' \subseteq Files /\ gone' \subseteq Files
        /\ UNCHANGED <<registryVars, taskVars, unstatted>>
    BY <1>1 DEF UserStep, User, Write, Delete, Stored, TypeOK, SyncTypeOK
  <2>2. /\ away' \subseteq Files
        /\ UNCHANGED <<vpc, verifier, queue, visit, stale, wedged, late, crashes>>
    BY <1>1 DEF UserStep, TypeOK
  <2>3. TypeOK'
    BY <2>1, <2>2 DEF TypeOK, SyncTypeOK, RegistryTypeOK
  <2> QED BY <2>1, <2>2, <2>3, TaskKept, RegistryKept DEF QueueKnown
<1>2. CASE Relogin
  <2>1. PICK a \in TelegramAccounts : Reauthenticate(a)
    BY <1>2 DEF Relogin
  <2>2. TypeOK'
    BY <1>2, <2>1 DEF Relogin, Reauthenticate, TypeOK, SyncTypeOK, RegistryTypeOK
  <2> QED BY <1>2, <2>1, <2>2, TaskKept, RegistryKept DEF Relogin, Reauthenticate, QueueKnown
<1> QED BY <1>1, <1>2 DEF Environment

-----------------------------------------------------------------------------
(* The theorems *)

\* The invariant holds at first ...
LEMMA Start == Init => IInv
<1> SUFFICES ASSUME Init PROVE IInv
  OBVIOUS
<1> USE DEF Init, SyncInit, RegistryInit, VerifyInit
<1>1. TypeOK
  <2>1. disk \in [Files -> Stored \union {Null}]
    BY DEF Stored
  <2>2. RegistryTypeOK
    BY DEF RegistryTypeOK
  <2> QED BY <2>1, <2>2, NoJobType DEF TypeOK, SyncTypeOK, Steps
<1>2. TaskInv /\ QueueKnown
  BY DEF TaskInv, JobSet, RowKnown, VersionKnown, JobDistinct, Named, Unfinished, QueueKnown
<1>3. RegistryInv
  BY DEF RegistryInv, SavedDistinct, OneContentPerId, Names, IndexSaved,
     DedupIndexIsReplicated, CompleteIsReplicated, IsComplete
<1> QED BY <1>1, <1>2, <1>3 DEF IInv

\* ... and every step keeps it.
LEMMA Step == IInv /\ [Next]_vars => IInv'
<1> SUFFICES ASSUME IInv, [Next]_vars PROVE IInv'
  OBVIOUS
<1>1. CASE Next
  BY <1>1, SyncTaskStep, VerifyTaskStep, CrashStep, EnvironmentStep DEF Next
<1>2. CASE UNCHANGED vars
  <2>1. TypeOK'
    BY <1>2 DEF IInv, vars, syncVars, registryVars, taskVars, userVars, verifyVars, TypeOK,
       SyncTypeOK, RegistryTypeOK
  <2> QED BY <1>2, <2>1, TaskKept, RegistryKept DEF IInv, vars, syncVars, registryVars,
       taskVars, userVars, verifyVars, QueueKnown
<1> QED BY <1>1, <1>2

\* The inductive invariant holds throughout, with any number of files, contents,
\* accounts, edits and crashes.
THEOREM Inductive == Spec => []IInv
BY Start, Step, PTL DEF Spec

\* Every variable keeps its type (Backup!TypeOK).
THEOREM TypeCorrect == Spec => []TypeOK
BY Inductive, PTL DEF IInv

\* A complete row always points at a saved version of its own content with copies
\* on CopyCount different accounts.
THEOREM CompleteMeansReplicated == Spec => []CompleteIsReplicated
<1>1. IInv => CompleteIsReplicated
  BY DEF IInv, RegistryInv
<1> QED BY <1>1, Inductive, PTL

\* The deduplication index offers fully replicated versions only, each under its
\* own content.
THEOREM IndexMeansReplicated == Spec => []DedupIndexIsReplicated
<1>1. IInv => DedupIndexIsReplicated
  BY DEF IInv, RegistryInv
<1> QED BY <1>1, Inductive, PTL

\* A version id never stands for two contents, in whichever files it is used.
THEOREM VersionNamesContent == Spec => []OneContentPerVersion
<1>1. IInv => OneContentPerVersion
  <2> SUFFICES ASSUME IInv, NEW f \in Files, NEW g \in Files, NEW v \in VersionIds,
                      versions[f][v] # Null, versions[g][v] # Null
               PROVE  versions[f][v].hash = versions[g][v].hash
    BY DEF OneContentPerVersion
  <2>1. versions[f][v].hash \in Contents /\ versions[g][v].hash \in Contents
    BY DEF IInv, TypeOK, SyncTypeOK, RegistryTypeOK, Version
  <2> QED BY <2>1 DEF IInv, RegistryInv, OneContentPerId, Names
<1> QED BY <1>1, Inductive, PTL

=============================================================================
