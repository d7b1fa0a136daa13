---------------------------- MODULE Copies_proofs ----------------------------
(***************************************************************************)
(* Proofs of two action properties of Backup, on top of its inductive      *)
(* invariant.  A version may be written again under its id, by a resumed   *)
(* upload or by an adoption; that no copy is forgotten then rests on who   *)
(* else uses the id: files share an id only once its version is finished,  *)
(* and the file that is being uploaded has its id to itself.               *)
(***************************************************************************)
EXTENDS Backup_proofs

Uses(f, v) ==
    \/ versions[f][v] # Null
    \/ rows[f] # Null /\ rows[f].version = v

Finished(f, v) == versions[f][v] # Null /\ Replicated(versions[f][v])

SharedIsFinished ==
    \A f, g \in Files, v \in VersionIds :
        f # g /\ Uses(f, v) /\ Uses(g, v) => Finished(f, v)

\* What the index offers has the copies of all who use its id.
IndexIsLast ==
    \A h \in Contents : uploaded[h] # Null =>
        \A f \in Files : Uses(f, uploaded[h].id) =>
            /\ Finished(f, uploaded[h].id)
            /\ HoldersOf(versions[f][uploaded[h].id].copies)
                 \subseteq HoldersOf(uploaded[h].version.copies)

Uploading == Unfinished \union {"clear", "record"}

JobOwnsId ==
    pc \in Uploading =>
        /\ \A g \in Files : Uses(g, job.id) => g = job.file
        /\ \A h \in Contents : uploaded[h] # Null => uploaded[h].id # job.id
        /\ versions[job.file][job.id] # Null =>
             HoldersOf(versions[job.file][job.id].copies) \subseteq HoldersOf(job.copies)

IdsInv == SharedIsFinished /\ IndexIsLast /\ JobOwnsId

-----------------------------------------------------------------------------
(* Steps that save nothing *)

\* No file takes up a new id, and the job ends or goes on with at least the
\* copies it had.
LEMMA NothingSaved ==
    ASSUME IdsInv, UNCHANGED <<versions, uploaded>>,
           \A f \in Files, v \in VersionIds : Uses(f, v)' => Uses(f, v),
           pc' \in Uploading =>
               /\ pc \in Uploading
               /\ job'.file = job.file /\ job'.id = job.id
               /\ job.file \in Files /\ job.id \in VersionIds
               /\ HoldersOf(job.copies) \subseteq HoldersOf(job.copies)',
           uploaded \in [Contents -> Indexed \union {Null}]
    PROVE  IdsInv'
<1>1. SharedIsFinished'
  BY DEF IdsInv, SharedIsFinished, Finished
<1>2. IndexIsLast'
  <2>1. \A h \in Contents : uploaded[h] # Null => uploaded[h].id \in VersionIds
    BY DEF Indexed
  <2> QED BY <2>1 DEF IdsInv, IndexIsLast, Finished
<1>3. JobOwnsId'
  BY DEF IdsInv, JobOwnsId
<1> QED BY <1>1, <1>2, <1>3 DEF IdsInv

\* An upsert of a row whose id its file uses anyway.
LEMMA UpsertUses ==
    ASSUME NEW f \in Files, UNCHANGED versions,
           \A g \in Files : g # f => rows'[g] = rows[g],
           Uses(f, rows'[f].version)
    PROVE  \A g \in Files, v \in VersionIds : Uses(g, v)' => Uses(g, v)
BY DEF Uses

\* Steps of the walk and of the copies.
LEMMA WalkStep ==
    ASSUME IInv, IdsInv,
           \/ StartSync \/ EndSync \/ SkipUnchanged \/ HashFile \/ HashRaises
           \/ AdoptClear \/ ClearOldCheck \/ UploadRaises
           \/ GitHubPhaseEnds \/ EnterTelegram \/ TelegramPhaseEnds
           \/ \E f \in Files : StatFails(f) \/ StatFile(f)
    PROVE  IdsInv'
<1> USE DEF IInv, TypeOK, SyncTypeOK, RegistryTypeOK
<1>1. UNCHANGED <<versions, uploaded>> /\ uploaded \in [Contents -> Indexed \union {Null}]
  BY DEF StartSync, EndSync, SkipUnchanged, HashFile, HashRaises, AdoptClear, ClearOldCheck,
     UploadRaises, GitHubPhaseEnds, EnterTelegram, TelegramPhaseEnds, StatFails, StatFile,
     registryVars
<1>2. \A f \in Files : (rows[f] = Null => rows'[f] = Null)
                       /\ (rows[f] # Null => rows'[f].version = rows[f].version)
  <2>1. CASE EndSync
    BY <2>1, NullAssumption DEF EndSync, MarkAbsentExceptRun, Row
  <2>2. CASE SkipUnchanged
    <3>1. job.file \in Files /\ rows[job.file] # Null /\ rows[job.file] \in Row
      BY <2>2 DEF SkipUnchanged, Unchanged, TaskInv, JobSet, RowKnown
    <3> QED BY <2>2, <3>1 DEF SkipUnchanged, TouchFile, Row
  <2>3. CASE UNCHANGED rows
    BY <2>3
  <2> QED
    BY <2>1, <2>2, <2>3
    DEF StartSync, HashFile, HashRaises, AdoptClear, ClearOldCheck, UploadRaises,
        GitHubPhaseEnds, EnterTelegram, TelegramPhaseEnds, StatFails, StatFile, registryVars
<1>3. \A f \in Files, v \in VersionIds : Uses(f, v)' => Uses(f, v)
  BY <1>1, <1>2 DEF Uses
<1>4. pc' \in Uploading =>
        /\ pc \in Uploading
        /\ job'.file = job.file /\ job'.id = job.id /\ job'.copies = job.copies
        /\ job.file \in Files /\ job.id \in VersionIds
  BY DEF StartSync, EndSync, SkipUnchanged, HashFile, HashRaises, AdoptClear, ClearOldCheck,
     UploadRaises, GitHubPhaseEnds, EnterTelegram, TelegramPhaseEnds, StatFails, StatFile,
     Visited, AfterCopies, TaskInv, JobSet, Uploading, Unfinished, Named, Job
<1>5. pc' \in Uploading => HoldersOf(job.copies)' = HoldersOf(job.copies)
  BY <1>4 DEF HoldersOf
<1> QED BY <1>1, <1>3, <1>4, <1>5, NothingSaved

\* A copy more, or one account less to ask.
LEMMA CopyStep ==
    ASSUME IInv, IdsInv, NEW a \in Accounts,
           GitHubCopy(a) \/ GitHubCopyFails(a) \/ TelegramCopy(a) \/ TelegramCopyFails(a)
    PROVE  IdsInv'
<1>1. /\ UNCHANGED <<rows, versions, uploaded, pc>> /\ pc \in {"github", "telegram"}
      /\ job \in Job /\ uploaded \in [Contents -> Indexed \union {Null}]
      /\ job.file \in Files /\ job.id \in VersionIds
  BY DEF GitHubCopy, GitHubCopyFails, TelegramCopy, TelegramCopyFails, CopyFails, registryVars,
     IInv, TypeOK, SyncTypeOK, RegistryTypeOK, TaskInv, JobSet, Named, Unfinished
<1>2. /\ job'.file = job.file /\ job'.id = job.id
      /\ HoldersOf(job.copies) \subseteq HoldersOf(job.copies)'
  <2>1. ASSUME NEW h \in Contents, AddCopy(a, h) PROVE <1>2
    <3> DEFINE c == [account |-> a, holds |-> h]
    <3>1. c \in Copy /\ job.copies \in Seq(Copy)
      BY <1>1 DEF Copy, Job
    <3>2. HoldersOf(Append(job.copies, c)) = HoldersOf(job.copies) \union {c.account}
      BY <3>1, AppendDistinct
    <3>3. job'.file = job.file /\ job'.id = job.id /\ job'.copies = Append(job.copies, c)
      BY <1>1, <2>1 DEF AddCopy, Job
    <3>4. HoldersOf(job.copies)' = HoldersOf(Append(job.copies, c))
      BY <3>3 DEF HoldersOf
    <3> QED BY <3>2, <3>3, <3>4
  <2>2. ASSUME CopyFails(a) PROVE <1>2
    <3>1. job'.file = job.file /\ job'.id = job.id /\ job'.copies = job.copies
      BY <1>1, <2>2 DEF CopyFails, Job
    <3> QED BY <3>1 DEF HoldersOf
  <2>3. CASE GitHubCopy(a)
    <3>1. disk[job.file].content \in Contents
      BY <1>1, <2>3 DEF GitHubCopy, OnDisk, IInv, TypeOK, SyncTypeOK, Stored
    <3> QED BY <2>1, <2>3, <3>1 DEF GitHubCopy
  <2>4. CASE TelegramCopy(a)
    <3>1. job.bytes \in Contents
      BY <2>4 DEF TelegramCopy, IInv, TaskInv, JobSet
    <3> QED BY <2>1, <2>4, <3>1 DEF TelegramCopy
  <2>5. CASE GitHubCopyFails(a) \/ TelegramCopyFails(a)
    BY <2>2, <2>5 DEF GitHubCopyFails, TelegramCopyFails
  <2> QED BY <2>3, <2>4, <2>5
<1>3. \A f \in Files, v \in VersionIds : Uses(f, v)' => Uses(f, v)
  BY <1>1 DEF Uses
<1> QED BY <1>1, <1>2, <1>3, NothingSaved DEF Uploading, Unfinished

\* An upsert under an id the file uses already; the job ends or stays as it is.
LEMMA UpsertStep ==
    ASSUME IInv, IdsInv, MetadataOnly \/ AdoptRow \/ RecordFailure \/ FinishRow
    PROVE  IdsInv'
<1> DEFINE f == job.file
<1>1. /\ f \in Files /\ job \in Job /\ job.stamp \in Nat /\ job.hash \in Contents
      /\ rows \in [Files -> Row \union {Null}]
      /\ uploaded \in [Contents -> Indexed \union {Null}]
      /\ UNCHANGED <<versions, uploaded>>
      /\ pc \in {"match", "adopt", "fail", "finish"}
      /\ pc # "match" => job.id \in VersionIds
  BY DEF MetadataOnly, AdoptRow, RecordFailure, FinishRow, IInv, TypeOK, SyncTypeOK,
     RegistryTypeOK, TaskInv, JobSet, Named, Unfinished, Job
<1>2. PICK id \in VersionIds, status \in Status :
        UpsertFile(f, job.stamp, job.hash, id, status) /\ Uses(f, id)
  <2>1. CASE MetadataOnly
    <3>1. rows[f] # Null /\ rows[f].version \in VersionIds
      BY <1>1, <2>1 DEF MetadataOnly, OwnVersionComplete, SameHash, ActiveVersion, IInv, TaskInv,
         RowKnown, Row
    <3> QED BY <2>1, <3>1 DEF MetadataOnly, Uses, Status
  <2>2. CASE AdoptRow
    BY <1>1, <2>2 DEF AdoptRow, IInv, TaskInv, VersionKnown, Uses, Status
  <2>3. CASE RecordFailure
    <3>1. rows[f] # Null /\ rows[f].version = job.id /\ job.id \in VersionIds
      BY <1>1, <2>3 DEF RecordFailure, IInv, TaskInv, RowKnown, Unfinished
    <3>2. UpsertFile(f, job.stamp, job.hash, job.id, "error")
      BY <2>3, <3>1, NullAssumption DEF RecordFailure, UpsertFile
    <3> QED BY <3>1, <3>2 DEF Uses, Status
  <2>4. CASE FinishRow
    <3>1. rows[f] # Null /\ rows[f].version = job.id /\ job.id \in VersionIds
      BY <1>1, <2>4 DEF FinishRow, IInv, TaskInv, RowKnown, Unfinished
    <3> QED BY <2>4, <3>1 DEF FinishRow, Uses, Status
  <2> QED BY <2>1, <2>2, <2>3, <2>4
<1>3. /\ \A g \in Files : g # f => rows'[g] = rows[g]
      /\ rows'[f].version = id
  BY <1>1, <1>2, NullAssumption, UpsertRow
<1>4. \A g \in Files, v \in VersionIds : Uses(g, v)' => Uses(g, v)
  BY <1>1, <1>2, <1>3, UpsertUses
<1>5. pc' \in Uploading => pc \in Uploading /\ job' = job /\ job.id \in VersionIds
  BY <1>1 DEF MetadataOnly, AdoptRow, RecordFailure, FinishRow, Visited, Uploading, Unfinished
<1>6. job' = job => HoldersOf(job.copies)' = HoldersOf(job.copies)
  BY DEF HoldersOf
<1> QED BY <1>1, <1>4, <1>5, <1>6, NothingSaved

-----------------------------------------------------------------------------
(* The choice of an id, and the steps that save a version or index one *)

\* The id of an upload is its file's own, not finished, or a new one.
LEMMA ChosenId ==
    ASSUME IInv, IdsInv, BeginUpload, NEW id \in AttemptIds
    PROVE  /\ id \in VersionIds
           /\ \A g \in Files : Uses(g, id) => g = job.file
           /\ ~Finished(job.file, id)
           /\ versions[job.file][id] # Null =>
                /\ Base # Null
                /\ Base.version = versions[job.file][id]
           /\ rows[job.file] # Null /\ rows[job.file].hash = job.hash
                => id = rows[job.file].version
<1> DEFINE f == job.file
<1>1. /\ f \in Files /\ job.hash \in Contents
      /\ ~OwnVersionComplete /\ ~StoredElsewhere
      /\ rows \in [Files -> Row \union {Null}]
      /\ versions \in [Files -> [VersionIds -> Version \union {Null}]]
      /\ IF job.row = Null THEN rows[f] = Null
         ELSE rows[f] # Null /\ rows[f].hash = job.row.hash /\ rows[f].version = job.row.version
      /\ TypeOK /\ RegistryInv
  BY DEF BeginUpload, IInv, TypeOK, SyncTypeOK, RegistryTypeOK, TaskInv, JobSet, RowKnown
<1>2. OwnPartial = Null => Base = Null
  BY <1>1, BaseIsOwn
<1>3. CASE SameHash
  <2>1. rows[f] # Null /\ rows[f].hash = job.hash /\ rows[f].version \in VersionIds
    BY <1>1, <1>3 DEF SameHash, Row
  <2>2. OwnPartial = versions[f][rows[f].version]
    BY <1>3, <2>1 DEF OwnPartial, ActiveVersion
  <2>3. id = rows[f].version /\ (OwnPartial # Null => Base # Null /\ Base.version = OwnPartial)
    <3>1. CASE OwnPartial = Null
      BY <1>1, <1>2, <1>3, <3>1 DEF AttemptIds, SameHash
    <3>2. CASE OwnPartial # Null
      <4>1. OwnPartial \in Version
        BY <1>1, <2>1, <2>2, <3>2
      <4>2. Base = [id |-> rows[f].version, version |-> OwnPartial] /\ Base \in Indexed
        BY <2>1, <3>2, <4>1 DEF Base, Indexed
      <4>3. Base # Null /\ Base.id = rows[f].version /\ Base.version = OwnPartial
        BY <4>2, NullAssumption
      <4> QED BY <4>3 DEF AttemptIds
    <3> QED BY <3>1, <3>2
  <2>4. ~Finished(f, id)
    BY <1>1, <1>3, <2>1, <2>2, <2>3 DEF OwnVersionComplete, ActiveVersion, Finished
  <2>5. Uses(f, id)
    BY <2>1, <2>3 DEF Uses
  <2>6. \A g \in Files : Uses(g, id) => g = f
    BY <1>1, <2>1, <2>3, <2>4, <2>5 DEF IdsInv, SharedIsFinished
  <2> QED BY <2>1, <2>2, <2>3, <2>4, <2>6
<1>4. CASE ~SameHash
  <2>1. OwnPartial = Null /\ Base = Null
    BY <1>2, <1>4 DEF OwnPartial
  <2>2. id \in VersionIds \ Minted
    BY <1>4, <2>1 DEF AttemptIds
  <2>3. \A g \in Files : ~Uses(g, id)
    BY <2>2 DEF Minted, Uses
  <2>4. ~(rows[f] # Null /\ rows[f].hash = job.hash)
    BY <1>1, <1>4 DEF SameHash
  <2> QED BY <1>1, <2>2, <2>3, <2>4 DEF Uses, Finished
<1> QED BY <1>3, <1>4

LEMMA BeginUploadIds ==
    ASSUME IInv, IdsInv, BeginUpload
    PROVE  IdsInv'
<1> DEFINE f == job.file
           kept == IF Base = Null THEN <<>> ELSE Base.version.copies
<1>1. PICK id \in AttemptIds :
         /\ UpsertFile(f, job.stamp, job.hash, id, "uploading")
         /\ job' = [job EXCEPT !.id = id, !.copies = kept, !.used = HoldersOf(kept)]
  BY DEF BeginUpload
<1>2. /\ id \in VersionIds
      /\ \A g \in Files : Uses(g, id) => g = f
      /\ ~Finished(f, id)
      /\ versions[f][id] # Null => Base # Null /\ Base.version = versions[f][id]
  BY ChosenId
<1>3. /\ UNCHANGED <<versions, uploaded>> /\ pc' = "github"
      /\ f \in Files /\ job \in Job /\ job.stamp \in Nat /\ job.hash \in Contents
      /\ rows \in [Files -> Row \union {Null}]
      /\ uploaded \in [Contents -> Indexed \union {Null}]
      /\ RegistryInv
  BY DEF BeginUpload, IInv, TypeOK, SyncTypeOK, RegistryTypeOK, TaskInv, JobSet, Job
<1>4. /\ \A g \in Files : g # f => rows'[g] = rows[g]
      /\ rows'[f].version = id
  BY <1>1, <1>2, <1>3, NullAssumption, UpsertRow DEF Status
<1>5. \A g \in Files, v \in VersionIds : Uses(g, v)' => Uses(g, v) \/ (g = f /\ v = id)
  BY <1>3, <1>4 DEF Uses
<1>6. \A h \in Contents : uploaded[h] # Null => uploaded[h].id # id /\ uploaded[h].id \in VersionIds
  <2> SUFFICES ASSUME NEW h \in Contents, uploaded[h] # Null
               PROVE  uploaded[h].id # id /\ uploaded[h].id \in VersionIds
    OBVIOUS
  <2>1. uploaded[h].id \in VersionIds
    BY <1>3 DEF Indexed
  <2>2. PICK g \in Files : versions[g][uploaded[h].id] # Null
    BY <1>3 DEF RegistryInv, IndexSaved
  <2>3. Uses(g, uploaded[h].id) /\ Finished(g, uploaded[h].id)
    BY <2>2 DEF Uses, IdsInv, IndexIsLast
  <2> QED BY <1>2, <2>1, <2>3
<1>7. SharedIsFinished'
  BY <1>2, <1>3, <1>5 DEF IdsInv, SharedIsFinished, Finished
<1>8. IndexIsLast'
  BY <1>3, <1>5, <1>6 DEF IdsInv, IndexIsLast, Finished
<1>9. job'.file = f /\ job'.id = id /\ job'.copies = kept
  BY <1>1, <1>3 DEF Job
<1>10. HoldersOf(job.copies)' = HoldersOf(kept)
  BY <1>9 DEF HoldersOf
<1>11. versions[f][id] # Null => kept = versions[f][id].copies
  BY <1>2
<1> HIDE DEF kept
<1>12. JobOwnsId'
  BY <1>2, <1>3, <1>5, <1>6, <1>9, <1>10, <1>11 DEF JobOwnsId, HoldersOf
<1> QED BY <1>7, <1>8, <1>12 DEF IdsInv

\* What a save changes.
LEMMA Saved ==
    ASSUME NEW f \in Files, NEW v \in VersionIds, NEW x \in Version,
           versions \in [Files -> [VersionIds -> Version \union {Null}]],
           SaveVersion(f, v, x), UNCHANGED rows
    PROVE  /\ versions'[f][v] = x
           /\ Finished(f, v)' <=> Replicated(x)
           /\ \A g \in Files, w \in VersionIds : ~(g = f /\ w = v) =>
                /\ versions'[g][w] = versions[g][w]
                /\ Finished(g, w)' <=> Finished(g, w)
                /\ Uses(g, w)' <=> Uses(g, w)
<1>1. /\ versions'[f][v] = x /\ x # Null
      /\ \A g \in Files, w \in VersionIds :
           ~(g = f /\ w = v) => versions'[g][w] = versions[g][w]
  BY NullAssumption DEF SaveVersion
<1>2. Finished(f, v)' <=> Replicated(x)
  BY <1>1 DEF Finished, Replicated, DistinctAccountCopies, HoldersOf
<1>3. ASSUME NEW g \in Files, NEW w \in VersionIds, versions'[g][w] = versions[g][w]
      PROVE  (Finished(g, w)' <=> Finished(g, w)) /\ (Uses(g, w)' <=> Uses(g, w))
  BY <1>3 DEF Finished, Replicated, DistinctAccountCopies, HoldersOf, Uses
<1> QED BY <1>1, <1>2, <1>3

\* _adopt_version saves what all users of the id have.
LEMMA AdoptKnown ==
    ASSUME IInv, AdoptVersion
    PROVE  /\ job.file \in Files /\ job.hash \in Contents
           /\ uploaded[job.hash] # Null
           /\ uploaded[job.hash].id \in VersionIds /\ uploaded[job.hash].version \in Version
           /\ uploaded[job.hash].version.hash = job.hash /\ Replicated(uploaded[job.hash].version)
           /\ SaveVersion(job.file, uploaded[job.hash].id, uploaded[job.hash].version)
<1>1. /\ job.file \in Files /\ job.hash \in Contents /\ uploaded[job.hash] # Null
      /\ uploaded \in [Contents -> Indexed \union {Null}]
      /\ SaveVersion(job.file, uploaded[job.hash].id, uploaded[job.hash].version)
      /\ Replicated(uploaded[job.hash].version)
      /\ uploaded[job.hash].version.hash = job.hash
  BY DEF AdoptVersion, StoredElsewhere, IInv, TypeOK, SyncTypeOK, RegistryTypeOK, TaskInv, JobSet,
     RegistryInv, DedupIndexIsReplicated
<1> QED BY <1>1 DEF Indexed

LEMMA AdoptVersionIds ==
    ASSUME IInv, IdsInv, AdoptVersion,
           NEW f \in Files, f = job.file, NEW h \in Contents, h = job.hash,
           NEW v \in VersionIds, v = uploaded[h].id,
           NEW x \in Version, x = uploaded[h].version
    PROVE  /\ IdsInv'
           /\ versions[f][v] # Null => /\ versions[f][v].hash = x.hash
                                       /\ HoldersOf(versions[f][v].copies) \subseteq HoldersOf(x.copies)
<1>1. /\ uploaded[h] # Null /\ x.hash = h /\ Replicated(x)
      /\ SaveVersion(f, v, x)
      /\ versions \in [Files -> [VersionIds -> Version \union {Null}]]
      /\ uploaded \in [Contents -> Indexed \union {Null}]
      /\ UNCHANGED <<rows, uploaded>> /\ pc' = "adopt"
      /\ RegistryInv
  BY AdoptKnown DEF AdoptVersion, IInv, TypeOK, SyncTypeOK, RegistryTypeOK
<1>2. Names(v, h)
  BY <1>1 DEF RegistryInv, IndexSaved, Names
<1>3. \A c \in Contents : uploaded[c] # Null /\ uploaded[c].id = v => c = h
  BY <1>1, <1>2 DEF RegistryInv, IndexSaved, OneContentPerId, Names
<1>4. \A g \in Files : Uses(g, v) => /\ Finished(g, v)
                                     /\ HoldersOf(versions[g][v].copies) \subseteq HoldersOf(x.copies)
  BY <1>1 DEF IdsInv, IndexIsLast
<1>5. ASSUME versions[f][v] # Null
      PROVE  /\ versions[f][v].hash = x.hash
             /\ HoldersOf(versions[f][v].copies) \subseteq HoldersOf(x.copies)
  <2>1. versions[f][v].hash \in Contents
    BY <1>1, <1>5 DEF Version
  <2>2. Names(v, versions[f][v].hash)
    BY <1>5 DEF Names
  <2>3. versions[f][v].hash = h
    BY <1>2, <1>1, <2>1, <2>2 DEF RegistryInv, OneContentPerId
  <2> QED BY <1>1, <1>4, <1>5, <2>3 DEF Uses
<1>6. /\ versions'[f][v] = x /\ Finished(f, v)'
      /\ \A g \in Files, w \in VersionIds : ~(g = f /\ w = v) =>
           /\ versions'[g][w] = versions[g][w]
           /\ Finished(g, w)' <=> Finished(g, w)
           /\ Uses(g, w)' <=> Uses(g, w)
  BY <1>1, Saved
<1>7. SharedIsFinished'
  BY <1>4, <1>6 DEF IdsInv, SharedIsFinished
<1>8. IndexIsLast'
  <2> SUFFICES ASSUME NEW c \in Contents, uploaded[c] # Null, NEW g \in Files,
                      NEW w \in VersionIds, w = uploaded[c].id, Uses(g, w)'
               PROVE  /\ Finished(g, w)'
                      /\ HoldersOf(versions'[g][w].copies) \subseteq HoldersOf(uploaded[c].version.copies)
    <3>1. \A c \in Contents : uploaded[c] # Null => uploaded[c].id \in VersionIds
      BY <1>1 DEF Indexed
    <3>2. uploaded' = uploaded
      BY <1>1
    <3> QED BY <3>1, <3>2 DEF IndexIsLast, Uses, Finished
  <2>1. CASE g = f /\ w = v
    BY <1>3, <1>6, <2>1
  <2>2. CASE ~(g = f /\ w = v)
    BY <1>6, <2>2 DEF IdsInv, IndexIsLast
  <2> QED BY <2>1, <2>2
<1>9. JobOwnsId'
  BY <1>1 DEF JobOwnsId, Uploading, Unfinished
<1> QED BY <1>5, <1>7, <1>8, <1>9 DEF IdsInv

\* The upload saves what it resumed and what it added.
LEMMA SaveKnown ==
    ASSUME IInv, SaveNewVersion
    PROVE  /\ job.file \in Files /\ job.id \in VersionIds /\ job \in Job
           /\ NewVersion \in Version
           /\ NewVersion.hash = job.hash /\ NewVersion.copies = job.copies
           /\ SaveVersion(job.file, job.id, NewVersion)
<1>1. /\ job.file \in Files /\ job.id \in VersionIds /\ job \in Job /\ job.hash \in Contents
      /\ SaveVersion(job.file, job.id, NewVersion)
  BY DEF SaveNewVersion, IInv, TypeOK, SyncTypeOK, TaskInv, JobSet, Named, Unfinished
<1> QED BY <1>1 DEF NewVersion, Version, Job

LEMMA SaveNewVersionIds ==
    ASSUME IInv, IdsInv, SaveNewVersion,
           NEW f \in Files, f = job.file, NEW v \in VersionIds, v = job.id,
           NEW x \in Version, x = NewVersion
    PROVE  /\ IdsInv'
           /\ versions[f][v] # Null => /\ versions[f][v].hash = x.hash
                                       /\ HoldersOf(versions[f][v].copies) \subseteq HoldersOf(x.copies)
<1>1. /\ rows[f] # Null /\ rows[f].version = v /\ rows[f].hash = job.hash
      /\ x.hash = job.hash /\ x.copies = job.copies /\ job.hash \in Contents
      /\ SaveVersion(f, v, x)
      /\ versions \in [Files -> [VersionIds -> Version \union {Null}]]
      /\ uploaded \in [Contents -> Indexed \union {Null}]
      /\ UNCHANGED <<rows, uploaded, job>> /\ pc = "save" /\ pc' = "finish"
      /\ RegistryInv
  BY SaveKnown
  DEF SaveNewVersion, IInv, TypeOK, SyncTypeOK, RegistryTypeOK, TaskInv, JobSet, RowKnown,
      Named, Unfinished
<1>2. /\ \A g \in Files : Uses(g, v) => g = f
      /\ \A c \in Contents : uploaded[c] # Null => uploaded[c].id # v
      /\ versions[f][v] # Null => HoldersOf(versions[f][v].copies) \subseteq HoldersOf(job.copies)
  BY <1>1 DEF IdsInv, JobOwnsId, Uploading, Unfinished
<1>3. ASSUME versions[f][v] # Null PROVE versions[f][v].hash = job.hash
  <2>1. versions[f][v].hash \in Contents
    BY <1>1, <1>3 DEF Version
  <2>2. Names(v, versions[f][v].hash)
    BY <1>3 DEF Names
  <2>3. Names(v, job.hash)
    BY <1>1 DEF Names
  <2> QED BY <1>1, <2>1, <2>2, <2>3 DEF RegistryInv, OneContentPerId
<1>4. /\ versions'[f][v] = x
      /\ \A g \in Files, w \in VersionIds : ~(g = f /\ w = v) =>
           /\ versions'[g][w] = versions[g][w]
           /\ Finished(g, w)' <=> Finished(g, w)
           /\ Uses(g, w)' <=> Uses(g, w)
  BY <1>1, Saved
<1>5. Uses(f, v) /\ \A g \in Files : Uses(g, v)' => g = f
  BY <1>1, <1>2, <1>4 DEF Uses
<1>6. SharedIsFinished'
  BY <1>4, <1>5 DEF IdsInv, SharedIsFinished
<1>7. IndexIsLast'
  <2> SUFFICES ASSUME NEW c \in Contents, uploaded[c] # Null, NEW g \in Files,
                      NEW w \in VersionIds, w = uploaded[c].id, Uses(g, w)'
               PROVE  /\ Finished(g, w)'
                      /\ HoldersOf(versions'[g][w].copies) \subseteq HoldersOf(uploaded[c].version.copies)
    <3>1. \A c \in Contents : uploaded[c] # Null => uploaded[c].id \in VersionIds
      BY <1>1 DEF Indexed
    <3>2. uploaded' = uploaded
      BY <1>1
    <3> QED BY <3>1, <3>2 DEF IndexIsLast, Uses, Finished
  <2> QED BY <1>2, <1>4 DEF IdsInv, IndexIsLast
<1>8. JobOwnsId'
  <2>1. job'.file = f /\ job'.id = v /\ job'.copies = x.copies
    BY <1>1
  <2>2. HoldersOf(versions[f][v].copies)' = HoldersOf(x.copies)
    BY <1>4 DEF HoldersOf
  <2> QED BY <1>1, <1>2, <1>4, <1>5, <2>1, <2>2 DEF JobOwnsId, HoldersOf
<1> QED BY <1>1, <1>2, <1>3, <1>6, <1>7, <1>8 DEF IdsInv

\* What gets indexed is the version of the only file that uses its id.
LEMMA RecordUploadedIds ==
    ASSUME IInv, IdsInv, RecordUploaded
    PROVE  IdsInv'
<1> DEFINE f == job.file  v == job.id  u == [id |-> v, version |-> NewVersion]
<1>1. /\ f \in Files /\ job.hash \in Contents /\ job \in Job /\ v \in VersionIds
      /\ versions[f][v] = NewVersion /\ Complete
      /\ versions \in [Files -> [VersionIds -> Version \union {Null}]]
      /\ uploaded \in [Contents -> Indexed \union {Null}]
      /\ uploaded' = [uploaded EXCEPT ![job.hash] = u]
      /\ UNCHANGED <<rows, versions>> /\ pc = "record" /\ pc' = "walk"
      /\ RegistryInv
  BY DEF RecordUploaded, RecordUploadedVersion, Visited, IInv, TypeOK, SyncTypeOK, RegistryTypeOK,
         TaskInv, JobSet, VersionKnown, Named, Unfinished
<1>2. NewVersion \in Version /\ NewVersion # Null /\ NewVersion.copies = job.copies
  BY <1>1, NullAssumption DEF NewVersion, Version, Job
<1>3. Replicated(NewVersion)
  BY <1>1, <1>2, NewVersionReplicated DEF RegistryInv, SavedDistinct
<1>4. Finished(f, v) /\ \A g \in Files : Uses(g, v) => g = f
  BY <1>1, <1>2, <1>3 DEF Finished, IdsInv, JobOwnsId, Uploading
<1>5. u.id = v /\ u.version = NewVersion
  OBVIOUS
<1> HIDE DEF u
<1>6. /\ uploaded'[job.hash] = u
      /\ \A h \in Contents : h # job.hash => uploaded'[h] = uploaded[h]
  BY <1>1
<1>7. SharedIsFinished' /\ JobOwnsId'
  BY <1>1 DEF IdsInv, SharedIsFinished, JobOwnsId, Uses, Finished, Uploading, Unfinished
<1>8. IndexIsLast'
  <2> SUFFICES ASSUME NEW h \in Contents, uploaded'[h] # Null, NEW g \in Files,
                      Uses(g, uploaded'[h].id)
               PROVE  /\ Finished(g, uploaded'[h].id)
                      /\ HoldersOf(versions[g][uploaded'[h].id].copies)
                           \subseteq HoldersOf(uploaded'[h].version.copies)
    <3>1. versions' = versions /\ rows' = rows
      BY <1>1
    <3> QED BY <3>1 DEF IndexIsLast, Uses, Finished
  <2>1. CASE h = job.hash
    BY <1>1, <1>4, <1>5, <1>6, <2>1
  <2>2. CASE h # job.hash
    BY <1>6, <2>2 DEF IdsInv, IndexIsLast
  <2> QED BY <2>1, <2>2
<1> QED BY <1>7, <1>8 DEF IdsInv

-----------------------------------------------------------------------------
(* All steps *)

\* Verify writes checks and marks, nothing else that the sync knows of.
LEMMA VerifyLeaves ==
    ASSUME VerifyStep
    PROVE  /\ UNCHANGED <<versions, uploaded, seen, pc, todo, job, failures, down, result,
                          disk, edits, edited, gone, unstatted, crashes>>
           /\ RecordMissing \/ UNCHANGED rows
           /\ RecordCheck \/ UNCHANGED checks
BY DEF VerifyStep, OpenCursor, EndVerify, NextRow, LookForFile, RecordMissing, RecordCheck,
       CheckRaises, DatabaseLocked, Stop, syncVars, registryVars, taskVars, userVars

\* A re-login leaves everything alone but the accounts that are retired.
LEMMA ReloginLeaves ==
    ASSUME Relogin \/ UNCHANGED vars
    PROVE  /\ UNCHANGED <<rows, checks, versions, uploaded, seen, pc, todo, job, failures, result,
                          disk, edits, edited, gone, unstatted, crashes>>
           /\ UNCHANGED <<vpc, verifier, queue, visit, stale, wedged, away, late>>
BY DEF Relogin, Reauthenticate, vars, syncVars, registryVars, taskVars, userVars, verifyVars

\* The user changes the disk.
LEMMA UserLeaves ==
    ASSUME UserStep
    PROVE  /\ User
           /\ UNCHANGED <<rows, checks, versions, uploaded, seen, pc, todo, job, failures, down,
                          result, unstatted, crashes>>
           /\ UNCHANGED <<vpc, verifier, queue, visit, stale, wedged, late>>
BY DEF UserStep, User, Write, Delete, registryVars, taskVars

\* The end of a process loses what is not on disk.
LEMMA CrashLeaves ==
    ASSUME Crash
    PROVE  /\ UNCHANGED <<rows, checks, versions, uploaded, seen, result, disk, edits, edited, gone>>
           /\ pc' = "idle" /\ todo' = {} /\ job' = NoJob /\ unstatted' = {}
           /\ vpc' = "idle" /\ queue' = {} /\ visit' = Null /\ stale' = FALSE /\ away' = {}
           /\ crashes' = crashes + 1
BY DEF Crash, SyncDies, Stop, registryVars

\* Verify, the user and the end of a process leave the ids alone.
LEMMA OtherIds ==
    ASSUME IInv, IdsInv, VerifyStep \/ Crash \/ Environment \/ UNCHANGED vars
    PROVE  IdsInv' /\ UNCHANGED versions
<1>0. UNCHANGED <<versions, uploaded>> /\ (RecordMissing \/ UNCHANGED rows)
  BY VerifyLeaves, ReloginLeaves, UserLeaves, CrashLeaves DEF Environment
<1>1. UNCHANGED <<versions, uploaded>> /\ uploaded \in [Contents -> Indexed \union {Null}]
  BY <1>0 DEF IInv, TypeOK, SyncTypeOK, RegistryTypeOK
<1>2. \A f \in Files : (rows[f] = Null => rows'[f] = Null)
                       /\ (rows[f] # Null => rows'[f].version = rows[f].version)
  <2>1. CASE RecordMissing
    <3>1. /\ visit[1] \in Files /\ rows[visit[1]] # Null
          /\ rows \in [Files -> Row \union {Null}]
      BY <2>1 DEF RecordMissing, Target, IInv, QueueKnown, TypeOK, SyncTypeOK, RegistryTypeOK
    <3> QED BY <2>1, <3>1 DEF RecordMissing, MarkMissing, Row
  <2> QED BY <1>0, <2>1
<1>3. \A f \in Files, v \in VersionIds : Uses(f, v)' => Uses(f, v)
  BY <1>1, <1>2 DEF Uses
<1>4. pc' \in Uploading => UNCHANGED <<pc, job>>
  BY VerifyLeaves, ReloginLeaves, UserLeaves, CrashLeaves DEF Environment, Uploading, Unfinished
<1>5. pc \in Uploading => job.file \in Files /\ job.id \in VersionIds
  BY DEF IInv, TaskInv, JobSet, Uploading, Unfinished, Named
<1>6. UNCHANGED job => HoldersOf(job.copies)' = HoldersOf(job.copies)
  BY DEF HoldersOf
<1> QED BY <1>1, <1>3, <1>4, <1>5, <1>6, NothingSaved

LEMMA IdsStart == Init => IdsInv
BY DEF Init, SyncInit, RegistryInit, IdsInv, SharedIsFinished, IndexIsLast, JobOwnsId, Uses,
       Uploading, Unfinished

LEMMA IdsStep == IInv /\ IdsInv /\ [Next]_vars => IdsInv'
<1> SUFFICES ASSUME IInv, IdsInv, [Next]_vars PROVE IdsInv'
  OBVIOUS
<1>1. CASE SyncStep
  <2>1. CASE AdoptVersion
    BY <2>1, AdoptKnown, AdoptVersionIds
  <2>2. CASE SaveNewVersion
    BY <2>2, SaveKnown, SaveNewVersionIds
  <2> QED
    BY <1>1, <2>1, <2>2, WalkStep, CopyStep, UpsertStep, BeginUploadIds, RecordUploadedIds
    DEF SyncStep, Commit, NoCommit, MayCommit, Accounts
<1>2. CASE VerifyStep \/ Crash \/ Environment \/ UNCHANGED vars
  BY <1>2, OtherIds
<1> QED BY <1>1, <1>2 DEF Next, SyncTask, SyncStep

\* Files share an id only once its version is finished.
LEMMA IdsHold == Spec => []IdsInv
BY IdsStart, IdsStep, Inductive, PTL DEF Spec

\* Resuming, adopting and saving again never forget a copy that was recorded, nor
\* give an id to another content, whatever else fails or dies.
THEOREM CopiesAreKept == Spec => CopiesNeverLost
<1> DEFINE NoneForgotten ==
             \A f \in Files, v \in VersionIds : versions[f][v] # Null =>
               /\ versions'[f][v] # Null
               /\ versions'[f][v].hash = versions[f][v].hash
               /\ HoldersOf(versions[f][v].copies) \subseteq HoldersOf(versions'[f][v].copies)
<1>1. IInv /\ IdsInv /\ [Next]_vars => [NoneForgotten]_versions
  <2> SUFFICES ASSUME IInv, IdsInv, [Next]_vars, versions' # versions PROVE NoneForgotten
    OBVIOUS
  <2>1. AdoptVersion \/ SaveNewVersion
    BY OtherIds
    DEF Next, SyncTask, Commit, NoCommit, MayCommit, StartSync, EndSync, SkipUnchanged,
        MetadataOnly, AdoptRow, AdoptClear, BeginUpload, GitHubCopy, RecordFailure, FinishRow,
        ClearOldCheck, RecordUploaded, StatFails, StatFile, HashFile, HashRaises, GitHubPhaseEnds,
        EnterTelegram, TelegramPhaseEnds, UploadRaises, TelegramCopy, TelegramCopyFails,
        GitHubCopyFails, CopyFails, registryVars
  <2>2. versions \in [Files -> [VersionIds -> Version \union {Null}]]
    BY DEF IInv, TypeOK, SyncTypeOK, RegistryTypeOK
  <2>3. ASSUME NEW f \in Files, NEW v \in VersionIds, NEW x \in Version, SaveVersion(f, v, x),
               versions[f][v] # Null =>
                 /\ versions[f][v].hash = x.hash
                 /\ HoldersOf(versions[f][v].copies) \subseteq HoldersOf(x.copies)
        PROVE  NoneForgotten
    <3>1. /\ versions'[f][v] = x /\ x # Null
          /\ \A g \in Files, w \in VersionIds :
               ~(g = f /\ w = v) => versions'[g][w] = versions[g][w]
      BY <2>2, <2>3, NullAssumption DEF SaveVersion
    <3> QED BY <2>3, <3>1
  <2>4. CASE AdoptVersion
    BY <2>3, <2>4, AdoptKnown, AdoptVersionIds
  <2>5. CASE SaveNewVersion
    BY <2>3, <2>5, SaveKnown, SaveNewVersionIds
  <2> QED BY <2>1, <2>4, <2>5
<1> QED BY <1>1, Inductive, IdsHold, PTL DEF Spec, CopiesNeverLost

\* An unfinished row keeps its id through failures, crashes and retries as long as
\* the content is the same, so that the parts already uploaded are found again.
THEOREM AttemptsKeepTheirId == Spec => InterruptedAttemptKeepsId
<1> DEFINE Keeps == \A f \in Files :
                      /\ rows[f] # Null /\ ~IsComplete(f)
                      /\ rows'[f].hash = rows[f].hash
                      /\ rows'[f].version # rows[f].version
                      => rows'[f].status = "complete"
<1>1. IInv /\ IdsInv /\ [Next]_vars => [Keeps]_rows
  <2> SUFFICES ASSUME IInv, IdsInv, [Next]_vars PROVE Keeps
    OBVIOUS
  <2> DEFINE SameIds == \A f \in Files : rows[f] # Null => rows'[f].version = rows[f].version
  <2>1. rows \in [Files -> Row \union {Null}]
    BY DEF IInv, TypeOK, SyncTypeOK, RegistryTypeOK
  <2>2. ASSUME NEW f \in Files, NEW stamp \in Nat, NEW hash \in Contents, NEW id \in VersionIds,
               NEW status \in Status, UpsertFile(f, stamp, hash, id, status)
        PROVE  /\ rows'[f].version = id /\ rows'[f].status = status /\ rows'[f].hash = hash
               /\ \A g \in Files : g # f => rows'[g] = rows[g]
    BY <2>1, <2>2, UpsertRow, NullAssumption
  <2>3. pc \notin {"idle", "walk", "compare"} =>
          job.file \in Files /\ job.stamp \in Nat /\ job.hash \in Contents
    BY DEF IInv, TypeOK, SyncTypeOK, TaskInv, JobSet, Job
  <2>4. CASE BeginUpload
    <3>1. PICK id \in AttemptIds : UpsertFile(job.file, job.stamp, job.hash, id, "uploading")
      BY <2>4 DEF BeginUpload
    <3>2. /\ id \in VersionIds
          /\ rows[job.file] # Null /\ rows[job.file].hash = job.hash
               => id = rows[job.file].version
      BY <2>4, ChosenId
    <3>3. /\ rows'[job.file].version = id /\ rows'[job.file].hash = job.hash
          /\ \A g \in Files : g # job.file => rows'[g] = rows[g]
      BY <2>2, <2>3, <2>4, <3>1, <3>2 DEF BeginUpload, Status
    <3> QED BY <3>2, <3>3
  <2>5. CASE AdoptRow
    <3>1. rows'[job.file].status = "complete" /\ \A g \in Files : g # job.file => rows'[g] = rows[g]
      BY <2>2, <2>3, <2>5 DEF AdoptRow, Status, IInv, TaskInv, JobSet, Named
    <3> QED BY <3>1
  <2>6. CASE MetadataOnly
    <3>1. rows[job.file] # Null /\ rows[job.file].version \in VersionIds
      BY <2>1, <2>3, <2>6 DEF MetadataOnly, OwnVersionComplete, SameHash, ActiveVersion, IInv,
         TaskInv, RowKnown, Row
    <3> QED BY <2>2, <2>3, <2>6, <3>1 DEF MetadataOnly, Status
  <2>7. CASE RecordFailure \/ FinishRow
    <3>1. /\ rows[job.file] # Null /\ rows[job.file].version = job.id /\ job.id \in VersionIds
      BY <2>7 DEF RecordFailure, FinishRow, IInv, TaskInv, JobSet, RowKnown, Named, Unfinished
    <3>2. \E status \in Status : UpsertFile(job.file, job.stamp, job.hash, job.id, status)
      BY <2>7, <3>1, NullAssumption DEF RecordFailure, FinishRow, UpsertFile, Status
    <3> QED BY <2>2, <2>3, <2>7, <3>1, <3>2 DEF RecordFailure, FinishRow
  <2>8. CASE EndSync
    <3>1. SameIds
      BY <2>1, <2>8 DEF EndSync, MarkAbsentExceptRun, Row
    <3> QED BY <3>1
  <2>9. CASE SkipUnchanged
    <3>1. job.file \in Files /\ rows[job.file] \in Row
      BY <2>1, <2>9 DEF SkipUnchanged, Unchanged, IInv, TaskInv, JobSet, RowKnown
    <3>2. SameIds
      BY <2>1, <2>9, <3>1 DEF SkipUnchanged, TouchFile, Row
    <3> QED BY <3>2
  <2>10. CASE RecordMissing
    <3>1. visit[1] \in Files /\ rows[visit[1]] \in Row
      BY <2>1, <2>10 DEF RecordMissing, Target, IInv, QueueKnown
    <3>2. SameIds
      BY <2>1, <2>10, <3>1 DEF RecordMissing, MarkMissing, Row
    <3> QED BY <3>2
  <2>11. CASE UNCHANGED rows
    BY <2>11
  <2>12. CASE SyncStep
    BY <2>4, <2>5, <2>6, <2>7, <2>8, <2>9, <2>11, <2>12
    DEF SyncStep, Commit, NoCommit, MayCommit, StartSync, AdoptVersion, AdoptClear, GitHubCopy,
        SaveNewVersion, ClearOldCheck, RecordUploaded, StatFails, StatFile, HashFile, HashRaises,
        GitHubPhaseEnds, EnterTelegram, TelegramPhaseEnds, UploadRaises, TelegramCopy,
        TelegramCopyFails, GitHubCopyFails, CopyFails, registryVars
  <2>13. CASE VerifyStep \/ Crash \/ Environment \/ UNCHANGED vars
    BY <2>10, <2>11, <2>13, VerifyLeaves, ReloginLeaves, UserLeaves, CrashLeaves DEF Environment
  <2> QED BY <2>12, <2>13 DEF Next, SyncTask, SyncStep
<1> QED BY <1>1, Inductive, IdsHold, PTL DEF Spec, InterruptedAttemptKeepsId
=============================================================================
