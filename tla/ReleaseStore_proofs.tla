------------------------- MODULE ReleaseStore_proofs -------------------------
(***************************************************************************)
(* Proofs about ReleaseStore, for any number of files, versions, parts,     *)
(* releases, uploads and crashes: a recorded copy names assets that are on  *)
(* the account, every recorded part gets into a manifest, three tries       *)
(* suffice, releases are sealed in time and parts are not sent twice.       *)
(*                                                                          *)
(* The first two rest on RInv.  A copy is recorded from the list of parts   *)
(* the upload has put together (job.parts), which is true only because the  *)
(* process's listings are (CacheIsTrue): a part may be taken from them      *)
(* without a request.  And what is deleted on the way is always the part in *)
(* hand, which is in no recorded copy because its version is not stored.    *)
(* The others have an invariant of their own each, on top of RInv.          *)
(***************************************************************************)
EXTENDS ReleaseStore, FiniteSetTheorems, WellFoundedInduction, TLAPS

-----------------------------------------------------------------------------
(* The inductive invariant *)

\* The types the argument needs; what a manifest says and how full a release is
\* do not matter to it.
Shapes ==
    /\ remote \in [Tags -> [Names -> Asset \union {Null}]]
    /\ DOMAIN listing = Tags
    /\ assets \in [Tags -> [Parts -> Nat \union {Null}]]
    /\ owner \in [Versions -> Files \union {Null}]
    /\ stored \in [Versions -> Seq(Place) \union {Null}]
    /\ cache \in [Tags -> [Names -> Asset \union {Null}] \union {Null}]
    /\ touched \subseteq Tags /\ queue \subseteq Tags /\ missed \subseteq Tags
    /\ pc \in Steps
    /\ job \in Job
    /\ uploads \in Nat

\* A request for an asset is under way.
Requesting == {"upload", "taken"}

\* For the manifest of a release, or for a part of a copy.
ForManifest == pc = "drop" \/ (pc \in Requesting /\ job.name = Manifest)
ForPart == pc \in {"reuse", "forget", "record"} \/ (pc \in Requesting /\ job.name # Manifest)
InCopy == ForPart \/ pc \in {"open", "count", "seal", "done"}

\* Part number i of the version v is on the account where `place` says.
Holds(v, i, place) == remote[place.tag][<<v, i>>] = [id |-> place.id, full |-> TRUE]

\* What the locals of the upload say.
JobTrue ==
    /\ InCopy => /\ job.version \in Versions
                 /\ stored[job.version] = Null
                 /\ owner[job.version] \in Files
                 /\ Len(job.parts) <= NumParts
                 /\ \A i \in DOMAIN job.parts : Holds(job.version, i, job.parts[i])
    /\ pc = "open" \/ ForPart => Len(job.parts) < NumParts
    /\ ForPart => job.target \in Tags /\ job.name = <<job.version, Len(job.parts) + 1>>
    /\ pc \in {"count", "seal"} => job.target \in Tags
    /\ pc = "record" => remote[job.target][job.name] = [id |-> uploads, full |-> TRUE]
    /\ pc = "drop" => job.name = Manifest
    /\ pc = "taken" => job.tries < MaxTries
    /\ ForManifest => job.target \in queue

StoredTrue ==
    \A v \in Versions : stored[v] # Null =>
        /\ owner[v] \in Files
        /\ Len(stored[v]) <= NumParts
        /\ \A i \in DOMAIN stored[v] : Holds(v, i, stored[v][i])

\* What is left to list.
ManifestsDue ==
    /\ \A t \in Tags, p \in Parts : assets[t][p] # Null => owner[p[1]] \in Files
    /\ PartsGetListed
    /\ pc = "manifests" \/ ForManifest =>
         /\ queue \subseteq touched
         /\ \A t \in touched \ (queue \union missed) : Listed(t)

RInv == Shapes /\ CacheIsTrue /\ JobTrue /\ StoredTrue /\ ManifestsDue

-----------------------------------------------------------------------------
(* Lemmas *)

\* The name of a part of a version.
LEMMA PartName ==
    ASSUME NEW v \in Versions, NEW n \in Nat, n < NumParts
    PROVE  <<v, n + 1>> \in Parts /\ <<v, n + 1>> \in Names /\ <<v, n + 1>> # Manifest
<1>1. n + 1 \in 1..NumParts
  BY ReleaseAssumption
<1> QED BY <1>1, ReleaseNullAssumption DEF Parts, Names

\* The locals keep their types under the assignments the code makes.
LEMMA JobTypes ==
    /\ NoJob \in Job
    /\ \A j \in Job, v \in Versions : [NoJob EXCEPT !.version = v] \in Job
    /\ \A j \in Job, t \in Tags, n \in Names : [j EXCEPT !.target = t, !.name = n] \in Job
    /\ \A j \in Job, b \in BOOLEAN : [j EXCEPT !.trouble = b] \in Job
    /\ \A j \in Job, b \in BOOLEAN : [j EXCEPT !.tries = 0, !.trouble = b] \in Job
    /\ \A j \in Job : j.tries < MaxTries => [j EXCEPT !.tries = @ + 1] \in Job
    /\ \A j \in Job, p \in Place : [j EXCEPT !.parts = Append(@, p)] \in Job
<1>1. NoJob \in Job
  BY DEF NoJob, Job, MaxTries
<1>2. \A j \in Job, v \in Versions : [NoJob EXCEPT !.version = v] \in Job
  BY <1>1 DEF Job
<1>3. \A j \in Job, t \in Tags, n \in Names : [j EXCEPT !.target = t, !.name = n] \in Job
  BY DEF Job
<1>4. \A j \in Job, b \in BOOLEAN : [j EXCEPT !.trouble = b] \in Job
  BY DEF Job
<1>5. \A j \in Job, b \in BOOLEAN : [j EXCEPT !.tries = 0, !.trouble = b] \in Job
  <2>1. 0 \in 0..MaxTries
    BY DEF MaxTries
  <2> QED BY <2>1 DEF Job
<1>6. \A j \in Job : j.tries < MaxTries => [j EXCEPT !.tries = @ + 1] \in Job
  BY DEF Job, MaxTries
<1>7. \A j \in Job, p \in Place : [j EXCEPT !.parts = Append(@, p)] \in Job
  BY DEF Job
<1> QED BY <1>1, <1>2, <1>3, <1>4, <1>5, <1>6, <1>7

\* While a part is handled, its name is that of a part.
LEMMA NameOfPart ==
    ASSUME RInv, ForPart
    PROVE  /\ job.name \in Parts /\ job.name \in Names /\ job.name # Manifest
           /\ job.name = <<job.version, Len(job.parts) + 1>>
           /\ job.version \in Versions /\ job.target \in Tags
           /\ Len(job.parts) \in Nat /\ Len(job.parts) < NumParts
<1>1. /\ job.version \in Versions /\ job.target \in Tags
      /\ Len(job.parts) \in Nat /\ Len(job.parts) < NumParts
      /\ job.name = <<job.version, Len(job.parts) + 1>>
  BY DEF RInv, Shapes, JobTrue, InCopy, Job
<1> QED BY <1>1, PartName

\* What a request is about.
LEMMA Aim ==
    ASSUME RInv, pc \in {"upload", "taken", "drop"}
    PROVE  job.target \in Tags /\ job.name \in Names
<1>1. CASE job.name = Manifest
  BY <1>1 DEF RInv, Shapes, JobTrue, ForManifest, Requesting, Names
<1>2. CASE job.name # Manifest
  <2>1. ForPart
    BY <1>2 DEF RInv, JobTrue, ForPart, Requesting
  <2> QED BY <2>1, NameOfPart
<1> QED BY <1>1, <1>2

\* Listings stay true while neither they nor the account change.
LEMMA CacheKept ==
    ASSUME RInv, UNCHANGED <<remote, cache>>
    PROVE  CacheIsTrue'
BY DEF RInv, CacheIsTrue

\* An element of a list of places.
LEMMA PlaceAt ==
    ASSUME NEW s \in Seq(Place), Len(s) <= NumParts, NEW i \in DOMAIN s
    PROVE  i \in 1..NumParts /\ i <= Len(s) /\ s[i].tag \in Tags /\ s[i].id \in Nat
<1>1. DOMAIN s = 1..Len(s) /\ Len(s) \in Nat /\ s[i] \in Place
  OBVIOUS
<1>2. i \in 1..NumParts /\ i <= Len(s)
  BY <1>1, ReleaseAssumption
<1> QED BY <1>1, <1>2 DEF Place

\* Recorded copies are not disturbed by what happens to other names.
LEMMA StoredKept ==
    ASSUME RInv, UNCHANGED <<owner, stored>>,
           \A t \in Tags, v \in Versions, i \in 1..NumParts :
               stored[v] # Null /\ remote[t][<<v, i>>] # Null
                   => remote'[t][<<v, i>>] = remote[t][<<v, i>>]
    PROVE  StoredTrue'
<1> SUFFICES ASSUME NEW v \in Versions, stored[v] # Null, NEW i \in DOMAIN stored[v]
             PROVE  Holds(v, i, stored[v][i])'
  BY DEF RInv, StoredTrue, Shapes
<1>1. stored[v] \in Seq(Place) /\ Len(stored[v]) <= NumParts /\ Holds(v, i, stored[v][i])
  BY DEF RInv, StoredTrue, Shapes
<1>2. i \in 1..NumParts /\ stored[v][i].tag \in Tags /\ stored[v][i].id \in Nat
  BY <1>1, PlaceAt
<1>3. remote[stored[v][i].tag][<<v, i>>] \in Asset
  BY <1>1, <1>2 DEF Holds, Asset
<1>4. remote[stored[v][i].tag][<<v, i>>] # Null
  BY <1>3, ReleaseNullAssumption
<1> QED BY <1>1, <1>2, <1>4 DEF Holds

\* Nor are the parts that the upload has behind it.
LEMMA PartsKept ==
    ASSUME RInv, InCopy,
           \A t \in Tags, i \in 1..NumParts :
               i <= Len(job.parts) /\ remote[t][<<job.version, i>>] # Null
                   => remote'[t][<<job.version, i>>] = remote[t][<<job.version, i>>]
    PROVE  \A i \in DOMAIN job.parts :
               remote'[job.parts[i].tag][<<job.version, i>>] = [id |-> job.parts[i].id, full |-> TRUE]
<1> SUFFICES ASSUME NEW i \in DOMAIN job.parts
             PROVE  remote'[job.parts[i].tag][<<job.version, i>>] = [id |-> job.parts[i].id, full |-> TRUE]
  OBVIOUS
<1>1. job.parts \in Seq(Place) /\ Len(job.parts) <= NumParts /\ Holds(job.version, i, job.parts[i])
  BY DEF RInv, JobTrue, Shapes, Job
<1>2. i \in 1..NumParts /\ i <= Len(job.parts) /\ job.parts[i].tag \in Tags /\ job.parts[i].id \in Nat
  BY <1>1, PlaceAt
<1>3. remote[job.parts[i].tag][<<job.version, i>>] \in Asset
  BY <1>1, <1>2 DEF Holds, Asset
<1>4. remote[job.parts[i].tag][<<job.version, i>>] # Null
  BY <1>3, ReleaseNullAssumption
<1> QED BY <1>1, <1>2, <1>4 DEF Holds

\* Parts that are listed stay listed, and those due stay due.
LEMMA DueKept ==
    ASSUME RInv, UNCHANGED <<assets, owner, touched, queue, missed>>,
           \A t \in Tags : Listed(t) => Listed(t)',
           (pc = "manifests" \/ ForManifest)' => pc = "manifests" \/ ForManifest
    PROVE  ManifestsDue'
BY DEF RInv, Shapes, ManifestsDue, PartsGetListed

\* What is listed stays listed while no manifest changes.
LEMMA ListedKept ==
    ASSUME UNCHANGED <<assets, listing>>
    PROVE  \A t \in Tags : Listed(t) => Listed(t)'
BY DEF Listed, Recorded

\* The manifest lists every part that is recorded.
LEMMA ManifestLists ==
    ASSUME RInv, UNCHANGED assets, NEW t \in Tags, listing'[t] = ManifestOf(t)
    PROVE  Listed(t)'
<1> SUFFICES ASSUME NEW p \in Recorded(t)
             PROVE  \E f \in DOMAIN ManifestOf(t) : p \in ManifestOf(t)[f].parts
  BY DEF Listed, Recorded
<1>1. owner[p[1]] \in FilesIn(t)
  BY DEF FilesIn
<1>2. p \in PartsOf(owner[p[1]], t)
  BY DEF PartsOf
<1>3. ManifestOf(t)[owner[p[1]]].parts = PartsOf(owner[p[1]], t) /\ owner[p[1]] \in DOMAIN ManifestOf(t)
  BY <1>1 DEF ManifestOf
<1> QED BY <1>2, <1>3

\* Storing an asset disturbs none that is there.
LEMMA StoreFacts ==
    ASSUME RInv, job.target \in Tags, job.name \in Names, NEW full \in BOOLEAN, Store(full)
    PROVE  /\ remote' \in [Tags -> [Names -> Asset \union {Null}]]
           /\ uploads' \in Nat /\ uploads' = uploads + 1
           /\ DOMAIN listing' = Tags
           /\ remote[job.target][job.name] = Null
           /\ remote'[job.target][job.name] = NewAsset(full)
           /\ NewAsset(full) \in Asset
           /\ \A t \in Tags, n \in Names : remote[t][n] # Null => remote'[t][n] = remote[t][n]
           /\ \A t \in Tags, n \in Names :
                 <<t, n>> # <<job.target, job.name>> => remote'[t][n] = remote[t][n]
           /\ job.name = Manifest /\ full => listing'[job.target] = ManifestOf(job.target)
<1>1. NewAsset(full) \in Asset
  BY DEF NewAsset, Asset, RInv, Shapes
<1> QED BY <1>1 DEF Store, Room, Taken, RInv, Shapes

\* Nor does it take a part out of a manifest.
LEMMA StoreListed ==
    ASSUME RInv, job.target \in Tags, NEW full \in BOOLEAN, Store(full), UNCHANGED assets
    PROVE  \A t \in Tags : Listed(t) => Listed(t)'
<1> SUFFICES ASSUME NEW t \in Tags, Listed(t) PROVE Listed(t)'
  OBVIOUS
<1>1. CASE job.name = Manifest /\ full /\ t = job.target
  BY <1>1, ManifestLists DEF Store, RInv, Shapes
<1>2. CASE ~(job.name = Manifest /\ full /\ t = job.target)
  <2>1. listing'[t] = listing[t]
    BY <1>2 DEF Store, RInv, Shapes
  <2> QED BY <2>1 DEF Listed, Recorded
<1> QED BY <1>1, <1>2

-----------------------------------------------------------------------------
(* Every step keeps the invariant: the run *)

\* A run starts.
LEMMA StartRunStep == RInv /\ StartRun => RInv'
<1> SUFFICES ASSUME RInv, StartRun PROVE RInv'
  OBVIOUS
<1>1. Shapes'
  BY DEF RInv, Shapes, Steps, StartRun, tables, memory, account
<1>2. CacheIsTrue'
  BY CacheKept DEF StartRun, tables, memory, account
<1>3. JobTrue'
  BY DEF RInv, Shapes, Job, JobTrue, InCopy, ForPart, ForManifest, Requesting, Holds, StartRun, tables, memory, account
<1>4. StoredTrue'
  BY StoredKept DEF StartRun, tables, memory, account
<1>5. ManifestsDue'
  BY DEF RInv, Shapes, JobTrue, ManifestsDue, PartsGetListed, Listed, Recorded, ForManifest, Requesting, StartRun, tables, memory, account
<1> QED BY <1>1, <1>2, <1>3, <1>4, <1>5 DEF RInv

\* A run breaks off.
LEMMA AbortRunStep == RInv /\ AbortRun => RInv'
<1> SUFFICES ASSUME RInv, AbortRun PROVE RInv'
  OBVIOUS
<1>1. Shapes'
  BY DEF RInv, Shapes, Steps, AbortRun, tables, memory, account
<1>2. CacheIsTrue'
  BY CacheKept DEF AbortRun, tables, memory, account
<1>3. JobTrue'
  BY DEF RInv, Shapes, Job, JobTrue, InCopy, ForPart, ForManifest, Requesting, Holds, AbortRun, tables, memory, account
<1>4. StoredTrue'
  BY StoredKept DEF AbortRun, tables, memory, account
<1>5. ManifestsDue'
  BY DEF RInv, Shapes, JobTrue, ManifestsDue, PartsGetListed, Listed, Recorded, ForManifest, Requesting, AbortRun, tables, memory, account
<1> QED BY <1>1, <1>2, <1>3, <1>4, <1>5 DEF RInv

\* The manifests are due.
LEMMA EndWalkStep == RInv /\ EndWalk => RInv'
<1> SUFFICES ASSUME RInv, EndWalk PROVE RInv'
  OBVIOUS
<1>1. Shapes'
  BY DEF RInv, Shapes, Steps, EndWalk, tables, memory, account
<1>2. CacheIsTrue'
  BY CacheKept DEF EndWalk, tables, memory, account
<1>3. JobTrue'
  BY ReleaseNullAssumption DEF RInv, Shapes, Job, JobTrue, InCopy, ForPart, ForManifest, Requesting, Holds, EndWalk, tables, memory, account
<1>4. StoredTrue'
  BY StoredKept DEF EndWalk, tables, memory, account
<1>5. ManifestsDue'
  BY DEF RInv, Shapes, JobTrue, ManifestsDue, PartsGetListed, Listed, Recorded, ForManifest, Requesting, EndWalk, tables, memory, account
<1> QED BY <1>1, <1>2, <1>3, <1>4, <1>5 DEF RInv

\* All manifests were written or failed.
LEMMA EndRunStep == RInv /\ EndRun => RInv'
<1> SUFFICES ASSUME RInv, EndRun PROVE RInv'
  OBVIOUS
<1>1. Shapes'
  BY DEF RInv, Shapes, Steps, EndRun, tables, memory, account
<1>2. CacheIsTrue'
  BY CacheKept DEF EndRun, tables, memory, account
<1>3. JobTrue'
  BY ReleaseNullAssumption DEF RInv, Shapes, Job, JobTrue, InCopy, ForPart, ForManifest, Requesting, Holds, EndRun, tables, memory, account
<1>4. StoredTrue'
  BY StoredKept DEF EndRun, tables, memory, account
<1>5. ManifestsDue'
  BY DEF RInv, Shapes, JobTrue, ManifestsDue, PartsGetListed, Listed, Recorded, ForManifest, Requesting, EndRun, tables, memory, account
<1> QED BY <1>1, <1>2, <1>3, <1>4, <1>5 DEF RInv

\* A manifest has its turn.
LEMMA WriteManifestStep == RInv /\ WriteManifest => RInv'
<1> SUFFICES ASSUME RInv, WriteManifest PROVE RInv'
  OBVIOUS
<1>1. Shapes'
  <2>1. \A t \in Tags : [NoJob EXCEPT !.target = t, !.name = Manifest] \in Job
    BY JobTypes DEF Names
  <2> QED BY <2>1 DEF RInv, Shapes, Steps, WriteManifest, tables, memory, account
<1>2. CacheIsTrue'
  BY CacheKept DEF WriteManifest, tables, memory, account
<1>3. JobTrue'
  BY DEF RInv, Shapes, Job, JobTrue, InCopy, ForPart, ForManifest, Requesting, Holds, NoJob, First, WriteManifest, tables, memory, account
<1>4. StoredTrue'
  BY StoredKept DEF WriteManifest, tables, memory, account
<1>5. ManifestsDue'
  BY DEF RInv, Shapes, ManifestsDue, PartsGetListed, Listed, Recorded, ForManifest, Requesting, NoJob, WriteManifest, tables, memory, account
<1> QED BY <1>1, <1>2, <1>3, <1>4, <1>5 DEF RInv

\* What was in memory is lost; the releases touched count as missed.
LEMMA CrashStep == RInv /\ Crash => RInv'
<1> SUFFICES ASSUME RInv, Crash PROVE RInv'
  OBVIOUS
<1>1. Shapes'
  BY JobTypes DEF RInv, Shapes, Steps, Crash, tables, memory, account
<1>2. CacheIsTrue'
  BY DEF RInv, Shapes, CacheIsTrue, Crash, tables, memory, account
<1>3. JobTrue'
  BY DEF JobTrue, InCopy, ForPart, ForManifest, Requesting, Holds, Crash
<1>4. StoredTrue'
  BY StoredKept DEF Crash, tables, memory, account
<1>5. ManifestsDue'
  BY DEF RInv, Shapes, ManifestsDue, PartsGetListed, Listed, Recorded, ForManifest, Requesting, Crash, tables, memory, account
<1> QED BY <1>1, <1>2, <1>3, <1>4, <1>5 DEF RInv

\* A version without a stored copy is begun, or begun again.
LEMMA BeginCopyStep ==
    ASSUME RInv, NEW f \in Files, NEW v \in Versions, BeginCopy(f, v)
    PROVE  RInv'
<1>1. stored[v] = Null
  BY ReleaseNullAssumption DEF RInv, StoredTrue, BeginCopy
<1>2. owner' \in [Versions -> Files \union {Null}] /\ owner'[v] = f
  BY DEF RInv, Shapes, BeginCopy
<1>3. \A u \in Versions : owner[u] \in Files => owner'[u] \in Files
  BY <1>2 DEF RInv, Shapes, BeginCopy
<1>4. Shapes'
  BY <1>2, JobTypes DEF RInv, Shapes, Steps, BeginCopy, tables, memory, account
<1>5. CacheIsTrue'
  BY CacheKept DEF BeginCopy, tables, memory, account
<1>6. JobTrue'
  BY <1>1, <1>2, ReleaseAssumption DEF JobTrue, InCopy, ForPart, ForManifest, Requesting, Holds, NoJob, BeginCopy, tables, memory, account
<1>7. StoredTrue'
  BY <1>3 DEF RInv, StoredTrue, Holds, BeginCopy, tables, memory, account
<1>8. ManifestsDue'
  BY <1>3 DEF RInv, Parts, ManifestsDue, PartsGetListed, Listed, Recorded, ForManifest, Requesting, NoJob, BeginCopy, tables, memory, account
<1> QED BY <1>4, <1>5, <1>6, <1>7, <1>8 DEF RInv

\* The row of a file is pointed at a stored version.
LEMMA AdoptStep ==
    ASSUME RInv, NEW f \in Files, NEW v \in Versions, Adopt(f, v)
    PROVE  RInv'
<1>1. Shapes'
  BY DEF RInv, Shapes, Steps, Adopt, tables, memory, account
<1>2. CacheIsTrue'
  BY CacheKept DEF Adopt, tables, memory, account
<1>3. JobTrue'
  BY DEF RInv, JobTrue, InCopy, ForPart, ForManifest, Requesting, Holds, Adopt, tables, memory, account
<1>4. StoredTrue'
  BY StoredKept DEF Adopt, tables, memory, account
<1>5. ManifestsDue'
  BY DEF RInv, ManifestsDue, PartsGetListed, Listed, Recorded, ForManifest, Requesting, Adopt, tables, memory, account
<1> QED BY <1>1, <1>2, <1>3, <1>4, <1>5 DEF RInv

-----------------------------------------------------------------------------
(* Every step keeps the invariant: finding a place for a part *)

\* The open release is taken.
LEMMA OpenReleaseStep == RInv /\ OpenRelease => RInv'
<1> SUFFICES ASSUME RInv, OpenRelease PROVE RInv'
  OBVIOUS
<1>1. Shapes'
  <2>1. job.version \in Versions /\ Len(job.parts) \in Nat /\ Len(job.parts) < NumParts
    BY DEF RInv, Shapes, JobTrue, InCopy, Job, OpenRelease
  <2>2. \A t \in Tags : AtTarget(t) \in Job
    BY <2>1, PartName, JobTypes DEF RInv, Shapes, AtTarget
  <2>3. job' \in Job
    BY <2>2 DEF RInv, Shapes, OpenRelease
  <2> QED BY <2>3 DEF RInv, Shapes, Steps, OpenRelease, tables, memory, account
<1>2. CacheIsTrue'
  BY CacheKept DEF OpenRelease, tables, memory, account
<1>3. JobTrue'
  BY PartName DEF RInv, Shapes, Job, JobTrue, InCopy, ForPart, ForManifest, Requesting, Holds, AtTarget, OpenRelease, tables, memory, account
<1>4. StoredTrue'
  BY StoredKept DEF OpenRelease, tables, memory, account
<1>5. ManifestsDue'
  BY DEF RInv, ManifestsDue, PartsGetListed, Listed, Recorded, ForManifest, Requesting, OpenRelease, tables, memory, account
<1> QED BY <1>1, <1>2, <1>3, <1>4, <1>5 DEF RInv

\* A release is added with the listing of what it holds.
LEMMA CreateReleaseStep == RInv /\ CreateRelease => RInv'
<1> SUFFICES ASSUME RInv, CreateRelease PROVE RInv'
  OBVIOUS
<1>1. Shapes'
  <2>1. job.version \in Versions /\ Len(job.parts) \in Nat /\ Len(job.parts) < NumParts
    BY DEF RInv, Shapes, JobTrue, InCopy, Job, CreateRelease
  <2>2. \A t \in Tags : AtTarget(t) \in Job
    BY <2>1, PartName, JobTypes DEF RInv, Shapes, AtTarget
  <2>3. job' \in Job
    BY <2>2 DEF RInv, Shapes, CreateRelease
  <2> QED BY <2>3 DEF RInv, Shapes, Steps, CreateRelease, tables, memory, account
<1>2. CacheIsTrue'
  BY DEF RInv, Shapes, CacheIsTrue, CreateRelease, tables, memory, account
<1>3. JobTrue'
  <2>1. CASE UNCHANGED <<pc, job>>
    BY <2>1 DEF RInv, JobTrue, InCopy, ForPart, ForManifest, Requesting, Holds, CreateRelease, account, memory, tables
  <2>2. CASE pc' = "reuse" /\ \E t \in Tags : job' = AtTarget(t)
    BY <2>2 DEF RInv, Shapes, Job, JobTrue, InCopy, ForPart, ForManifest, Requesting, Holds, AtTarget, CreateRelease, account
  <2> QED BY <2>1, <2>2 DEF CreateRelease
<1>4. StoredTrue'
  BY StoredKept DEF CreateRelease, tables, memory, account
<1>5. ManifestsDue'
  BY DEF RInv, ManifestsDue, PartsGetListed, Listed, Recorded, ForManifest, Requesting, CreateRelease, tables, memory, account
<1> QED BY <1>1, <1>2, <1>3, <1>4, <1>5 DEF RInv

\* No release can be opened: the copy is given up.
LEMMA OpenFailsStep == RInv /\ OpenFails => RInv'
<1> SUFFICES ASSUME RInv, OpenFails PROVE RInv'
  OBVIOUS
<1>1. Shapes'
  BY JobTypes DEF RInv, Shapes, Steps, OpenFails, tables, memory, account
<1>2. CacheIsTrue'
  BY CacheKept DEF OpenFails, tables, memory, account
<1>3. JobTrue'
  BY DEF JobTrue, InCopy, ForPart, ForManifest, Requesting, Holds, OpenFails
<1>4. StoredTrue'
  BY StoredKept DEF OpenFails, tables, memory, account
<1>5. ManifestsDue'
  BY DEF RInv, ManifestsDue, PartsGetListed, Listed, Recorded, ForManifest, Requesting, OpenFails, tables, memory, account
<1> QED BY <1>1, <1>2, <1>3, <1>4, <1>5 DEF RInv

\* A listing that is looked at is a true one.
LEMMA LookTrue ==
    ASSUME RInv, NEW t \in Tags, Look(t), UNCHANGED remote
    PROVE  /\ cache' \in [Tags -> [Names -> Asset \union {Null}] \union {Null}]
           /\ CacheIsTrue'
BY DEF RInv, Shapes, CacheIsTrue, Look

\* A part that the listing shows is on the account: it joins the list.
LEMMA ReusePartStep == RInv /\ ReusePart => RInv'
<1> SUFFICES ASSUME RInv, ReusePart PROVE RInv'
  OBVIOUS
<1>0. ForPart
  BY DEF ReusePart, ForPart
<1>1. PICK t \in Known :
        /\ Look(t)
        /\ Seen(t) \in Whole
        /\ job' = [job EXCEPT !.parts = Append(@, [tag |-> t, id |-> Seen(t).id])]
  BY DEF ReusePart
<1> DEFINE p == [tag |-> t, id |-> Seen(t).id]
<1>2. t \in Tags /\ p \in Place
  BY <1>1 DEF Known, Whole, Place
<1>3. remote[t][job.name] = [id |-> p.id, full |-> TRUE]
  <2>1. Seen(t) = [id |-> p.id, full |-> TRUE]
    BY <1>1 DEF Whole
  <2>2. Seen(t) = remote[t][job.name]
    BY <1>0, <1>1, <1>2, <2>1, NameOfPart, ReleaseNullAssumption
       DEF Seen, RInv, CacheIsTrue, Whole, Asset
  <2> QED BY <2>1, <2>2
<1>4. /\ job.parts \in Seq(Place)
      /\ job' \in Job /\ job'.parts = Append(job.parts, p)
      /\ job'.version = job.version /\ job'.target = job.target
  <2>1. job \in Job /\ job.parts \in Seq(Place)
    BY DEF RInv, Shapes, Job
  <2>2. job' = [job EXCEPT !.parts = Append(job.parts, p)]
    BY <1>1, <2>1
  <2>3. job' \in Job
    BY <2>1, <2>2, <1>2, JobTypes
  <2>4. /\ job'.parts = Append(job.parts, p)
        /\ job'.version = job.version /\ job'.target = job.target
    BY <2>1, <2>2 DEF Job
  <2> QED BY <2>1, <2>3, <2>4
<1>5. Shapes'
  BY <1>1, <1>2, <1>4, LookTrue DEF ReusePart, AfterPart, RInv, Shapes, Steps, tables, memory, account
<1>6. CacheIsTrue'
  BY <1>1, <1>2, LookTrue DEF ReusePart, account
<1>7. JobTrue'
  <2>1. /\ stored'[job'.version] = Null /\ owner'[job'.version] \in Files
        /\ job'.version \in Versions
    BY <1>0, <1>4 DEF ReusePart, RInv, JobTrue, InCopy, tables
  <2>2. Len(job'.parts) = Len(job.parts) + 1 /\ Len(job'.parts) <= NumParts
    BY <1>0, <1>4, NameOfPart, ReleaseAssumption
  <2>3. pc' = "open" => Len(job'.parts) < NumParts
    BY <2>2, <1>0, NameOfPart, ReleaseAssumption DEF ReusePart, AfterPart
  <2>4. \A i \in DOMAIN job'.parts : Holds(job.version, i, job'.parts[i])
    <3> SUFFICES ASSUME NEW i \in DOMAIN job'.parts PROVE Holds(job.version, i, job'.parts[i])
      OBVIOUS
    <3>1. CASE i \in DOMAIN job.parts
      BY <3>1, <1>0, <1>2, <1>4 DEF RInv, JobTrue, InCopy
    <3>2. CASE i \notin DOMAIN job.parts
      <4>1. i = Len(job.parts) + 1 /\ job'.parts[i] = p
        BY <3>2, <1>2, <1>4
      <4> QED BY <4>1, <1>0, <1>3, NameOfPart DEF Holds
    <3> QED BY <3>1, <3>2
  <2>5. (\A i \in DOMAIN job.parts : Holds(job.version, i, job.parts[i]))'
    <3>1. remote' = remote
      BY DEF ReusePart, account
    <3> QED BY <2>4, <1>4, <3>1 DEF Holds
  <2>6. pc' \in {"open", "done"}
    BY DEF ReusePart, AfterPart
  <2> QED BY <2>1, <2>2, <2>3, <2>5, <2>6 DEF JobTrue, InCopy, ForPart, ForManifest, Requesting
<1>8. StoredTrue'
  BY StoredKept DEF ReusePart, tables, memory, account
<1>9. ManifestsDue'
  <2>1. pc' \in {"open", "done"}
    BY DEF ReusePart, AfterPart
  <2> QED BY <2>1, DueKept, ListedKept DEF ReusePart, ForManifest, Requesting, tables, memory, account
<1> QED BY <1>5, <1>6, <1>7, <1>8, <1>9 DEF RInv

\* The part is to be uploaded.
LEMMA NothingToReuseStep == RInv /\ NothingToReuse => RInv'
<1> SUFFICES ASSUME RInv, NothingToReuse PROVE RInv'
  OBVIOUS
<1>0. ForPart /\ pc' = "upload" /\ job.name # Manifest
  BY NameOfPart DEF NothingToReuse, ForPart
<1>1. UNCHANGED cache \/ \E t \in Tags : Look(t)
  BY DEF NothingToReuse, Known
<1>2. /\ cache' \in [Tags -> [Names -> Asset \union {Null}] \union {Null}]
      /\ CacheIsTrue'
  BY <1>1, LookTrue, CacheKept DEF NothingToReuse, account, RInv, Shapes
<1>3. Shapes'
  BY <1>2 DEF NothingToReuse, RInv, Shapes, Steps, tables, memory, account
<1>4. JobTrue'
  BY <1>0 DEF NothingToReuse, RInv, JobTrue, InCopy, ForPart, ForManifest, Requesting, Holds, tables, memory, account
<1>5. StoredTrue'
  BY StoredKept DEF NothingToReuse, tables, memory, account
<1>6. ManifestsDue'
  BY <1>0, DueKept, ListedKept DEF NothingToReuse, ForManifest, Requesting, tables, memory, account
<1> QED BY <1>2, <1>3, <1>4, <1>5, <1>6 DEF RInv

-----------------------------------------------------------------------------
(* Every step keeps the invariant: requests *)

\* A request under way touches no asset but the one it is about, and takes no
\* part out of a manifest unless it is about that manifest.
Spares ==
    /\ remote' \in [Tags -> [Names -> Asset \union {Null}]]
    /\ DOMAIN listing' = Tags
    /\ uploads' \in Nat
    /\ \A t \in Tags, n \in Names :
         remote[t][n] # Null => remote'[t][n] = remote[t][n] \/ n = job.name
    /\ \A t \in Tags : Listed(t) => Listed(t)' \/ (job.name = Manifest /\ t = job.target)

\* Storing an asset spares the others.
LEMMA StoreSpares ==
    ASSUME RInv, pc = "upload", NEW full \in BOOLEAN, Store(full), UNCHANGED assets
    PROVE  Spares
<1>1. job.target \in Tags /\ job.name \in Names
  BY Aim
<1> QED BY <1>1, StoreFacts, StoreListed DEF Spares

\* So does a request without effect.
LEMMA NoEffectSpares ==
    ASSUME RInv, UNCHANGED <<account, assets>>
    PROVE  Spares
<1>1. \A t \in Tags : Listed(t) => Listed(t)'
  BY ListedKept DEF account
<1> QED BY <1>1 DEF Spares, RInv, Shapes, account

\* And a deletion: of the asset the request is about.
LEMMA RemoveSpares ==
    ASSUME RInv, pc \in {"taken", "drop"}, NEW asset, Remove(asset), UNCHANGED assets
    PROVE  Spares
<1>1. job.target \in Tags /\ job.name \in Names
  BY Aim
<1>2. \A t \in Tags : Listed(t) => Listed(t)' \/ (job.name = Manifest /\ t = job.target)
  <2> SUFFICES ASSUME NEW t \in Tags, Listed(t), ~(job.name = Manifest /\ t = job.target)
               PROVE  Listed(t)'
    OBVIOUS
  <2>1. listing'[t] = listing[t]
    BY <1>1 DEF Remove, RInv, Shapes
  <2> QED BY <2>1 DEF Listed, Recorded
<1> QED BY <1>1, <1>2 DEF Spares, Remove, RInv, Shapes

\* The part in hand is in no recorded copy: those are spared.
LEMMA SparesStored ==
    ASSUME RInv, pc \in {"upload", "taken", "drop"}, Spares, UNCHANGED <<owner, stored>>
    PROVE  StoredTrue'
<1>1. ASSUME NEW t \in Tags, NEW v \in Versions, NEW i \in 1..NumParts,
             stored[v] # Null, remote[t][<<v, i>>] # Null
      PROVE  remote'[t][<<v, i>>] = remote[t][<<v, i>>]
  <2>1. <<v, i>> \in Parts /\ <<v, i>> \in Names /\ <<v, i>> # Manifest
    BY ReleaseNullAssumption DEF Parts, Names
  <2>2. job.name # <<v, i>>
    <3>1. CASE job.name = Manifest
      BY <3>1, <2>1
    <3>2. CASE job.name # Manifest
      <4>1. ForPart /\ stored[job.version] = Null
        BY <3>2 DEF RInv, JobTrue, ForPart, InCopy, Requesting
      <4> QED BY <4>1, <1>1, NameOfPart
    <3> QED BY <3>1, <3>2
  <2> QED BY <1>1, <2>1, <2>2 DEF Spares
<1> QED BY <1>1, StoredKept

\* Nor is it one of those the copy has behind it.
LEMMA SparesParts ==
    ASSUME RInv, ForPart, Spares
    PROVE  \A i \in DOMAIN job.parts :
               remote'[job.parts[i].tag][<<job.version, i>>] = [id |-> job.parts[i].id, full |-> TRUE]
<1>1. ASSUME NEW t \in Tags, NEW i \in 1..NumParts, i <= Len(job.parts),
             remote[t][<<job.version, i>>] # Null
      PROVE  remote'[t][<<job.version, i>>] = remote[t][<<job.version, i>>]
  <2>1. job.version \in Versions /\ job.name = <<job.version, Len(job.parts) + 1>>
        /\ Len(job.parts) \in Nat
    BY NameOfPart
  <2>2. <<job.version, i>> \in Names
    BY <2>1 DEF Parts, Names
  <2>3. i # Len(job.parts) + 1
    BY <1>1, <2>1, ReleaseAssumption
  <2> QED BY <1>1, <2>1, <2>2, <2>3 DEF Spares
<1> QED BY <1>1, PartsKept DEF InCopy

\* A request was answered and the same asset stays in hand.
LEMMA StillInHand ==
    ASSUME RInv, pc \in {"upload", "taken", "drop"}, Spares,
           UNCHANGED <<assets, owner, stored, touched, queue, missed>>,
           job' \in Job,
           job'.version = job.version, job'.name = job.name,
           job'.target = job.target, job'.parts = job.parts,
           pc' \in {"upload", "taken", "forget", "record"},
           pc' = "taken" => job'.tries < MaxTries,
           pc' \in {"forget", "record"} => job.name # Manifest,
           pc' = "record" => remote'[job.target][job.name] = [id |-> uploads', full |-> TRUE]
    PROVE  JobTrue' /\ ManifestsDue'
<1>1. CASE job.name = Manifest
  <2>1. ForManifest /\ job.target \in queue
    BY <1>1 DEF RInv, JobTrue, ForManifest, Requesting
  <2>2. JobTrue'
    BY <1>1, <2>1 DEF JobTrue, InCopy, ForPart, ForManifest, Requesting
  <2>3. \A t \in Tags : Listed(t) => Listed(t)' \/ t = job.target
    BY DEF Spares
  <2>4. ManifestsDue'
    BY <2>1, <2>3 DEF RInv, Shapes, ManifestsDue, PartsGetListed
  <2> QED BY <2>2, <2>4
<1>2. CASE job.name # Manifest
  <2>1. ForPart
    BY <1>2 DEF RInv, JobTrue, ForPart, Requesting
  <2>2. ~ForManifest' /\ ~ForManifest /\ ForPart'
    BY <1>2, <2>1 DEF RInv, JobTrue, ForPart, ForManifest, Requesting
  <2>3. (\A i \in DOMAIN job.parts : Holds(job.version, i, job.parts[i]))'
    BY <2>1, SparesParts DEF Holds
  <2>4. JobTrue'
    BY <2>1, <2>2, <2>3 DEF RInv, JobTrue, InCopy
  <2>5. \A t \in Tags : Listed(t) => Listed(t)'
    BY <1>2 DEF Spares
  <2>6. ManifestsDue'
    BY <2>2, <2>5, DueKept
  <2> QED BY <2>4, <2>6
<1> QED BY <1>1, <1>2

\* An upload that raises: a part is given up, a manifest counts as missed.
LEMMA FailKept ==
    ASSUME RInv, pc = "upload", Spares, Fail, UNCHANGED <<assets, owner, touched>>
    PROVE  /\ pc' \in Steps /\ job' \in Job /\ queue' \subseteq Tags /\ missed' \subseteq Tags
           /\ JobTrue' /\ ManifestsDue'
<1>1. job.target \in Tags
  BY Aim
<1>2. pc' \in Steps /\ job' \in Job /\ queue' \subseteq Tags /\ missed' \subseteq Tags
  BY <1>1, JobTypes DEF Fail, Steps, RInv, Shapes
<1>3. JobTrue'
  BY DEF JobTrue, InCopy, ForPart, ForManifest, Requesting, Fail
<1>4. ManifestsDue'
  <2>1. CASE job.name = Manifest
    <3>1. ForManifest
      BY <2>1 DEF ForManifest, Requesting
    <3>2. job.target \in queue /\ job.target \in missed' /\ \A t \in Tags : Listed(t) => Listed(t)' \/ t = job.target
      BY <2>1, <3>1 DEF RInv, JobTrue, Fail, Spares
    <3> QED BY <2>1, <3>1, <3>2 DEF RInv, Shapes, ManifestsDue, PartsGetListed, Fail
  <2>2. CASE job.name # Manifest
    <3>1. pc' = "walk" /\ UNCHANGED <<queue, missed>>
      BY <2>2 DEF Fail
    <3>2. \A t \in Tags : Listed(t) => Listed(t)'
      BY <2>2 DEF Spares
    <3> QED BY <3>1, <3>2, DueKept DEF ForManifest, Requesting
  <2> QED BY <2>1, <2>2
<1> QED BY <1>2, <1>3, <1>4

\* What was listed stays on the account while nothing is removed.
LEMMA GrownCache ==
    ASSUME RInv, UNCHANGED cache,
           \A t \in Tags, n \in Names : remote[t][n] # Null => remote'[t][n] = remote[t][n]
    PROVE  CacheIsTrue'
BY DEF RInv, CacheIsTrue

\* The listing kept of a release, or the empty one.
LEMMA CachedTrue ==
    ASSUME RInv, job.target \in Tags
    PROVE  /\ CachedAssets \in [Names -> Asset \union {Null}]
           /\ \A n \in Names : CachedAssets[n] # Null => remote[job.target][n] = CachedAssets[n]
BY DEF RInv, Shapes, CacheIsTrue, CachedAssets, Nothing

\* The asset was stored.
LEMMA UploadOkStep == RInv /\ UploadOk => RInv'
<1> SUFFICES ASSUME RInv, UploadOk PROVE RInv'
  OBVIOUS
<1>0. pc = "upload" /\ job.tries < MaxTries
  BY DEF UploadOk, Uploading
<1>1. job.target \in Tags /\ job.name \in Names
  BY <1>0, Aim
<1>2. Store(TRUE) /\ CacheAsset(NewAsset(TRUE))
  BY DEF UploadOk, Acceptable
<1>3. UNCHANGED <<assets, owner, stored, touched>>
  BY DEF UploadOk, tables
<1>4. Spares
  BY <1>0, <1>2, <1>3, StoreSpares
<1>5. /\ NewAsset(TRUE) \in Asset
      /\ remote'[job.target][job.name] = NewAsset(TRUE)
      /\ \A t \in Tags, n \in Names : remote[t][n] # Null => remote'[t][n] = remote[t][n]
      /\ uploads' = uploads + 1
      /\ job.name = Manifest => listing'[job.target] = ManifestOf(job.target)
  BY <1>1, <1>2, StoreFacts
<1>6. /\ cache' \in [Tags -> [Names -> Asset \union {Null}] \union {Null}]
      /\ CacheIsTrue'
  <2>1. /\ CachedAssets \in [Names -> Asset \union {Null}]
        /\ \A n \in Names : CachedAssets[n] # Null => remote[job.target][n] = CachedAssets[n]
    BY <1>1, CachedTrue
  <2> DEFINE c == [CachedAssets EXCEPT ![job.name] = NewAsset(TRUE)]
  <2>3. /\ c \in [Names -> Asset \union {Null}]
        /\ \A n \in Names : c[n] # Null => remote'[job.target][n] = c[n]
    BY <1>1, <1>5, <2>1
  <2>4. cache' = [cache EXCEPT ![job.target] = c]
    BY <1>2 DEF CacheAsset
  <2>5. cache' \in [Tags -> [Names -> Asset \union {Null}] \union {Null}]
    BY <2>3, <2>4 DEF RInv, Shapes
  <2>6. CacheIsTrue'
    <3> SUFFICES ASSUME NEW t \in Tags, NEW n \in Names, cache'[t] # Null, cache'[t][n] # Null
                 PROVE  remote'[t][n] = cache'[t][n]
      BY DEF CacheIsTrue
    <3>1. CASE t = job.target
      BY <3>1, <2>3, <2>4 DEF RInv, Shapes
    <3>2. CASE t # job.target
      <4>1. cache'[t] = cache[t]
        BY <3>2, <2>4 DEF RInv, Shapes
      <4> QED BY <4>1, <1>5 DEF RInv, CacheIsTrue
    <3> QED BY <3>1, <3>2
  <2> QED BY <2>5, <2>6
<1>7. StoredTrue'
  BY <1>0, <1>3, <1>4, SparesStored
<1>8. CASE job.name = Manifest
  <2>1. /\ pc' = "manifests" /\ job' = NoJob
        /\ queue' = queue \ {job.target} /\ missed' = missed \ {job.target}
    BY <1>8 DEF UploadOk
  <2>2. Shapes'
    BY <1>3, <1>4, <1>6, <2>1, JobTypes DEF RInv, Shapes, Steps, Spares
  <2>3. JobTrue'
    BY <2>1 DEF JobTrue, InCopy, ForPart, ForManifest, Requesting
  <2>9. PICK d \in Tags : d = job.target
    BY <1>1
  <2>4. Listed(d)'
    BY <2>9, <1>3, <1>5, <1>8, ManifestLists
  <2>5. \A t \in Tags : Listed(t) => Listed(t)'
    BY <1>4, <2>9, <2>4 DEF Spares
  <2>6. ForManifest /\ job.target \in queue
    BY <1>0, <1>8 DEF RInv, JobTrue, ForManifest, Requesting
  <2>7. ManifestsDue'
    BY <1>3, <2>9, <2>1, <2>4, <2>5, <2>6 DEF RInv, Shapes, ManifestsDue, PartsGetListed
  <2> QED BY <1>6, <1>7, <2>2, <2>3, <2>7 DEF RInv
<1>9. CASE job.name # Manifest
  <2>1. /\ pc' = "record" /\ job' = [job EXCEPT !.tries = 0, !.trouble = FALSE]
        /\ UNCHANGED <<queue, missed>>
    BY <1>9 DEF UploadOk
  <2>2. job \in Job /\ job' \in Job
    BY <2>1, JobTypes DEF RInv, Shapes
  <2>3. /\ job'.version = job.version /\ job'.name = job.name
        /\ job'.target = job.target /\ job'.parts = job.parts
    BY <2>1, <2>2 DEF Job
  <2>4. remote'[job.target][job.name] = [id |-> uploads', full |-> TRUE]
    BY <1>5 DEF NewAsset
  <2>5. JobTrue' /\ ManifestsDue'
    BY <1>0, <1>3, <1>4, <1>9, <2>1, <2>2, <2>3, <2>4, StillInHand
  <2>6. Shapes'
    BY <1>3, <1>4, <1>6, <2>1, <2>2 DEF RInv, Shapes, Steps, Spares
  <2> QED BY <1>6, <1>7, <2>5, <2>6 DEF RInv
<1> QED BY <1>8, <1>9

\* The answer says size 0: nothing is listed and the part is sent again.
LEMMA UploadEmptyStep == RInv /\ UploadEmpty => RInv'
<1> SUFFICES ASSUME RInv, UploadEmpty PROVE RInv'
  OBVIOUS
<1>0. pc = "upload" /\ pc' = "upload" /\ job.tries < MaxTries
  BY DEF UploadEmpty, Uploading
<1>1. job.target \in Tags /\ job.name \in Names
  BY <1>0, Aim
<1>2. UNCHANGED <<assets, owner, stored, touched, queue, missed>>
  BY DEF UploadEmpty, tables
<1>3. /\ Spares
      /\ \A t \in Tags, n \in Names : remote[t][n] # Null => remote'[t][n] = remote[t][n]
  <2>1. CASE Store(FALSE)
    BY <1>0, <1>1, <1>2, <2>1, StoreSpares, StoreFacts
  <2>2. CASE uploads' = uploads + 1 /\ UNCHANGED <<remote, listing>>
    <3>1. \A t \in Tags : Listed(t) => Listed(t)'
      BY <1>2, <2>2, ListedKept
    <3> QED BY <2>2, <3>1 DEF Spares, RInv, Shapes
  <2> QED BY <2>1, <2>2 DEF UploadEmpty
<1>4. /\ job' \in Job
      /\ job'.version = job.version /\ job'.name = job.name
      /\ job'.target = job.target /\ job'.parts = job.parts
  <2>1. job \in Job /\ job' = [job EXCEPT !.tries = job.tries + 1, !.trouble = TRUE]
    BY DEF UploadEmpty, RInv, Shapes
  <2>2. [job EXCEPT !.tries = job.tries + 1] \in Job
    BY <1>0, <2>1, JobTypes
  <2>3. job' = [[job EXCEPT !.tries = job.tries + 1] EXCEPT !.trouble = TRUE]
    BY <2>1 DEF Job
  <2>4. job' \in Job
    BY <2>2, <2>3, JobTypes
  <2>5. /\ job'.version = job.version /\ job'.name = job.name
        /\ job'.target = job.target /\ job'.parts = job.parts
    BY <2>1 DEF Job
  <2> QED BY <2>4, <2>5
<1>5. /\ cache' \in [Tags -> [Names -> Asset \union {Null}] \union {Null}]
      /\ CacheIsTrue'
  <2>1. CASE cache[job.target] = Null
    <3>1. UNCHANGED cache
      BY <2>1 DEF UploadEmpty
    <3> QED BY <1>3, <3>1, GrownCache DEF RInv, Shapes
  <2>2. CASE cache[job.target] # Null
    <3>1. cache' = [cache EXCEPT ![job.target][job.name] = Null]
      BY <2>2 DEF UploadEmpty
    <3>2. cache[job.target] \in [Names -> Asset \union {Null}]
      BY <1>1, <2>2 DEF RInv, Shapes
    <3>3. cache' \in [Tags -> [Names -> Asset \union {Null}] \union {Null}]
      BY <1>1, <3>1, <3>2 DEF RInv, Shapes
    <3>4. \A t \in Tags, n \in Names :
             cache'[t] # Null /\ cache'[t][n] # Null => cache[t] # Null /\ cache'[t][n] = cache[t][n]
      BY <1>1, <2>2, <3>1, <3>2 DEF RInv, Shapes
    <3> QED BY <1>3, <3>3, <3>4 DEF RInv, CacheIsTrue
  <2> QED BY <2>1, <2>2
<1>6. JobTrue' /\ ManifestsDue'
  BY <1>0, <1>2, <1>3, <1>4, StillInHand
<1>7. StoredTrue'
  BY <1>0, <1>2, <1>3, SparesStored
<1>8. Shapes'
  BY <1>0, <1>2, <1>3, <1>4, <1>5 DEF RInv, Shapes, Steps, Spares
<1> QED BY <1>5, <1>6, <1>7, <1>8 DEF RInv

\* The upload is refused, its first sending perhaps stored.
LEMMA UploadRefusedStep == RInv /\ UploadRefused => RInv'
<1> SUFFICES ASSUME RInv, UploadRefused PROVE RInv'
  OBVIOUS
<1>0. pc = "upload" /\ pc' = "taken" /\ job.tries < MaxTries
  BY DEF UploadRefused, Uploading
<1>1. job.target \in Tags /\ job.name \in Names
  BY <1>0, Aim
<1>2. UNCHANGED <<assets, owner, stored, cache, touched, queue, missed>>
  BY DEF UploadRefused, tables, memory
<1>3. /\ Spares
      /\ \A t \in Tags, n \in Names : remote[t][n] # Null => remote'[t][n] = remote[t][n]
  <2>1. CASE UNCHANGED account
    BY <1>2, <2>1, NoEffectSpares DEF account
  <2>2. CASE \E full \in BOOLEAN : Store(full)
    BY <1>0, <1>1, <1>2, <2>2, StoreSpares, StoreFacts
  <2> QED BY <2>1, <2>2 DEF UploadRefused
<1>4. /\ job' \in Job
      /\ job'.version = job.version /\ job'.name = job.name
      /\ job'.target = job.target /\ job'.parts = job.parts
      /\ job'.tries = job.tries
  <2>1. job \in Job /\ (job' = job \/ job' = [job EXCEPT !.trouble = TRUE])
    BY DEF UploadRefused, RInv, Shapes
  <2> QED BY <2>1 DEF Job
<1>5. CacheIsTrue'
  BY <1>2, <1>3, GrownCache
<1>6. JobTrue' /\ ManifestsDue'
  BY <1>0, <1>2, <1>3, <1>4, StillInHand
<1>7. StoredTrue'
  BY <1>0, <1>2, <1>3, SparesStored
<1>8. Shapes'
  BY <1>0, <1>2, <1>3, <1>4 DEF RInv, Shapes, Steps, Spares
<1> QED BY <1>5, <1>6, <1>7, <1>8 DEF RInv

\* The upload raises, with or without effect.
LEMMA UploadFailsStep == RInv /\ UploadFails => RInv'
<1> SUFFICES ASSUME RInv, UploadFails PROVE RInv'
  OBVIOUS
<1>0. pc = "upload" /\ Fail
  BY DEF UploadFails, Uploading
<1>1. job.target \in Tags /\ job.name \in Names
  BY <1>0, Aim
<1>2. UNCHANGED <<assets, owner, stored, cache, touched>>
  BY DEF UploadFails, tables
<1>3. /\ Spares
      /\ \A t \in Tags, n \in Names : remote[t][n] # Null => remote'[t][n] = remote[t][n]
  <2>1. CASE UNCHANGED account
    BY <1>2, <2>1, NoEffectSpares DEF account
  <2>2. CASE \E full \in BOOLEAN : Store(full)
    BY <1>0, <1>1, <1>2, <2>2, StoreSpares, StoreFacts
  <2> QED BY <2>1, <2>2 DEF UploadFails
<1>4. CacheIsTrue'
  BY <1>2, <1>3, GrownCache
<1>5. StoredTrue'
  BY <1>0, <1>2, <1>3, SparesStored
<1>6. /\ pc' \in Steps /\ job' \in Job /\ queue' \subseteq Tags /\ missed' \subseteq Tags
      /\ JobTrue' /\ ManifestsDue'
  BY <1>0, <1>2, <1>3, FailKept
<1>7. Shapes'
  BY <1>2, <1>3, <1>6 DEF RInv, Shapes, Spares
<1> QED BY <1>4, <1>5, <1>6, <1>7 DEF RInv

\* The third try has failed.
LEMMA TriesExhaustedStep == RInv /\ TriesExhausted => RInv'
<1> SUFFICES ASSUME RInv, TriesExhausted PROVE RInv'
  OBVIOUS
<1>0. pc = "upload" /\ Fail
  BY DEF TriesExhausted
<1>2. UNCHANGED <<assets, owner, stored, cache, touched, account>>
  BY DEF TriesExhausted, tables
<1>3. Spares
  BY <1>2, NoEffectSpares
<1>4. CacheIsTrue'
  BY <1>2, CacheKept DEF account
<1>5. StoredTrue'
  BY <1>0, <1>2, <1>3, SparesStored
<1>6. /\ pc' \in Steps /\ job' \in Job /\ queue' \subseteq Tags /\ missed' \subseteq Tags
      /\ JobTrue' /\ ManifestsDue'
  BY <1>0, <1>2, <1>3, FailKept
<1>7. Shapes'
  BY <1>2, <1>3, <1>6 DEF RInv, Shapes, Spares
<1> QED BY <1>4, <1>5, <1>6, <1>7 DEF RInv

-----------------------------------------------------------------------------
(* Every step keeps the invariant: deletions *)

\* The try is counted only for a name that was taken.
LEMMA AgainTypes ==
    ASSUME RInv, Dropping, NEW b \in BOOLEAN
    PROVE  /\ TriedAgain \in Job /\ [TriedAgain EXCEPT !.trouble = b] \in Job
           /\ TriedAgain.version = job.version /\ TriedAgain.name = job.name
           /\ TriedAgain.target = job.target /\ TriedAgain.parts = job.parts
<1>1. job \in Job /\ (pc = "taken" => job.tries < MaxTries)
  BY DEF RInv, Shapes, JobTrue
<1>2. TriedAgain = IF pc = "taken" THEN [job EXCEPT !.tries = job.tries + 1] ELSE job
  <2>1. CASE pc = "taken"
    BY <2>1 DEF TriedAgain
  <2>2. CASE pc # "taken"
    BY <1>1, <2>2 DEF TriedAgain, Job
  <2> QED BY <2>1, <2>2
<1>3. TriedAgain \in Job
  BY <1>1, <1>2, JobTypes
<1>4. [TriedAgain EXCEPT !.trouble = b] \in Job
  BY <1>3, JobTypes
<1>5. /\ TriedAgain.version = job.version /\ TriedAgain.name = job.name
      /\ TriedAgain.target = job.target /\ TriedAgain.parts = job.parts
  BY <1>1, <1>2 DEF Job
<1> QED BY <1>3, <1>4, <1>5

\* What the deletion works from is true: fetched now, or kept from before.
LEMMA RefreshedTrue ==
    ASSUME RInv, job.target \in Tags
    PROVE  /\ Refreshed \in [Names -> Asset \union {Null}]
           /\ \A n \in Names : Refreshed[n] # Null => remote[job.target][n] = Refreshed[n]
<1>1. /\ CachedAssets \in [Names -> Asset \union {Null}]
      /\ \A n \in Names : CachedAssets[n] # Null => remote[job.target][n] = CachedAssets[n]
  BY CachedTrue
<1>2. remote[job.target] \in [Names -> Asset \union {Null}]
  BY DEF RInv, Shapes
<1> QED BY <1>1, <1>2 DEF Refreshed

\* A true listing may take the place of the one kept.
LEMMA CacheReplaced ==
    ASSUME RInv, job.target \in Tags,
           NEW c \in [Names -> Asset \union {Null}],
           cache' = [cache EXCEPT ![job.target] = c],
           \A n \in Names : c[n] # Null => remote'[job.target][n] = c[n],
           \A t \in Tags \ {job.target} : remote'[t] = remote[t]
    PROVE  /\ cache' \in [Tags -> [Names -> Asset \union {Null}] \union {Null}]
           /\ CacheIsTrue'
<1>1. cache' \in [Tags -> [Names -> Asset \union {Null}] \union {Null}]
  BY DEF RInv, Shapes
<1>2. ASSUME NEW t \in Tags, NEW n \in Names, cache'[t] # Null, cache'[t][n] # Null
      PROVE  remote'[t][n] = cache'[t][n]
  <2>1. CASE t = job.target
    BY <1>2, <2>1 DEF RInv, Shapes
  <2>2. CASE t # job.target
    BY <1>2, <2>2 DEF RInv, Shapes, CacheIsTrue
  <2> QED BY <2>1, <2>2
<1> QED BY <1>1, <1>2 DEF CacheIsTrue

\* The listing cannot be fetched: the next upload will tell.
LEMMA DropListFailsStep == RInv /\ DropListFails => RInv'
<1> SUFFICES ASSUME RInv, DropListFails PROVE RInv'
  OBVIOUS
<1>0. Dropping /\ pc \in {"upload", "taken", "drop"} /\ pc' = "upload"
  BY DEF DropListFails, Dropping
<1>1. job.target \in Tags
  BY <1>0, Aim
<1>2. UNCHANGED <<assets, owner, stored, touched, queue, missed, account>>
  BY DEF DropListFails, tables
<1>3. Spares
  BY <1>2, NoEffectSpares
<1>4. /\ job' \in Job
      /\ job'.version = job.version /\ job'.name = job.name
      /\ job'.target = job.target /\ job'.parts = job.parts
  <2>1. job' = [TriedAgain EXCEPT !.trouble = TRUE]
    BY DEF DropListFails
  <2> QED BY <1>0, <2>1, AgainTypes DEF Job
<1>5. /\ cache' \in [Tags -> [Names -> Asset \union {Null}] \union {Null}]
      /\ CacheIsTrue'
  BY <1>1, <1>2, CachedTrue, CacheReplaced DEF DropListFails, account
<1>6. JobTrue' /\ ManifestsDue'
  BY <1>0, <1>2, <1>3, <1>4, StillInHand
<1>7. StoredTrue'
  BY <1>0, <1>2, <1>3, SparesStored
<1>8. Shapes'
  BY <1>0, <1>2, <1>3, <1>4, <1>5 DEF RInv, Shapes, Steps, Spares
<1> QED BY <1>5, <1>6, <1>7, <1>8 DEF RInv

\* Nothing of that name is there.
LEMMA NothingToDropStep == RInv /\ NothingToDrop => RInv'
<1> SUFFICES ASSUME RInv, NothingToDrop PROVE RInv'
  OBVIOUS
<1>0. Dropping /\ pc \in {"upload", "taken", "drop"} /\ pc' = "upload"
  BY DEF NothingToDrop, Dropping
<1>1. job.target \in Tags
  BY <1>0, Aim
<1>2. UNCHANGED <<assets, owner, stored, touched, queue, missed, account>>
  BY DEF NothingToDrop, tables
<1>3. Spares
  BY <1>2, NoEffectSpares
<1>4. /\ job' \in Job
      /\ job'.version = job.version /\ job'.name = job.name
      /\ job'.target = job.target /\ job'.parts = job.parts
  BY <1>0, AgainTypes DEF NothingToDrop
<1>5. /\ cache' \in [Tags -> [Names -> Asset \union {Null}] \union {Null}]
      /\ CacheIsTrue'
  BY <1>1, <1>2, RefreshedTrue, CacheReplaced DEF NothingToDrop, account
<1>6. JobTrue' /\ ManifestsDue'
  BY <1>0, <1>2, <1>3, <1>4, StillInHand
<1>7. StoredTrue'
  BY <1>0, <1>2, <1>3, SparesStored
<1>8. Shapes'
  BY <1>0, <1>2, <1>3, <1>4, <1>5 DEF RInv, Shapes, Steps, Spares
<1> QED BY <1>5, <1>6, <1>7, <1>8 DEF RInv

\* The deletion fails, and did not happen.
LEMMA DropFailsStep ==
    ASSUME RInv, DropFails, ~LostDeletes
    PROVE  RInv'
<1>0. Dropping /\ pc \in {"upload", "taken", "drop"} /\ pc' = "upload"
  BY DEF DropFails, Dropping
<1>1. job.target \in Tags
  BY <1>0, Aim
<1>2. UNCHANGED <<assets, owner, stored, touched, queue, missed, account>>
  BY DEF DropFails, tables
<1>3. Spares
  BY <1>2, NoEffectSpares
<1>4. /\ job' \in Job
      /\ job'.version = job.version /\ job'.name = job.name
      /\ job'.target = job.target /\ job'.parts = job.parts
  <2>1. job' = [TriedAgain EXCEPT !.trouble = TRUE]
    BY DEF DropFails
  <2> QED BY <1>0, <2>1, AgainTypes DEF Job
<1>5. /\ cache' \in [Tags -> [Names -> Asset \union {Null}] \union {Null}]
      /\ CacheIsTrue'
  BY <1>1, <1>2, RefreshedTrue, CacheReplaced DEF DropFails, account
<1>6. JobTrue' /\ ManifestsDue'
  BY <1>0, <1>2, <1>3, <1>4, StillInHand
<1>7. StoredTrue'
  BY <1>0, <1>2, <1>3, SparesStored
<1>8. Shapes'
  BY <1>0, <1>2, <1>3, <1>4, <1>5 DEF RInv, Shapes, Steps, Spares
<1> QED BY <1>5, <1>6, <1>7, <1>8 DEF RInv

\* The asset is deleted, and leaves the listing.
LEMMA DropOkStep == RInv /\ DropOk => RInv'
<1> SUFFICES ASSUME RInv, DropOk PROVE RInv'
  OBVIOUS
<1>0. /\ Dropping /\ pc \in {"taken", "drop"} /\ pc' \in {"upload", "forget"}
      /\ pc' = "forget" => job.name # Manifest
  BY DEF DropOk, Dropping
<1>1. job.target \in Tags /\ job.name \in Names
  BY <1>0, Aim
<1>2. UNCHANGED <<assets, owner, stored, touched, queue, missed>>
  BY DEF DropOk, tables
<1>3. Spares
  BY <1>0, <1>2, RemoveSpares DEF DropOk
<1>4. /\ job' \in Job
      /\ job'.version = job.version /\ job'.name = job.name
      /\ job'.target = job.target /\ job'.parts = job.parts
  BY <1>0, AgainTypes DEF DropOk
<1>5. /\ cache' \in [Tags -> [Names -> Asset \union {Null}] \union {Null}]
      /\ CacheIsTrue'
  <2>1. /\ Dropped \in [Names -> Asset \union {Null}]
        /\ \A n \in Names : Dropped[n] # Null => n # job.name /\ remote[job.target][n] = Dropped[n]
    BY <1>1, RefreshedTrue DEF Dropped
  <2>2. /\ \A t \in Tags \ {job.target} : remote'[t] = remote[t]
        /\ \A n \in Names : n # job.name => remote'[job.target][n] = remote[job.target][n]
    BY <1>1 DEF DropOk, Remove, RInv, Shapes
  <2>3. \A n \in Names : Dropped[n] # Null => remote'[job.target][n] = Dropped[n]
    BY <2>1, <2>2
  <2>4. cache' = [cache EXCEPT ![job.target] = Dropped]
    BY DEF DropOk
  <2> QED BY <1>1, <2>1, <2>2, <2>3, <2>4, CacheReplaced
<1>6. JobTrue' /\ ManifestsDue'
  BY <1>0, <1>2, <1>3, <1>4, StillInHand
<1>7. StoredTrue'
  BY <1>0, <1>2, <1>3, SparesStored
<1>8. Shapes'
  BY <1>0, <1>2, <1>3, <1>4, <1>5 DEF RInv, Shapes, Steps, Spares
<1> QED BY <1>5, <1>6, <1>7, <1>8 DEF RInv

\* The row of the deleted part goes.
LEMMA ForgetPartStep == RInv /\ ForgetPart => RInv'
<1> SUFFICES ASSUME RInv, ForgetPart PROVE RInv'
  OBVIOUS
<1>0. ForPart /\ pc = "forget" /\ pc' = "upload"
  BY DEF ForgetPart, ForPart
<1>1. job.name \in Parts /\ job.name # Manifest /\ job.target \in Tags
  BY <1>0, NameOfPart
<1>2. /\ assets' \in [Tags -> [Parts -> Nat \union {Null}]]
      /\ \A t \in Tags, q \in Parts : assets'[t][q] # Null => assets[t][q] # Null
  BY <1>1 DEF ForgetPart, RInv, Shapes
<1>3. Shapes'
  BY <1>2 DEF ForgetPart, RInv, Shapes, Steps, memory, account
<1>4. CacheIsTrue'
  BY CacheKept DEF ForgetPart, memory, account
<1>5. JobTrue'
  BY <1>0, <1>1 DEF ForgetPart, RInv, JobTrue, InCopy, ForPart, ForManifest, Requesting, Holds, account
<1>6. StoredTrue'
  BY StoredKept DEF ForgetPart, account
<1>7. ManifestsDue'
  <2>1. \A t \in Tags : Recorded(t)' \subseteq Recorded(t)
    BY <1>2 DEF Recorded
  <2>2. \A t \in Tags : Listed(t) => Listed(t)'
    BY <2>1 DEF Listed, ForgetPart, account
  <2>3. ~(pc = "manifests" \/ ForManifest)'
    BY <1>0, <1>1 DEF ForgetPart, ForManifest, Requesting
  <2> QED BY <1>2, <2>2, <2>3 DEF ForgetPart, memory, RInv, ManifestsDue, PartsGetListed
<1> QED BY <1>3, <1>4, <1>5, <1>6, <1>7 DEF RInv

-----------------------------------------------------------------------------
(* Every step keeps the invariant: the end of a part and of a copy *)

\* The part is recorded, and its release is touched.
LEMMA RecordPartStep == RInv /\ RecordPart => RInv'
<1> SUFFICES ASSUME RInv, RecordPart PROVE RInv'
  OBVIOUS
<1>0. ForPart /\ pc = "record" /\ pc' = "count"
  BY DEF RecordPart, ForPart
<1> DEFINE p == [tag |-> job.target, id |-> uploads]
<1>1. /\ job.name \in Parts /\ job.target \in Tags /\ p \in Place
      /\ job.name = <<job.version, Len(job.parts) + 1>>
      /\ job.version \in Versions /\ Len(job.parts) \in Nat /\ Len(job.parts) < NumParts
  BY <1>0, NameOfPart DEF RInv, Shapes, Place
<1>2. job \in Job /\ job.parts \in Seq(Place)
  BY DEF RInv, Shapes, Job
<1>3. job' = [job EXCEPT !.parts = Append(job.parts, p)] /\ UNCHANGED <<owner, stored, account>>
  BY DEF RecordPart
<1>4. job' \in Job
  BY <1>1, <1>2, <1>3, JobTypes
<1>5. /\ job'.parts = Append(job.parts, p)
      /\ job'.version = job.version /\ job'.target = job.target
  BY <1>2, <1>3 DEF Job
<1>6. /\ assets' \in [Tags -> [Parts -> Nat \union {Null}]]
      /\ \A t \in Tags, q \in Parts : assets'[t][q] # Null => assets[t][q] # Null \/ <<t, q>> = <<job.target, job.name>>
  BY <1>1 DEF RecordPart, RInv, Shapes
<1>7. touched' = touched \union {job.target}
  BY DEF RecordPart, Touch
<1>8. Shapes'
  BY <1>1, <1>4, <1>6, <1>7 DEF RecordPart, RInv, Shapes, Steps, account
<1>9. CacheIsTrue'
  BY CacheKept DEF RecordPart, account
<1>10. JobTrue'
  <2>1. stored'[job'.version] = Null /\ owner'[job'.version] \in Files /\ job'.version \in Versions
    BY <1>0, <1>3, <1>5 DEF RInv, JobTrue, InCopy
  <2>2. Len(job'.parts) = Len(job.parts) + 1 /\ Len(job'.parts) <= NumParts
    BY <1>1, <1>2, <1>5, ReleaseAssumption
  <2>3. \A i \in DOMAIN job'.parts : Holds(job.version, i, job'.parts[i])
    <3> SUFFICES ASSUME NEW i \in DOMAIN job'.parts PROVE Holds(job.version, i, job'.parts[i])
      OBVIOUS
    <3>1. CASE i \in DOMAIN job.parts
      BY <3>1, <1>0, <1>1, <1>2, <1>5 DEF RInv, JobTrue, InCopy
    <3>2. CASE i \notin DOMAIN job.parts
      <4>1. i = Len(job.parts) + 1 /\ job'.parts[i] = p
        BY <3>2, <1>1, <1>2, <1>5
      <4>2. remote[job.target][job.name] = [id |-> uploads, full |-> TRUE]
        BY <1>0 DEF RInv, JobTrue
      <4> QED BY <4>1, <4>2, <1>1 DEF Holds
    <3> QED BY <3>1, <3>2
  <2>4. (\A i \in DOMAIN job.parts : Holds(job.version, i, job.parts[i]))'
    <3>1. remote' = remote
      BY <1>3 DEF account
    <3> QED BY <2>3, <1>5, <3>1 DEF Holds
  <2>5. job'.target \in Tags
    BY <1>1, <1>5
  <2> QED BY <1>0, <2>1, <2>2, <2>4, <2>5 DEF JobTrue, InCopy, ForPart, ForManifest, Requesting
<1>11. StoredTrue'
  BY <1>3, StoredKept DEF account
<1>12. ManifestsDue'
  <2>1. owner[job.name[1]] \in Files
    BY <1>0, <1>1 DEF RInv, JobTrue, InCopy
  <2>2. \A t \in Tags, q \in Parts : assets'[t][q] # Null => owner'[q[1]] \in Files
    BY <2>1, <1>3, <1>6 DEF RInv, ManifestsDue
  <2>3. \A t \in Tags \ {job.target} : Recorded(t)' \subseteq Recorded(t)
    BY <1>6 DEF Recorded
  <2>4. \A t \in Tags \ {job.target} : Listed(t) => Listed(t)'
    BY <2>3, <1>3 DEF Listed, account
  <2>5. PartsGetListed'
    <3> SUFFICES ASSUME NEW t \in Tags, t \notin missed', t \notin touched' PROVE Listed(t)'
      BY DEF PartsGetListed
    <3>1. t # job.target /\ t \notin touched /\ t \notin missed
      BY <1>7 DEF RecordPart
    <3>2. Listed(t)
      BY <3>1 DEF RInv, ManifestsDue, PartsGetListed
    <3> QED BY <2>4, <3>1, <3>2
  <2>6. ~(pc = "manifests" \/ ForManifest)'
    BY <1>0 DEF ForManifest, Requesting
  <2> QED BY <2>2, <2>5, <2>6 DEF ManifestsDue
<1> QED BY <1>8, <1>9, <1>10, <1>11, <1>12 DEF RInv

\* After a part comes the next one, or the end.
LEMMA AfterPartTrue ==
    ASSUME RInv, pc \in {"count", "seal"}, pc' = "seal" \/ pc' = AfterPart(job.parts),
           UNCHANGED <<remote, listing, uploads, assets, owner, stored, memory, job, missed>>
    PROVE  RInv'
<1>1. /\ Len(job.parts) \in Nat /\ Len(job.parts) <= NumParts
      /\ pc' \in {"seal", "open", "done"}
      /\ pc' = "open" => Len(job.parts) # NumParts
  BY DEF AfterPart, RInv, Shapes, Job, JobTrue, InCopy
<1>2. pc' = "open" => Len(job.parts) < NumParts
  BY <1>1, ReleaseAssumption
<1>3. Shapes'
  BY <1>1 DEF RInv, Shapes, Steps, memory
<1>4. CacheIsTrue'
  BY CacheKept DEF memory
<1>5. JobTrue'
  BY <1>1, <1>2 DEF RInv, JobTrue, InCopy, ForPart, ForManifest, Requesting, Holds
<1>6. StoredTrue'
  BY StoredKept
<1>7. ManifestsDue'
  BY <1>1, DueKept, ListedKept DEF ForManifest, Requesting, memory
<1> QED BY <1>3, <1>4, <1>5, <1>6, <1>7 DEF RInv

\* The parts of the release are counted.
LEMMA CountAssetsStep == RInv /\ CountAssets => RInv'
<1> SUFFICES ASSUME RInv, CountAssets PROVE RInv'
  OBVIOUS
<1>1. pc = "count" /\ (pc' = "seal" \/ pc' = AfterPart(job.parts))
  BY DEF CountAssets
<1> QED BY <1>1, AfterPartTrue DEF CountAssets, account

\* The release is sealed.
LEMMA SealReleaseStep == RInv /\ SealRelease => RInv'
<1> SUFFICES ASSUME RInv, SealRelease PROVE RInv'
  OBVIOUS
<1>1. pc = "seal" /\ pc' = AfterPart(job.parts)
  BY DEF SealRelease
<1> QED BY <1>1, AfterPartTrue DEF SealRelease, account

\* The copy is recorded: its parts are those the upload has put together.
LEMMA EndCopyStep == RInv /\ EndCopy => RInv'
<1> SUFFICES ASSUME RInv, EndCopy PROVE RInv'
  OBVIOUS
<1>1. /\ job.version \in Versions /\ owner[job.version] \in Files
      /\ job.parts \in Seq(Place) /\ Len(job.parts) <= NumParts
      /\ \A i \in DOMAIN job.parts : Holds(job.version, i, job.parts[i])
  BY DEF EndCopy, RInv, Shapes, Job, JobTrue, InCopy
<1>2. /\ pc' = "walk" /\ job' = NoJob
      /\ UNCHANGED <<remote, listing, uploads, assets, owner, memory, missed>>
  BY DEF EndCopy, account
<1>3. UNCHANGED stored \/ stored' = [stored EXCEPT ![job.version] = job.parts]
  BY DEF EndCopy
<1>4. stored' \in [Versions -> Seq(Place) \union {Null}]
  BY <1>1, <1>3 DEF RInv, Shapes
<1>5. Shapes'
  BY <1>2, <1>4, JobTypes DEF RInv, Shapes, Steps, memory
<1>6. CacheIsTrue'
  BY <1>2, CacheKept DEF memory
<1>7. JobTrue'
  BY <1>2 DEF JobTrue, InCopy, ForPart, ForManifest, Requesting
<1>8. StoredTrue'
  <2> SUFFICES ASSUME NEW v \in Versions, stored'[v] # Null
               PROVE  /\ owner[v] \in Files
                      /\ Len(stored'[v]) <= NumParts
                      /\ \A i \in DOMAIN stored'[v] : Holds(v, i, stored'[v][i])
    BY <1>2 DEF StoredTrue, Holds
  <2>1. CASE stored'[v] = stored[v]
    BY <2>1 DEF RInv, StoredTrue
  <2>2. CASE stored'[v] # stored[v]
    <3>1. v = job.version /\ stored'[v] = job.parts
      BY <1>1, <1>3, <2>2 DEF RInv, Shapes
    <3> QED BY <1>1, <3>1
  <2> QED BY <2>1, <2>2
<1>9. ManifestsDue'
  BY <1>2, DueKept, ListedKept DEF ForManifest, Requesting, memory
<1> QED BY <1>5, <1>6, <1>7, <1>8, <1>9 DEF RInv

-----------------------------------------------------------------------------
(* The theorems *)

\* In the initial states nothing is recorded and no listing is kept.
LEMMA InitRInv == Init => RInv
<1> SUFFICES ASSUME Init PROVE RInv
  OBVIOUS
<1>1. remote \in [Tags -> [Names -> Asset \union {Null}]]
  <2>1. PICK left \in SUBSET Foreign :
          remote = [t \in Tags |-> [n \in Names |->
                      IF t = 1 /\ n \in left THEN [id |-> 0, full |-> TRUE] ELSE Null]]
    BY DEF Init
  <2>2. [id |-> 0, full |-> TRUE] \in Asset
    BY DEF Asset
  <2>3. \A t \in Tags : remote[t] \in [Names -> Asset \union {Null}]
    BY <2>1, <2>2
  <2> QED BY <2>1, <2>3
<1>2. Shapes
  BY <1>1, JobTypes DEF Init, Shapes, Steps
<1>3. CacheIsTrue
  BY DEF Init, CacheIsTrue
<1>4. JobTrue
  BY DEF Init, JobTrue, InCopy, ForPart, ForManifest, Requesting
<1>5. StoredTrue
  BY DEF Init, StoredTrue
<1>6. ManifestsDue
  BY DEF Init, ManifestsDue, PartsGetListed, Listed, Recorded, ForManifest, Requesting
<1> QED BY <1>2, <1>3, <1>4, <1>5, <1>6 DEF RInv

\* Every step keeps the invariant, when a deletion that fails did not happen.
LEMMA StepRInv ==
    ASSUME ~LostDeletes, RInv, [Next]_vars
    PROVE  RInv'
<1>1. CASE UNCHANGED vars
  <2>1. Shapes'
    BY <1>1 DEF RInv, Shapes, vars, tables, memory, account
  <2>2. CacheIsTrue'
    BY <1>1, CacheKept DEF vars, memory, account
  <2>3. JobTrue'
    BY <1>1 DEF RInv, JobTrue, InCopy, ForPart, ForManifest, Requesting, Holds, vars, tables, memory, account
  <2>4. StoredTrue'
    BY <1>1, StoredKept DEF vars, tables, account
  <2>5. ManifestsDue'
    BY <1>1, DueKept, ListedKept DEF ForManifest, Requesting, vars, tables, memory, account
  <2> QED BY <2>1, <2>2, <2>3, <2>4, <2>5 DEF RInv
<1>2. CASE StartRun \/ AbortRun \/ EndWalk \/ WriteManifest \/ EndRun \/ Crash
  BY <1>2, StartRunStep, AbortRunStep, EndWalkStep, WriteManifestStep, EndRunStep, CrashStep
<1>3. CASE \E f \in Files, v \in Versions : BeginCopy(f, v) \/ Adopt(f, v)
  BY <1>3, BeginCopyStep, AdoptStep
<1>4. CASE CopyStep
  <2>1. CASE OpenRelease \/ CreateRelease \/ OpenFails \/ ReusePart \/ NothingToReuse
    BY <2>1, OpenReleaseStep, CreateReleaseStep, OpenFailsStep, ReusePartStep, NothingToReuseStep
  <2>2. CASE UploadOk \/ UploadEmpty \/ UploadRefused \/ UploadFails \/ TriesExhausted
    BY <2>2, UploadOkStep, UploadEmptyStep, UploadRefusedStep, UploadFailsStep, TriesExhaustedStep
  <2>3. CASE DropListFails \/ NothingToDrop \/ DropFails \/ DropOk \/ ForgetPart
    BY <2>3, DropListFailsStep, NothingToDropStep, DropFailsStep, DropOkStep, ForgetPartStep
  <2>4. CASE RecordPart \/ CountAssets \/ SealRelease \/ EndCopy
    BY <2>4, RecordPartStep, CountAssetsStep, SealReleaseStep, EndCopyStep
  <2> QED BY <1>4, <2>1, <2>2, <2>3, <2>4 DEF CopyStep
<1> QED BY <1>1, <1>2, <1>3, <1>4 DEF Next

\* The invariant holds throughout, if a failed deletion never happened.
THEOREM ReleaseInvariant ==
    ASSUME ~LostDeletes
    PROVE  Spec => []RInv
<1>1. RInv /\ [Next]_vars => RInv'
  BY StepRInv
<1> QED BY <1>1, InitRInv, PTL DEF Spec

\* What a recorded copy names is on the account (_reuse_existing_part,
\* _upload_asset, _delete_remote_asset), however often the process dies.
THEOREM StoredPartsStayOnAccount ==
    ASSUME ~LostDeletes
    PROVE  Spec => []StoredPartsExist
<1>1. RInv => StoredPartsExist
  BY DEF RInv, StoredTrue, StoredPartsExist, Holds
<1> QED BY <1>1, ReleaseInvariant, PTL

\* The listings the process keeps never show an asset that is gone
\* (_remote_assets), although uploads and deletions go past them.
THEOREM ListingsStayTrue ==
    ASSUME ~LostDeletes
    PROVE  Spec => []CacheIsTrue
<1>1. RInv => CacheIsTrue
  BY DEF RInv
<1> QED BY <1>1, ReleaseInvariant, PTL

\* A recorded part is in the manifest of its release, or that release waits in
\* _releases_touched, or its manifest failed (_finalize_sync).
THEOREM RecordedPartsGetListed ==
    ASSUME ~LostDeletes
    PROVE  Spec => []PartsGetListed
<1>1. RInv => PartsGetListed
  BY DEF RInv, ManifestsDue
<1> QED BY <1>1, ReleaseInvariant, PTL

-----------------------------------------------------------------------------
(* Which steps write the tables *)

\* Every other step leaves the tables releases and assets alone.
LEMMA TableSteps ==
    ASSUME [Next]_vars
    PROVE  /\ Crash \/ UNCHANGED crashes
           /\ UNCHANGED releases \/ CreateRelease \/ CountAssets \/ SealRelease
           /\ UNCHANGED assets \/ ForgetPart \/ RecordPart
           /\ UNCHANGED rows \/ \E f \in Files, v \in Versions : BeginCopy(f, v) \/ Adopt(f, v)
<1>1. CASE UNCHANGED vars
  BY <1>1 DEF vars, tables
<1>2. CASE StartRun \/ AbortRun \/ EndWalk \/ WriteManifest \/ EndRun \/ Crash
  BY <1>2 DEF StartRun, AbortRun, EndWalk, WriteManifest, EndRun, Crash, tables
<1>3. CASE \E f \in Files, v \in Versions : BeginCopy(f, v) \/ Adopt(f, v)
  BY <1>3 DEF BeginCopy, Adopt
<1>4. CASE OpenRelease \/ CreateRelease \/ OpenFails \/ ReusePart \/ NothingToReuse
  BY <1>4 DEF OpenRelease, CreateRelease, OpenFails, ReusePart, NothingToReuse, tables
<1>5. CASE UploadOk \/ UploadEmpty \/ UploadRefused \/ UploadFails \/ TriesExhausted
  BY <1>5 DEF UploadOk, UploadEmpty, UploadRefused, UploadFails, TriesExhausted, tables
<1>6. CASE DropListFails \/ NothingToDrop \/ DropFails \/ DropOk \/ ForgetPart
  BY <1>6 DEF DropListFails, NothingToDrop, DropFails, DropOk, ForgetPart, tables
<1>7. CASE RecordPart \/ CountAssets \/ SealRelease \/ EndCopy
  BY <1>7 DEF RecordPart, CountAssets, SealRelease, EndCopy
<1> QED BY <1>1, <1>2, <1>3, <1>4, <1>5, <1>6, <1>7 DEF Next, CopyStep

\* Nor does any other step change what a manifest says.
LEMMA ListingSteps ==
    ASSUME [Next]_vars
    PROVE  \/ UNCHANGED listing
           \/ pc = "upload" /\ \E full \in BOOLEAN : Store(full)
           \/ pc \in {"taken", "drop"} /\ Remove(Refreshed[job.name])
<1>1. CASE UNCHANGED vars
  BY <1>1 DEF vars, account
<1>2. CASE StartRun \/ AbortRun \/ EndWalk \/ WriteManifest \/ EndRun \/ Crash
  BY <1>2 DEF StartRun, AbortRun, EndWalk, WriteManifest, EndRun, Crash, account
<1>3. CASE \E f \in Files, v \in Versions : BeginCopy(f, v) \/ Adopt(f, v)
  BY <1>3 DEF BeginCopy, Adopt, account
<1>4. CASE OpenRelease \/ CreateRelease \/ OpenFails \/ ReusePart \/ NothingToReuse
  BY <1>4 DEF OpenRelease, CreateRelease, OpenFails, ReusePart, NothingToReuse, account
<1>5. CASE UploadOk \/ UploadEmpty \/ UploadRefused \/ UploadFails \/ TriesExhausted
  BY <1>5 DEF UploadOk, UploadEmpty, UploadRefused, UploadFails, TriesExhausted, account,
     Uploading, Acceptable
<1>6. CASE DropListFails \/ NothingToDrop \/ DropFails \/ DropOk \/ ForgetPart
  BY <1>6 DEF DropListFails, NothingToDrop, DropFails, DropOk, ForgetPart, account, Dropping
<1>7. CASE RecordPart \/ CountAssets \/ SealRelease \/ EndCopy
  BY <1>7 DEF RecordPart, CountAssets, SealRelease, EndCopy, account
<1> QED BY <1>1, <1>2, <1>3, <1>4, <1>5, <1>6, <1>7 DEF Next, CopyStep

\* A part has been given a release.
AtRelease == ForPart \/ pc \in {"count", "seal"}

\* It gets one from _open_release, and keeps it to its end.
LEMMA ReleaseOfPart ==
    ASSUME RInv, [Next]_vars, AtRelease'
    PROVE  \/ OpenRelease \/ (CreateRelease /\ ~UNCHANGED pc)
           \/ /\ AtRelease /\ job'.target = job.target
              /\ ForPart' => ForPart
              /\ ForPart' /\ pc' # "reuse" =>
                   NothingToReuse \/ (pc # "reuse" /\ job'.name = job.name)
              /\ pc = "seal" => UNCHANGED vars
<1>0. job \in Job
  BY DEF RInv, Shapes
<1>1. CASE UNCHANGED vars
  BY <1>1 DEF vars, AtRelease, ForPart, Requesting
<1>2. CASE StartRun \/ AbortRun \/ EndWalk \/ WriteManifest \/ EndRun \/ Crash
  BY <1>2 DEF StartRun, AbortRun, EndWalk, WriteManifest, EndRun, Crash, AtRelease, ForPart,
     Requesting
<1>3. CASE \E f \in Files, v \in Versions : BeginCopy(f, v) \/ Adopt(f, v)
  BY <1>3 DEF BeginCopy, Adopt, AtRelease, ForPart, Requesting
<1>4. CASE OpenRelease \/ CreateRelease \/ OpenFails \/ ReusePart \/ NothingToReuse
  BY <1>0, <1>4 DEF CreateRelease, OpenFails, ReusePart, NothingToReuse, AfterPart,
     AtRelease, ForPart, Requesting
<1>5. CASE UploadOk \/ UploadEmpty \/ UploadRefused \/ UploadFails \/ TriesExhausted
  BY <1>0, <1>5 DEF UploadOk, UploadEmpty, UploadRefused, UploadFails, TriesExhausted, Fail,
     Uploading, AtRelease, ForPart, Requesting, Job
<1>6. CASE DropListFails \/ NothingToDrop \/ DropFails \/ DropOk \/ ForgetPart
  <2>1. CASE ForgetPart
    BY <2>1, NameOfPart DEF ForgetPart, AtRelease, ForPart, Requesting
  <2>2. CASE DropListFails \/ NothingToDrop \/ DropFails \/ DropOk
    <3>1. Dropping
      BY <2>2 DEF DropListFails, NothingToDrop, DropFails, DropOk
    <3>2. job'.target = job.target /\ job'.name = job.name
      BY <2>2, <3>1, AgainTypes DEF DropListFails, NothingToDrop, DropFails, DropOk, Job
    <3>3. pc' \in {"upload", "forget"} /\ (pc' = "forget" => job.name # Manifest)
      BY <2>2 DEF DropListFails, NothingToDrop, DropFails, DropOk
    <3>4. job.name # Manifest => pc = "taken"
      BY <3>1 DEF Dropping, RInv, JobTrue
    <3> QED BY <3>1, <3>2, <3>3, <3>4 DEF Dropping, AtRelease, ForPart, Requesting
  <2> QED BY <1>6, <2>1, <2>2
<1>7. CASE RecordPart \/ CountAssets \/ SealRelease \/ EndCopy
  BY <1>0, <1>7 DEF RecordPart, CountAssets, SealRelease, EndCopy, AfterPart, AtRelease, ForPart,
     Requesting, Job
<1> QED BY <1>1, <1>2, <1>3, <1>4, <1>5, <1>6, <1>7 DEF Next, CopyStep

\* What is being counted or sealed goes on being so until it is sealed.
LEMMA CountingGoesOn ==
    ASSUME [Next]_vars, pc \in {"count", "seal"}
    PROVE  CountAssets \/ SealRelease \/ Crash \/ UNCHANGED vars
BY DEF Next, CopyStep, StartRun, AbortRun, EndWalk, WriteManifest, EndRun, BeginCopy, Adopt,
   OpenRelease, CreateRelease, OpenFails, ReusePart, NothingToReuse, UploadOk, UploadEmpty,
   UploadRefused, UploadFails, TriesExhausted, Uploading, DropListFails, NothingToDrop, DropFails,
   DropOk, Dropping, ForgetPart, RecordPart, EndCopy

\* What changes the listings the process keeps.
LEMMA CacheSteps ==
    ASSUME [Next]_vars
    PROVE  \/ UNCHANGED cache \/ Crash \/ CreateRelease \/ \E t \in Tags : Look(t)
           \/ UploadOk \/ UploadEmpty
           \/ DropListFails \/ NothingToDrop \/ DropFails \/ DropOk
BY DEF Next, CopyStep, StartRun, AbortRun, EndWalk, WriteManifest, EndRun, BeginCopy, Adopt,
   OpenRelease, OpenFails, ReusePart, NothingToReuse, Known, UploadRefused, UploadFails,
   TriesExhausted, ForgetPart, RecordPart, CountAssets, SealRelease, EndCopy, vars, memory

-----------------------------------------------------------------------------
(* The remaining types *)

\* The parts that may be recorded in a release are finitely many, and so are the
\* assets on the account.
LEMMA FiniteNames == IsFiniteSet(Parts) /\ IsFiniteSet(Names)
<1>1. IsFiniteSet(Versions) /\ IsFiniteSet(1..NumParts)
  BY FS_Interval, ReleaseAssumption DEF Versions
<1>2. IsFiniteSet(Parts)
  BY <1>1, FS_Product DEF Parts
<1>3. IsFiniteSet({Manifest})
  BY FS_Singleton
<1>4. IsFiniteSet(Parts \union Foreign)
  BY <1>2, FS_Union, ReleaseAssumption
<1> QED BY <1>2, <1>3, <1>4, FS_Union DEF Names

\* Of a finite set of assets: a subset is smaller, an element more counts one.
LEMMA Counts ==
    ASSUME NEW t \in Tags
    PROVE  /\ IsFiniteSet(Recorded(t)) /\ Cardinality(Recorded(t)) \in Nat
           /\ Cardinality(Present(t)) \in Nat
<1>1. Recorded(t) \in SUBSET Parts /\ Present(t) \in SUBSET Names
  BY DEF Recorded, Present
<1>2. IsFiniteSet(Recorded(t)) /\ IsFiniteSet(Present(t))
  BY <1>1, FiniteNames, FS_Subset
<1> QED BY <1>2, FS_CardinalityType

\* A set of versions has a first one.
LEMMA FirstExists ==
    ASSUME NEW S \in SUBSET Versions, S # {}
    PROVE  \E u \in Versions : First(u, S)
<1>1. S \subseteq Nat
  BY ReleaseAssumption DEF Versions
<1>2. PICK u \in S : \A y \in S : ~ (<<y, u>> \in OpToRel(<, Nat))
  BY <1>1, NatLessThanWellFounded, WFMin
<1>3. ASSUME NEW y \in S PROVE u <= y
  <2>1. ~ (y < u)
    <3>1. y \in Nat /\ u \in Nat /\ <<y, u>> \notin OpToRel(<, Nat)
      BY <1>1, <1>2
    <3>2. y < u => <<y, u>> \in OpToRel(<, Nat)
      BY <3>1, Zenon DEF OpToRel
    <3> QED BY <3>1, <3>2
  <2> QED BY <1>1, <2>1
<1> QED BY <1>3 DEF First

Types ==
    /\ listing \in [Tags -> Listing]
    /\ releases \in [Tags -> [count : Nat, sealed : BOOLEAN] \union {Null}]
    /\ rows \in [Files -> Versions \union {Null}]
    /\ crashes \in Nat
    /\ AtRelease => releases[job.target] # Null

\* What the code writes into a manifest is one entry for each file.
LEMMA ManifestType ==
    ASSUME RInv, NEW t \in Tags
    PROVE  ManifestOf(t) \in Listing
<1> DEFINE Of(f) == {p[1] : p \in PartsOf(f, t)}
<1>1. FilesIn(t) \subseteq Files
  BY DEF FilesIn, Recorded, RInv, ManifestsDue
<1>2. ASSUME NEW f \in FilesIn(t)
      PROVE  ManifestOf(t)[f] \in Entry
  <2>1. PartsOf(f, t) \in SUBSET Parts /\ PartsOf(f, t) # {}
    BY DEF PartsOf, FilesIn, Recorded
  <2>2. Of(f) \in SUBSET Versions /\ Of(f) # {}
    BY <2>1 DEF Parts
  <2>3. (CHOOSE u \in Versions : First(u, Of(f))) \in Versions
    BY <2>2, FirstExists
  <2> HIDE DEF Of
  <2>4. ManifestOf(t)[f] = [version |-> CHOOSE u \in Versions : First(u, Of(f)),
                            parts |-> PartsOf(f, t),
                            paths |-> {g \in Files : rows[g] = CHOOSE u \in Versions : First(u, Of(f))}]
    BY DEF ManifestOf, Of
  <2> QED BY <2>1, <2>3, <2>4 DEF Entry
<1>3. ManifestOf(t) \in [FilesIn(t) -> Entry]
  BY <1>2 DEF ManifestOf
<1> QED BY <1>1, <1>3 DEF Listing

\* The manifest of a release that has none lists nothing.
LEMMA EmptyListing == <<>> \in Listing
<1>1. <<>> \in [{} -> Entry]
  OBVIOUS
<1> QED BY <1>1 DEF Listing


\* A release that is given to a part is in the table.
LEMMA GivenRelease ==
    ASSUME RInv, Types, OpenRelease \/ (CreateRelease /\ ~UNCHANGED pc)
    PROVE  /\ pc' = "reuse"
           /\ job'.target \in Tags
           /\ releases'[job'.target] \in [count : Nat, sealed : BOOLEAN]
           /\ ~releases'[job'.target].sealed
<1>1. job \in Job /\ \A t \in Tags : AtTarget(t).target = t
  BY DEF RInv, Shapes, Job, AtTarget
<1>2. CASE OpenRelease
  BY <1>1, <1>2 DEF OpenRelease, OpenTags, First, Types, tables
<1>3. CASE CreateRelease /\ ~UNCHANGED pc
  <2>1. PICK t \in Tags :
          /\ releases' = [releases EXCEPT ![t] = [count |-> Cardinality(Present(t)),
                                                 sealed |-> Cardinality(Present(t)) >= Limit - 1]]
          /\ ~(Cardinality(Present(t)) >= Limit - 1)
          /\ pc' = "reuse" /\ job' = AtTarget(t)
    BY <1>3 DEF CreateRelease
  <2>2. releases'[t] = [count |-> Cardinality(Present(t)),
                        sealed |-> Cardinality(Present(t)) >= Limit - 1]
    BY <2>1 DEF Types
  <2>3. /\ releases'[t].sealed = (Cardinality(Present(t)) >= Limit - 1)
        /\ releases'[t] \in [count : Nat, sealed : BOOLEAN]
    BY <2>2, Counts
  <2>4. job'.target = t
    BY <1>1, <2>1
  <2> QED BY <2>1, <2>3, <2>4
<1> QED BY <1>2, <1>3

\* An entry of the table releases stays one.
LEMMA ReleasesGrow ==
    ASSUME RInv, Types, [Next]_vars
    PROVE  /\ releases' \in [Tags -> [count : Nat, sealed : BOOLEAN] \union {Null}]
           /\ \A t \in Tags : releases[t] # Null => releases'[t] # Null
<1>1. CASE CreateRelease
  <2>1. PICK t \in Tags :
          /\ releases' = [releases EXCEPT ![t] = [count |-> Cardinality(Present(t)),
                                                 sealed |-> Cardinality(Present(t)) >= Limit - 1]]
          /\ releases[t] = Null
    BY <1>1 DEF CreateRelease
  <2> QED BY <2>1, Counts DEF Types
<1>2. CASE CountAssets \/ SealRelease
  <2>1. job.target \in Tags
    BY <1>2 DEF CountAssets, SealRelease, RInv, JobTrue
  <2>2. releases[job.target] \in [count : Nat, sealed : BOOLEAN]
    BY <1>2, <2>1 DEF CountAssets, SealRelease, Types, AtRelease
  <2>3. \E r \in [count : Nat, sealed : BOOLEAN] : releases' = [releases EXCEPT ![job.target] = r]
    <3>1. CASE CountAssets
      <4>1. \E b \in BOOLEAN : releases' = [releases EXCEPT ![job.target] =
                                    [count |-> Cardinality(Recorded(job.target)), sealed |-> b]]
        BY <2>1, <2>2, <3>1, Counts, ReleaseAssumption DEF CountAssets
      <4> QED BY <4>1, <2>1, Counts
    <3>2. CASE SealRelease
      <4>1. [releases[job.target] EXCEPT !.sealed = TRUE] \in [count : Nat, sealed : BOOLEAN]
        BY <2>2
      <4> QED BY <3>2, <4>1 DEF SealRelease
    <3> QED BY <1>2, <3>1, <3>2
  <2> QED BY <2>1, <2>3, ReleaseNullAssumption DEF Types
<1> QED BY <1>1, <1>2, TableSteps DEF Types

\* Every step keeps these types.
LEMMA TypesKept == RInv /\ Types /\ [Next]_vars => Types'
<1> SUFFICES ASSUME RInv, Types, [Next]_vars PROVE Types'
  OBVIOUS
<1>1. crashes' \in Nat
  BY TableSteps DEF Types, Crash
<1>2. rows' \in [Files -> Versions \union {Null}]
  BY TableSteps DEF Types, BeginCopy, Adopt
<1>3. listing' \in [Tags -> Listing]
  <2>1. CASE pc = "upload" /\ \E full \in BOOLEAN : Store(full)
    BY <2>1, Aim, ManifestType DEF Store, Types
  <2>2. CASE pc \in {"taken", "drop"} /\ Remove(Refreshed[job.name])
    BY <2>2, Aim, EmptyListing DEF Remove, Types
  <2> QED BY <2>1, <2>2, ListingSteps DEF Types
<1>4. (AtRelease => releases[job.target] # Null)'
  <2> SUFFICES ASSUME AtRelease' PROVE releases'[job'.target] # Null
    OBVIOUS
  <2>1. CASE OpenRelease \/ (CreateRelease /\ ~UNCHANGED pc)
    BY <2>1, GivenRelease, ReleaseNullAssumption
  <2>2. CASE AtRelease /\ job'.target = job.target
    <3>1. job.target \in Tags
      BY <2>2 DEF AtRelease, RInv, JobTrue
    <3> QED BY <2>2, <3>1, ReleasesGrow DEF Types
  <2> QED BY <2>1, <2>2, ReleaseOfPart
<1> QED BY <1>1, <1>2, <1>3, <1>4, ReleasesGrow DEF Types

\* They hold throughout.
LEMMA TypesHold ==
    ASSUME ~LostDeletes
    PROVE  Spec => []Types
<1>1. Init => Types
  BY EmptyListing DEF Init, Types, AtRelease, ForPart, Requesting
<1> QED BY <1>1, ReleaseInvariant, TypesKept, PTL DEF Spec

\* Every variable keeps its type; in particular a manifest is one entry for each
\* file id, under a version that has parts in the release (_write_release_manifest).
THEOREM ReleaseTypes ==
    ASSUME ~LostDeletes
    PROVE  Spec => []TypeOK
<1>1. RInv /\ Types => TypeOK
  BY DEF RInv, Shapes, Types, TypeOK
<1> QED BY <1>1, ReleaseInvariant, TypesHold, PTL

-----------------------------------------------------------------------------
(* Three tries *)

\* As long as nothing failed: an asset whose name was taken is gone before it is
\* sent again, so that a second refusal means that the release is full.
TriesInv ==
    /\ pc \in {"open", "reuse", "record", "count", "seal", "drop"} => job.tries = 0
    /\ pc \in {"upload", "taken", "forget"} /\ ~job.trouble =>
         /\ job.tries > 0 \/ pc = "forget" => ~Taken
         /\ job.tries > 1 => Full
    /\ pc = "taken" /\ ~job.trouble => Taken \/ Full

\* The same asset stays in hand while nothing happens on the account.
LEMMA SameRoom ==
    ASSUME UNCHANGED remote, job'.target = job.target, job'.name = job.name
    PROVE  Taken' = Taken /\ Full' = Full
BY DEF Taken, Full, Present

\* A deletion that succeeds frees the name.
LEMMA DropFrees ==
    ASSUME RInv, DropOk
    PROVE  /\ Taken /\ ~Taken'
           /\ job' = TriedAgain /\ job'.target = job.target /\ job'.name = job.name
<1>1. Dropping /\ pc \in {"taken", "drop"}
  BY DEF DropOk, Dropping
<1>2. job.target \in Tags /\ job.name \in Names
  BY <1>1, Aim
<1>3. remote[job.target][job.name] = Refreshed[job.name] /\ Refreshed[job.name] # Null
  BY <1>2, RefreshedTrue DEF DropOk
<1>4. job'.target = job.target /\ job'.name = job.name /\ job' = TriedAgain
  BY <1>1, AgainTypes DEF DropOk
<1>5. remote'[job.target][job.name] = Null
  BY <1>2, <1>3 DEF DropOk, Remove, RInv, Shapes
<1> QED BY <1>3, <1>4, <1>5 DEF Taken

\* If there is nothing to delete, the name is free.
LEMMA NothingFrees ==
    ASSUME RInv, NothingToDrop
    PROVE  /\ ~Taken /\ UNCHANGED remote
           /\ job' = TriedAgain /\ job'.target = job.target /\ job'.name = job.name
<1>1. Dropping /\ pc \in {"taken", "drop"}
  BY DEF NothingToDrop, Dropping
<1>2. job.target \in Tags /\ job.name \in Names
  BY <1>1, Aim
<1>3. job'.target = job.target /\ job'.name = job.name /\ job' = TriedAgain
  BY <1>1, AgainTypes DEF NothingToDrop
<1>4. remote[job.target][job.name] = Null
  BY <1>2 DEF NothingToDrop, Refreshed
<1> QED BY <1>3, <1>4 DEF Taken, NothingToDrop, account

\* How often an asset in hand was tried.
LEMMA CountTries ==
    ASSUME RInv, Dropping
    PROVE  /\ job.tries \in Nat
           /\ TriedAgain.tries = (IF pc = "taken" THEN job.tries + 1 ELSE job.tries)
           /\ TriedAgain.trouble = job.trouble
BY DEF RInv, Shapes, Job, TriedAgain, MaxTries

\* A try that found the name taken has it deleted before the next one.
LEMMA TriesKept == RInv /\ TriesInv /\ [Next]_vars => TriesInv'
<1> SUFFICES ASSUME RInv, TriesInv, [Next]_vars PROVE TriesInv'
  OBVIOUS
<1>0. job \in Job
  BY DEF RInv, Shapes
<1>1. CASE UNCHANGED vars
  BY <1>1 DEF vars, account, TriesInv, Taken, Full, Present
<1>2. CASE StartRun \/ AbortRun \/ EndWalk \/ WriteManifest \/ EndRun \/ Crash
  BY <1>2 DEF StartRun, AbortRun, EndWalk, WriteManifest, EndRun, Crash, TriesInv, NoJob
<1>3. CASE \E f \in Files, v \in Versions : BeginCopy(f, v) \/ Adopt(f, v)
  BY <1>3 DEF BeginCopy, Adopt, TriesInv, NoJob
<1>4. CASE OpenRelease \/ CreateRelease \/ OpenFails \/ ReusePart
  BY <1>0, <1>4 DEF OpenRelease, CreateRelease, OpenFails, ReusePart, AfterPart, AtTarget,
     TriesInv, NoJob, Job
<1>5. CASE NothingToReuse
  BY <1>5 DEF NothingToReuse, TriesInv
<1>6. CASE UploadOk
  BY <1>0, <1>6 DEF UploadOk, TriesInv, NoJob, Job
<1>7. CASE UploadEmpty
  BY <1>0, <1>7 DEF UploadEmpty, TriesInv, Uploading, Job
<1>8. CASE UploadRefused
  <2>1. CASE (Taken \/ Full) /\ UNCHANGED <<account, job>>
    BY <1>8, <2>1, SameRoom DEF UploadRefused, Uploading, TriesInv, account
  <2>2. CASE job' = [job EXCEPT !.trouble = TRUE]
    BY <1>0, <1>8, <2>2 DEF UploadRefused, TriesInv, Job
  <2> QED BY <1>8, <2>1, <2>2 DEF UploadRefused
<1>9. CASE UploadFails \/ TriesExhausted
  BY <1>9 DEF UploadFails, TriesExhausted, Fail, TriesInv
<1>10. CASE DropListFails \/ DropFails
  <2>1. job' = [TriedAgain EXCEPT !.trouble = TRUE] /\ pc' = "upload" /\ Dropping
    BY <1>10 DEF DropListFails, DropFails
  <2>2. job'.trouble
    BY <2>1, AgainTypes DEF Job
  <2> QED BY <2>1, <2>2 DEF TriesInv
<1>11. CASE NothingToDrop
  <2>1. /\ ~Taken /\ ~Taken' /\ Full' = Full
        /\ job' = TriedAgain /\ pc' = "upload" /\ Dropping
    BY <1>11, NothingFrees, SameRoom DEF NothingToDrop
  <2> QED BY <2>1, CountTries DEF TriesInv, Dropping
<1>12. CASE DropOk
  <2>1. /\ Taken /\ ~Taken' /\ job' = TriedAgain /\ pc' \in {"upload", "forget"} /\ Dropping
    BY <1>12, DropFrees DEF DropOk
  <2> QED BY <2>1, CountTries DEF TriesInv, Dropping
<1>13. CASE ForgetPart
  BY <1>13, SameRoom DEF ForgetPart, TriesInv, account
<1>14. CASE RecordPart \/ CountAssets \/ SealRelease \/ EndCopy
  BY <1>0, <1>14 DEF RecordPart, CountAssets, SealRelease, EndCopy, AfterPart, TriesInv, NoJob, Job
<1> QED BY <1>1, <1>2, <1>3, <1>4, <1>5, <1>6, <1>7, <1>8, <1>9, <1>10, <1>11, <1>12, <1>13, <1>14
        DEF Next, CopyStep

\* Three tries store any asset (_upload_asset), unless something failed on the way
\* or the release is full of assets: the second refusal of a name never comes.
THEOREM ThreeTriesAreEnough ==
    ASSUME ~LostDeletes
    PROVE  Spec => []ThreeTriesSuffice
<1>1. Init => TriesInv
  BY DEF Init, TriesInv
<1>2. TriesInv => ThreeTriesSuffice
  BY DEF TriesInv, ThreeTriesSuffice, MaxTries
<1> QED BY <1>1, <1>2, ReleaseInvariant, TriesKept, PTL DEF Spec

-----------------------------------------------------------------------------
(* Room for the manifest *)

\* A release takes one part more than its count said, and is counted and sealed
\* before it can be given to another one.  A death in between leaves it open.
RoomInv ==
    /\ \A t \in Tags : releases[t] = Null => Recorded(t) = {}
    /\ crashes = 0 =>
         /\ \A t \in Tags : Cardinality(Recorded(t)) < Limit
         /\ \A t \in Tags : releases[t] # Null /\ ~releases[t].sealed =>
              \/ Cardinality(Recorded(t)) < Limit - 1
              \/ pc \in {"count", "seal"} /\ t = job.target
         /\ ForPart => ~releases[job.target].sealed

\* A part is recorded only in the release it was given.
LEMMA RecordedSteps ==
    ASSUME RInv, [Next]_vars, NEW t \in Tags
    PROVE  \/ Recorded(t)' \subseteq Recorded(t)
           \/ /\ RecordPart /\ t = job.target
              /\ Recorded(t)' = Recorded(t) \union {job.name}
<1>1. CASE UNCHANGED assets
  BY <1>1 DEF Recorded
<1>2. CASE ForgetPart
  BY <1>2 DEF ForgetPart, Recorded, RInv, Shapes
<1>3. CASE RecordPart
  <2>1. job.target \in Tags /\ job.name \in Parts /\ uploads # Null
    BY <1>3, NameOfPart, ReleaseNullAssumption DEF RecordPart, ForPart, RInv, Shapes
  <2> QED BY <1>3, <2>1 DEF RecordPart, Recorded, RInv, Shapes
<1> QED BY <1>1, <1>2, <1>3, TableSteps

\* So the number of parts recorded in a release grows by one at most, and for the
\* part in hand.
LEMMA RecordedGrows ==
    ASSUME RInv, [Next]_vars, NEW t \in Tags
    PROVE  /\ Cardinality(Recorded(t))' \in Nat
           /\ \/ Cardinality(Recorded(t))' <= Cardinality(Recorded(t))
              \/ /\ RecordPart /\ t = job.target
                 /\ Cardinality(Recorded(t))' <= Cardinality(Recorded(t)) + 1
<1>1. IsFiniteSet(Recorded(t)) /\ Cardinality(Recorded(t)) \in Nat
  BY Counts
<1>2. CASE Recorded(t)' \subseteq Recorded(t)
  BY <1>1, <1>2, FS_Subset, FS_CardinalityType
<1>3. CASE RecordPart /\ t = job.target /\ Recorded(t)' = Recorded(t) \union {job.name}
  BY <1>1, <1>3, FS_AddElement
<1> QED BY <1>2, <1>3, RecordedSteps

\* Counting a release closes it when one more part would leave no room.
LEMMA CountCloses ==
    ASSUME RInv, Types, CountAssets
    PROVE  /\ job.target \in Tags
           /\ \A t \in Tags : t # job.target => releases'[t] = releases[t]
           /\ Cardinality(Recorded(job.target)) < Limit - 1 \/ pc' = "seal"
           /\ UNCHANGED <<assets, crashes, job>> /\ pc' \in {"seal", "open", "done"}
<1>1. job.target \in Tags
  BY DEF CountAssets, RInv, JobTrue
<1>2. Cardinality(Recorded(job.target)) \in Nat
  BY <1>1, Counts
<1> QED BY <1>1, <1>2, ReleaseAssumption DEF CountAssets, Types, AfterPart

\* Each part recorded is counted, and the release sealed, before the next.
LEMMA RoomKept == RInv /\ Types /\ RoomInv /\ [Next]_vars => RoomInv'
<1> SUFFICES ASSUME RInv, Types, RoomInv, [Next]_vars PROVE RoomInv'
  OBVIOUS
<1>1. ASSUME NEW t \in Tags, releases'[t] = Null PROVE Recorded(t)' = {}
  <2>1. releases[t] = Null /\ Recorded(t) = {}
    BY <1>1, ReleasesGrow DEF RoomInv
  <2>2. CASE Recorded(t)' \subseteq Recorded(t)
    BY <2>1, <2>2
  <2>3. CASE RecordPart /\ t = job.target
    BY <2>1, <2>3 DEF RecordPart, Types, AtRelease, ForPart
  <2> QED BY <2>2, <2>3, RecordedSteps
<1>2. ASSUME crashes' = 0
      PROVE  /\ \A t \in Tags : Cardinality(Recorded(t))' < Limit
             /\ \A t \in Tags : releases'[t] # Null /\ ~releases'[t].sealed =>
                  \/ Cardinality(Recorded(t))' < Limit - 1
                  \/ pc' \in {"count", "seal"} /\ t = job'.target
             /\ ForPart' => ~releases'[job'.target].sealed
  <2>0. crashes = 0 /\ ~Crash
    BY <1>2, TableSteps DEF Types, Crash
  <2>1. \A t \in Tags : Cardinality(Recorded(t))' < Limit
    <3> SUFFICES ASSUME NEW t \in Tags PROVE Cardinality(Recorded(t))' < Limit
      OBVIOUS
    <3>1. Cardinality(Recorded(t)) < Limit /\ Cardinality(Recorded(t)) \in Nat
      BY <2>0, Counts DEF RoomInv
    <3>2. CASE RecordPart /\ t = job.target
      <4>1. releases[t] # Null /\ ~releases[t].sealed /\ pc = "record"
        BY <2>0, <3>2 DEF RecordPart, Types, AtRelease, ForPart, RoomInv
      <4>2. Cardinality(Recorded(t)) < Limit - 1
        BY <2>0, <4>1 DEF RoomInv
      <4> QED BY <3>1, <4>2, RecordedGrows, ReleaseAssumption
    <3> QED BY <3>1, <3>2, RecordedGrows, ReleaseAssumption
  <2>2. ASSUME NEW t \in Tags, releases'[t] # Null, ~releases'[t].sealed,
               ~(pc' \in {"count", "seal"} /\ t = job'.target)
        PROVE  Cardinality(Recorded(t))' < Limit - 1
    <3>0. Cardinality(Recorded(t)) \in Nat /\ Cardinality(Recorded(t))' \in Nat
      BY Counts, RecordedGrows
    <3>1. CASE releases[t] = Null
      <4>1. ~(RecordPart /\ t = job.target)
        BY <3>1 DEF RecordPart, Types, AtRelease, ForPart
      <4>2. Cardinality(Recorded(t)) = 0
        BY <3>1, FS_EmptySet DEF RoomInv
      <4> QED BY <3>0, <4>1, <4>2, RecordedGrows, ReleaseAssumption
    <3>2. CASE CountAssets
      <4>1. /\ t # job.target => releases'[t] = releases[t]
            /\ t = job.target => Cardinality(Recorded(t)) < Limit - 1
            /\ Recorded(t)' = Recorded(t)
        BY <2>2, <3>2, CountCloses DEF Recorded
      <4> QED BY <2>0, <2>2, <3>1, <4>1 DEF RoomInv
    <3>3. CASE SealRelease
      <4>1. job.target \in Tags /\ releases[job.target] # Null
        BY <3>3 DEF SealRelease, RInv, JobTrue, Types, AtRelease
      <4>2. releases'[job.target].sealed
        BY <3>3, <4>1 DEF SealRelease, Types
      <4>3. t # job.target /\ releases'[t] = releases[t] /\ Recorded(t)' = Recorded(t)
        BY <2>2, <3>3, <4>1, <4>2 DEF SealRelease, Types, Recorded
      <4> QED BY <2>0, <2>2, <4>3 DEF RoomInv
    <3>4. CASE releases[t] # Null /\ ~CountAssets /\ ~SealRelease
      <4>1. releases'[t] = releases[t]
        BY <3>4, TableSteps DEF CreateRelease, Types
      <4>2. Cardinality(Recorded(t)) < Limit - 1 \/ (pc \in {"count", "seal"} /\ t = job.target)
        BY <2>0, <2>2, <3>4, <4>1 DEF RoomInv
      <4>3. ~(RecordPart /\ t = job.target)
        BY <2>2 DEF RecordPart, RInv, Shapes, Job
      <4>4. ~(pc \in {"count", "seal"} /\ t = job.target)
        BY <2>0, <2>2, <3>4, CountingGoesOn DEF vars
      <4> QED BY <3>0, <4>2, <4>3, <4>4, RecordedGrows, ReleaseAssumption
    <3> QED BY <3>1, <3>2, <3>3, <3>4
  <2>3. ASSUME ForPart' PROVE ~releases'[job'.target].sealed
    <3>1. CASE OpenRelease \/ (CreateRelease /\ ~UNCHANGED pc)
      BY <3>1, GivenRelease
    <3>2. CASE ForPart /\ job'.target = job.target
      <4>1. ~CountAssets /\ ~SealRelease /\ job.target \in Tags /\ releases[job.target] # Null
        BY <3>2, NameOfPart DEF CountAssets, SealRelease, ForPart, Requesting, Types, AtRelease
      <4>2. releases'[job.target] = releases[job.target]
        BY <4>1, TableSteps DEF CreateRelease, Types
      <4> QED BY <2>0, <3>2, <4>2 DEF RoomInv
    <3> QED BY <2>3, <3>1, <3>2, ReleaseOfPart DEF AtRelease
  <2> QED BY <2>1, <2>2, <2>3
<1> QED BY <1>1, <1>2 DEF RoomInv

\* As long as the process does not die, a release is sealed while its manifest
\* still has a slot (_open_release, sync_release_asset_count, seal_release).
THEOREM SealedWithRoom ==
    ASSUME ~LostDeletes
    PROVE  Spec => []SealedInTime
<1>1. Init => RoomInv
  <2> SUFFICES ASSUME Init PROVE RoomInv
    OBVIOUS
  <2>1. \A t \in Tags : Recorded(t) = {} /\ releases[t] = Null
    BY DEF Init, Recorded
  <2>2. \A t \in Tags : Cardinality(Recorded(t)) = 0
    BY <2>1, FS_EmptySet
  <2>3. ~ForPart
    BY DEF Init, ForPart, Requesting
  <2> QED BY <2>1, <2>2, <2>3, ReleaseAssumption DEF RoomInv
<1>2. RoomInv => SealedInTime
  BY DEF RoomInv, SealedInTime
<1> QED BY <1>1, <1>2, ReleaseInvariant, TypesHold, RoomKept, PTL DEF Spec

-----------------------------------------------------------------------------
(* Parts are not sent twice *)

\* The process has listed every part it has recorded, and sends only parts that
\* are not recorded.
KnownInv ==
    crashes = 0 =>
        /\ \A t \in Tags, p \in Parts :
             assets[t][p] # Null => cache[t] # Null /\ cache[t][p] \in Whole
        /\ ForPart /\ pc # "reuse" => Known = {}
        /\ pc = "record" => cache[job.target] # Null /\ cache[job.target][job.name] \in Whole

\* A listing keeps the assets it shows, all but the one a request is about.
Remembers ==
    \A t \in Tags, p \in Parts :
        /\ cache[t] # Null /\ cache[t][p] \in Whole
        /\ pc \in {"upload", "taken", "drop"} => p # job.name
        => cache'[t] # Null /\ cache'[t][p] = cache[t][p]

\* A listing that takes the place of the one kept shows the same assets.
LEMMA ReplacedRemembers ==
    ASSUME RInv, job.target \in Tags, pc \in {"upload", "taken", "drop"},
           NEW c \in [Names -> Asset \union {Null}],
           cache' = [cache EXCEPT ![job.target] = c],
           \A p \in Parts : CachedAssets[p] \in Whole /\ p # job.name => c[p] = CachedAssets[p]
    PROVE  Remembers
<1> SUFFICES ASSUME NEW t \in Tags, NEW p \in Parts,
                    cache[t] # Null, cache[t][p] \in Whole, p # job.name
             PROVE  cache'[t] # Null /\ cache'[t][p] = cache[t][p]
  BY DEF Remembers
<1>1. CASE t = job.target
  <2>1. cache'[t] = c /\ c # Null
    BY <1>1, ReleaseNullAssumption DEF RInv, Shapes
  <2> QED BY <1>1, <2>1 DEF CachedAssets
<1>2. CASE t # job.target
  BY <1>2 DEF RInv, Shapes
<1> QED BY <1>1, <1>2

\* What the deletion works from shows all that was listed.
LEMMA RefreshedShows ==
    ASSUME RInv, job.target \in Tags, NEW p \in Parts, CachedAssets[p] \in Whole
    PROVE  Refreshed[p] = CachedAssets[p]
<1>1. p \in Names /\ CachedAssets[p] # Null
  BY ReleaseNullAssumption DEF Names, Whole, Asset
<1> QED BY <1>1, CachedTrue DEF Refreshed

\* No step but a death forgets a listing.
LEMMA StepRemembers ==
    ASSUME RInv, [Next]_vars, ~Crash
    PROVE  Remembers
<1>1. CASE UNCHANGED cache
  BY <1>1 DEF Remembers
<1>2. CASE CreateRelease
  <2>1. PICK t \in Tags : cache' = [cache EXCEPT ![t] = remote[t]]
    BY <1>2 DEF CreateRelease
  <2>2. remote[t] \in [Names -> Asset \union {Null}] /\ remote[t] # Null
    BY ReleaseNullAssumption DEF RInv, Shapes
  <2>3. \A p \in Parts : cache[t] # Null /\ cache[t][p] \in Whole => remote[t][p] = cache[t][p]
    BY ReleaseNullAssumption DEF RInv, CacheIsTrue, Whole, Asset, Names
  <2> QED BY <2>1, <2>2, <2>3 DEF Remembers, RInv, Shapes
<1>3. CASE \E t \in Tags : Look(t)
  <2>1. PICK t \in Tags : Look(t)
    BY <1>3
  <2> QED BY <2>1 DEF Remembers, Look, RInv, Shapes
<1>4. CASE UploadOk
  <2>1. job.target \in Tags /\ job.name \in Names /\ pc = "upload"
    BY <1>4, Aim DEF UploadOk, Uploading
  <2>2. CachedAssets \in [Names -> Asset \union {Null}] /\ NewAsset(TRUE) \in Asset
    BY <2>1, CachedTrue DEF NewAsset, Asset, RInv, Shapes
  <2> DEFINE c == [CachedAssets EXCEPT ![job.name] = NewAsset(TRUE)]
  <2>3. cache' = [cache EXCEPT ![job.target] = c]
    BY <1>4 DEF UploadOk, Acceptable, CacheAsset
  <2>4. c \in [Names -> Asset \union {Null}] /\ \A p \in Parts : p # job.name => c[p] = CachedAssets[p]
    BY <2>1, <2>2 DEF Names
  <2> HIDE DEF c
  <2> QED BY <2>1, <2>3, <2>4, ReplacedRemembers
<1>5. CASE UploadEmpty
  <2>1. job.target \in Tags /\ job.name \in Names /\ pc = "upload"
    BY <1>5, Aim DEF UploadEmpty, Uploading
  <2>2. CASE cache[job.target] = Null
    BY <1>5, <2>2 DEF UploadEmpty, Remembers
  <2>3. CASE cache[job.target] # Null
    <3>1. cache' = [cache EXCEPT ![job.target] = [cache[job.target] EXCEPT ![job.name] = Null]]
      BY <1>5, <2>3 DEF UploadEmpty
    <3>2. CachedAssets = cache[job.target] /\ CachedAssets \in [Names -> Asset \union {Null}]
      BY <2>1, <2>3, CachedTrue DEF CachedAssets
    <3> DEFINE c == [CachedAssets EXCEPT ![job.name] = Null]
    <3>3. c \in [Names -> Asset \union {Null}] /\ \A p \in Parts : p # job.name => c[p] = CachedAssets[p]
      BY <2>1, <3>2 DEF Names
    <3>4. cache' = [cache EXCEPT ![job.target] = c]
      BY <3>1, <3>2
    <3> HIDE DEF c
    <3> QED BY <2>1, <3>3, <3>4, ReplacedRemembers
  <2> QED BY <2>2, <2>3
<1>6. CASE DropListFails \/ NothingToDrop \/ DropFails \/ DropOk
  <2>1. job.target \in Tags /\ job.name \in Names /\ pc \in {"taken", "drop"}
    BY <1>6, Aim DEF DropListFails, NothingToDrop, DropFails, DropOk, Dropping
  <2>2. /\ CachedAssets \in [Names -> Asset \union {Null}]
        /\ Refreshed \in [Names -> Asset \union {Null}]
        /\ \A p \in Parts : CachedAssets[p] \in Whole => Refreshed[p] = CachedAssets[p]
    BY <2>1, CachedTrue, RefreshedTrue, RefreshedShows
  <2>3. /\ Dropped \in [Names -> Asset \union {Null}]
        /\ \A p \in Parts : CachedAssets[p] \in Whole /\ p # job.name => Dropped[p] = CachedAssets[p]
    BY <2>1, <2>2 DEF Dropped, Names
  <2>4. \E c \in {CachedAssets, Refreshed, Dropped} : cache' = [cache EXCEPT ![job.target] = c]
    BY <1>6 DEF DropListFails, NothingToDrop, DropFails, DropOk
  <2> QED BY <2>1, <2>2, <2>3, <2>4, ReplacedRemembers
<1> QED BY <1>1, <1>2, <1>3, <1>4, <1>5, <1>6, CacheSteps

\* The asset of a part that is about to be recorded was just stored.
LEMMA RecordFollows ==
    ASSUME [Next]_vars, pc' = "record"
    PROVE  (UploadOk /\ job.name # Manifest) \/ UNCHANGED vars
BY DEF Next, CopyStep, StartRun, AbortRun, EndWalk, WriteManifest, EndRun, BeginCopy, Adopt, Crash,
   OpenRelease, CreateRelease, OpenFails, ReusePart, NothingToReuse, AfterPart, UploadOk,
   UploadEmpty, UploadRefused, UploadFails, TriesExhausted, Fail, Uploading, DropListFails,
   NothingToDrop, DropFails, DropOk, ForgetPart, RecordPart, CountAssets, SealRelease, EndCopy

\* The process knows what it has recorded: it goes on to send a part only if that
\* part is not recorded anywhere.
LEMMA NothingKnown ==
    ASSUME RInv, KnownInv, crashes = 0, NothingToReuse
    PROVE  Known = {}
<1>1. job.name \in Parts
  BY NameOfPart DEF NothingToReuse, ForPart
<1>2. \A t \in Known : t \in Tags /\ cache[t] # Null /\ cache[t][job.name] \in Whole
  BY <1>1 DEF Known, KnownInv
<1>3. \A t \in Known : Seen(t) \in Whole
  BY <1>2 DEF Seen
<1> QED BY <1>2, <1>3 DEF NothingToReuse

\* A part enters the listing when it is stored and leaves it when deleted.
LEMMA KnownKept == RInv /\ Types /\ KnownInv /\ [Next]_vars => KnownInv'
<1> SUFFICES ASSUME RInv, Types, KnownInv, [Next]_vars, crashes' = 0
             PROVE  /\ \A t \in Tags, p \in Parts :
                         assets'[t][p] # Null => cache'[t] # Null /\ cache'[t][p] \in Whole
                    /\ ForPart' /\ pc' # "reuse" => Known' = {}
                    /\ pc' = "record" =>
                         cache'[job'.target] # Null /\ cache'[job'.target][job'.name] \in Whole
  BY DEF KnownInv
<1>0. crashes = 0 /\ ~Crash
  BY TableSteps DEF Types, Crash
<1>1. ASSUME NEW t \in Tags, NEW p \in Parts, assets'[t][p] # Null
      PROVE  cache'[t] # Null /\ cache'[t][p] \in Whole
  <2>1. CASE assets[t][p] # Null
    <3>1. cache[t] # Null /\ cache[t][p] \in Whole
      BY <1>0, <2>1 DEF KnownInv
    <3>2. ASSUME pc \in {"upload", "taken", "drop"}, p = job.name PROVE FALSE
      <4>1. ForPart
        BY <3>2, ReleaseNullAssumption DEF RInv, JobTrue, ForPart, Requesting
      <4>2. Known = {}
        BY <1>0, <3>2, <4>1 DEF KnownInv
      <4> QED BY <2>1, <3>2, <4>2 DEF Known
    <3> QED BY <1>0, <3>1, <3>2, StepRemembers DEF Remembers
  <2>2. CASE assets[t][p] = Null
    <3>1. p \in Recorded(t)' /\ p \notin Recorded(t)
      BY <1>1, <2>2 DEF Recorded
    <3>2. RecordPart /\ t = job.target /\ p = job.name
      BY <3>1, RecordedSteps
    <3> QED BY <1>0, <3>2 DEF RecordPart, KnownInv
  <2> QED BY <2>1, <2>2
<1>2. ASSUME ForPart', pc' # "reuse" PROVE Known' = {}
  <2>1. CASE NothingToReuse
    BY <1>0, <2>1, NothingKnown DEF NothingToReuse, Known, tables
  <2>2. CASE ForPart /\ pc # "reuse" /\ job'.name = job.name
    <3>1. Known = {} /\ job.name \in Parts
      BY <1>0, <2>2, NameOfPart DEF KnownInv
    <3>2. ~RecordPart
      BY <1>2 DEF RecordPart, ForPart, Requesting
    <3>3. \A t \in Tags : Recorded(t)' \subseteq Recorded(t)
      BY <3>2, RecordedSteps
    <3> QED BY <2>2, <3>1, <3>3 DEF Known, Recorded
  <2> QED BY <1>2, <2>1, <2>2, ReleaseOfPart, GivenRelease DEF AtRelease
<1>3. ASSUME pc' = "record"
      PROVE  cache'[job'.target] # Null /\ cache'[job'.target][job'.name] \in Whole
  <2>1. CASE UNCHANGED vars
    BY <1>0, <1>3, <2>1 DEF vars, memory, KnownInv
  <2>2. CASE UploadOk /\ job.name # Manifest
    <3>1. job.target \in Tags /\ job.name \in Names
      BY <2>2, Aim DEF UploadOk, Uploading
    <3>2. CachedAssets \in [Names -> Asset \union {Null}] /\ NewAsset(TRUE) \in Asset \intersect Whole
      BY <3>1, CachedTrue DEF NewAsset, Asset, Whole, RInv, Shapes
    <3> DEFINE c == [CachedAssets EXCEPT ![job.name] = NewAsset(TRUE)]
    <3>3. cache' = [cache EXCEPT ![job.target] = c]
      BY <2>2 DEF UploadOk, Acceptable, CacheAsset
    <3>4. c \in [Names -> Asset \union {Null}] /\ c[job.name] = NewAsset(TRUE)
      BY <3>1, <3>2
    <3>5. job'.target = job.target /\ job'.name = job.name
      BY <2>2 DEF UploadOk, RInv, Shapes, Job
    <3> HIDE DEF c
    <3> QED BY <3>1, <3>2, <3>3, <3>4, <3>5, ReleaseNullAssumption DEF RInv, Shapes
  <2> QED BY <1>3, <2>1, <2>2, RecordFollows
<1> QED BY <1>1, <1>2, <1>3

\* A part that the registry knows and the account holds is not sent again by the
\* process that sent it (_reuse_existing_part): what it sends is not recorded.
THEOREM PartsAreReused ==
    ASSUME ~LostDeletes
    PROVE  Spec => PresentPartsAreReused
<1> DEFINE Reused == pc = "reuse" /\ pc' = "upload" =>
                       \/ crashes > 0
                       \/ \A t \in Known : remote[t][job.name] \notin Whole
<1>1. Init => KnownInv
  BY DEF Init, KnownInv, ForPart, Requesting
<1>2. RInv /\ Types /\ KnownInv /\ [Next]_vars => [Reused]_pc
  <2> SUFFICES ASSUME RInv, Types, KnownInv, [Next]_vars, pc = "reuse", pc' = "upload", ~(crashes > 0)
               PROVE  Known = {}
    OBVIOUS
  <2>1. crashes = 0
    BY DEF Types
  <2>2. NothingToReuse
    BY DEF Next, CopyStep, StartRun, AbortRun, EndWalk, WriteManifest, EndRun, BeginCopy, Adopt,
       Crash, OpenRelease, CreateRelease, OpenFails, ReusePart, AfterPart, UploadOk, UploadEmpty,
       UploadRefused, UploadFails, TriesExhausted, Uploading, DropListFails, NothingToDrop,
       DropFails, DropOk, Dropping, ForgetPart, RecordPart, CountAssets, SealRelease, EndCopy, vars
  <2> QED BY <2>1, <2>2, NothingKnown
<1> QED BY <1>1, <1>2, ReleaseInvariant, TypesHold, KnownKept, PTL DEF Spec, PresentPartsAreReused
====
