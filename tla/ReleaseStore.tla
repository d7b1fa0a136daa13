----------------------------- MODULE ReleaseStore -----------------------------
(***************************************************************************)
(* How one GitHub account holds the copies of versions: as assets of        *)
(* releases with room for RELEASE_ASSET_LIMIT assets each, one asset per    *)
(* part and one manifest per release (app/service.py, from _open_release    *)
(* to _write_release_manifest, the tables assets and releases of            *)
(* app/registry.py and the release calls of app/github_api.py).             *)
(*                                                                          *)
(* Three places know what is stored: the account itself, the registry, and  *)
(* the listings the process has cached (_remote_assets).  Requests fail     *)
(* with or without effect, answers are lost, and the process dies between   *)
(* any two of its steps.  Which versions are wanted, and on how many        *)
(* accounts, is the sync task's affair (module Sync): here a copy of the    *)
(* version of a file is asked for again and again until it is stored.       *)
(***************************************************************************)
EXTENDS Naturals, Sequences, FiniteSets

CONSTANTS
    Files,          \* the files whose versions this account holds
    NumVersions,    \* bound on version ids; they are minted in increasing order
    NumParts,       \* parts per version
    NumTags,        \* bound on the releases of the account
    Limit,          \* RELEASE_ASSET_LIMIT
    Foreign,        \* names of assets an earlier installation left behind
    Manifest,       \* MANIFEST_ASSET_NAME
    LostDeletes,    \* TRUE: a deletion may have happened though it failed
    MaxUploads,     \* bound on the assets ever stored
    MaxCrashes,     \* bound on how often the process dies
    Null

ASSUME ReleaseAssumption ==
    /\ NumVersions \in Nat /\ NumTags \in Nat
    /\ NumParts \in Nat \ {0}
    /\ Limit \in Nat \ {0, 1}
    /\ IsFiniteSet(Foreign)
    /\ LostDeletes \in BOOLEAN
    /\ MaxUploads \in Nat /\ MaxCrashes \in Nat

Versions == 1..NumVersions
Tags     == 1..NumTags
Parts    == Versions \X (1..NumParts)
Names    == Parts \union Foreign \union {Manifest}
Asset    == [id : Nat, full : BOOLEAN]
Whole    == [id : Nat, full : {TRUE}]
Entry    == [version : Versions, parts : SUBSET Parts, paths : SUBSET Files]
Nothing  == [n \in Names |-> Null]
Listing  == UNION {[S -> Entry] : S \in SUBSET Files}
MaxTries == 3

ASSUME ReleaseNullAssumption ==
    /\ Manifest \notin Parts \union Foreign
    /\ Foreign \intersect Parts = {}
    /\ Null \notin Files \union Versions \union Tags \union Names \union Asset
    /\ Null \notin [Names -> Asset \union {Null}] \union [count : Nat, sealed : BOOLEAN]
    /\ Null \notin Nat

VARIABLES
    remote,      \* remote[t][n]: asset n of release t on the account
    listing,     \* what the manifest of each release says (of none: nothing)
    assets,      \* table assets: the remote id of each recorded part
    releases,    \* table releases
    rows,        \* files.version_id
    owner,       \* the file a version was uploaded for (assets.file_id)
    stored,      \* versions whose copy on this account was recorded
    cache,       \* _remote_assets
    touched,     \* _releases_touched
    pc,          \* what the sync task does next
    job,         \* locals of _upload_release_copy and of _upload_asset
    queue,       \* releases whose manifest _finalize_sync has still to write
    uploads,     \* number of assets ever stored: the id of the last one
    crashes,
    missed       \* history: releases whose manifest was due and never written

tables  == <<assets, releases, rows, owner, stored>>
memory  == <<cache, touched, queue>>
account == <<remote, listing, uploads>>
vars    == <<tables, memory, account, pc, job, crashes, missed>>

Steps == {"idle", "walk", "open", "reuse", "upload", "taken", "forget", "record",
          "count", "seal", "done", "manifests", "drop"}
Place == [tag : Tags, id : Nat]
Job   == [version : Versions \union {Null}, name : Names \union {Null},
          target : Tags \union {Null}, tries : 0..MaxTries, trouble : BOOLEAN,
          parts : Seq(Place)]
NoJob == [version |-> Null, name |-> Null, target |-> Null, tries |-> 0,
          trouble |-> FALSE, parts |-> <<>>]

TypeOK ==
    /\ remote \in [Tags -> [Names -> Asset \union {Null}]]
    /\ listing \in [Tags -> Listing]
    /\ assets \in [Tags -> [Parts -> Nat \union {Null}]]
    /\ releases \in [Tags -> [count : Nat, sealed : BOOLEAN] \union {Null}]
    /\ rows \in [Files -> Versions \union {Null}]
    /\ owner \in [Versions -> Files \union {Null}]
    /\ stored \in [Versions -> Seq(Place) \union {Null}]
    /\ cache \in [Tags -> [Names -> Asset \union {Null}] \union {Null}]
    /\ touched \subseteq Tags /\ queue \subseteq Tags /\ missed \subseteq Tags
    /\ pc \in Steps
    /\ job \in Job
    /\ uploads \in Nat /\ crashes \in Nat

\* The first release may hold assets of an installation whose registry is lost.
Init ==
    /\ remote \in {[t \in Tags |-> [n \in Names |->
                      IF t = 1 /\ n \in left THEN [id |-> 0, full |-> TRUE] ELSE Null]]
                   : left \in SUBSET Foreign}
    /\ listing = [t \in Tags |-> <<>>]
    /\ assets = [t \in Tags |-> [p \in Parts |-> Null]]
    /\ releases = [t \in Tags |-> Null]
    /\ rows = [f \in Files |-> Null]
    /\ owner = [v \in Versions |-> Null]
    /\ stored = [v \in Versions |-> Null]
    /\ cache = [t \in Tags |-> Null]
    /\ touched = {} /\ queue = {} /\ missed = {}
    /\ pc = "idle"
    /\ job = NoJob
    /\ uploads = 0
    /\ crashes = 0

First(n, S) == n \in S /\ \A m \in S : n <= m
Present(t) == {n \in Names : remote[t][n] # Null}
Recorded(t) == {p \in Parts : assets[t][p] # Null}

-----------------------------------------------------------------------------
(* The sync task asks for copies *)

StartRun ==
    /\ pc = "idle"
    /\ pc' = "walk"
    /\ UNCHANGED <<tables, memory, account, job, crashes, missed>>

\* A new version of f, or the one whose copy did not get through.
BeginCopy(f, v) ==
    /\ pc = "walk"
    /\ \/ owner[v] = Null /\ \A u \in 1..(v - 1) : owner[u] # Null
       \/ owner[v] = f /\ rows[f] = v /\ stored[v] = Null
    /\ owner' = [owner EXCEPT ![v] = f]
    /\ rows' = [rows EXCEPT ![f] = v]
    /\ job' = [NoJob EXCEPT !.version = v]
    /\ pc' = "open"
    /\ UNCHANGED <<assets, releases, stored, memory, account, crashes, missed>>

\* f has the content of a version stored before, for this file or another.
Adopt(f, v) ==
    /\ pc = "walk"
    /\ stored[v] # Null
    /\ rows' = [rows EXCEPT ![f] = v]
    /\ UNCHANGED <<assets, releases, owner, stored, memory, account, pc, job, crashes, missed>>

\* The walk raises: the releases touched so far wait for the next run.
AbortRun ==
    /\ pc = "walk"
    /\ pc' = "idle"
    /\ UNCHANGED <<tables, memory, account, job, crashes, missed>>

\* What happens when an upload raises: the copy is given up; the failure of a
\* manifest is logged and the next release has its turn.
Fail ==
    /\ job' = NoJob
    /\ IF job.name = Manifest
       THEN /\ pc' = "manifests"
            /\ queue' = queue \ {job.target}
            /\ missed' = missed \union {job.target}
       ELSE pc' = "walk" /\ UNCHANGED <<queue, missed>>

-----------------------------------------------------------------------------
(* _open_release *)

OpenTags == {t \in Tags : /\ releases[t] # Null
                          /\ ~releases[t].sealed
                          /\ releases[t].count < Limit}

AtTarget(t) == [job EXCEPT !.target = t, !.name = <<job.version, Len(job.parts) + 1>>]

OpenRelease ==
    /\ pc = "open"
    /\ \E t \in Tags : First(t, OpenTags) /\ job' = AtTarget(t)
    /\ pc' = "reuse"
    /\ UNCHANGED <<tables, memory, account, crashes, missed>>

\* The next release of the account, with whatever its tag already holds.
CreateRelease ==
    /\ pc = "open"
    /\ OpenTags = {}
    /\ \E t \in Tags :
         LET found == Cardinality(Present(t))
             full  == found >= Limit - 1 IN
         /\ releases[t] = Null /\ \A u \in 1..(t - 1) : releases[u] # Null
         /\ cache' = [cache EXCEPT ![t] = remote[t]]
         /\ releases' = [releases EXCEPT ![t] = [count |-> found, sealed |-> full]]
         /\ IF full THEN UNCHANGED <<pc, job>> ELSE pc' = "reuse" /\ job' = AtTarget(t)
    /\ UNCHANGED <<assets, rows, owner, stored, touched, queue, account, crashes, missed>>

\* A request fails, or the releases are used up.
OpenFails ==
    /\ pc = "open"
    /\ OpenTags = {}
    /\ pc' = "walk"
    /\ job' = NoJob
    /\ UNCHANGED <<tables, memory, account, crashes, missed>>

-----------------------------------------------------------------------------
(* _reuse_existing_part *)

\* find_account_asset: any release that the part is recorded in.
Known == {t \in Tags : assets[t][job.name] # Null}

\* _remote_asset: one listing per release, kept.
Seen(t) == IF cache[t] = Null THEN remote[t][job.name] ELSE cache[t][job.name]

Look(t) == cache' = [cache EXCEPT ![t] = IF @ = Null THEN remote[t] ELSE @]

AfterPart(parts) == IF Len(parts) = NumParts THEN "done" ELSE "open"

ReusePart ==
    /\ pc = "reuse"
    /\ \E t \in Known :
         /\ Look(t)
         /\ Seen(t) \in Whole
         /\ job' = [job EXCEPT !.parts = Append(@, [tag |-> t, id |-> Seen(t).id])]
    /\ pc' = AfterPart(job'.parts)
    /\ UNCHANGED <<tables, touched, queue, account, crashes, missed>>

NothingToReuse ==
    /\ pc = "reuse"
    /\ \/ Known = {} /\ UNCHANGED cache
       \/ \E t \in Known : Look(t) /\ Seen(t) \notin Whole
       \/ \E t \in Known : cache[t] = Null /\ UNCHANGED cache
    /\ pc' = "upload"
    /\ UNCHANGED <<tables, touched, queue, account, job, crashes, missed>>

-----------------------------------------------------------------------------
(* What the account does *)

\* The manifest: one entry per file id, under the version of its first asset.
FilesIn(t) == {owner[p[1]] : p \in Recorded(t)}
PartsOf(f, t) == {p \in Recorded(t) : owner[p[1]] = f}
ManifestOf(t) ==
    [f \in FilesIn(t) |->
       LET v == CHOOSE u \in Versions : First(u, {p[1] : p \in PartsOf(f, t)}) IN
       [version |-> v, parts |-> PartsOf(f, t), paths |-> {g \in Files : rows[g] = v}]]

Taken == remote[job.target][job.name] # Null
Full  == Cardinality(Present(job.target)) >= Limit
Room  == ~Taken /\ ~Full /\ uploads < MaxUploads

NewAsset(full) == [id |-> uploads + 1, full |-> full]

\* An asset is stored, in full or as the empty one a 502 leaves behind.
Store(full) ==
    /\ Room
    /\ uploads' = uploads + 1
    /\ remote' = [remote EXCEPT ![job.target][job.name] = NewAsset(full)]
    /\ listing' = IF job.name = Manifest /\ full
                  THEN [listing EXCEPT ![job.target] = ManifestOf(job.target)]
                  ELSE listing

\* DELETE by id; an id that is gone (404) counts as deleted.
Remove(asset) ==
    /\ remote' = IF remote[job.target][job.name] = asset
                 THEN [remote EXCEPT ![job.target][job.name] = Null] ELSE remote
    /\ listing' = IF job.name = Manifest /\ remote[job.target][job.name] = asset
                  THEN [listing EXCEPT ![job.target] = <<>>] ELSE listing
    /\ UNCHANGED uploads

-----------------------------------------------------------------------------
(* _upload_asset: at most MaxTries uploads *)

CachedAssets == IF cache[job.target] = Null THEN Nothing ELSE cache[job.target]

\* MUTANT: the upload is repeated until it works.
Mutant_Uploading == pc = "upload"

Uploading == pc = "upload" /\ job.tries < MaxTries

\* MUTANT: the new asset is not added to the listing kept.
Mutant_CacheAsset(asset) == UNCHANGED cache

CacheAsset(asset) ==
    cache' = [cache EXCEPT ![job.target] = [CachedAssets EXCEPT ![job.name] = asset]]

\* MUTANT: the size in the answer is not looked at.
Mutant_Acceptable == BOOLEAN

\* The size in the answer is above 0.
Acceptable == {TRUE}

UploadOk ==
    /\ Uploading
    /\ \E full \in Acceptable : Store(full) /\ CacheAsset(NewAsset(full))
    /\ IF job.name = Manifest
       THEN /\ pc' = "manifests"
            /\ job' = NoJob
            /\ queue' = queue \ {job.target}
            /\ missed' = missed \ {job.target}
       ELSE /\ pc' = "record"
            /\ job' = [job EXCEPT !.tries = 0, !.trouble = FALSE]
            /\ UNCHANGED <<queue, missed>>
    /\ UNCHANGED <<tables, touched, crashes>>

\* Size 0 in the answer: the asset is deleted, if that works, and sent again.
UploadEmpty ==
    /\ Uploading
    /\ Room
    /\ \/ Store(FALSE)
       \/ uploads' = uploads + 1 /\ UNCHANGED <<remote, listing>>
    /\ cache' = IF cache[job.target] = Null THEN cache
                ELSE [cache EXCEPT ![job.target][job.name] = Null]
    /\ job' = [job EXCEPT !.tries = @ + 1, !.trouble = TRUE]
    /\ UNCHANGED <<tables, touched, queue, pc, crashes, missed>>

\* 422: the name is taken or the release is full.  The name may have been taken
\* by this very upload, when the answer was lost and the client sent it again.
UploadRefused ==
    /\ Uploading
    /\ \/ (Taken \/ Full) /\ UNCHANGED <<account, job>>
       \/ (\E full \in BOOLEAN : Store(full)) /\ job' = [job EXCEPT !.trouble = TRUE]
    /\ pc' = "taken"
    /\ UNCHANGED <<tables, memory, crashes, missed>>

\* The client gives up on the request, which may have had its effect.
UploadFails ==
    /\ Uploading
    /\ UNCHANGED account \/ \E full \in BOOLEAN : Store(full)
    /\ Fail
    /\ UNCHANGED <<tables, cache, touched, crashes>>

TriesExhausted ==
    /\ pc = "upload"
    /\ job.tries = MaxTries
    /\ Fail
    /\ UNCHANGED <<tables, cache, touched, account, crashes>>

-----------------------------------------------------------------------------
(* _delete_remote_asset: of a name that is taken, or of the old manifest *)

Dropping == pc \in {"taken", "drop"}

\* MUTANT: the cache alone is asked.
Mutant_Refreshed == CachedAssets

\* The listing is only fetched for a name the cache does not have.
Refreshed ==
    IF CachedAssets[job.name] # Null THEN CachedAssets
    ELSE [n \in Names |-> IF remote[job.target][n] # Null THEN remote[job.target][n]
                          ELSE CachedAssets[n]]

TriedAgain == [job EXCEPT !.tries = IF pc = "taken" THEN @ + 1 ELSE @]

DropListFails ==
    /\ Dropping
    /\ CachedAssets[job.name] = Null
    /\ cache' = [cache EXCEPT ![job.target] = CachedAssets]
    /\ job' = [TriedAgain EXCEPT !.trouble = TRUE]
    /\ pc' = "upload"
    /\ UNCHANGED <<tables, touched, queue, account, crashes, missed>>

NothingToDrop ==
    /\ Dropping
    /\ Refreshed[job.name] = Null
    /\ cache' = [cache EXCEPT ![job.target] = Refreshed]
    /\ job' = TriedAgain
    /\ pc' = "upload"
    /\ UNCHANGED <<tables, touched, queue, account, crashes, missed>>

DropFails ==
    /\ Dropping
    /\ Refreshed[job.name] # Null
    /\ cache' = [cache EXCEPT ![job.target] = Refreshed]
    /\ \/ UNCHANGED account
       \/ LostDeletes /\ Remove(Refreshed[job.name])
    /\ job' = [TriedAgain EXCEPT !.trouble = TRUE]
    /\ pc' = "upload"
    /\ UNCHANGED <<tables, touched, queue, crashes, missed>>

\* MUTANT: the deleted asset stays in the listing kept.
Mutant_Dropped == Refreshed

Dropped == [Refreshed EXCEPT ![job.name] = Null]

DropOk ==
    /\ Dropping
    /\ Refreshed[job.name] # Null
    /\ Remove(Refreshed[job.name])
    /\ cache' = [cache EXCEPT ![job.target] = Dropped]
    /\ job' = TriedAgain
    /\ pc' = IF job.name = Manifest THEN "upload" ELSE "forget"
    /\ UNCHANGED <<tables, touched, queue, crashes, missed>>

\* delete_asset: a statement of its own.
ForgetPart ==
    /\ pc = "forget"
    /\ assets' = [assets EXCEPT ![job.target][job.name] = Null]
    /\ pc' = "upload"
    /\ UNCHANGED <<releases, rows, owner, stored, memory, account, job, crashes, missed>>

-----------------------------------------------------------------------------
(* The end of a part, statement by statement *)

\* MUTANT: the manifest of the release is not put down as due.
Mutant_Touch == UNCHANGED touched

Touch == touched' = touched \union {job.target}

\* The id in the answer to the upload is that of the last asset stored.
RecordPart ==
    /\ pc = "record"
    /\ assets' = [assets EXCEPT ![job.target][job.name] = uploads]
    /\ job' = [job EXCEPT !.parts = Append(@, [tag |-> job.target, id |-> uploads])]
    /\ Touch
    /\ pc' = "count"
    /\ UNCHANGED <<releases, rows, owner, stored, cache, queue, account, crashes, missed>>

\* sync_release_asset_count: the assets the registry knows of.
CountAssets ==
    /\ pc = "count"
    /\ LET count == Cardinality(Recorded(job.target)) IN
       /\ releases' = [releases EXCEPT ![job.target] =
                         [count |-> count, sealed |-> @.sealed \/ count >= Limit]]
       /\ pc' = IF count >= Limit - 1 THEN "seal" ELSE AfterPart(job.parts)
    /\ UNCHANGED <<assets, rows, owner, stored, memory, account, job, crashes, missed>>

\* MUTANT: a full release stays open.
Mutant_SealRelease ==
    /\ pc = "seal"
    /\ pc' = AfterPart(job.parts)
    /\ UNCHANGED <<tables, memory, account, job, crashes, missed>>

SealRelease ==
    /\ pc = "seal"
    /\ releases' = [releases EXCEPT ![job.target].sealed = TRUE]
    /\ pc' = AfterPart(job.parts)
    /\ UNCHANGED <<assets, rows, owner, stored, memory, account, job, crashes, missed>>

\* The version is saved with this copy, unless something after it raises.
EndCopy ==
    /\ pc = "done"
    /\ \/ stored' = [stored EXCEPT ![job.version] = job.parts]
       \/ UNCHANGED stored
    /\ pc' = "walk"
    /\ job' = NoJob
    /\ UNCHANGED <<assets, releases, rows, owner, memory, account, crashes, missed>>

-----------------------------------------------------------------------------
(* _finalize_sync: the manifests of the releases touched *)

EndWalk ==
    /\ pc = "walk"
    /\ pc' = "manifests"
    /\ queue' = touched
    /\ UNCHANGED <<tables, cache, touched, account, job, crashes, missed>>

WriteManifest ==
    /\ pc = "manifests"
    /\ \E t \in Tags : First(t, queue) /\ job' = [NoJob EXCEPT !.target = t, !.name = Manifest]
    /\ pc' = "drop"
    /\ UNCHANGED <<tables, memory, account, crashes, missed>>

EndRun ==
    /\ pc = "manifests"
    /\ queue = {}
    /\ touched' = {}
    /\ pc' = "idle"
    /\ UNCHANGED <<tables, cache, queue, account, job, crashes, missed>>

\* The process dies: what it had in memory is lost.
Crash ==
    /\ crashes < MaxCrashes
    /\ crashes' = crashes + 1
    /\ cache' = [t \in Tags |-> Null]
    /\ touched' = {} /\ queue' = {}
    /\ missed' = missed \union touched
    /\ pc' = "idle"
    /\ job' = NoJob
    /\ UNCHANGED <<tables, account>>

CopyStep ==
    \/ OpenRelease \/ CreateRelease \/ OpenFails \/ ReusePart \/ NothingToReuse
    \/ UploadOk \/ UploadEmpty \/ UploadRefused \/ UploadFails \/ TriesExhausted
    \/ DropListFails \/ NothingToDrop \/ DropFails \/ DropOk \/ ForgetPart
    \/ RecordPart \/ CountAssets \/ SealRelease \/ EndCopy

Next ==
    \/ StartRun \/ AbortRun \/ EndWalk \/ WriteManifest \/ EndRun
    \/ \E f \in Files, v \in Versions : BeginCopy(f, v) \/ Adopt(f, v)
    \/ CopyStep
    \/ Crash

Spec == Init /\ [][Next]_vars

-----------------------------------------------------------------------------
(* What must hold *)

\* Every part of a recorded copy is on the account under the id the record
\* names, and not empty, whatever was reused, sent again or deleted on the way.
StoredPartsExist ==
    \A v \in Versions : stored[v] # Null =>
        \A i \in DOMAIN stored[v] :
            remote[stored[v][i].tag][<<v, i>>] = [id |-> stored[v][i].id, full |-> TRUE]

\* An asset in the process's listing of a release is on the account: reuse and
\* deletion rely on it (_remote_asset, _delete_remote_asset).
CacheIsTrue ==
    \A t \in Tags, n \in Names :
        cache[t] # Null /\ cache[t][n] # Null => remote[t][n] = cache[t][n]

\* No request is refused for good: unless something failed, came back empty or
\* was lost, or the release has no room, three tries store any asset (422 is
\* "reachable on resume, so delete and re-upload").
ThreeTriesSuffice ==
    pc = "upload" /\ job.tries = MaxTries => job.trouble \/ Full

\* A part that the registry knows and the account holds is not sent again: this
\* process knows the releases it opened itself (_reuse_existing_part).
PresentPartsAreReused ==
    [][pc = "reuse" /\ pc' = "upload" =>
         \/ crashes > 0
         \/ \A t \in Known : remote[t][job.name] \notin Whole]_pc

\* The manifest of the release lists every part the registry records in it.
Listed(t) ==
    \A p \in Recorded(t) : \E f \in DOMAIN listing[t] : p \in listing[t][f].parts

\* A part that its release's manifest does not list is listed by the end of the
\* run, or the process died or failed before the manifest was written.
PartsGetListed == \A t \in Tags \ missed : t \notin touched => Listed(t)

\* As long as the process does not die, the registry never records so many parts
\* in a release that its manifest finds no room (sync_release_asset_count,
\* seal_release), whatever failures and deletions came in between.
SealedInTime == crashes = 0 => \A t \in Tags : Cardinality(Recorded(t)) < Limit
=============================================================================
