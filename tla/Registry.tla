------------------------------ MODULE Registry ------------------------------
(***************************************************************************)
(* The upload registry: the SQLite tables of app/registry.py that say which *)
(* local file is backed up as which version, and where.  Every write of     *)
(* the code goes through Registry._execute (registry.py:226-233), which     *)
(* commits one statement at a time: so each operator below that changes a   *)
(* table is one atomic step, and a caller that issues two of them can be    *)
(* interrupted in between.                                                  *)
(*                                                                          *)
(* Left out: timestamps, error texts (last_error), the meta table (its      *)
(* sync_run counter appears as the set `seen`), and the copy_count and      *)
(* last_seen_at of uploaded_versions, which nothing reads.                  *)
(***************************************************************************)
EXTENDS Naturals, Sequences, FiniteSets

CONSTANTS
    Files,              \* file ids (stable_file_id of the relative path)
    Contents,           \* what a file can hold, one value per SHA-256
    VersionIds,         \* utc_now_compact values, each minted at most once
    GitHubAccounts,     \* config.github_accounts
    TelegramAccounts,   \* config.telegram_accounts
    CopyCount,          \* config.copy_count
    Null                \* None / no row

Accounts == GitHubAccounts \union TelegramAccounts
Status   == {"uploading", "complete", "error"}

\* One element of version["copies"]: the account that holds it and the bytes
\* that were read from the local file while it was uploaded.
Copy     == [account : Accounts, holds : Contents]
Version  == [hash : Contents, copies : Seq(Copy)]
Row      == [hash : Contents, stamp : Nat, version : VersionIds,
             status : Status, present : BOOLEAN]
Check    == [ok : BOOLEAN, version : VersionIds]
Indexed  == [id : VersionIds, version : Version]

\* load_config refuses a COPY_COUNT above the number of accounts.
ASSUME CopyCountAssumption ==
    /\ CopyCount \in Nat \ {0}
    /\ IsFiniteSet(Accounts)
    /\ CopyCount <= Cardinality(Accounts)

ASSUME NullAssumption ==
    /\ Null \notin Files
    /\ Null \notin Contents
    /\ Null \notin VersionIds
    /\ Null \notin Row
    /\ Null \notin Version
    /\ Null \notin Indexed

VARIABLES
    rows,        \* table files, without its verification columns
    checks,      \* the verification columns of table files
    versions,    \* table versions, keyed by file id and version id
    uploaded,    \* table uploaded_versions, keyed by content hash
    seen         \* rows whose last_seen_run is the current sync_run

registryVars == <<rows, checks, versions, uploaded, seen>>

RegistryTypeOK ==
    /\ rows \in [Files -> Row \union {Null}]
    /\ checks \in [Files -> Check \union {Null}]
    /\ versions \in [Files -> [VersionIds -> Version \union {Null}]]
    /\ uploaded \in [Contents -> Indexed \union {Null}]
    /\ seen \subseteq Files

RegistryInit ==
    /\ rows = [f \in Files |-> Null]
    /\ checks = [f \in Files |-> Null]
    /\ versions = [f \in Files |-> [v \in VersionIds |-> Null]]
    /\ uploaded = [h \in Contents |-> Null]
    /\ seen = {}

-----------------------------------------------------------------------------
(* Reads *)

HoldersOf(copies) == {copies[i].account : i \in DOMAIN copies}

\* Two copies under one account count as one.
DistinctAccountCopies(copies) == Cardinality(HoldersOf(copies))

\* AppService._is_version_replication_complete
Replicated(version) == DistinctAccountCopies(version.copies) >= CopyCount

\* The version the row points at, provided it was ever saved.
ActiveVersion(f) ==
    IF rows[f] = Null THEN Null ELSE versions[f][rows[f].version]

-----------------------------------------------------------------------------
(* Writes: each is one committed statement *)

\* MUTANT: the statement without its COALESCE.
Mutant_UpsertFile(f, stamp, hash, id, status) ==
    /\ rows' = [rows EXCEPT ![f] =
                  [hash |-> hash, stamp |-> stamp, version |-> id,
                   status |-> status, present |-> TRUE]]
    /\ seen' = seen \union {f}

\* An absent version_id keeps the one of the row (COALESCE).
UpsertFile(f, stamp, hash, id, status) ==
    /\ rows' = [rows EXCEPT ![f] =
                  [hash |-> hash, stamp |-> stamp,
                   version |-> IF id = Null THEN rows[f].version ELSE id,
                   status |-> status, present |-> TRUE]]
    /\ seen' = seen \union {f}

TouchFile(f, stamp) ==
    /\ rows' = [rows EXCEPT ![f].stamp = stamp, ![f].present = TRUE]
    /\ seen' = seen \union {f}

MarkAbsentExceptRun ==
    rows' = [f \in Files |->
               IF rows[f] = Null \/ f \in seen THEN rows[f]
               ELSE [rows[f] EXCEPT !.present = FALSE]]

MarkMissing(f) == rows' = [rows EXCEPT ![f].present = FALSE]

RecordVerification(f, ok, id) ==
    checks' = [checks EXCEPT ![f] = [ok |-> ok, version |-> id]]

ClearVerification(f) == checks' = [checks EXCEPT ![f] = Null]

SaveVersion(f, id, version) ==
    versions' = [versions EXCEPT ![f][id] = version]

RecordUploadedVersion(hash, id, version) ==
    uploaded' = [uploaded EXCEPT ![hash] = [id |-> id, version |-> version]]

\* next_counter("sync_run"): the counter only grows, so no row carries the
\* new run's number yet.
NextSyncRun == seen' = {}
=============================================================================
