-------------------------------- MODULE Startup --------------------------------
(***************************************************************************)
(* How a process of the service comes up: bootstrap_service reads and      *)
(* rewrites secrets.json (state.py), then AppService moves the file map of *)
(* an older version from index.json to the registry, once (service.py).    *)
(*                                                                         *)
(* The gunicorn master does so before it starts its workers, a worker with *)
(* its first request, whenever that comes; one that reads half a file      *)
(* raises, fails its request and tries again with the next.                *)
(***************************************************************************)
EXTENDS Naturals

CONSTANTS
  Processes, Master,
  Keys,       \* the encryption keys that may be generated
  Legacy,     \* the files in index.json of an older version
  MaxDeaths,  \* bound: processes that die
  Null, Empty

ASSUME StartupAssumption ==
  /\ Master \in Processes
  /\ Null \notin Keys \cup Legacy /\ Empty \notin Keys /\ Empty # Null
  /\ MaxDeaths \in Nat

VARIABLES
  secrets,   \* the key in secrets.json, or Empty while it is rewritten, or Null
  document,  \* whether index.json has the file map
  registry,  \* the files whose rows, versions and verification are there
  flag,      \* index_json_files_migrated
  synced,    \* the rows a sync has written
  pc, key,   \* per process: where it is, and the key it goes by
  todo,      \* per process: the files still to import
  deaths,
  used       \* history: the keys of processes that have come up

importVars == <<document, registry, flag, synced>>
vars == <<secrets, importVars, pc, key, todo, deaths, used>>

Tables    == {"rows", "versions", "checks"}
Importing == {"row", "version", "check", "save", "flag"}
Places    == {"down", "open", "fill", "load", "up"} \cup Importing

Init ==
  /\ secrets = Null
  /\ document = TRUE /\ flag = FALSE
  /\ registry = [t \in Tables |-> {}] /\ synced = {}
  /\ pc = [p \in Processes |-> "down"]
  /\ key = [p \in Processes |-> Null]
  /\ todo = [p \in Processes |-> {}]
  /\ deaths = 0 /\ used = {}

Goto(p, place) == pc' = [pc EXCEPT ![p] = place]

-----------------------------------------------------------------------------
(* bootstrap_secrets, with no key configured in the environment.           *)

\* MUTANT: the workers do not wait for the master.
Mutant_MayBoot(p) == pc[p] = "down"

(* gunicorn calls when_ready before it starts a worker.                    *)
MayBoot(p) == pc[p] = "down" /\ (p = Master \/ pc[Master] = "up")

\* MUTANT: a file that cannot be read counts as none.
Mutant_KeysFor == IF secrets \in {Null, Empty} THEN Keys \ used ELSE {secrets}

(* The stored key, or else a new one.                                      *)
KeysFor == IF secrets = Null THEN Keys \ used ELSE {secrets} \ {Empty}

ReadSecrets(p) ==
  /\ MayBoot(p)
  /\ \E k \in KeysFor : key' = [key EXCEPT ![p] = k]
  /\ Goto(p, "open")
  /\ UNCHANGED <<secrets, importVars, todo, deaths, used>>

(* write_text truncates the file, whether anything was generated or not.   *)
OpenSecrets(p) ==
  /\ pc[p] = "open"
  /\ secrets' = Empty
  /\ Goto(p, "fill")
  /\ UNCHANGED <<importVars, key, todo, deaths, used>>

WriteSecrets(p) ==
  /\ pc[p] = "fill"
  /\ secrets' = key[p]
  /\ Goto(p, "load")
  /\ UNCHANGED <<importVars, key, todo, deaths, used>>

-----------------------------------------------------------------------------
(* _import_legacy_file_map.                                                *)

ComeUp(p) == Goto(p, "up") /\ used' = used \cup {key[p]}

AlreadyImported(p) ==
  /\ pc[p] = "load" /\ flag
  /\ ComeUp(p)
  /\ UNCHANGED <<secrets, importVars, key, todo, deaths>>

LoadLegacy(p) ==
  /\ pc[p] = "load" /\ ~flag
  /\ todo' = [todo EXCEPT ![p] = IF document THEN Legacy ELSE {}]
  /\ Goto(p, "row")
  /\ UNCHANGED <<secrets, importVars, key, deaths, used>>

(* The next file, in the order of the map.                                 *)
Current(p) == CHOOSE f \in todo[p] : TRUE

Record(p, table) ==
  /\ registry' = [registry EXCEPT ![table] = @ \cup {Current(p)}]
  /\ UNCHANGED <<secrets, document, flag, key, deaths, used>>

(* upsert_file, which overwrites a row that is there.                      *)
ImportRow(p) ==
  /\ pc[p] = "row" /\ todo[p] # {}
  /\ Record(p, "rows")
  /\ synced' = synced \ {Current(p)}
  /\ Goto(p, "version")
  /\ UNCHANGED todo

(* save_version, of all its versions.                                      *)
ImportVersion(p) ==
  /\ pc[p] = "version"
  /\ Record(p, "versions")
  /\ Goto(p, "check")
  /\ UNCHANGED <<synced, todo>>

(* record_verification.                                                    *)
ImportCheck(p) ==
  /\ pc[p] = "check"
  /\ Record(p, "checks")
  /\ Goto(p, "row")
  /\ todo' = [todo EXCEPT ![p] = @ \ {Current(p)}]
  /\ UNCHANGED synced

\* MUTANT: the map is taken out of index.json before it is imported.
Mutant_Imported(p) == TRUE

Imported(p) == todo[p] = {}

(* save() without the map, if there was one (an atomic write for one       *)
(* process, see StateDocument).                                            *)
DropMap(p) ==
  /\ pc[p] = "row" /\ Imported(p)
  /\ document' = FALSE
  /\ Goto(p, "flag")
  /\ UNCHANGED <<secrets, registry, flag, synced, key, todo, deaths, used>>

SetFlag(p) ==
  /\ pc[p] = "flag"
  /\ flag' = TRUE
  /\ ComeUp(p)
  /\ UNCHANGED <<secrets, document, registry, synced, key, todo, deaths>>

-----------------------------------------------------------------------------
(* A sync of the scheduler, which the master starts when it is up.         *)
SyncRow(f) ==
  /\ pc[Master] = "up"
  /\ synced' = synced \cup {f}
  /\ UNCHANGED <<secrets, document, registry, flag, pc, key, todo, deaths, used>>

(* With the master the container stops, and all of its processes.          *)
Dead(p) == IF p = Master THEN Processes ELSE {p}

Die(p) ==
  /\ deaths < MaxDeaths
  /\ deaths' = deaths + 1
  /\ pc' = [q \in Processes |-> IF q \in Dead(p) THEN "down" ELSE pc[q]]
  /\ key' = [q \in Processes |-> IF q \in Dead(p) THEN Null ELSE key[q]]
  /\ todo' = [q \in Processes |-> IF q \in Dead(p) THEN {} ELSE todo[q]]
  /\ UNCHANGED <<secrets, importVars, used>>

Next ==
  \/ \E p \in Processes :
       \/ ReadSecrets(p) \/ OpenSecrets(p) \/ WriteSecrets(p)
       \/ AlreadyImported(p) \/ LoadLegacy(p)
       \/ ImportRow(p) \/ ImportVersion(p) \/ ImportCheck(p)
       \/ DropMap(p) \/ SetFlag(p)
       \/ Die(p)
  \/ \E f \in Legacy : SyncRow(f)

Spec == Init /\ [][Next]_vars

-----------------------------------------------------------------------------
TypeOK ==
  /\ secrets \in Keys \cup {Null, Empty}
  /\ document \in BOOLEAN /\ flag \in BOOLEAN
  /\ registry \in [Tables -> SUBSET Legacy] /\ synced \subseteq Legacy
  /\ pc \in [Processes -> Places]
  /\ key \in [Processes -> Keys \cup {Null}]
  /\ todo \in [Processes -> SUBSET Legacy]
  /\ deaths \in 0..MaxDeaths /\ used \subseteq Keys

(* What one process encrypts, any later one can read: all processes that   *)
(* ever come up go by one key, and secrets.json never holds another, even  *)
(* though each start rewrites it while others read it and may die.         *)
OneKeyEver ==
  \A k1 \in used, k2 \in used \cup ({secrets} \cap Keys) : k1 = k2

(* The import loses nothing: wherever it broke off and however often it    *)
(* was repeated, when index.json has dropped the map or the flag says that *)
(* it was imported, all of it is in the registry.                          *)
LegacyFilesAreKept ==
  flag \/ ~document => \A t \in Tables : registry[t] = Legacy

(* The flag keeps a later start from importing again over what a sync has  *)
(* recorded since.                                                         *)
ImportNeverUndoesASync == [][synced \subseteq synced']_vars
==============================================================================
