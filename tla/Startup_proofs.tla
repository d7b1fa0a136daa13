---------------------------- MODULE Startup_proofs ----------------------------
(***************************************************************************)
(* Theorems about Startup, for any processes, files and deaths.            *)
(***************************************************************************)
EXTENDS Startup, TLAPS

(* The workers are down until the master is up.                            *)
MasterFirst == pc[Master] # "up" => \A p \in Processes \ {Master} : pc[p] = "down"

(* A process that is coming up has a key, and it is the key of all others, *)
(* of the file and of the processes before it.                             *)
Keyed == \A p \in Processes : pc[p] # "down" => key[p] \in Keys

Known == used \cup ({secrets} \cap Keys)

KeysAgree ==
  \A p \in Processes : pc[p] # "down" =>
    /\ \A k \in Known : k = key[p]
    /\ pc[p] = "up" => key[p] \in used
    /\ pc[p] # "open" => secrets # Null

(* Once a key is used there is a file, if perhaps an empty one.            *)
FileStays == used # {} => secrets # Null

KeyInv == MasterFirst /\ Keyed /\ KeysAgree /\ FileStays /\ OneKeyEver

-----------------------------------------------------------------------------
LEMMA InitTyped == Init => TypeOK /\ KeyInv
<1> SUFFICES ASSUME Init PROVE TypeOK /\ KeyInv
  OBVIOUS
<1>1. TypeOK
  <2>1. deaths \in 0..MaxDeaths
    BY StartupAssumption DEF Init
  <2>2. registry \in [Tables -> SUBSET Legacy]
    BY DEF Init
  <2>3. /\ pc \in [Processes -> Places] /\ key \in [Processes -> Keys \cup {Null}]
        /\ todo \in [Processes -> SUBSET Legacy]
    BY DEF Init, Places
  <2> QED
    BY <2>1, <2>2, <2>3 DEF Init, TypeOK
<1>2. KeyInv
  BY StartupAssumption
  DEF Init, KeyInv, MasterFirst, Keyed, KeysAgree, Known, FileStays, OneKeyEver
<1> QED
  BY <1>1, <1>2

LEMMA CurrentIsLegacy ==
  ASSUME TypeOK, NEW p \in Processes, todo[p] # {}
  PROVE  Current(p) \in Legacy /\ Current(p) \in todo[p]
<1>1. todo[p] \subseteq Legacy
  BY DEF TypeOK
<1>2. Current(p) \in todo[p]
  BY DEF Current
<1> QED
  BY <1>1, <1>2

(* The import is the master's, and what is to be imported is not taken     *)
(* away while a file is in hand.                                           *)
InHand == \A p \in Processes : pc[p] \in {"version", "check"} => todo[p] # {}

LEMMA TypeStep == TypeOK /\ Keyed /\ InHand /\ [Next]_vars => TypeOK' /\ InHand'
<1> SUFFICES ASSUME TypeOK, Keyed, InHand, [Next]_vars PROVE TypeOK' /\ InHand'
  OBVIOUS
<1> USE DEF InHand, Goto, importVars, Places, Importing
<1>1. ASSUME NEW p \in Processes, ReadSecrets(p) PROVE TypeOK' /\ InHand'
  <2>1. PICK k \in KeysFor : key' = [key EXCEPT ![p] = k]
    BY <1>1 DEF ReadSecrets
  <2>2. k \in Keys
    BY <2>1 DEF KeysFor, TypeOK
  <2> QED
    BY <1>1, <2>1, <2>2 DEF ReadSecrets, TypeOK
<1>2. ASSUME NEW p \in Processes, OpenSecrets(p) PROVE TypeOK' /\ InHand'
  BY <1>2 DEF OpenSecrets, TypeOK
<1>3. ASSUME NEW p \in Processes, WriteSecrets(p) PROVE TypeOK' /\ InHand'
  BY <1>3 DEF WriteSecrets, TypeOK, Keyed
<1>4. ASSUME NEW p \in Processes, AlreadyImported(p) PROVE TypeOK' /\ InHand'
  BY <1>4 DEF AlreadyImported, ComeUp, TypeOK, Keyed
<1>5. ASSUME NEW p \in Processes, LoadLegacy(p) PROVE TypeOK' /\ InHand'
  BY <1>5 DEF LoadLegacy, TypeOK
<1>6. ASSUME NEW p \in Processes, ImportRow(p) PROVE TypeOK' /\ InHand'
  <2>1. Current(p) \in Legacy
    BY <1>6, CurrentIsLegacy DEF ImportRow
  <2> QED
    BY <1>6, <2>1 DEF ImportRow, Record, Tables, TypeOK
<1>7. ASSUME NEW p \in Processes, ImportVersion(p) PROVE TypeOK' /\ InHand'
  <2>1. Current(p) \in Legacy
    BY <1>7, CurrentIsLegacy DEF ImportVersion
  <2> QED
    BY <1>7, <2>1 DEF ImportVersion, Record, Tables, TypeOK
<1>8. ASSUME NEW p \in Processes, ImportCheck(p) PROVE TypeOK' /\ InHand'
  <2>1. Current(p) \in Legacy
    BY <1>8, CurrentIsLegacy DEF ImportCheck
  <2> QED
    BY <1>8, <2>1 DEF ImportCheck, Record, Tables, TypeOK
<1>9. ASSUME NEW p \in Processes, DropMap(p) PROVE TypeOK' /\ InHand'
  BY <1>9 DEF DropMap, TypeOK
<1>10. ASSUME NEW p \in Processes, SetFlag(p) PROVE TypeOK' /\ InHand'
  BY <1>10 DEF SetFlag, ComeUp, TypeOK, Keyed
<1>11. ASSUME NEW p \in Processes, Die(p) PROVE TypeOK' /\ InHand'
  BY <1>11, StartupAssumption DEF Die, TypeOK
<1>12. ASSUME NEW f \in Legacy, SyncRow(f) PROVE TypeOK' /\ InHand'
  BY <1>12 DEF SyncRow, TypeOK
<1>13. CASE UNCHANGED vars
  BY <1>13 DEF vars, TypeOK
<1> QED
  BY <1>1, <1>2, <1>3, <1>4, <1>5, <1>6, <1>7, <1>8, <1>9, <1>10, <1>11, <1>12, <1>13 DEF Next

-----------------------------------------------------------------------------
(* The keys.                                                               *)

(* All processes that are not down go by the same key.                     *)
LEMMA SameKey ==
  ASSUME KeyInv, NEW p \in Processes, pc[p] \notin {"down", "up"},
         NEW q \in Processes, pc[q] # "down"
  PROVE  key[q] = key[p]
<1>1. CASE pc[Master] # "up"
  <2>1. p = Master /\ q = Master
    BY <1>1 DEF KeyInv, MasterFirst
  <2> QED
    BY <2>1
<1>2. CASE pc[Master] = "up"
  <2>1. key[Master] \in Known
    BY <1>2, StartupAssumption DEF KeyInv, KeysAgree, Known
  <2> QED
    BY <2>1 DEF KeyInv, KeysAgree
<1> QED
  BY <1>1, <1>2

(* Steps that move one process along and leave the keys alone.             *)
LEMMA MovesAlong ==
  ASSUME TypeOK, KeyInv, NEW p \in Processes,
         pc[p] \notin {"down", "open", "up"},
         NEW place \in Places \ {"down", "open", "up"}, Goto(p, place),
         UNCHANGED <<secrets, key, used>>
  PROVE  KeyInv'
BY DEF TypeOK, KeyInv, MasterFirst, Keyed, KeysAgree, Known, FileStays, OneKeyEver, Goto

(* Steps that complete the start.                                          *)
LEMMA ComesUp ==
  ASSUME TypeOK, KeyInv, NEW p \in Processes,
         pc[p] \notin {"down", "open", "up"}, ComeUp(p), UNCHANGED <<secrets, key>>
  PROVE  KeyInv'
<1>1. key[p] \in Keys /\ (\A k \in Known : k = key[p]) /\ secrets # Null
  BY DEF KeyInv, Keyed, KeysAgree
<1>2. \A q \in Processes : pc[q] # "down" => key[q] = key[p]
  BY SameKey
<1> QED
  BY <1>1, <1>2
  DEF TypeOK, KeyInv, MasterFirst, Keyed, KeysAgree, Known, FileStays, OneKeyEver, Goto, ComeUp

LEMMA KeyStep == TypeOK /\ KeyInv /\ [Next]_vars => KeyInv'
<1> SUFFICES ASSUME TypeOK, KeyInv, [Next]_vars PROVE KeyInv'
  OBVIOUS
<1>1. ASSUME NEW p \in Processes, ReadSecrets(p) PROVE KeyInv'
  <2>1. PICK k \in KeysFor : key' = [key EXCEPT ![p] = k]
    BY <1>1 DEF ReadSecrets
  <2>2. k \in Keys /\ \A known \in Known : known = k
    <3>1. CASE secrets = Null
      BY <2>1, <3>1, StartupAssumption DEF KeysFor, KeyInv, FileStays, Known
    <3>2. CASE secrets # Null
      <4>1. k = secrets /\ k \in Keys
        BY <2>1, <3>2 DEF KeysFor, TypeOK
      <4> QED
        BY <4>1 DEF KeyInv, Known, OneKeyEver
    <3> QED
      BY <3>1, <3>2
  <2> QED
    BY <1>1, <2>1, <2>2
    DEF ReadSecrets, MayBoot, TypeOK, KeyInv, MasterFirst, Keyed, KeysAgree, Known, FileStays, OneKeyEver, Goto
<1>2. ASSUME NEW p \in Processes, OpenSecrets(p) PROVE KeyInv'
  BY <1>2, StartupAssumption
  DEF OpenSecrets, TypeOK, KeyInv, MasterFirst, Keyed, KeysAgree, Known, FileStays, OneKeyEver, Goto
<1>3. ASSUME NEW p \in Processes, WriteSecrets(p) PROVE KeyInv'
  <2>1. key[p] \in Keys /\ \A k \in Known : k = key[p]
    BY <1>3 DEF WriteSecrets, KeyInv, Keyed, KeysAgree
  <2>2. \A q \in Processes : pc[q] # "down" => key[q] = key[p]
    BY <1>3, SameKey DEF WriteSecrets
  <2> QED
    BY <1>3, <2>1, <2>2, StartupAssumption
    DEF WriteSecrets, TypeOK, KeyInv, MasterFirst, Keyed, KeysAgree, Known, FileStays, OneKeyEver, Goto
<1>4. ASSUME NEW p \in Processes, AlreadyImported(p) PROVE KeyInv'
  BY <1>4, ComesUp DEF AlreadyImported
<1>5. ASSUME NEW p \in Processes, LoadLegacy(p) PROVE KeyInv'
  BY <1>5, MovesAlong DEF LoadLegacy, Places, Importing
<1>6. ASSUME NEW p \in Processes, ImportRow(p) PROVE KeyInv'
  BY <1>6, MovesAlong DEF ImportRow, Record, Places, Importing
<1>7. ASSUME NEW p \in Processes, ImportVersion(p) PROVE KeyInv'
  BY <1>7, MovesAlong DEF ImportVersion, Record, Places, Importing
<1>8. ASSUME NEW p \in Processes, ImportCheck(p) PROVE KeyInv'
  BY <1>8, MovesAlong DEF ImportCheck, Record, Places, Importing
<1>9. ASSUME NEW p \in Processes, DropMap(p) PROVE KeyInv'
  BY <1>9, MovesAlong DEF DropMap, Places, Importing
<1>10. ASSUME NEW p \in Processes, SetFlag(p) PROVE KeyInv'
  BY <1>10, ComesUp DEF SetFlag
<1>11. ASSUME NEW p \in Processes, Die(p) PROVE KeyInv'
  BY <1>11, StartupAssumption
  DEF Die, Dead, TypeOK, KeyInv, MasterFirst, Keyed, KeysAgree, Known, FileStays, OneKeyEver
<1>12. ASSUME NEW f \in Legacy, SyncRow(f) PROVE KeyInv'
  BY <1>12
  DEF SyncRow, KeyInv, MasterFirst, Keyed, KeysAgree, Known, FileStays, OneKeyEver
<1>13. CASE UNCHANGED vars
  BY <1>13
  DEF vars, KeyInv, MasterFirst, Keyed, KeysAgree, Known, FileStays, OneKeyEver
<1> QED
  BY <1>1, <1>2, <1>3, <1>4, <1>5, <1>6, <1>7, <1>8, <1>9, <1>10, <1>11, <1>12, <1>13 DEF Next

THEOREM KeysInvariant == Spec => [](TypeOK /\ InHand /\ KeyInv)
<1>1. Init => InHand
  BY DEF Init, InHand
<1>2. (TypeOK /\ InHand /\ KeyInv) /\ [Next]_vars => (TypeOK /\ InHand /\ KeyInv)'
  BY TypeStep, KeyStep DEF KeyInv
<1> QED
  BY <1>1, <1>2, InitTyped, PTL DEF Spec

(* Whatever processes start, read and die, all that ever come up go by one *)
(* key.                                                                    *)
THEOREM OneKeyForAll == Spec => []OneKeyEver
<1>1. TypeOK /\ InHand /\ KeyInv => OneKeyEver
  BY DEF KeyInv
<1> QED
  BY <1>1, KeysInvariant, PTL

(* Every variable keeps its type.                                          *)
THEOREM TypesAreKept == Spec => []TypeOK
<1>1. TypeOK /\ InHand /\ KeyInv => TypeOK
  OBVIOUS
<1> QED
  BY <1>1, KeysInvariant, PTL

-----------------------------------------------------------------------------
(* The import.                                                             *)

Complete == \A t \in Tables : registry[t] = Legacy

(* The master alone imports, before the flag and before any sync.          *)
OneImporter ==
  /\ pc[Master] = "up" => flag
  /\ \A p \in Processes : pc[p] \in Importing => p = Master /\ ~flag
  /\ ~flag => synced = {}

(* What is no longer to do has been recorded, in all tables; the file in   *)
(* hand in those of the steps before.                                      *)
Recorded ==
  \A p \in Processes :
    /\ pc[p] \in {"row", "version", "check"} =>
         \A t \in Tables : Legacy \ todo[p] \subseteq registry[t]
    /\ pc[p] \in {"version", "check"} => Current(p) \in registry["rows"]
    /\ pc[p] = "check" => Current(p) \in registry["versions"]
    /\ pc[p] = "flag" => ~document

ImportInv == OneImporter /\ Recorded /\ LegacyFilesAreKept

LEMMA InitImport == Init => ImportInv
BY StartupAssumption
DEF Init, ImportInv, OneImporter, Recorded, LegacyFilesAreKept, Importing

(* Steps before the import, of a process that is not importing.            *)
LEMMA BeforeImport ==
  ASSUME TypeOK, ImportInv, NEW p \in Processes, pc[p] # "up", pc[p] \notin Importing,
         NEW place \in {"open", "fill", "load"}, Goto(p, place),
         UNCHANGED <<importVars, todo>>
  PROVE  ImportInv'
BY DEF TypeOK, ImportInv, OneImporter, Recorded, LegacyFilesAreKept, Importing, importVars,
       Goto, Current

(* Record adds to a table.                                                 *)
LEMMA RecordAdds ==
  ASSUME TypeOK, NEW p \in Processes, todo[p] # {}, NEW table \in Tables, Record(p, table)
  PROVE  /\ \A t \in Tables : registry[t] \subseteq registry'[t] /\ registry'[t] \subseteq Legacy
         /\ Current(p) \in registry'[table]
         /\ UNCHANGED <<document, flag>>
<1>1. Current(p) \in Legacy
  BY CurrentIsLegacy
<1> QED
  BY <1>1 DEF Record, TypeOK

LEMMA ImportStep == TypeOK /\ InHand /\ KeyInv /\ ImportInv /\ [Next]_vars => ImportInv'
<1> SUFFICES ASSUME TypeOK, InHand, KeyInv, ImportInv, [Next]_vars PROVE ImportInv'
  OBVIOUS
<1>1. ASSUME NEW p \in Processes, ReadSecrets(p) PROVE ImportInv'
  BY <1>1, BeforeImport DEF ReadSecrets, MayBoot, Importing
<1>2. ASSUME NEW p \in Processes, OpenSecrets(p) PROVE ImportInv'
  BY <1>2, BeforeImport DEF OpenSecrets, Importing
<1>3. ASSUME NEW p \in Processes, WriteSecrets(p) PROVE ImportInv'
  BY <1>3, BeforeImport DEF WriteSecrets, Importing
<1>4. ASSUME NEW p \in Processes, AlreadyImported(p) PROVE ImportInv'
  BY <1>4
  DEF AlreadyImported, ComeUp, TypeOK, ImportInv, OneImporter, Recorded, LegacyFilesAreKept,
      Importing, importVars, Goto, Current
<1>5. ASSUME NEW p \in Processes, LoadLegacy(p) PROVE ImportInv'
  <2>1. p = Master /\ \A q \in Processes \ {p} : pc[q] = "down"
    BY <1>5, StartupAssumption DEF LoadLegacy, ImportInv, OneImporter, KeyInv, MasterFirst
  <2>2. pc' = [pc EXCEPT ![p] = "row"] /\ UNCHANGED importVars
    BY <1>5 DEF LoadLegacy, Goto
  <2>3. OneImporter'
    BY <1>5, <2>1, <2>2 DEF LoadLegacy, TypeOK, ImportInv, OneImporter, Importing, importVars
  <2>4. \A t \in Tables : Legacy \ todo'[p] \subseteq registry[t]
    BY <1>5 DEF LoadLegacy, TypeOK, ImportInv, LegacyFilesAreKept
  <2>5. Recorded'
    BY <2>1, <2>2, <2>4 DEF TypeOK, Recorded, importVars
  <2> QED
    BY <2>2, <2>3, <2>5 DEF ImportInv, LegacyFilesAreKept, importVars
<1>6. ASSUME NEW p \in Processes, ImportRow(p) PROVE ImportInv'
  <2>1. p = Master /\ ~flag /\ \A q \in Processes \ {p} : pc[q] = "down"
    BY <1>6, StartupAssumption DEF ImportRow, Importing, ImportInv, OneImporter, KeyInv, MasterFirst
  <2>2. /\ \A t \in Tables : registry[t] \subseteq registry'[t] /\ registry'[t] \subseteq Legacy
        /\ Current(p) \in registry'["rows"]
        /\ UNCHANGED <<document, flag>>
    BY <1>6, RecordAdds DEF ImportRow, Tables
  <2>3. pc' = [pc EXCEPT ![p] = "version"] /\ UNCHANGED todo /\ Current(p)' = Current(p)
    BY <1>6 DEF ImportRow, Goto, Current
  <2>4. OneImporter'
    BY <1>6, <2>1, <2>2, <2>3 DEF ImportRow, TypeOK, ImportInv, OneImporter, Importing
  <2>5. Recorded'
    BY <1>6, <2>1, <2>2, <2>3 DEF ImportRow, TypeOK, ImportInv, Recorded
  <2>6. LegacyFilesAreKept'
    BY <2>2 DEF ImportInv, LegacyFilesAreKept
  <2> QED
    BY <2>4, <2>5, <2>6 DEF ImportInv
<1>7. ASSUME NEW p \in Processes, ImportVersion(p) PROVE ImportInv'
  <2>1. p = Master /\ ~flag /\ \A q \in Processes \ {p} : pc[q] = "down"
    BY <1>7, StartupAssumption DEF ImportVersion, Importing, ImportInv, OneImporter, KeyInv, MasterFirst
  <2>2. /\ \A t \in Tables : registry[t] \subseteq registry'[t] /\ registry'[t] \subseteq Legacy
        /\ Current(p) \in registry'["versions"]
        /\ UNCHANGED <<document, flag>>
    BY <1>7, RecordAdds DEF ImportVersion, InHand, Tables
  <2>3. pc' = [pc EXCEPT ![p] = "check"] /\ UNCHANGED <<todo, synced>> /\ Current(p)' = Current(p)
    BY <1>7 DEF ImportVersion, Goto, Current
  <2>4. OneImporter'
    BY <1>7, <2>1, <2>2, <2>3 DEF ImportVersion, TypeOK, ImportInv, OneImporter, Importing
  <2>5. Recorded'
    BY <1>7, <2>1, <2>2, <2>3 DEF ImportVersion, TypeOK, ImportInv, Recorded, Tables
  <2>6. LegacyFilesAreKept'
    BY <2>2 DEF ImportInv, LegacyFilesAreKept
  <2> QED
    BY <2>4, <2>5, <2>6 DEF ImportInv
<1>8. ASSUME NEW p \in Processes, ImportCheck(p) PROVE ImportInv'
  <2>1. p = Master /\ ~flag /\ \A q \in Processes \ {p} : pc[q] = "down"
    BY <1>8, StartupAssumption DEF ImportCheck, Importing, ImportInv, OneImporter, KeyInv, MasterFirst
  <2>2. /\ \A t \in Tables : registry[t] \subseteq registry'[t] /\ registry'[t] \subseteq Legacy
        /\ Current(p) \in registry'["checks"]
        /\ UNCHANGED <<document, flag>>
    BY <1>8, RecordAdds DEF ImportCheck, InHand, Tables
  <2>3. /\ pc' = [pc EXCEPT ![p] = "row"] /\ UNCHANGED synced
        /\ todo' = [todo EXCEPT ![p] = @ \ {Current(p)}]
    BY <1>8 DEF ImportCheck, Goto
  <2>4. OneImporter'
    BY <1>8, <2>1, <2>2, <2>3 DEF ImportCheck, TypeOK, ImportInv, OneImporter, Importing
  <2>5. \A t \in Tables : Current(p) \in registry'[t]
    BY <1>8, <2>2 DEF ImportCheck, ImportInv, Recorded, Tables
  <2>6. Recorded'
    BY <1>8, <2>1, <2>2, <2>3, <2>5 DEF ImportCheck, TypeOK, ImportInv, Recorded
  <2>7. LegacyFilesAreKept'
    BY <2>2 DEF ImportInv, LegacyFilesAreKept
  <2> QED
    BY <2>4, <2>6, <2>7 DEF ImportInv
<1>9. ASSUME NEW p \in Processes, DropMap(p) PROVE ImportInv'
  <2>1. p = Master /\ ~flag /\ \A q \in Processes \ {p} : pc[q] = "down"
    BY <1>9, StartupAssumption DEF DropMap, Importing, ImportInv, OneImporter, KeyInv, MasterFirst
  <2>2. \A t \in Tables : registry[t] \in SUBSET Legacy
    BY DEF TypeOK
  <2>3. \A t \in Tables : Legacy \ {} \subseteq registry[t]
    BY <1>9, <2>1 DEF DropMap, Imported, Importing, ImportInv, Recorded
  <2>4. Complete
    BY <2>2, <2>3 DEF Complete
  <2> QED
    BY <1>9, <2>1, <2>4
    DEF DropMap, Complete, TypeOK, ImportInv, OneImporter, Recorded, LegacyFilesAreKept, Importing, Goto
<1>10. ASSUME NEW p \in Processes, SetFlag(p) PROVE ImportInv'
  <2>1. p = Master /\ \A q \in Processes \ {p} : pc[q] = "down"
    BY <1>10, StartupAssumption DEF SetFlag, Importing, ImportInv, OneImporter, KeyInv, MasterFirst
  <2> QED
    BY <1>10, <2>1
    DEF SetFlag, ComeUp, TypeOK, ImportInv, OneImporter, Recorded, LegacyFilesAreKept, Importing, Goto
<1>11. ASSUME NEW p \in Processes, Die(p) PROVE ImportInv'
  <2>1. \A q \in Processes :
          \/ pc'[q] = "down"
          \/ (pc'[q] = pc[q] /\ todo'[q] = todo[q] /\ Current(q)' = Current(q))
    BY <1>11 DEF Die, TypeOK, Current
  <2> QED
    BY <1>11, <2>1, StartupAssumption
    DEF Die, ImportInv, OneImporter, Recorded, LegacyFilesAreKept, Importing, importVars
<1>12. ASSUME NEW f \in Legacy, SyncRow(f) PROVE ImportInv'
  BY <1>12
  DEF SyncRow, ImportInv, OneImporter, Recorded, LegacyFilesAreKept, Importing, Current
<1>13. CASE UNCHANGED vars
  BY <1>13
  DEF vars, importVars, ImportInv, OneImporter, Recorded, LegacyFilesAreKept, Importing, Current
<1> QED
  BY <1>1, <1>2, <1>3, <1>4, <1>5, <1>6, <1>7, <1>8, <1>9, <1>10, <1>11, <1>12, <1>13 DEF Next

LEMMA ImportInvariant == Spec => []ImportInv
BY InitImport, ImportStep, KeysInvariant, PTL DEF Spec

(* The import loses nothing, wherever it breaks off.                       *)
THEOREM NothingIsLost == Spec => []LegacyFilesAreKept
<1>1. ImportInv => LegacyFilesAreKept
  BY DEF ImportInv
<1> QED
  BY <1>1, ImportInvariant, PTL

(* No import overwrites what a sync has recorded.                          *)
THEOREM SyncsAreKept == Spec => ImportNeverUndoesASync
<1>1. ImportInv /\ [Next]_vars => [synced \subseteq synced']_vars
  <2> SUFFICES ASSUME ImportInv, [Next]_vars PROVE synced \subseteq synced'
    OBVIOUS
  <2>1. ASSUME NEW p \in Processes, ImportRow(p) PROVE synced = {}
    BY <2>1 DEF ImportRow, ImportInv, OneImporter, Importing
  <2> QED
    BY <2>1
    DEF Next, vars, importVars, ReadSecrets, OpenSecrets, WriteSecrets, AlreadyImported, LoadLegacy,
        ImportVersion, ImportCheck, DropMap, SetFlag, Die, SyncRow
<1> QED
  BY <1>1, ImportInvariant, PTL DEF Spec, ImportNeverUndoesASync
==============================================================================
