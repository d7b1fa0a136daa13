-------------------------------- MODULE Vault --------------------------------
(***************************************************************************)
(* What the backup promises about each file, whatever the order of steps,  *)
(* crashes and retries underneath: a version that was once fully            *)
(* replicated stays so, keeps its content, and a file is only ever called   *)
(* backed up on account of such a version.                                  *)
(***************************************************************************)
CONSTANTS Files, Contents, VersionIds, Null

VARIABLES
    kept,       \* kept[f][v]: content of version v of f once fully replicated
    claimed     \* claimed[f]: the version on account of which f is `complete`

vaultVars == <<kept, claimed>>

Init ==
    /\ kept = [f \in Files |-> [v \in VersionIds |-> Null]]
    /\ claimed = [f \in Files |-> Null]

\* A version of f reaches its number of copies.
Keep(f, v, c) ==
    /\ kept[f][v] = Null
    /\ kept' = [kept EXCEPT ![f][v] = c]
    /\ UNCHANGED claimed

\* f is reported as backed up by a version that is kept.
Claim(f, v) ==
    /\ kept[f][v] # Null
    /\ claimed' = [claimed EXCEPT ![f] = v]
    /\ UNCHANGED kept

\* f changed: until the new content is stored nothing is claimed.
Withdraw(f) ==
    /\ claimed[f] # Null
    /\ claimed' = [claimed EXCEPT ![f] = Null]
    /\ UNCHANGED kept

Next ==
    \E f \in Files :
        \/ Withdraw(f)
        \/ \E v \in VersionIds : Claim(f, v) \/ \E c \in Contents : Keep(f, v, c)

Spec == Init /\ [][Next]_vaultVars
=============================================================================
