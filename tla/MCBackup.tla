------------------------------ MODULE MCBackup ------------------------------
(* Small instances of Backup for TLC. *)
EXTENDS Backup, TLC

\* GitHub accounts are interchangeable, and so are contents and version ids.
Symmetry == Permutations(GitHubAccounts) \union Permutations(Contents)
            \union Permutations(VersionIds)
=============================================================================
