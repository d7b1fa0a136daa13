---------------------------- MODULE MCReleaseStore ----------------------------
(* Small instances of ReleaseStore for TLC: files are interchangeable. *)
EXTENDS ReleaseStore, TLC

Symmetry == Permutations(Files)
=============================================================================
