------------------------------ MODULE MCArchive ------------------------------
(***************************************************************************)
(* Archive on small instances.                                             *)
(***************************************************************************)
EXTENDS Archive, TLC

Symmetry == Permutations(Proc) \cup Permutations(Digest) \cup Permutations(Status)
=============================================================================
