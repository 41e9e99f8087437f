------------------------------- MODULE MCIndex -------------------------------
(***************************************************************************)
(* ImportIndex on a small instance.                                        *)
(***************************************************************************)
EXTENDS ImportIndex, TLC

Symmetry == Permutations(Digest)
=============================================================================
