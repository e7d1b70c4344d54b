----------------------------- MODULE MCFatFile ------------------------------
(* FatFile for TLC: the files are interchangeable. *)
EXTENDS FatFileProperties, TLC

Symmetry == Permutations(Files)
=============================================================================
