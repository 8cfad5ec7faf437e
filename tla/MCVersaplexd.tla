---------------------------- MODULE MCVersaplexd ----------------------------
(* Instances of Versaplexd for TLC.                                         *)
EXTENDS Versaplexd, TLC

ClientSymmetry == Permutations(Clients)
=============================================================================
