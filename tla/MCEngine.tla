------------------------------- MODULE MCEngine -------------------------------
(***************************************************************************)
(* Engine for TLC.  Nothing tells visitors, Workers or files apart but     *)
(* their names.                                                            *)
(***************************************************************************)
EXTENDS EngineProps, TLC

Symmetry == Permutations(Visitors) \cup Permutations(Files) \cup Permutations(Workers)
=============================================================================
