------------------------------ MODULE MCRurienv ------------------------------
(***************************************************************************)
(* Instances of Rurienv for TLC.                                           *)
(***************************************************************************)
EXTENDS Rurienv, TLC

Symmetry == Permutations(Starts) \cup Permutations(Umounts) \cup Permutations(Pids)
=============================================================================
