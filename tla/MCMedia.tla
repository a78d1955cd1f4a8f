------------------------------- MODULE MCMedia ------------------------------
(***************************************************************************)
(* Small instances of Media for TLC.                                       *)
(***************************************************************************)
EXTENDS MediaProps, TLC

Symmetry == Permutations(Runner)
=============================================================================
