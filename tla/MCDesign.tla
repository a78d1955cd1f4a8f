------------------------------ MODULE MCDesign ------------------------------
(***************************************************************************)
(* Small instances of Design for TLC.                                      *)
(***************************************************************************)
EXTENDS Design, TLC

CONSTANTS index, style

IndexLast == <<style, index>>
IndexOnly == <<index>>

Names == Permutations(Editor) \cup Permutations(Worker) \cup Permutations(Change)
             \cup Permutations(Build)
=============================================================================
