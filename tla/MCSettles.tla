----------------------------- MODULE MCSettles -----------------------------
(***************************************************************************)
(* Small instances of WorkflowRetries for TLC.                             *)
(***************************************************************************)
EXTENDS WorkflowRetries, MCWorkflow

(* At most three of the faults in one behaviour.  No fair action needs     *)
(* what is left of them, so the behaviours that are cut off hide none of   *)
(* those that remain.                                                      *)
ThreeFaults ==
    budget["crash"] + budget["failure"] + budget["lapse"] + budget["duplicate"] + budget["toggle"]
        >= Crashes + Failures + Lapses + Duplicates + Toggles - 3
=============================================================================
