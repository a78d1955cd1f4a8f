------------------------------- MODULE MCMail -------------------------------
(***************************************************************************)
(* Small instances of Mail under Hatchet's retries, for TLC.               *)
(***************************************************************************)
EXTENDS MailRetries, TLC

CONSTANTS Failures, Lost, Lapses, Crashes, Requeues, Complaints

MCBudget == [f \in Fault |->
    CASE f = "failure" -> Failures [] f = "lost"    -> Lost
      [] f = "lapse"   -> Lapses   [] f = "crash"   -> Crashes
      [] f = "requeue" -> Requeues [] f = "complaint" -> Complaints]

(* At most four of the faults in one behaviour.  No fair action needs     *)
(* what is left of them, so the behaviours that are cut off hide none of   *)
(* those that remain.                                                      *)
FourFaults ==
    budget["failure"] + budget["lost"] + budget["lapse"] + budget["crash"]
        + budget["requeue"] + budget["complaint"] + doubles
            >= Failures + Lost + Lapses + Crashes + Requeues + Complaints + Doubles - 4
=============================================================================
