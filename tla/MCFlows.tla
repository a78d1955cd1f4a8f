------------------------------ MODULE MCFlows ------------------------------
(***************************************************************************)
(* Small instances of Flows under Hatchet's retries, for TLC: two step     *)
(* lists, of three steps and of one.                                       *)
(***************************************************************************)
EXTENDS FlowRetries, TLC

CONSTANTS long, short, Changes, Replays, Failures, Lapses

MCSteps == long :> <<"wait", "mail", "webhook">> @@ short :> <<"list">>

MCBudget == [f \in Fault |->
    CASE f = "authoring" -> Changes   [] f = "replay" -> Replays
      [] f = "failure"   -> Failures  [] f = "lapse"  -> Lapses]
=============================================================================
