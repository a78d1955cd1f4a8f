----------------------------- MODULE MCWorkflow -----------------------------
(***************************************************************************)
(* Small instances of Workflow for TLC.                                    *)
(***************************************************************************)
EXTENDS WorkflowProps, TLC

CONSTANTS Crashes, Failures, Lapses, Duplicates, Requests, Toggles

MCBudget == [f \in Fault |->
    CASE f = "crash"   -> Crashes  [] f = "failure"   -> Failures
      [] f = "lapse"   -> Lapses   [] f = "duplicate" -> Duplicates
      [] f = "request" -> Requests [] f = "toggle"    -> Toggles]

(* One plugin for every key, or one plugin for each key.                   *)
MCPluginOf == CHOOSE f \in [Key -> Plugin] :
    \A k, j \in Key : f[k] = f[j] => (k = j \/ \A p, q \in Plugin : p = q)

Spent(f) == MCBudget[f] - budget[f]

(* At most two of a failure, a lapse and a duplicate in one behaviour, or a *)
(* crash or a switch of the plugin.  Where these two happen, or a failure   *)
(* meets a duplicate, there is one request at most.                         *)
TwoFaults ==
    /\ Spent("failure") + Spent("lapse") + Spent("duplicate")
          + 2 * (Spent("crash") + Spent("toggle")) <= 2
    /\ Spent("request") + Spent("failure") * Spent("duplicate")
          + Spent("crash") + Spent("toggle") <= 2

SameProcesses == Permutations(Delivery) \cup Permutations(Operator)
=============================================================================
