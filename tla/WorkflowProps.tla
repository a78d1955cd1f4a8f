---------------------------- MODULE WorkflowProps ----------------------------
(***************************************************************************)
(* What the durable workflow must do, stated over module Workflow.         *)
(***************************************************************************)
EXTENDS Workflow

(* The domain mutation of an intent commits at most once, plus once for    *)
(* every time a write took the completed run out of "completed", whatever  *)
(* duplicate deliveries, lapsed leases, crashes and operators do           *)
(* (complete_claim rolls the mutation back when complete reports Lost).    *)
AtMostOneEffect == \A k \in Key : effects[k] <= reopened[k] + 1

(* A mutation never commits from a state in which the run is withheld: an  *)
(* operator's pause or cancel that has been answered stops a handler that  *)
(* was already executing, because it also takes the claim away.            *)
NoEffectWhileWithheld ==
    [][\A k \in Key :
        effects'[k] # effects[k] =>
            row[k].run = "running" /\ row[k].outbox \notin Withheld]_vars

(* A completed or cancelled run is reopened only by an operator's request:  *)
(* no late relay mark, stale delivery or answer of the endpoint undoes it. *)
TerminalUntilOperator ==
    [][\A k \in Key :
        (/\ row[k].run \in {"completed", "cancelled"}
         /\ row'[k].run # row[k].run) =>
            \E o \in Operator : /\ operator[o].key = k
                               /\ At(operator[o], "write")
                               /\ operator[o].op \in {"resume", "replay", "retry"}]_vars

(* While its plugin is enabled, a pending intent does not wait for ever in  *)
(* the outbox: the relay publishes it, whatever happened to other intents. *)
PendingIsPublished ==
    \A k \in Key :
        (row[k].outbox = "pending" /\ PluginOf[k] \in active)
            ~> (row[k].outbox # "pending" \/ PluginOf[k] \notin active)

(* A completed run is one whose mutation committed since it was opened:    *)
(* execute_workflow_intent says the run is marked complete "only after the *)
(* Rust executor has committed its domain mutation".                       *)
CompletedMeansExecuted ==
    \A k \in Key : row[k].run = "completed" => effects[k] > reopened[k]

(* A second delivery does not end the first owner's execution: a claim     *)
(* held by a handler inside its lease is given up only by that handler     *)
(* (no operators, no plugin switches in the instance).                     *)
LiveClaimIsKept ==
    [][\A k \in Key, d \in Delivery :
        (row[k].token = d /\ row[k].live /\ Executing(d, k) /\ Executing(d, k)')
            => row'[k].token = d]_vars

(* A paused run stays paused until an operator resumes, cancels or replays *)
(* it: mark_completed and mark_run_failed answer for "paused" as a status  *)
(* they leave alone.                                                       *)
PausedUntilOperator ==
    [][\A k \in Key :
        (row[k].run = "paused" /\ row'[k].run # "paused") =>
            \E o \in Operator : operator[o].key = k /\ At(operator[o], "write")]_vars

Phase(r) ==
    CASE r.run = "absent"    -> "absent"
      [] r.run = "completed" -> "done"
      [] r.run = "cancelled" -> "stopped"
      [] OTHER               -> "open"

Promise == INSTANCE RunPromise WITH phase <- [k \in Key |-> Phase(row[k])]

(* With cancellation as the only operator request, the whole machinery     *)
(* implements RunPromise: complete means committed exactly once, cancelled *)
(* means never committed and never reopened.                               *)
KeepsPromise == Promise!Spec
=============================================================================
