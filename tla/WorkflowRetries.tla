-------------------------- MODULE WorkflowRetries --------------------------
(***************************************************************************)
(* The durable workflow under Hatchet's retry budget: a task is handed out *)
(* once, and again after each delivery that was not acknowledged, until    *)
(* its retries are used up.  Its outbox row is published by then, so no    *)
(* relay asks for it again.                                                *)
(***************************************************************************)
EXTENDS WorkflowProps

CONSTANT Retries   \* maxTaskRetries: 25 in the code

ASSUME RetriesAssumption == Retries \in Nat

VARIABLES
    left,   \* deliveries of the task of each key that are left
    early   \* history: keys that a delivery found claimed by another one

retryVars == <<vars, left, early>>

RetryInit ==
    /\ Init
    /\ left = [k \in Key |-> 0]
    /\ early = {}

(* The task of k has come to an end of its own: Hatchet gives it up.       *)
Exhausted(k) == hatchet[k] = "live" /\ left[k] = 0 /\ ~Handled(k)

(* The relay or an operator gets an answer about k from the bridge.        *)
BridgeAsked(k) ==
    \/ \E p \in Relay : At(relay[p], "publish") /\ relay[p].key = k /\ relay'[p] # relay[p]
    \/ \E o \in Operator : At(operator[o], "remote") /\ operator[o].key = k
                              /\ At(operator[o], "write")'

(* A new task has all its deliveries; one that Hatchet has given up may be *)
(* found by its dedupe key, or replaced.                                   *)
LeftAfter(k) ==
    CASE hatchet[k] # "live" /\ hatchet'[k] = "live" -> {Retries + 1}
      [] Exhausted(k) /\ BridgeAsked(k)              -> {left[k], Retries + 1}
      [] OTHER                                       -> {left[k]}

(* workflow_execution_in_progress: the lease of another claim is live.     *)
TurnedAway(k) ==
    \E d \in Delivery : /\ delivery[d].key = k /\ At(delivery[d], "inspectJob")
                        /\ row[k].run = "running" /\ Idle(delivery'[d])

RetryWork ==
    /\ Work
    /\ left' \in [Key -> 0 .. Retries + 1]
    /\ \A k \in Key : left'[k] \in LeftAfter(k)
    /\ early' = early \cup {k \in Key : TurnedAway(k)}

RetryDeliver(k) ==
    /\ left[k] > 0
    /\ \E d \in Delivery : Deliver(d, k)
    /\ left' = [left EXCEPT ![k] = @ - 1]
    /\ UNCHANGED early

RetryNext == RetryWork \/ \E k \in Key : RetryDeliver(k)

(* Hatchet hands out every task that has deliveries left.                  *)
RetryFairSpec ==
    /\ RetryInit /\ [][RetryNext]_retryVars
    /\ Fairness
    /\ \A k \in Key : WF_retryVars(RetryDeliver(k))

-----------------------------------------------------------------------------
(* Every enqueued intent settles: its mutation commits, or its run is      *)
(* cancelled because the plugin was switched off.  What the code leaves    *)
(* out: an intent whose deliveries came while the lease of a claim that    *)
(* had died was still live, until none was left.                           *)
EveryIntentSettles ==
    \A k \in Key :
        row[k].run = "pending" ~> \/ row[k].run \in {"completed", "cancelled"}
                                  \/ Exhausted(k) /\ k \in early

(* A run whose retries are used up "remains visibly failed" (the comment   *)
(* of mark_run_failed).  Not so: a run whose claim died reads running when *)
(* every delivery left came before the end of its lease.                   *)
ExhaustedIsFailed == \A k \in Key : Exhausted(k) => row[k].run # "running"
=============================================================================
