------------------------------ MODULE Workflow ------------------------------
(***************************************************************************)
(* Durable workflows: a domain transaction writes an intent to the outbox, *)
(* relays publish it through the Hatchet bridge, Hatchet delivers it at    *)
(* least once to the executor endpoint, the executor claims the run row,   *)
(* commits the domain mutation together with the completion, and operators *)
(* cancel, pause, resume and replay runs.  Every step is one PostgreSQL    *)
(* transaction or one call to the bridge; anything may happen in between.  *)
(***************************************************************************)
EXTENDS Naturals, Sequences, WorkflowRows

CONSTANTS Key,        \* idempotency keys
          Plugin, PluginOf,
          Scheduled,  \* keys whose intent carries a future run_at
          Relay,      \* relay loops, one per worker process
          Operator,   \* control requests in flight at once
          Request,    \* the control operations this instance allows
          NoKey,
          Budget      \* bounds on crashes, failures, ... (see Fault)

Fault == {"crash",     \* a process dies, or its connection drops
          "failure",   \* a call or a job returns an error or defers
          "lapse",     \* a lease runs out under a live handler
          "duplicate", \* Hatchet delivers a task already being handled
          "request",   \* control requests
          "toggle"}    \* plugin switches

ASSUME WorkflowAssumption ==
    /\ NoKey \notin Key
    /\ PluginOf \in [Key -> Plugin]
    /\ Scheduled \subseteq Key
    /\ Request \subseteq {"cancel", "pause", "resume", "replay", "retry"}
    /\ Budget \in [Fault -> Nat]

VARIABLES
    row,       \* the joined outbox and run row of each key
    queue,     \* keys in created_at order
    lock,      \* who holds the run row's FOR UPDATE lock, between statements
    active,    \* plugins the site has enabled
    relay,     \* per relay: where run_once is, and on which key
    delivery,  \* per delivery: where the executor request is, and its key
    operator,  \* per control request: where it is, and what it read
    hatchet,   \* what Hatchet knows of each key
    budget,    \* what is left of Budget
    effects,   \* history: domain mutations committed for each key
    reopened   \* history: writes that took the run out of "completed"

vars == <<row, queue, lock, active, relay, delivery, operator, hatchet,
          budget, effects, reopened>>

RelayPC    == {"idle", "publish", "accepted", "refused"}
DeliveryPC == {"idle", "check", "activate", "cancel", "claim", "claiming",
               "inspectRun", "inspectJob", "exec", "mutate", "verify",
               "ok", "err"}
OperatorPC == {"idle", "remote", "write"}
Remote     == {"none", "scheduled", "live", "finished", "cancelled"}

RelayState    == [pc : RelayPC, key : Key \cup {NoKey}, id : RemoteId]
DeliveryState == [pc : DeliveryPC, key : Key \cup {NoKey}, inTime : BOOLEAN]
OperatorState == [pc : OperatorPC, key : Key \cup {NoKey},
                  op : Request \cup {"none"}, seen : RemoteId, id : RemoteId]

At(p, pc) == p.pc = pc
Idle(p)   == At(p, "idle")

TypeOK ==
    /\ row \in [Key -> Row]
    /\ queue \in Seq(Key)
    /\ lock \in [Key -> Delivery \cup {NoOne}]
    /\ active \subseteq Plugin
    /\ relay \in [Relay -> RelayState]
    /\ delivery \in [Delivery -> DeliveryState]
    /\ operator \in [Operator -> OperatorState]
    /\ hatchet \in [Key -> Remote]
    /\ budget \in [Fault -> Nat]
    /\ effects \in [Key -> Nat]
    /\ reopened \in [Key -> Nat]

IdleRelay    == [pc |-> "idle", key |-> NoKey, id |-> "none"]
IdleDelivery == [pc |-> "idle", key |-> NoKey, inTime |-> FALSE]
IdleOperator == [pc |-> "idle", key |-> NoKey, op |-> "none",
                 seen |-> "none", id |-> "none"]

Init ==
    /\ row = [k \in Key |-> NoRow]
    /\ queue = <<>>
    /\ lock = [k \in Key |-> NoOne]
    /\ active = Plugin
    /\ relay = [p \in Relay |-> IdleRelay]
    /\ delivery = [d \in Delivery |-> IdleDelivery]
    /\ operator = [o \in Operator |-> IdleOperator]
    /\ hatchet = [k \in Key |-> "none"]
    /\ budget = Budget
    /\ effects = [k \in Key |-> 0]
    /\ reopened = [k \in Key |-> 0]

-----------------------------------------------------------------------------
Spend(f) ==
    /\ budget[f] > 0
    /\ budget' = [budget EXCEPT ![f] = @ - 1]

(* One transaction leaves r in the rows of k.  An UPDATE of the run row    *)
(* waits for the lock, so a write needs it free.                           *)
Write(k, r) ==
    /\ lock[k] = NoOne
    /\ row' = [row EXCEPT ![k] = r]
    /\ reopened' = [reopened EXCEPT ![k] =
            IF row[k].run = "completed" /\ r.run # "completed"
            THEN @ + 1 ELSE @]

Goto(d, pc) == delivery' = [delivery EXCEPT ![d].pc = pc]

-----------------------------------------------------------------------------
(* A domain transaction writes the intent with its own change.             *)
Enqueue(k) ==
    /\ ~Present(row[k])
    /\ Write(k, Enqueued(row[k]))
    /\ queue' = Append(queue, k)
    /\ UNCHANGED <<lock, active, relay, delivery, operator, hatchet, budget,
                   effects>>

(* available_at passes.                                                    *)
FallDue(k) ==
    /\ Present(row[k]) /\ ~row[k].due
    /\ row' = [row EXCEPT ![k].due = TRUE]
    /\ UNCHANGED <<queue, lock, active, relay, delivery, operator, hatchet,
                   budget, effects, reopened>>

TogglePlugin(p) ==
    /\ Spend("toggle")
    /\ active' = IF p \in active THEN active \ {p} ELSE active \cup {p}
    /\ UNCHANGED <<row, queue, lock, relay, delivery, operator, hatchet,
                   effects, reopened>>

-----------------------------------------------------------------------------
(* WorkflowRelay::run_once.                                                *)

Oldest(k) ==
    \E i \in DOMAIN queue :
        /\ queue[i] = k
        /\ Publishable(row[k])
        /\ \A j \in 1 .. i - 1 : ~Publishable(row[queue[j]])

(* Claim the oldest due intent and commit before calling the bridge.       *)
RelayClaim(p) ==
    /\ Idle(relay[p])
    /\ \E k \in Key :
        /\ Oldest(k)
        /\ PluginOf[k] \in active
        /\ row' = [row EXCEPT ![k] = Publishing(@)]
        /\ relay' = [relay EXCEPT ![p] = [pc |-> "publish", key |-> k,
                                          id |-> "none"]]
    /\ UNCHANGED <<queue, lock, active, delivery, operator, hatchet, budget,
                   effects, reopened>>

(* The plugin is off: claim and cancel in one transaction.  Cancelling a   *)
(* completed run is a conflict, which rolls the claim back too.            *)
RelayCancel(p) ==
    /\ Idle(relay[p])
    /\ \E k \in Key :
        /\ Oldest(k)
        /\ PluginOf[k] \notin active
        /\ row[k].run # "completed"
        /\ Write(k, Cancelled(Publishing(row[k])))
    /\ UNCHANGED <<queue, lock, active, relay, delivery, operator, hatchet,
                   budget, effects>>

(* The bridge creates a schedule or a run, or finds the one the dedupe key *)
(* already names; a finished run may also be created afresh.               *)
Dispatched(k) ==
    CASE hatchet[k] = "none" ->
            IF k \in Scheduled THEN {"scheduled", "live"} ELSE {"live"}
      [] hatchet[k] \in {"scheduled", "live"} -> {hatchet[k]}
      [] OTHER -> {hatchet[k], "live"}

IdOf(h) == IF h = "scheduled" THEN "schedule" ELSE "run"

RelayPublish(p) ==
    LET k == relay[p].key IN
    /\ At(relay[p], "publish")
    /\ \E h \in Dispatched(k) :
        /\ hatchet' = [hatchet EXCEPT ![k] = h]
        /\ \/ /\ relay' = [relay EXCEPT ![p].pc = "accepted",
                                        ![p].id = IdOf(h)]
              /\ UNCHANGED budget
           \/ \* the response is lost after Hatchet accepted the intent
              /\ Spend("failure")
              /\ relay' = [relay EXCEPT ![p].pc = "refused"]
    /\ UNCHANGED <<row, queue, lock, active, delivery, operator, effects,
                   reopened>>

RelayRefused(p) ==
    /\ At(relay[p], "publish")
    /\ Spend("failure")
    /\ relay' = [relay EXCEPT ![p].pc = "refused"]
    /\ UNCHANGED <<row, queue, lock, active, delivery, operator, hatchet,
                   effects, reopened>>

RelayMark(p) ==
    LET k == relay[p].key IN
    /\ \/ /\ At(relay[p], "accepted")
          /\ Write(k, Published(row[k], relay[p].id))
       \/ /\ At(relay[p], "refused")
          /\ Write(k, PublishFailed(row[k]))
    /\ relay' = [relay EXCEPT ![p] = IdleRelay]
    /\ UNCHANGED <<queue, lock, active, delivery, operator, hatchet, budget,
                   effects>>

RelayCrash(p) ==
    /\ ~Idle(relay[p])
    /\ Spend("crash")
    /\ relay' = [relay EXCEPT ![p] = IdleRelay]
    /\ UNCHANGED <<row, queue, lock, active, delivery, operator, hatchet,
                   effects, reopened>>

-----------------------------------------------------------------------------
(* Hatchet, as the bridge and the executor see it.                         *)

FireSchedule(k) ==
    /\ hatchet[k] = "scheduled"
    /\ hatchet' = [hatchet EXCEPT ![k] = "live"]
    /\ UNCHANGED <<row, queue, lock, active, relay, delivery, operator,
                   budget, effects, reopened>>

Handled(k) == \E e \in Delivery : ~Idle(delivery[e]) /\ delivery[e].key = k

Deliver(d, k) ==
    /\ hatchet[k] = "live"
    /\ Idle(delivery[d])
    /\ IF Handled(k) THEN Spend("duplicate") ELSE UNCHANGED budget
    /\ delivery' = [delivery EXCEPT ![d] = [pc |-> "check", key |-> k,
                                            inTime |-> FALSE]]
    /\ UNCHANGED <<row, queue, lock, active, relay, operator, hatchet,
                   effects, reopened>>

-----------------------------------------------------------------------------
(* execute_workflow_intent and, inside it, execute_intent.                 *)

(* 2xx: Hatchet finishes the task.  Any other answer leaves it to retry.   *)
Release(d) == delivery' = [delivery EXCEPT ![d] = IdleDelivery]

Acknowledge(d) ==
    /\ Release(d)
    /\ hatchet' = [hatchet EXCEPT ![delivery[d].key] =
                      IF @ = "live" THEN "finished" ELSE @]

Reject(d) == Release(d) /\ UNCHANGED hatchet

(* First transaction of the endpoint: a withheld or completed run is       *)
(* acknowledged at once; a disabled plugin cancels the run.                *)
CheckRun(d) ==
    LET k == delivery[d].key IN
    /\ At(delivery[d], "check")
    /\ \/ /\ PluginOf[k] \notin active
          /\ Write(k, Cancelled(row[k]))
          /\ Acknowledge(d)
       \/ /\ PluginOf[k] \in active
          /\ row[k].run \in Withheld \cup {"completed"}
          /\ Acknowledge(d)
          /\ UNCHANGED <<row, reopened>>
       \/ /\ PluginOf[k] \in active
          /\ row[k].run \notin Withheld \cup {"completed"}
          /\ Goto(d, "activate")
          /\ UNCHANGED <<row, reopened, hatchet>>
    /\ UNCHANGED <<queue, lock, active, relay, operator, budget, effects>>

(* The executor asks again, in a transaction of its own.                   *)
Activate(d) ==
    /\ At(delivery[d], "activate")
    /\ Goto(d, IF PluginOf[delivery[d].key] \in active THEN "claim" ELSE "cancel")
    /\ UNCHANGED <<row, queue, lock, active, relay, operator, hatchet, budget,
                   effects, reopened>>

CancelDisabled(d) ==
    LET k == delivery[d].key IN
    /\ At(delivery[d], "cancel")
    /\ Write(k, Cancelled(row[k]))
    /\ Goto(d, "ok")
    /\ UNCHANGED <<queue, lock, active, relay, operator, hatchet, budget,
                   effects>>

(* claim_by_id: FOR UPDATE SKIP LOCKED finds nothing when the row is not   *)
(* claimable, or while another transaction holds its lock.                 *)
Claim(d) ==
    LET k == delivery[d].key IN
    /\ At(delivery[d], "claim")
    /\ \/ /\ lock[k] = NoOne /\ Claimable(row[k])
          /\ lock' = [lock EXCEPT ![k] = d]
          /\ Goto(d, "claiming")
       \/ /\ lock[k] # NoOne \/ ~Claimable(row[k])
          /\ Goto(d, "inspectRun")
          /\ UNCHANGED lock
    /\ UNCHANGED <<row, queue, active, relay, operator, hatchet, budget,
                   effects, reopened>>

CommitClaim(d) ==
    LET k == delivery[d].key IN
    /\ At(delivery[d], "claiming")
    /\ row' = [row EXCEPT ![k] = Claimed(@, d)]
    /\ lock' = [lock EXCEPT ![k] = NoOne]
    /\ Goto(d, "exec")
    /\ UNCHANGED <<queue, active, relay, operator, hatchet, budget, effects,
                   reopened>>

(* Nothing was claimed: get_run, then jobs.get, decide what to answer.     *)
InspectRun(d) ==
    /\ At(delivery[d], "inspectRun")
    /\ Goto(d, IF row[delivery[d].key].run \in Withheld \cup {"completed"}
               THEN "ok" ELSE "inspectJob")
    /\ UNCHANGED <<row, queue, lock, active, relay, operator, hatchet, budget,
                   effects, reopened>>

InspectJob(d) ==
    LET state == row[delivery[d].key].run IN
    /\ At(delivery[d], "inspectJob")
    /\ \/ state = "completed" /\ Goto(d, "ok")
       \/ state = "running" /\ Release(d)   \* workflow_execution_in_progress
       \/ state \notin {"completed", "running"} /\ Goto(d, "err")
    /\ UNCHANGED <<row, queue, lock, active, relay, operator, hatchet, budget,
                   effects, reopened>>

(* execute_claim opens the transaction of the domain mutation; now() is    *)
(* fixed here, and complete compares the lease with it later.              *)
BeginMutation(d) ==
    LET k == delivery[d].key IN
    /\ At(delivery[d], "exec")
    /\ delivery' = [delivery EXCEPT ![d].pc = "mutate",
                                    ![d].inTime = row[k].live]
    /\ UNCHANGED <<row, queue, lock, active, relay, operator, hatchet, budget,
                   effects, reopened>>

(* complete_claim: the mutation commits with the completion, or a lost     *)
(* lease rolls both back.                                                  *)
CommitMutation(d) ==
    LET k == delivery[d].key IN
    /\ At(delivery[d], "mutate")
    /\ lock[k] = NoOne
    /\ \/ /\ OwnsClaim(row[k], d, delivery[d].inTime)
          /\ Write(k, Completed(row[k]))
          /\ effects' = [effects EXCEPT ![k] = @ + 1]
       \/ /\ ~OwnsClaim(row[k], d, delivery[d].inTime)
          /\ UNCHANGED <<row, effects, reopened>>
    /\ Goto(d, "verify")
    /\ UNCHANGED <<queue, lock, active, relay, operator, hatchet, budget>>

(* fail_claim, or defer_claim for a publication still in the future: a     *)
(* fresh transaction, fenced like complete.                                *)
JobReturns(d, r) ==
    LET k == delivery[d].key IN
    /\ lock[k] = NoOne
    /\ Spend("failure")
    /\ Write(k, IF OwnsClaim(row[k], d, row[k].live) THEN r ELSE row[k])
    /\ Goto(d, "verify")
    /\ UNCHANGED <<queue, lock, active, relay, operator, hatchet, effects>>

JobFails(d) ==
    /\ delivery[d].pc \in {"exec", "mutate"}
    /\ JobReturns(d, Failed(row[delivery[d].key]))

JobDefers(d) ==
    /\ At(delivery[d], "exec")
    /\ delivery[d].key \in Scheduled
    /\ JobReturns(d, Deferred(row[delivery[d].key]))

(* A database or store error surfaces as the executor's own error.         *)
ExecutorErrors(d) ==
    /\ delivery[d].pc \in {"activate", "claim", "exec", "mutate", "verify"}
    /\ Spend("failure")
    /\ Goto(d, "err")
    /\ UNCHANGED <<row, queue, lock, active, relay, operator, hatchet,
                   effects, reopened>>

Verify(d) ==
    /\ At(delivery[d], "verify")
    /\ Goto(d, IF row[delivery[d].key].run = "completed" THEN "ok" ELSE "err")
    /\ UNCHANGED <<row, queue, lock, active, relay, operator, hatchet, budget,
                   effects, reopened>>

(* The endpoint's last transaction.                                        *)
AnswerOk(d) ==
    LET k == delivery[d].key IN
    /\ At(delivery[d], "ok")
    /\ Write(k, IF row[k].run = "failed" THEN row[k] ELSE CompletedMark(row[k]))
    /\ Acknowledge(d)
    /\ UNCHANGED <<queue, lock, active, relay, operator, budget, effects>>

AnswerErr(d) ==
    LET k == delivery[d].key IN
    /\ At(delivery[d], "err")
    /\ Write(k, FailedMark(row[k]))
    /\ Reject(d)
    /\ UNCHANGED <<queue, lock, active, relay, operator, budget, effects>>

(* The connection drops or the process dies: the handler is gone and its   *)
(* open transaction is rolled back.                                        *)
DeliveryCrash(d) ==
    /\ ~Idle(delivery[d])
    /\ Spend("crash")
    /\ Reject(d)
    /\ lock' = [k \in Key |-> IF lock[k] = d THEN NoOne ELSE lock[k]]
    /\ UNCHANGED <<row, queue, active, relay, operator, effects, reopened>>

Executing(d, k) == delivery[d].key = k /\ delivery[d].pc \in {"exec", "mutate"}

(* claim_until passes, after a crash or under a handler still at work      *)
(* (nothing calls heartbeat).                                              *)
LeaseLapses(k) ==
    /\ row[k].live
    /\ IF \E d \in Delivery : row[k].token = d /\ Executing(d, k)
       THEN Spend("lapse") ELSE UNCHANGED budget
    /\ row' = [row EXCEPT ![k].live = FALSE]
    /\ UNCHANGED <<queue, lock, active, relay, delivery, operator, hatchet,
                   effects, reopened>>

-----------------------------------------------------------------------------
(* cancel_, pause_, resume_ and replay_workflow_run, and retry_at: read in *)
(* one transaction, call the bridge, write in another.                     *)

Admitted(op, r) ==
    /\ Present(r)
    /\ op = "resume" => r.run = "paused"
    /\ op = "replay" => r.run # "running"
    /\ op = "retry" => r.run = "failed"

Ask(o, op, k) ==
    LET seen == IF op = "retry" THEN "none" ELSE row[k].remote IN
    /\ Idle(operator[o])
    /\ Admitted(op, row[k])
    /\ Spend("request")
    /\ operator' = [operator EXCEPT ![o] =
            [pc |-> IF seen = "none" THEN "write" ELSE "remote",
             key |-> k, op |-> op, seen |-> seen, id |-> "none"]]
    /\ UNCHANGED <<row, queue, lock, active, relay, delivery, hatchet,
                   effects, reopened>>

Stops(op) == op \in {"cancel", "pause"}

(* controlRun and controlScheduled: what Hatchet holds afterwards.         *)
Controlled(op, seen, h) ==
    IF seen = "schedule" /\ h = "scheduled"
    THEN IF Stops(op) THEN "none" ELSE "scheduled"
    ELSE IF Stops(op) THEN IF h = "live" THEN "cancelled" ELSE h
         ELSE "live"

(* The hatchet_run_id the bridge answers with.                             *)
Answered(op, seen, h) ==
    CASE seen = "run" \/ h # "scheduled" -> "run"
      [] Stops(op) -> "none"
      [] OTHER -> "schedule"

CallBridge(o) ==
    LET q == operator[o] k == q.key IN
    /\ At(q, "remote")
    /\ hatchet[k] # "none"
    /\ hatchet' = [hatchet EXCEPT ![k] = Controlled(q.op, q.seen, @)]
    /\ operator' = [operator EXCEPT ![o].pc = "write",
                        ![o].id = Answered(q.op, q.seen, hatchet[k])]
    /\ UNCHANGED <<row, queue, lock, active, relay, delivery, budget,
                   effects, reopened>>

(* A deleted schedule's replacement id is stored before the run is stopped;*)
(* a conflict rolls both back.                                             *)
Rebound(q, r) == IF q.seen = "schedule" THEN [r EXCEPT !.remote = q.id] ELSE r

Controls(q, r) ==
    CASE q.op = "cancel" ->
            IF r.run = "completed" THEN r ELSE Cancelled(Rebound(q, r))
      [] q.op = "pause" ->
            IF r.run \in {"completed", "cancelled"} THEN r
            ELSE Paused(Rebound(q, r))
      [] q.op = "resume" ->
            IF q.seen = "none" THEN Resumed(r) ELSE ReplayedRemotely(r, q.id)
      [] q.op = "replay" ->
            IF q.seen = "none" THEN Replayed(r) ELSE ReplayedRemotely(r, q.id)
      [] q.op = "retry" -> Retried(r)

Control(o) ==
    LET q == operator[o] IN
    /\ At(q, "write")
    /\ Write(q.key, Controls(q, row[q.key]))
    /\ operator' = [operator EXCEPT ![o] = IdleOperator]
    /\ UNCHANGED <<queue, lock, active, relay, delivery, hatchet, budget,
                   effects>>

(* The bridge refuses, or the API process dies, before the local write.    *)
AbandonRequest(o) ==
    /\ ~Idle(operator[o])
    /\ operator' = [operator EXCEPT ![o] = IdleOperator]
    /\ UNCHANGED <<row, queue, lock, active, relay, delivery, hatchet, budget,
                   effects, reopened>>

-----------------------------------------------------------------------------
RelayStep(p) ==
    RelayClaim(p) \/ RelayCancel(p) \/ RelayPublish(p) \/ RelayMark(p)

DeliveryStep(d) ==
    \/ CheckRun(d) \/ Activate(d) \/ CancelDisabled(d)
    \/ Claim(d) \/ CommitClaim(d) \/ InspectRun(d) \/ InspectJob(d)
    \/ BeginMutation(d) \/ CommitMutation(d) \/ Verify(d)
    \/ AnswerOk(d) \/ AnswerErr(d)

DeliveryFault(d) ==
    JobFails(d) \/ JobDefers(d) \/ ExecutorErrors(d) \/ DeliveryCrash(d)

(* Everything but Hatchet's handing out of a task.                         *)
Work ==
    \/ \E k \in Key : Enqueue(k) \/ FallDue(k) \/ FireSchedule(k) \/ LeaseLapses(k)
    \/ \E p \in Plugin : TogglePlugin(p)
    \/ \E p \in Relay : RelayStep(p) \/ RelayRefused(p) \/ RelayCrash(p)
    \/ \E d \in Delivery : DeliveryStep(d) \/ DeliveryFault(d)
    \/ \E o \in Operator, op \in Request, k \in Key : Ask(o, op, k)
    \/ \E o \in Operator : CallBridge(o) \/ Control(o) \/ AbandonRequest(o)

(* How often a task is handed out is not bounded here, and nothing says    *)
(* that it is handed out at all: see WorkflowRetries.                      *)
Next == Work \/ \E d \in Delivery, k \in Key : Deliver(d, k)

Spec == Init /\ [][Next]_vars

(* The relay polls, the executor's server runs its handlers, Hatchet fires *)
(* schedules, and time passes.                                             *)
Fairness ==
    /\ \A k \in Key : WF_vars(FallDue(k)) /\ WF_vars(FireSchedule(k)) /\ WF_vars(LeaseLapses(k))
    /\ \A p \in Relay : WF_vars(RelayStep(p))
    /\ \A d \in Delivery : WF_vars(DeliveryStep(d))

FairSpec == Spec /\ Fairness
=============================================================================
