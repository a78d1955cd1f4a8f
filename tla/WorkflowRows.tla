---------------------------- MODULE WorkflowRows ----------------------------
(***************************************************************************)
(* The two rows Mavi keeps for one durable workflow intent, joined on the  *)
(* idempotency key: the workflow_outbox row the relay publishes from and   *)
(* the workflow_runs row that fences execution.  Every operator below is   *)
(* what one service method does to the pair inside its transaction: the    *)
(* guard is the WHERE clause, the EXCEPT clauses are the SET list.         *)
(***************************************************************************)
CONSTANTS Delivery,   \* handlers of one Hatchet delivery; one claim token each
          NoOne       \* claim_token is null

ASSUME NoOneAssumption == NoOne \notin Delivery

OutboxStatus == {"absent", "pending", "publishing", "published", "failed",
                 "paused", "cancelled"}
RunStatus    == {"absent", "pending", "running", "completed", "failed",
                 "paused", "cancelled"}
RemoteId     == {"none", "schedule", "run"}

(* due:  available_at <= now().  token/live: claim_token and whether        *)
(* claim_until is still in the future.  remote: what hatchet_run_id names.  *)
Row == [outbox : OutboxStatus, due : BOOLEAN, run : RunStatus,
        token : Delivery \cup {NoOne}, live : BOOLEAN, remote : RemoteId]

NoRow == [outbox |-> "absent", due |-> FALSE, run |-> "absent",
          token |-> NoOne, live |-> FALSE, remote |-> "none"]

Present(r)  == r.run # "absent"
Withheld    == {"cancelled", "paused"}
Unclaimed(r) == [r EXCEPT !.token = NoOne, !.live = FALSE]

(* WorkflowService::enqueue.  A second enqueue of the key changes nothing: *)
(* it is accepted when the payload is the same and refused otherwise.      *)
Enqueued(r) ==
    IF Present(r) THEN r
    ELSE [NoRow EXCEPT !.outbox = "pending", !.due = TRUE, !.run = "pending"]

-----------------------------------------------------------------------------
(* The relay's side: claim, mark_published, mark_failed.                   *)

\* Mutant: a claim whose relay died is not picked up again.
PublishableOnce(r) ==
    r.outbox \in {"pending", "failed"} /\ r.due /\ r.run \notin Withheld

Publishable(r) ==
    /\ r.outbox \in {"pending", "failed", "publishing"}
    /\ r.due
    /\ r.run \notin Withheld

Publishing(r) == [r EXCEPT !.outbox = "publishing", !.due = FALSE]

\* Mutant: a publish error is recorded as if Hatchet had accepted it.

Published(r, id) ==
    LET o == IF r.outbox \in Withheld THEN r
             ELSE [r EXCEPT !.outbox = "published"]
    IN  IF r.run \in Withheld \cup {"completed"} THEN o
        ELSE [o EXCEPT !.run = IF @ = "pending" THEN "running" ELSE @,
                       !.remote = id]

PublishFailed(r) ==
    IF r.outbox \in Withheld THEN r
    ELSE [r EXCEPT !.outbox = "failed", !.due = FALSE]

-----------------------------------------------------------------------------
(* The executor's side: claim_by_id, complete, defer, fail, and the two    *)
(* unfenced marks the HTTP wrapper writes.                                 *)

Claimable(r) ==
    /\ r.run \notin Withheld \cup {"absent", "completed"}
    /\ r.outbox \notin Withheld
    /\ ~r.live

\* Mutant: a status the table's check constraint does not know.

Claimed(r, d) == [r EXCEPT !.run = "running", !.token = d, !.live = TRUE]

\* Mutant: completion fenced by the lease alone, not by token and status.
OwnsClaimByLease(r, d, inTime) == inTime /\ r.run \notin Withheld

\* Mutant: completion guarded only against a completed run.
OwnsClaimByStatus(r, d, inTime) == r.run # "completed"

(* inTime: claim_until was still ahead of now(), which PostgreSQL freezes  *)
(* when the transaction begins.                                            *)
OwnsClaim(r, d, inTime) ==
    /\ r.token = d
    /\ inTime
    /\ r.run \notin Withheld \cup {"completed"}

Completed(r) ==
    [Unclaimed(r) EXCEPT !.run = "completed",
        !.outbox = IF @ \in Withheld THEN @ ELSE "published"]

Deferred(r) ==
    LET u == [Unclaimed(r) EXCEPT !.run = "pending"]
    IN  IF r.outbox \in Withheld THEN u
        ELSE [u EXCEPT !.outbox = "pending", !.due = FALSE]

Failed(r) ==
    [Unclaimed(r) EXCEPT !.run = "failed",
        !.outbox = IF @ \in Withheld THEN @ ELSE "published"]

CompletedMark(r) ==
    IF r.run \in {"cancelled", "completed"} THEN r
    ELSE [Unclaimed(r) EXCEPT !.run = "completed"]

\* Mutant: a failed attempt is recorded over a completed run.
FailedMarkOverCompleted(r) ==
    IF r.run = "cancelled" THEN r ELSE [Unclaimed(r) EXCEPT !.run = "failed"]

\* Mutant: a failed attempt is recorded over a cancelled run.
FailedMarkOverCancelled(r) ==
    IF r.run = "completed" THEN r ELSE [Unclaimed(r) EXCEPT !.run = "failed"]

FailedMark(r) ==
    IF r.run \in {"cancelled", "completed"} THEN r
    ELSE [Unclaimed(r) EXCEPT !.run = "failed"]

-----------------------------------------------------------------------------
(* The operator's side: cancel, pause, resume, replay, mark_replayed and   *)
(* the scheduler's retry_at.                                               *)

Cancelled(r) ==
    IF r.run \in {"completed", "cancelled"} THEN r
    ELSE [Unclaimed(r) EXCEPT !.run = "cancelled",
            !.outbox = IF @ \in {"pending", "failed", "publishing"}
                       THEN "cancelled" ELSE @]

Paused(r) ==
    IF r.run \in Withheld \cup {"completed"} THEN r
    ELSE [Unclaimed(r) EXCEPT !.run = "paused",
            !.outbox = IF @ = "cancelled" THEN @ ELSE "paused"]

Resumed(r) ==
    IF r.run # "paused" THEN r
    ELSE LET u == [Unclaimed(r) EXCEPT !.run = "pending"]
         IN  IF r.outbox = "paused"
             THEN [u EXCEPT !.outbox = "pending", !.due = TRUE]
             ELSE u

Replayed(r) ==
    [Unclaimed(r) EXCEPT !.run = "pending", !.outbox = "pending", !.due = TRUE]

(* Without a hatchet_run_id no run row matches, and the request's          *)
(* transaction is rolled back.                                             *)
ReplayedRemotely(r, id) ==
    IF r.remote = "none" THEN r
    ELSE [Unclaimed(r) EXCEPT !.outbox = "published", !.run = "running",
            !.remote = IF id = "none" THEN @ ELSE id]

Retried(r) ==
    [Unclaimed(r) EXCEPT !.run = "pending", !.outbox = "pending",
                         !.due = FALSE]
=============================================================================
