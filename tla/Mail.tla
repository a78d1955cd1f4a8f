-------------------------------- MODULE Mail --------------------------------
(***************************************************************************)
(* Mail deliveries: a row is queued with a workflow task, a handler of the *)
(* task claims it and opens an attempt in one transaction, calls the       *)
(* provider outside any, and records the outcome in another one, which the *)
(* lease fences by worker process and not by attempt.                      *)
(***************************************************************************)
EXTENDS Naturals, FiniteSets

CONSTANTS
    Message, NoMessage,      \* deliveries
    Campaign,                \* those whose reader may bounce or complain
    Handler,                 \* executions of tasks in progress at once
    Process, NoProcess,      \* worker processes: lease_owner
    MaxAttempts,             \* MAX_DELIVERY_ATTEMPTS
    Budget                   \* bounds, see Fault

Fault == {"failure",    \* the provider refuses for now, or a lookup fails
          "lost",       \* the provider accepts and its answer is lost
          "lapse",      \* a lease runs out under a handler at work
          "crash", "requeue", "complaint"}

ASSUME MailAssumption ==
    /\ NoMessage \notin Message /\ NoProcess \notin Process
    /\ Campaign \subseteq Message /\ IsFiniteSet(Handler)
    /\ MaxAttempts \in Nat \ {0}
    /\ Budget \in [Fault -> Nat]

VARIABLES
    delivery,   \* mail_deliveries
    attempt,    \* mail_delivery_attempts, by attempt_number
    issued,     \* workflow keys used for a delivery
    tasks,      \* tasks Hatchet still delivers: <<delivery, key>>
    handler,    \* per execution: where it is, and the attempt it opened
    budget,     \* what is left of Budget
    handed,     \* history: attempt numbers given to the provider
    accepted    \* history: times the provider accepted the message

vars == <<delivery, attempt, issued, tasks, handler, budget, handed, accepted>>

Ended   == {"sent", "dead", "cancelled"}
Status  == {"none", "queued", "sending", "retry"} \cup Ended
Numbers == 1 .. MaxAttempts + 1   \* the last one is never used
Stages  == {"idle", "claim", "send", "accepted", "failed", "refused"}

TypeOK ==
    /\ delivery \in [Message -> [status : Status, attempts : 0 .. MaxAttempts,
                                 owner : Process \cup {NoProcess},
                                 live : BOOLEAN, due : BOOLEAN]]
    /\ attempt \in [Message -> [Numbers -> {"none", "sending", "sent", "retry", "dead"}]]
    /\ issued \in [Message -> Nat]
    /\ tasks \subseteq Message \X Nat
    /\ handler \in [Handler -> [pc : Stages, message : Message \cup {NoMessage},
                                key : Nat, process : Process \cup {NoProcess},
                                number : 0 .. MaxAttempts]]
    /\ budget \in [Fault -> Nat]
    /\ handed \in [Message -> SUBSET Numbers]
    /\ accepted \in [Message -> Nat]

NoDelivery  == [status |-> "none", attempts |-> 0, owner |-> NoProcess,
                live |-> FALSE, due |-> FALSE]
IdleHandler == [pc |-> "idle", message |-> NoMessage, key |-> 0,
                process |-> NoProcess, number |-> 0]

Init ==
    /\ delivery = [m \in Message |-> NoDelivery]
    /\ attempt = [m \in Message |-> [n \in Numbers |-> "none"]]
    /\ issued = [m \in Message |-> 0]
    /\ tasks = {}
    /\ handler = [h \in Handler |-> IdleHandler]
    /\ budget = Budget
    /\ handed = [m \in Message |-> {}]
    /\ accepted = [m \in Message |-> 0]

-----------------------------------------------------------------------------
Spend(f) == budget[f] > 0 /\ budget' = [budget EXCEPT ![f] = @ - 1]

Queued(m) == [NoDelivery EXCEPT !.status = "queued", !.due = TRUE]

(* The task is enqueued with the row, under a key of its own.              *)
Queue(m) ==
    /\ delivery' = [delivery EXCEPT ![m] = Queued(m)]
    /\ issued' = [issued EXCEPT ![m] = @ + 1]
    /\ tasks' = tasks \cup {<<m, issued[m] + 1>>}

(* enqueue_delivery and its like, and a campaign's row for one reader.     *)
Enqueue(m) ==
    /\ delivery[m].status = "none"
    /\ Queue(m)
    /\ UNCHANGED <<attempt, handler, budget, handed, accepted>>

(* retry_delivery, which leaves the rows of earlier attempts.              *)
RetryDelivery(m) ==
    /\ delivery[m].status \in {"dead", "cancelled"}
    /\ Spend("requeue")
    /\ Queue(m)
    /\ UNCHANGED <<attempt, handler, handed, accepted>>

(* suppress_recipient, on a permanent bounce or a complaint.               *)
Suppress(m) ==
    /\ m \in Campaign
    /\ delivery[m].status \in {"queued", "retry"}
    /\ Spend("complaint")
    /\ delivery' = [delivery EXCEPT ![m] =
          [@ EXCEPT !.status = "cancelled", !.owner = NoProcess, !.live = FALSE]]
    /\ UNCHANGED <<attempt, issued, tasks, handler, handed, accepted>>

(* available_at passes.                                                    *)
FallDue(m) ==
    /\ delivery[m].status = "retry" /\ ~delivery[m].due
    /\ delivery' = [delivery EXCEPT ![m].due = TRUE]
    /\ UNCHANGED <<attempt, issued, tasks, handler, budget, handed, accepted>>

AtWork(m) == \E h \in Handler : /\ handler[h].message = m
                                /\ handler[h].number = delivery[m].attempts

(* lease_until passes, after a crash or under a handler at work.           *)
LeaseLapses(m) ==
    /\ delivery[m].status = "sending" /\ delivery[m].live
    /\ IF AtWork(m) THEN Spend("lapse") ELSE UNCHANGED budget
    /\ delivery' = [delivery EXCEPT ![m].live = FALSE]
    /\ UNCHANGED <<attempt, issued, tasks, handler, handed, accepted>>

-----------------------------------------------------------------------------
(* execute_mail_delivery_intent.                                           *)

(* Hatchet hands out a task that is not acknowledged, perhaps twice at once.*)
Deliver(h, m, k, p) ==
    /\ <<m, k>> \in tasks
    /\ handler[h].pc = "idle"
    /\ handler' = [handler EXCEPT ![h] = [pc |-> "claim", message |-> m, key |-> k,
                                          process |-> p, number |-> 0]]
    /\ UNCHANGED <<delivery, attempt, issued, tasks, budget, handed, accepted>>

Return(h) == handler' = [handler EXCEPT ![h] = IdleHandler]

(* Ok finishes the task; an error leaves it to be delivered again.         *)
Acknowledge(h) ==
    /\ Return(h)
    /\ tasks' = tasks \ {<<handler[h].message, handler[h].key>>}

Refuse(h) == Return(h) /\ UNCHANGED tasks

(* The open attempt of m is closed as s.                                   *)
Closed(m, s) == [n \in Numbers |-> IF attempt[m][n] = "sending" THEN s
                                   ELSE attempt[m][n]]

\* Mutant: a claim does not look at the lease.
ClaimableAnyLease(m) ==
    \/ delivery[m].status \in {"queued", "retry"} /\ delivery[m].due
    \/ delivery[m].status = "sending"

\* Mutant: a lease that has lapsed is never taken over.
ClaimableOnce(m) == delivery[m].status \in {"queued", "retry"} /\ delivery[m].due

Claimable(m) ==
    \/ delivery[m].status \in {"queued", "retry"} /\ delivery[m].due
    \/ delivery[m].status = "sending" /\ ~delivery[m].live

\* Mutant: attempts are not counted against the maximum.
ExhaustedNever(m) == FALSE

Exhausted(m) == delivery[m].attempts >= MaxAttempts

\* Mutant: nothing keeps attempt numbers of a delivery apart.
NumberIsFreeUnchecked(m, n) == TRUE

(* The unique index on attempt_number.                                     *)
NumberIsFree(m, n) == attempt[m][n] = "none"

\* Mutant: the attempt of a lapsed lease stays open.
TakenOverLeftOpen(m) == attempt[m]

(* Only a claim that takes over a lapsed lease finds an open attempt.       *)
TakenOver(m) == IF delivery[m].status = "sending" THEN Closed(m, "retry")
                ELSE attempt[m]

Claim(h) ==
    LET m == handler[h].message
        n == delivery[m].attempts + 1 IN
    /\ handler[h].pc = "claim" /\ Claimable(m) /\ ~Exhausted(m)
    /\ NumberIsFree(m, n)
    /\ delivery' = [delivery EXCEPT ![m] = [@ EXCEPT !.status = "sending",
          !.attempts = n, !.owner = handler[h].process, !.live = TRUE]]
    /\ attempt' = [attempt EXCEPT ![m] = [TakenOver(m) EXCEPT ![n] = "sending"]]
    /\ handler' = [handler EXCEPT ![h].pc = "send", ![h].number = n]
    /\ UNCHANGED <<issued, tasks, budget, handed, accepted>>

(* The insert fails and the claim is rolled back.                          *)
ClaimFails(h) ==
    LET m == handler[h].message IN
    /\ handler[h].pc = "claim" /\ Claimable(m) /\ ~Exhausted(m)
    /\ ~NumberIsFree(m, delivery[m].attempts + 1)
    /\ Refuse(h)
    /\ UNCHANGED <<delivery, attempt, issued, budget, handed, accepted>>

Exhaust(h) ==
    LET m == handler[h].message IN
    /\ handler[h].pc = "claim" /\ Claimable(m) /\ Exhausted(m)
    /\ delivery' = [delivery EXCEPT ![m] = [@ EXCEPT !.status = "dead",
                                            !.owner = NoProcess, !.live = FALSE]]
    /\ attempt' = [attempt EXCEPT ![m] = Closed(m, "dead")]
    /\ Acknowledge(h)
    /\ UNCHANGED <<issued, budget, handed, accepted>>

(* Nothing to claim: an ended delivery is acknowledged.                    *)
Answer(h) ==
    LET m == handler[h].message IN
    /\ handler[h].pc = "claim" /\ ~Claimable(m)
    /\ IF delivery[m].status \in Ended THEN Acknowledge(h) ELSE Refuse(h)
    /\ UNCHANGED <<delivery, attempt, issued, budget, handed, accepted>>

(* A lookup or unsealing fails, and the transaction with it.               *)
ClaimErrs(h) ==
    /\ handler[h].pc = "claim"
    /\ Spend("failure")
    /\ Refuse(h)
    /\ UNCHANGED <<delivery, attempt, issued, handed, accepted>>

(* The provider's answer: accepted, accepted but lost, an error that may   *)
(* be tried again, or a sender it will never take.                         *)
Send(h) ==
    LET m == handler[h].message IN
    /\ handler[h].pc = "send"
    /\ handed' = [handed EXCEPT ![m] = @ \cup {handler[h].number}]
    /\ \/ /\ accepted' = [accepted EXCEPT ![m] = @ + 1]
          /\ handler' = [handler EXCEPT ![h].pc = "accepted"]
          /\ UNCHANGED budget
       \/ /\ accepted' = [accepted EXCEPT ![m] = @ + 1]
          /\ handler' = [handler EXCEPT ![h].pc = "failed"]
          /\ Spend("lost")
       \/ /\ handler' = [handler EXCEPT ![h].pc = "failed"]
          /\ Spend("failure")
          /\ UNCHANGED accepted
       \/ /\ handler' = [handler EXCEPT ![h].pc = "refused"]
          /\ UNCHANGED <<budget, accepted>>
    /\ UNCHANGED <<delivery, attempt, issued, tasks>>

(* The fence of mark_sent and mark_failed.                                 *)
Owns(h) ==
    LET d == delivery[handler[h].message] IN
    d.status = "sending" /\ d.owner = handler[h].process

Record(m, status, row) ==
    /\ delivery' = [delivery EXCEPT ![m] = [@ EXCEPT !.status = status,
          !.owner = NoProcess, !.live = FALSE, !.due = FALSE]]
    /\ attempt' = [attempt EXCEPT ![m] = Closed(m, row)]

MarkSent(h) ==
    /\ handler[h].pc = "accepted" /\ Owns(h)
    /\ Record(handler[h].message, "sent", "sent")
    /\ Acknowledge(h)
    /\ UNCHANGED <<issued, budget, handed, accepted>>

AnswerRetry(h) == Refuse(h)

(* The row's count and the handler's both have to leave an attempt.        *)
MayRetry(h) ==
    /\ handler[h].pc = "failed"
    /\ handler[h].number < MaxAttempts
    /\ delivery[handler[h].message].attempts < MaxAttempts

MarkFailed(h) ==
    /\ handler[h].pc \in {"failed", "refused"} /\ Owns(h)
    /\ IF MayRetry(h)
       THEN Record(handler[h].message, "retry", "retry") /\ AnswerRetry(h)
       ELSE Record(handler[h].message, "dead", "dead") /\ Acknowledge(h)
    /\ UNCHANGED <<issued, budget, handed, accepted>>

(* mail_delivery_lease_lost                                                *)
LeaseLost(h) ==
    /\ handler[h].pc \in {"accepted", "failed", "refused"} /\ ~Owns(h)
    /\ Refuse(h)
    /\ UNCHANGED <<delivery, attempt, issued, budget, handed, accepted>>

HandlerDies(h) ==
    /\ handler[h].pc # "idle"
    /\ Spend("crash")
    /\ Refuse(h)
    /\ UNCHANGED <<delivery, attempt, issued, handed, accepted>>

-----------------------------------------------------------------------------
HandlerStep(h) ==
    Claim(h) \/ ClaimFails(h) \/ Exhaust(h) \/ Answer(h) \/ Send(h)
        \/ MarkSent(h) \/ MarkFailed(h) \/ LeaseLost(h)

(* Everything but Hatchet's handing out of a task.                         *)
Work ==
    \/ \E m \in Message : Enqueue(m) \/ RetryDelivery(m) \/ Suppress(m)
                             \/ FallDue(m) \/ LeaseLapses(m)
    \/ \E h \in Handler : HandlerStep(h) \/ ClaimErrs(h) \/ HandlerDies(h)

(* How often a task is handed out is not bounded here, and nothing says    *)
(* that it is handed out at all: see MailRetries.                          *)
Next == Work \/ \E h \in Handler, t \in tasks, p \in Process : Deliver(h, t[1], t[2], p)

Spec == Init /\ [][Next]_vars

(* Handlers run, and time passes.                                          *)
Fairness ==
    /\ \A m \in Message : WF_vars(FallDue(m)) /\ WF_vars(LeaseLapses(m))
    /\ \A h \in Handler : WF_vars(HandlerStep(h))

-----------------------------------------------------------------------------
(* What sending mail must do.                                              *)

(* The attempt rows tell what the delivery row tells: one attempt is open  *)
(* while the delivery is being sent, the one it counted last, and none     *)
(* otherwise, through lapsed leases, late results and suppressions.        *)
OneOpenAttempt == \A m \in Message :
    {n \in Numbers : attempt[m][n] = "sending"} =
        IF delivery[m].status = "sending" THEN {delivery[m].attempts} ELSE {}

(* No two calls to the provider carry the same delivery and attempt        *)
(* number, by which it deduplicates, even after a manual retry has set the *)
(* count back; and what is recorded as sent has been accepted and stays    *)
(* sent, whatever late results, complaints and retries follow.             *)
SendsAreAccountedFor ==
    [][/\ \A h \in Handler : handler[h].pc = "send" /\ handler'[h].pc # "send"
              => \/ handler[h].number \notin handed[handler[h].message]
                 \/ handler'[h].pc = "idle"
       /\ \A m \in Message : /\ delivery[m].status = "sent" => delivery'[m].status = "sent"
                             /\ delivery'[m].status = "sent" => accepted[m] > 0]_vars

Spent(f) == Budget[f] - budget[f]

(* A message is accepted twice only for a reason: a lost answer, a crash,  *)
(* a lapsed lease or a manual retry, and at most once more for each.       *)
DuplicatesHaveACause == \A m \in Message :
    accepted[m] <= 1 + Spent("lost") + Spent("crash") + Spent("lapse")
                     + Spent("requeue")
=============================================================================
