---------------------------- MODULE MailRetries ----------------------------
(***************************************************************************)
(* Sending mail under Hatchet's retry budget: a task is handed out once,   *)
(* and again after each answer that is an error, until its retries are     *)
(* used up.  A delivery that comes before the row is due, or while a lease *)
(* is live, is answered with an error and uses up one of them.             *)
(***************************************************************************)
EXTENDS Mail

CONSTANTS
    Retries,   \* maxTaskRetries: 25 in the code, as MAX_DELIVERY_ATTEMPTS is
    Doubles    \* bound: how often a task is handed out while it is being executed

ASSUME RetriesAssumption == Retries \in Nat /\ Doubles \in Nat

VARIABLES
    left,   \* deliveries that are left of each task
    doubles,\* what is left of Doubles
    early   \* history: messages that a delivery came too early for

retryVars == <<vars, left, doubles, early>>

RetryInit ==
    /\ Init
    /\ left = [t \in tasks |-> Retries + 1]
    /\ doubles = Doubles
    /\ early = {}

(* The row waits for its time, or for the end of a lease.                  *)
Waits(m) ==
    \/ delivery[m].status \in {"queued", "retry"} /\ ~delivery[m].due
    \/ delivery[m].status = "sending" /\ delivery[m].live

TurnedAway(m) ==
    /\ Waits(m) /\ UNCHANGED budget
    /\ \E h \in Handler : /\ handler[h].message = m /\ handler[h].pc = "claim"
                          /\ handler'[h].pc = "idle"

RetryWork ==
    /\ Work
    /\ left' = [t \in tasks' |-> IF t \in tasks THEN left[t] ELSE Retries + 1]
    /\ early' = early \cup {m \in Message : TurnedAway(m)}
    /\ UNCHANGED doubles

Executed(t) == \E h \in Handler : /\ handler[h].pc # "idle"
                                  /\ handler[h].message = t[1] /\ handler[h].key = t[2]

RetryDeliver(t) ==
    /\ left[t] > 0
    /\ \E h \in Handler, p \in Process : Deliver(h, t[1], t[2], p)
    /\ left' = [left EXCEPT ![t] = @ - 1]
    /\ IF Executed(t) THEN doubles > 0 /\ doubles' = doubles - 1 ELSE UNCHANGED doubles
    /\ UNCHANGED early

RetryNext == RetryWork \/ \E t \in tasks : RetryDeliver(t)

(* Hatchet hands out every task that has deliveries left.                  *)
RetryFairSpec ==
    /\ RetryInit /\ [][RetryNext]_retryVars
    /\ Fairness
    /\ \A t \in Message \X (1 .. Budget["requeue"] + 1) :
          WF_retryVars(t \in tasks /\ RetryDeliver(t))

-----------------------------------------------------------------------------
(* Hatchet has given up every task of m.                                   *)
GivenUp(m) ==
    /\ \E t \in tasks : t[1] = m
    /\ \A t \in tasks : t[1] = m => left[t] = 0
    /\ \A h \in Handler : handler[h].pc # "idle" => handler[h].message # m

Fresh(m) == /\ delivery[m].status = "queued"
            /\ \A n \in Numbers : attempt[m][n] = "none"

(* A queued delivery that was not tried before is sent, given up for dead  *)
(* or cancelled.  What the code leaves out: one whose retries were used up *)
(* by deliveries that came before it was due, or before a lease ran out.   *)
EveryDeliveryEnds == \A m \in Message :
    Fresh(m) ~> delivery[m].status \in Ended \/ (GivenUp(m) /\ m \in early)

(* Hatchet carries the retry budget of the row (the comment of             *)
(* maxTaskRetries).  Not so: a provider may ask for a wait longer than all *)
(* retries take, and nothing hands out the task after it.                  *)
RetriesCarryAttempts == \A m \in Message : Fresh(m) ~> delivery[m].status \in Ended

(* A dead or cancelled delivery that is queued again is tried again: the   *)
(* endpoint says it will "Requeue a dead or cancelled mail delivery".  Not *)
(* so: it fails on the numbers of its earlier attempts.                    *)
RequeuedIsTried == \A m \in Message :
    delivery[m].status = "queued" ~> delivery[m].status # "queued"
=============================================================================
