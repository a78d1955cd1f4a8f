----------------------------- MODULE MailProofs -----------------------------
(***************************************************************************)
(* Proofs about Mail, for any number of deliveries, worker processes and   *)
(* attempts, any finite number of executions, and any budget of faults.    *)
(***************************************************************************)
EXTENDS Mail, FiniteSetTheorems, TLAPS

-----------------------------------------------------------------------------
(* Types.                                                                  *)

DeliveryRow == [status : Status, attempts : 0 .. MaxAttempts,
                owner : Process \cup {NoProcess}, live : BOOLEAN, due : BOOLEAN]
AttemptRow  == [Numbers -> {"none", "sending", "sent", "retry", "dead"}]
HandlerRow  == [pc : Stages, message : Message \cup {NoMessage}, key : Nat,
                process : Process \cup {NoProcess}, number : 0 .. MaxAttempts]

Tables ==
    /\ delivery \in [Message -> DeliveryRow]
    /\ attempt \in [Message -> AttemptRow]
    /\ issued \in [Message -> Nat]
    /\ tasks \subseteq Message \X Nat
    /\ handler \in [Handler -> HandlerRow]
    /\ budget \in [Fault -> Nat]
    /\ handed \in [Message -> SUBSET Numbers]
    /\ accepted \in [Message -> Nat]

LEMMA Types == (TypeOK <=> Tables) /\ (TypeOK' <=> Tables')
BY DEF TypeOK, Tables, DeliveryRow, AttemptRow, HandlerRow

(* One row of a table is written.                                          *)
LEMMA Put ==
    ASSUME NEW S, NEW T, NEW f \in [S -> T], NEW x \in S, NEW v \in T
    PROVE  /\ [f EXCEPT ![x] = v] \in [S -> T]
           /\ [f EXCEPT ![x] = v][x] = v
           /\ \A y \in S : y # x => [f EXCEPT ![x] = v][y] = f[y]
OBVIOUS

(* Executions past their claim, which have opened an attempt.              *)
Opened == {"send", "accepted", "failed", "refused"}

(* A busy execution works on a delivery, in a process, and past its claim  *)
(* on an attempt.                                                          *)
References == \A h \in Handler :
    /\ handler[h].pc # "idle" => handler[h].message \in Message /\ handler[h].process \in Process
    /\ IF handler[h].pc \in Opened THEN handler[h].number # 0
       ELSE handler[h].number = 0

TInv == Tables /\ References

LEMMA Counts ==
    /\ MaxAttempts \in Nat /\ 0 \in 0 .. MaxAttempts
    /\ \A n \in 0 .. MaxAttempts : n + 1 \in Numbers /\ (n # 0 => n \in Numbers)
    /\ \A n \in 0 .. MaxAttempts : n < MaxAttempts => n + 1 \in 0 .. MaxAttempts
BY MailAssumption DEF MailAssumption, Numbers

LEMMA Blank ==
    /\ NoDelivery \in DeliveryRow /\ IdleHandler \in HandlerRow
    /\ \A m : Queued(m) \in DeliveryRow /\ Queued(m).status = "queued"
BY Counts DEF NoDelivery, IdleHandler, Queued, DeliveryRow, HandlerRow, Status, Ended, Stages

LEMMA TypeInit == Init => TInv
BY Blank, Counts, MailAssumption DEF MailAssumption, Init, TInv, Tables, References,
   AttemptRow, IdleHandler, Opened

LEMMA Spending ==
    ASSUME TInv, NEW f \in Fault, Spend(f)
    PROVE  /\ budget' \in [Fault -> Nat] /\ budget'[f] = budget[f] - 1
           /\ \A g \in Fault : g # f => budget'[g] = budget[g]
BY DEF Spend, TInv, Tables

-----------------------------------------------------------------------------
(* What the steps write: those of a row that no execution takes ...        *)

RowStep(m) == Enqueue(m) \/ RetryDelivery(m) \/ Suppress(m) \/ FallDue(m) \/ LeaseLapses(m)

LEMMA RowStepWrites ==
    ASSUME TInv, NEW m \in Message, RowStep(m)
    PROVE  /\ TInv'
           /\ UNCHANGED <<attempt, handler, handed, accepted>>
           /\ \A k \in Message : k # m => delivery'[k] = delivery[k]
           /\ delivery'[m].status = "sending" <=> delivery[m].status = "sending"
           /\ delivery'[m].status = "sent" <=> delivery[m].status = "sent"
           /\ delivery[m].status = "sending" =>
                  delivery'[m].attempts = delivery[m].attempts
                      /\ delivery'[m].owner = delivery[m].owner
<1>0. Tables /\ delivery \in [Message -> DeliveryRow] /\ delivery[m] \in DeliveryRow
  BY DEF TInv, Tables
<1>1. /\ issued' \in [Message -> Nat] /\ tasks' \subseteq Message \X Nat
      /\ UNCHANGED <<attempt, handler, handed, accepted>>
  BY <1>0 DEF RowStep, Enqueue, RetryDelivery, Suppress, FallDue, LeaseLapses, Queue, Tables
<1>2. budget' \in [Fault -> Nat]
  BY <1>0, Spending DEF RowStep, Enqueue, RetryDelivery, Suppress, FallDue, LeaseLapses,
     Tables, Fault
<1>3. \E v \in DeliveryRow :
         /\ delivery' = [delivery EXCEPT ![m] = v]
         /\ v.status = "sending" <=> delivery[m].status = "sending"
         /\ v.status = "sent" <=> delivery[m].status = "sent"
         /\ delivery[m].status = "sending" =>
                v.attempts = delivery[m].attempts /\ v.owner = delivery[m].owner
  <2>1. CASE Enqueue(m) \/ RetryDelivery(m)
    BY <2>1, Blank DEF Enqueue, RetryDelivery, Queue
  <2>2. CASE Suppress(m)
    <3> DEFINE v == [delivery[m] EXCEPT !.status = "cancelled", !.owner = NoProcess, !.live = FALSE]
    <3>1. v \in DeliveryRow /\ v.status = "cancelled"
      BY <1>0 DEF DeliveryRow, Status, Ended
    <3>2. delivery' = [delivery EXCEPT ![m] = v] /\ delivery[m].status \in {"queued", "retry"}
      BY <2>2 DEF Suppress
    <3> HIDE DEF v
    <3> QED BY <3>1, <3>2
  <2>3. CASE FallDue(m)
    <3> DEFINE v == [delivery[m] EXCEPT !.due = TRUE]
    <3>1. v \in DeliveryRow /\ v.status = delivery[m].status
      BY <1>0 DEF DeliveryRow
    <3>2. delivery' = [delivery EXCEPT ![m] = v] /\ delivery[m].status = "retry"
      BY <2>3 DEF FallDue
    <3> HIDE DEF v
    <3> QED BY <3>1, <3>2
  <2>4. CASE LeaseLapses(m)
    <3> DEFINE v == [delivery[m] EXCEPT !.live = FALSE]
    <3>1. /\ v \in DeliveryRow /\ v.status = delivery[m].status
          /\ v.attempts = delivery[m].attempts /\ v.owner = delivery[m].owner
      BY <1>0 DEF DeliveryRow
    <3>2. delivery' = [delivery EXCEPT ![m] = v]
      BY <2>4 DEF LeaseLapses
    <3> HIDE DEF v
    <3> QED BY <3>1, <3>2
  <2> QED BY <2>1, <2>2, <2>3, <2>4 DEF RowStep
<1>4. /\ delivery' \in [Message -> DeliveryRow]
      /\ \A k \in Message : k # m => delivery'[k] = delivery[k]
      /\ delivery'[m].status = "sending" <=> delivery[m].status = "sending"
      /\ delivery'[m].status = "sent" <=> delivery[m].status = "sent"
      /\ delivery[m].status = "sending" =>
             delivery'[m].attempts = delivery[m].attempts
                 /\ delivery'[m].owner = delivery[m].owner
  BY <1>0, <1>3, Put
<1> QED BY <1>0, <1>1, <1>2, <1>4 DEF TInv, Tables, References

(* ... the deliveries of tasks, and whatever ends an execution and leaves  *)
(* the rows as they are ...                                                *)

QuietStep(h) ==
    \/ \E t \in tasks, p \in Process : Deliver(h, t[1], t[2], p)
    \/ ClaimFails(h) \/ Answer(h) \/ ClaimErrs(h) \/ LeaseLost(h) \/ HandlerDies(h)

LEMMA QuietStepWrites ==
    ASSUME TInv, NEW h \in Handler, QuietStep(h)
    PROVE  /\ TInv'
           /\ UNCHANGED <<delivery, attempt, handed, accepted>>
           /\ \A g \in Handler : g # h => handler'[g] = handler[g]
           /\ handler'[h].pc \in {"idle", "claim"}
<1>0. Tables /\ handler[h] \in HandlerRow
  BY DEF TInv, Tables
<1>1. /\ tasks' \subseteq Message \X Nat
      /\ UNCHANGED <<delivery, attempt, issued, handed, accepted>>
  BY <1>0 DEF QuietStep, Deliver, ClaimFails, Answer, ClaimErrs, LeaseLost, HandlerDies,
     Acknowledge, Refuse, Tables
<1>2. budget' \in [Fault -> Nat]
  BY <1>0, Spending DEF QuietStep, Deliver, ClaimFails, Answer, ClaimErrs, LeaseLost,
     HandlerDies, Tables, Fault
<1>3. \E v \in HandlerRow :
         /\ handler' = [handler EXCEPT ![h] = v]
         /\ v.pc \in {"idle", "claim"} /\ v.number = 0
         /\ v.pc # "idle" => v.message \in Message /\ v.process \in Process
  <2>1. ASSUME NEW t \in tasks, NEW p \in Process, Deliver(h, t[1], t[2], p)
        PROVE  \E v \in HandlerRow :
                  /\ handler' = [handler EXCEPT ![h] = v]
                  /\ v.pc = "claim" /\ v.number = 0
                  /\ v.message \in Message /\ v.process \in Process
    <3> DEFINE v == [pc |-> "claim", message |-> t[1], key |-> t[2], process |-> p, number |-> 0]
    <3>1. t[1] \in Message /\ t[2] \in Nat
      BY <1>0 DEF Tables
    <3>2. v \in HandlerRow
      BY <3>1, Counts DEF HandlerRow, Stages
    <3>3. handler' = [handler EXCEPT ![h] = v]
      BY <2>1 DEF Deliver
    <3> QED BY <3>1, <3>2, <3>3
  <2>2. CASE handler' = [handler EXCEPT ![h] = IdleHandler]
    BY <2>2, Blank DEF IdleHandler
  <2> QED BY <2>1, <2>2 DEF QuietStep, ClaimFails, Answer, ClaimErrs, LeaseLost,
              HandlerDies, Acknowledge, Refuse, Return
<1>4. /\ handler' \in [Handler -> HandlerRow]
      /\ \A g \in Handler : g # h => handler'[g] = handler[g]
      /\ handler'[h].pc \in {"idle", "claim"} /\ handler'[h].number = 0
      /\ handler'[h].pc # "idle" => handler'[h].message \in Message /\ handler'[h].process \in Process
  BY <1>0, <1>3, Put DEF Tables
<1>5. References'
  BY <1>4 DEF TInv, References, Opened
<1> QED BY <1>0, <1>1, <1>2, <1>4, <1>5 DEF TInv, Tables

(* ... a claim ...                                                         *)
LEMMA ClaimWrites ==
    ASSUME TInv, NEW h \in Handler, Claim(h),
           NEW m, m = handler[h].message, NEW n, n = delivery[m].attempts + 1
    PROVE  /\ TInv'
           /\ UNCHANGED <<budget, handed, accepted>>
           /\ m \in Message /\ n \in Numbers /\ n # 0 /\ handler[h].pc = "claim"
           /\ Claimable(m) /\ attempt[m][n] = "none"
           /\ \A k \in Message : k # m => delivery'[k] = delivery[k] /\ attempt'[k] = attempt[k]
           /\ delivery'[m].status = "sending" /\ delivery'[m].attempts = n
           /\ delivery'[m].live /\ delivery'[m].owner = handler[h].process
           /\ attempt'[m][n] = "sending"
           /\ \A k \in Numbers : k # n => attempt'[m][k] = TakenOver(m)[k]
           /\ \A g \in Handler : g # h => handler'[g] = handler[g]
           /\ handler'[h].pc = "send" /\ handler'[h].number = n
           /\ handler'[h].message = m /\ handler'[h].process = handler[h].process
<1>0. /\ Tables /\ handler[h] \in HandlerRow /\ handler[h].pc = "claim"
      /\ m \in Message /\ handler[h].process \in Process
      /\ delivery[m] \in DeliveryRow /\ attempt[m] \in AttemptRow
  BY DEF Claim, TInv, Tables, References
<1>1. n \in Numbers /\ n \in 0 .. MaxAttempts /\ n # 0
  BY <1>0, Counts DEF Claim, Exhausted, DeliveryRow
<1>2. /\ Claimable(m) /\ attempt[m][n] = "none"
      /\ UNCHANGED <<issued, tasks, budget, handed, accepted>>
  BY DEF Claim, NumberIsFree
<1>3. /\ delivery' \in [Message -> DeliveryRow]
      /\ \A k \in Message : k # m => delivery'[k] = delivery[k]
      /\ delivery'[m].status = "sending" /\ delivery'[m].attempts = n
      /\ delivery'[m].live /\ delivery'[m].owner = handler[h].process
  <2> DEFINE v == [delivery[m] EXCEPT !.status = "sending", !.attempts = n,
                                      !.owner = handler[h].process, !.live = TRUE]
  <2>1. delivery' = [delivery EXCEPT ![m] = v]
    BY DEF Claim
  <2>2. /\ v \in DeliveryRow /\ v.status = "sending" /\ v.attempts = n
        /\ v.live /\ v.owner = handler[h].process
    BY <1>0, <1>1 DEF DeliveryRow, Status
  <2> HIDE DEF v
  <2> QED BY <1>0, <2>1, <2>2, Put DEF Tables
<1>4. TakenOver(m) \in AttemptRow
  BY <1>0 DEF TakenOver, Closed, AttemptRow
<1>5. /\ attempt' \in [Message -> AttemptRow]
      /\ \A k \in Message : k # m => attempt'[k] = attempt[k]
      /\ attempt'[m][n] = "sending"
      /\ \A k \in Numbers : k # n => attempt'[m][k] = TakenOver(m)[k]
  <2> DEFINE v == [TakenOver(m) EXCEPT ![n] = "sending"]
  <2>1. attempt' = [attempt EXCEPT ![m] = v]
    BY DEF Claim
  <2>2. /\ v \in AttemptRow /\ v[n] = "sending"
        /\ \A k \in Numbers : k # n => v[k] = TakenOver(m)[k]
    BY <1>1, <1>4 DEF AttemptRow
  <2> HIDE DEF v
  <2> QED BY <1>0, <2>1, <2>2, Put DEF Tables
<1>6. /\ handler' \in [Handler -> HandlerRow]
      /\ \A g \in Handler : g # h => handler'[g] = handler[g]
      /\ handler'[h].pc = "send" /\ handler'[h].number = n
      /\ handler'[h].message = m /\ handler'[h].process = handler[h].process
  <2> DEFINE v == [handler[h] EXCEPT !.pc = "send", !.number = n]
  <2>1. handler' = [handler EXCEPT ![h] = v]
    BY <1>0 DEF Claim, Tables
  <2>2. /\ v \in HandlerRow /\ v.pc = "send" /\ v.number = n
        /\ v.message = m /\ v.process = handler[h].process
    BY <1>0, <1>1 DEF HandlerRow, Stages
  <2> HIDE DEF v
  <2> QED BY <1>0, <2>1, <2>2, Put DEF Tables
<1>7. Tables'
  BY <1>0, <1>2, <1>3, <1>5, <1>6 DEF Tables
<1>8. References'
  BY <1>0, <1>1, <1>6 DEF TInv, References, Opened
<1> QED BY <1>0, <1>1, <1>2, <1>3, <1>5, <1>6, <1>7, <1>8 DEF TInv

(* ... a call of the provider ...                                          *)
LEMMA SendWrites ==
    ASSUME TInv, NEW h \in Handler, Send(h), NEW m, m = handler[h].message
    PROVE  /\ TInv'
           /\ UNCHANGED <<delivery, attempt>>
           /\ m \in Message /\ handler[h].pc = "send" /\ handler[h].number \in Numbers
           /\ \A k \in Message : k # m => handed'[k] = handed[k] /\ accepted'[k] = accepted[k]
           /\ handed'[m] = handed[m] \cup {handler[h].number}
           /\ \A g \in Handler : g # h => handler'[g] = handler[g]
           /\ handler'[h].pc \in {"accepted", "failed", "refused"}
           /\ handler'[h].message = m /\ handler'[h].number = handler[h].number
           /\ handler'[h].process = handler[h].process
           /\ \/ /\ handler'[h].pc = "accepted" /\ UNCHANGED budget
                 /\ accepted'[m] = accepted[m] + 1
              \/ /\ handler'[h].pc = "failed" /\ Spend("lost")
                 /\ accepted'[m] = accepted[m] + 1
              \/ /\ handler'[h].pc = "failed" /\ Spend("failure")
                 /\ accepted'[m] = accepted[m]
              \/ /\ handler'[h].pc = "refused" /\ UNCHANGED budget
                 /\ accepted'[m] = accepted[m]
<1>0. /\ Tables /\ handler[h] \in HandlerRow /\ handler[h].pc = "send"
      /\ m \in Message /\ handler[h].number \in Numbers
  <2>1. Tables /\ handler[h].pc = "send" /\ handler[h] \in HandlerRow /\ m \in Message
    BY DEF Send, TInv, Tables, References
  <2>2. handler[h].number \in 0 .. MaxAttempts /\ handler[h].number # 0
    BY <2>1 DEF TInv, References, Opened, HandlerRow
  <2> QED BY <2>1, <2>2, Counts
<1>1. UNCHANGED <<delivery, attempt, issued, tasks>>
  BY DEF Send
<1>2. /\ handed' \in [Message -> SUBSET Numbers]
      /\ handed'[m] = handed[m] \cup {handler[h].number}
      /\ \A k \in Message : k # m => handed'[k] = handed[k]
  BY <1>0 DEF Send, Tables
<1>3. PICK pc \in {"accepted", "failed", "refused"} :
         /\ handler' = [handler EXCEPT ![h].pc = pc]
         /\ \/ /\ pc = "accepted" /\ UNCHANGED budget
               /\ accepted' = [accepted EXCEPT ![m] = @ + 1]
            \/ /\ pc = "failed" /\ Spend("lost")
               /\ accepted' = [accepted EXCEPT ![m] = @ + 1]
            \/ pc = "failed" /\ Spend("failure") /\ UNCHANGED accepted
            \/ pc = "refused" /\ UNCHANGED <<budget, accepted>>
  BY DEF Send
<1>4. /\ handler' \in [Handler -> HandlerRow]
      /\ \A g \in Handler : g # h => handler'[g] = handler[g]
      /\ handler'[h].pc = pc
      /\ handler'[h].message = m /\ handler'[h].number = handler[h].number
      /\ handler'[h].process = handler[h].process
  <2> DEFINE v == [handler[h] EXCEPT !.pc = pc]
  <2>1. handler' = [handler EXCEPT ![h] = v]
    BY <1>3
  <2>2. /\ v \in HandlerRow /\ v.pc = pc /\ v.number = handler[h].number
        /\ v.message = m /\ v.process = handler[h].process
    BY <1>0, <1>3 DEF HandlerRow, Stages
  <2> HIDE DEF v
  <2> QED BY <1>0, <2>1, <2>2, Put DEF Tables
<1>5. /\ accepted' \in [Message -> Nat]
      /\ \A k \in Message : k # m => accepted'[k] = accepted[k]
  BY <1>0, <1>3 DEF Tables
<1>6. budget' \in [Fault -> Nat]
  BY <1>0, <1>3, Spending DEF Tables, Fault
<1>7. \/ pc = "accepted" /\ UNCHANGED budget /\ accepted'[m] = accepted[m] + 1
      \/ pc = "failed" /\ Spend("lost") /\ accepted'[m] = accepted[m] + 1
      \/ pc = "failed" /\ Spend("failure") /\ accepted'[m] = accepted[m]
      \/ pc = "refused" /\ UNCHANGED budget /\ accepted'[m] = accepted[m]
  <2>1. accepted' = [accepted EXCEPT ![m] = @ + 1] => accepted'[m] = accepted[m] + 1
    BY <1>0 DEF Tables
  <2> QED BY <1>3, <2>1
<1>8. Tables'
  BY <1>0, <1>1, <1>2, <1>4, <1>5, <1>6 DEF Tables
<1>9. References'
  BY <1>0, <1>3, <1>4 DEF TInv, References, Opened
<1> QED BY <1>0, <1>1, <1>2, <1>3, <1>4, <1>5, <1>7, <1>8, <1>9 DEF TInv

(* ... and the end of a delivery, or of one of its tries.                  *)

FinishStep(h) == Exhaust(h) \/ MarkSent(h) \/ MarkFailed(h)

LEMMA FinishWrites ==
    ASSUME TInv, NEW h \in Handler, FinishStep(h), NEW m, m = handler[h].message
    PROVE  /\ TInv'
           /\ UNCHANGED <<budget, handed, accepted>>
           /\ m \in Message /\ handler[h].pc # "idle"
           /\ \A k \in Message : k # m => delivery'[k] = delivery[k] /\ attempt'[k] = attempt[k]
           /\ \/ /\ handler[h].pc = "claim" /\ Claimable(m)
                 /\ delivery'[m].status = "dead"
              \/ /\ handler[h].pc \in Opened /\ Owns(h)
                 /\ \/ handler[h].pc = "accepted" /\ delivery'[m].status = "sent"
                    \/ handler[h].pc = "failed" /\ delivery'[m].status = "retry"
                    \/ delivery'[m].status = "dead"
           /\ \E s \in {"sent", "retry", "dead"} : attempt'[m] = Closed(m, s)
           /\ \A g \in Handler : g # h => handler'[g] = handler[g]
           /\ handler'[h] = IdleHandler
<1>0. /\ Tables /\ handler[h] \in HandlerRow /\ handler[h].pc # "idle"
      /\ m \in Message /\ delivery[m] \in DeliveryRow /\ attempt[m] \in AttemptRow
  BY DEF FinishStep, Exhaust, MarkSent, MarkFailed, TInv, Tables, References
<1>1. /\ UNCHANGED <<issued, budget, handed, accepted>>
      /\ tasks' \subseteq tasks
      /\ handler' = [handler EXCEPT ![h] = IdleHandler]
  BY DEF FinishStep, Exhaust, MarkSent, MarkFailed, Acknowledge, AnswerRetry, Refuse, Return
<1>2. /\ handler' \in [Handler -> HandlerRow]
      /\ \A g \in Handler : g # h => handler'[g] = handler[g]
      /\ handler'[h] = IdleHandler
  BY <1>0, <1>1, Blank, Put DEF Tables
<1>3. \E s \in {"sent", "retry", "dead"} : attempt' = [attempt EXCEPT ![m] = Closed(m, s)]
  BY DEF FinishStep, Exhaust, MarkSent, MarkFailed, Record
<1>4. \A s \in {"sent", "retry", "dead"} : Closed(m, s) \in AttemptRow
  BY <1>0 DEF Closed, AttemptRow
<1>5. /\ attempt' \in [Message -> AttemptRow]
      /\ \A k \in Message : k # m => attempt'[k] = attempt[k]
      /\ \E s \in {"sent", "retry", "dead"} : attempt'[m] = Closed(m, s)
  BY <1>0, <1>3, <1>4, Put DEF Tables
<1>6. \E v \in DeliveryRow :
         /\ delivery' = [delivery EXCEPT ![m] = v]
         /\ \/ handler[h].pc = "claim" /\ Claimable(m) /\ v.status = "dead"
            \/ /\ handler[h].pc \in Opened /\ Owns(h)
               /\ \/ handler[h].pc = "accepted" /\ v.status = "sent"
                  \/ handler[h].pc = "failed" /\ v.status = "retry"
                  \/ v.status = "dead"
  <2> DEFINE v(s) == [delivery[m] EXCEPT !.status = s, !.owner = NoProcess,
                                         !.live = FALSE, !.due = FALSE]
  <2>1. \A s \in Status : v(s) \in DeliveryRow /\ v(s).status = s
    BY <1>0 DEF DeliveryRow
  <2>2. CASE Exhaust(h)
    <3> DEFINE u == [delivery[m] EXCEPT !.status = "dead", !.owner = NoProcess, !.live = FALSE]
    <3>1. u \in DeliveryRow /\ u.status = "dead"
      BY <1>0 DEF DeliveryRow, Status, Ended
    <3>2. delivery' = [delivery EXCEPT ![m] = u] /\ handler[h].pc = "claim" /\ Claimable(m)
      BY <2>2 DEF Exhaust
    <3> HIDE DEF u
    <3> QED BY <3>1, <3>2
  <2>3. CASE MarkSent(h)
    <3>1. /\ delivery' = [delivery EXCEPT ![m] = v("sent")]
          /\ handler[h].pc = "accepted" /\ Owns(h)
      BY <2>3 DEF MarkSent, Record
    <3> HIDE DEF v
    <3> QED BY <2>1, <3>1 DEF Status, Ended, Opened
  <2>4. CASE MarkFailed(h)
    <3>1. /\ \/ /\ handler[h].pc = "failed"
                /\ delivery' = [delivery EXCEPT ![m] = v("retry")]
             \/ delivery' = [delivery EXCEPT ![m] = v("dead")]
          /\ handler[h].pc \in Opened /\ Owns(h)
      BY <2>4 DEF MarkFailed, MayRetry, Record, Opened
    <3> HIDE DEF v
    <3> QED BY <2>1, <3>1 DEF Status, Ended
  <2> QED BY <2>2, <2>3, <2>4 DEF FinishStep
<1>7. /\ delivery' \in [Message -> DeliveryRow]
      /\ \A k \in Message : k # m => delivery'[k] = delivery[k]
      /\ \/ /\ handler[h].pc = "claim" /\ Claimable(m)
            /\ delivery'[m].status = "dead"
         \/ /\ handler[h].pc \in Opened /\ Owns(h)
            /\ \/ handler[h].pc = "accepted" /\ delivery'[m].status = "sent"
               \/ handler[h].pc = "failed" /\ delivery'[m].status = "retry"
               \/ delivery'[m].status = "dead"
  BY <1>0, <1>6, Put DEF Tables
<1>8. Tables'
  BY <1>0, <1>1, <1>2, <1>5, <1>7 DEF Tables
<1>9. References'
  BY <1>2 DEF TInv, References, IdleHandler, Opened
<1> QED BY <1>0, <1>1, <1>2, <1>5, <1>7, <1>8, <1>9 DEF TInv

-----------------------------------------------------------------------------
(* Every step is one of these.                                             *)
LEMMA StepIsOneOf ==
    ASSUME Next
    PROVE  \/ \E m \in Message : RowStep(m)
           \/ \E h \in Handler : QuietStep(h) \/ Claim(h) \/ Send(h) \/ FinishStep(h)
BY DEF Next, Work, HandlerStep, RowStep, QuietStep, FinishStep

LEMMA TypeStep == TInv /\ [Next]_vars => TInv'
<1> SUFFICES ASSUME TInv, [Next]_vars PROVE TInv'
  OBVIOUS
<1>1. CASE Next
  BY <1>1, StepIsOneOf, RowStepWrites, QuietStepWrites, ClaimWrites, SendWrites, FinishWrites
<1>2. CASE UNCHANGED vars
  BY <1>2 DEF vars, TInv, Tables, References
<1> QED BY <1>1, <1>2

(* The variables of Mail hold what their tables may hold, always.          *)
THEOREM TypeCorrect == Spec => []TypeOK
<1>1. TInv => TypeOK
  BY Types DEF TInv
<1> QED BY <1>1, TypeInit, TypeStep, PTL DEF Spec

-----------------------------------------------------------------------------
(* One attempt is open at a time, and attempt numbers tell calls apart.    *)

At(h, m) == handler[h].message = m /\ handler[h].pc \in Opened

(* A number is used once in the life of a delivery, whatever sets its      *)
(* count back, and by one execution.                                       *)
NumbersUsed ==
    /\ \A m \in Message : \A n \in handed[m] : attempt[m][n] # "none"
    /\ \A m \in Message : \A h \in Handler :
           At(h, m) => attempt[m][handler[h].number] # "none"
    /\ \A m \in Message : \A g, h \in Handler :
           At(g, m) /\ At(h, m) /\ handler[g].number = handler[h].number => g = h

(* Who has not called the provider has a number it has not seen.           *)
SendsAreFresh == \A m \in Message : \A h \in Handler :
    At(h, m) /\ handler[h].pc = "send" => handler[h].number \notin handed[m]

(* The execution of the attempt that is open passes the fence.             *)
CurrentOwns == \A m \in Message : delivery[m].status = "sending" =>
    /\ delivery[m].attempts # 0
    /\ \A h \in Handler : At(h, m) /\ handler[h].number = delivery[m].attempts
           => delivery[m].owner = handler[h].process

(* What is about to be recorded as sent, or is, has been accepted.         *)
SentIsAccepted == \A m \in Message :
    /\ delivery[m].status = "sent" => accepted[m] > 0
    /\ \A h \in Handler : At(h, m) /\ handler[h].pc = "accepted" => accepted[m] > 0

(* OneOpenAttempt, number by number.                                       *)
OpenIsCounted == \A m \in Message, n \in Numbers :
    attempt[m][n] = "sending" <=> delivery[m].status = "sending" /\ n = delivery[m].attempts

AInv == TInv /\ OpenIsCounted /\ NumbersUsed /\ SendsAreFresh /\ CurrentOwns /\ SentIsAccepted

LEMMA OpenIsOne == AInv => OneOpenAttempt
<1> SUFFICES ASSUME AInv, NEW m \in Message
             PROVE  {n \in Numbers : attempt[m][n] = "sending"} =
                        IF delivery[m].status = "sending" THEN {delivery[m].attempts} ELSE {}
  BY DEF OneOpenAttempt
<1>1. delivery[m].attempts \in 0 .. MaxAttempts
  BY DEF AInv, TInv, Tables, DeliveryRow
<1>2. delivery[m].status = "sending" => delivery[m].attempts \in Numbers
  BY <1>1, Counts DEF AInv, CurrentOwns
<1>3. \A n \in Numbers :
          attempt[m][n] = "sending" <=> delivery[m].status = "sending" /\ n = delivery[m].attempts
  BY DEF AInv, OpenIsCounted
<1> QED BY <1>2, <1>3

LEMMA AttemptsInit == Init => AInv
BY TypeInit, Counts DEF Init, AInv, OpenIsCounted, NumbersUsed, SendsAreFresh, CurrentOwns,
   SentIsAccepted, NoDelivery, IdleHandler, At, Opened

(* Steps that leave the executions past their claim and the attempts as    *)
(* they are, but for executions that end.                                  *)
LEMMA Undisturbed ==
    ASSUME AInv, TInv',
           UNCHANGED <<attempt, handed, accepted>>,
           \A h \in Handler : handler'[h] = handler[h] \/ handler'[h].pc \notin Opened,
           \A m \in Message :
               /\ delivery'[m].status = "sending" <=> delivery[m].status = "sending"
               /\ delivery'[m].status = "sent" <=> delivery[m].status = "sent"
               /\ delivery[m].status = "sending" =>
                      delivery'[m].attempts = delivery[m].attempts
                          /\ delivery'[m].owner = delivery[m].owner
    PROVE  AInv'
<1>1. \A m \in Message, h \in Handler :
          handler'[h].message = m /\ handler'[h].pc \in Opened
              => At(h, m) /\ handler'[h] = handler[h]
  BY DEF At
<1>2. OpenIsCounted'
  BY DEF AInv, OpenIsCounted
<1>3. NumbersUsed'
  BY <1>1 DEF AInv, NumbersUsed, At
<1>4. SendsAreFresh'
  BY <1>1 DEF AInv, SendsAreFresh, At
<1>5. CurrentOwns'
  BY <1>1 DEF AInv, CurrentOwns, At
<1>6. SentIsAccepted'
  BY <1>1 DEF AInv, SentIsAccepted, At
<1> QED BY <1>2, <1>3, <1>4, <1>5, <1>6 DEF AInv

LEMMA RowStepAttempts ==
    ASSUME AInv, NEW m \in Message, RowStep(m) PROVE AInv'
<1>1. TInv
  BY DEF AInv
<1> QED BY <1>1, RowStepWrites, Undisturbed

LEMMA QuietStepAttempts ==
    ASSUME AInv, NEW h \in Handler, QuietStep(h) PROVE AInv'
<1>1. TInv /\ "idle" \notin Opened /\ "claim" \notin Opened
  BY DEF AInv, Opened
<1> QED BY <1>1, QuietStepWrites, Undisturbed

(* The number of a claim is new, and the attempt it takes over is closed.  *)
LEMMA ClaimAttempts ==
    ASSUME AInv, NEW h \in Handler, Claim(h) PROVE AInv'
<1> DEFINE m == handler[h].message
           n == delivery[m].attempts + 1
<1>0. TInv
  BY DEF AInv
<1>1. /\ TInv'
      /\ UNCHANGED <<budget, handed, accepted>>
      /\ m \in Message /\ n \in Numbers /\ n # 0 /\ handler[h].pc = "claim"
      /\ Claimable(m) /\ attempt[m][n] = "none"
      /\ \A k \in Message : k # m => delivery'[k] = delivery[k] /\ attempt'[k] = attempt[k]
      /\ delivery'[m].status = "sending" /\ delivery'[m].attempts = n
      /\ delivery'[m].owner = handler[h].process
      /\ attempt'[m][n] = "sending"
      /\ \A k \in Numbers : k # n => attempt'[m][k] = TakenOver(m)[k]
      /\ \A g \in Handler : g # h => handler'[g] = handler[g]
      /\ handler'[h].pc = "send" /\ handler'[h].number = n
      /\ handler'[h].message = m /\ handler'[h].process = handler[h].process
  BY <1>0, ClaimWrites
<1> HIDE DEF m, n
<1>2. \A k \in Numbers : k # n =>
          /\ attempt'[m][k] # "sending"
          /\ attempt[m][k] # "none" => attempt'[m][k] # "none"
  BY <1>1 DEF AInv, OpenIsCounted, TakenOver, Closed
<1>3. OpenIsCounted'
  BY <1>1, <1>2 DEF AInv, OpenIsCounted
<1>4. \A g \in Handler, k \in Message : handler'[g].message = k /\ handler'[g].pc \in Opened =>
          \/ g = h /\ k = m
          \/ /\ g # h /\ At(g, k) /\ handler'[g] = handler[g]
             /\ k = m => handler[g].number # n
  BY <1>1 DEF AInv, NumbersUsed, At
<1>5. \A g \in Handler, k \in Message : At(g, k) => handler[g].number \in Numbers
  BY <1>0, Counts DEF TInv, Tables, References, HandlerRow, At
<1>6. NumbersUsed'
  <2>1. \A k \in Message : \A i \in handed'[k] : attempt'[k][i] # "none"
    <3> SUFFICES ASSUME NEW k \in Message, NEW i \in handed[k] PROVE attempt'[k][i] # "none"
      BY <1>1
    <3>1. attempt[k][i] # "none" /\ i \in Numbers
      BY <1>0 DEF AInv, NumbersUsed, TInv, Tables
    <3> QED BY <1>1, <1>2, <3>1
  <2>2. \A k \in Message : \A g \in Handler :
            handler'[g].message = k /\ handler'[g].pc \in Opened
                => attempt'[k][handler'[g].number] # "none"
    <3> SUFFICES ASSUME NEW k \in Message, NEW g \in Handler,
                        handler'[g].message = k, handler'[g].pc \in Opened
                 PROVE  attempt'[k][handler'[g].number] # "none"
      OBVIOUS
    <3>1. CASE g = h
      BY <1>1, <1>4, <3>1
    <3>2. CASE g # h
      <4>1. /\ At(g, k) /\ handler'[g] = handler[g] /\ handler[g].number \in Numbers
            /\ k = m => handler[g].number # n
        BY <1>4, <1>5, <3>2
      <4>2. attempt[k][handler[g].number] # "none"
        BY <4>1 DEF AInv, NumbersUsed
      <4> QED BY <1>1, <1>2, <4>1, <4>2
    <3> QED BY <3>1, <3>2
  <2>3. \A k \in Message : \A g, f \in Handler :
            (/\ handler'[g].message = k /\ handler'[g].pc \in Opened
             /\ handler'[f].message = k /\ handler'[f].pc \in Opened
             /\ handler'[g].number = handler'[f].number)  => g = f
    <3> SUFFICES ASSUME NEW k \in Message, NEW g \in Handler, NEW f \in Handler,
                        handler'[g].message = k, handler'[g].pc \in Opened,
                        handler'[f].message = k, handler'[f].pc \in Opened,
                        handler'[g].number = handler'[f].number, g # f
                 PROVE  FALSE
      OBVIOUS
    <3>1. g # h /\ f # h
      BY <1>1, <1>4
    <3>2. At(g, k) /\ At(f, k) /\ handler[g].number = handler[f].number
      BY <1>4, <3>1
    <3> QED BY <3>2 DEF AInv, NumbersUsed
  <2> QED BY <2>1, <2>2, <2>3 DEF NumbersUsed, At
<1>7. SendsAreFresh'
  BY <1>1, <1>4 DEF AInv, SendsAreFresh, NumbersUsed, At
<1>8. CurrentOwns'
  BY <1>1, <1>4 DEF AInv, CurrentOwns, At
<1>9. SentIsAccepted'
  BY <1>1, <1>4 DEF AInv, SentIsAccepted, At
<1> QED BY <1>1, <1>3, <1>6, <1>7, <1>8, <1>9 DEF AInv

LEMMA SendAttempts ==
    ASSUME AInv, NEW h \in Handler, Send(h) PROVE AInv'
<1> DEFINE m == handler[h].message
<1>0. TInv
  BY DEF AInv
<1>1. /\ TInv'
      /\ UNCHANGED <<delivery, attempt>>
      /\ m \in Message /\ handler[h].pc = "send" /\ handler[h].number \in Numbers
      /\ \A k \in Message : k # m => handed'[k] = handed[k] /\ accepted'[k] = accepted[k]
      /\ handed'[m] = handed[m] \cup {handler[h].number}
      /\ \A g \in Handler : g # h => handler'[g] = handler[g]
      /\ handler'[h].pc \in {"accepted", "failed", "refused"}
      /\ handler'[h].message = m /\ handler'[h].number = handler[h].number
      /\ handler'[h].process = handler[h].process
      /\ \/ handler'[h].pc = "accepted" /\ accepted'[m] = accepted[m] + 1
         \/ handler'[h].pc # "accepted" /\ accepted'[m] = accepted[m] + 1
         \/ handler'[h].pc # "accepted" /\ accepted'[m] = accepted[m]
  BY <1>0, SendWrites
<1> HIDE DEF m
<1>2. At(h, m)
  BY <1>1 DEF At, Opened, m
<1>3. \A g \in Handler, k \in Message : handler'[g].message = k /\ handler'[g].pc \in Opened =>
          /\ At(g, k) /\ handler'[g].number = handler[g].number
          /\ handler'[g].process = handler[g].process
          /\ g = h => k = m
          /\ g # h => handler'[g] = handler[g]
  BY <1>1, <1>2 DEF At
<1>4. OpenIsCounted'
  BY <1>1 DEF AInv, OpenIsCounted
<1>5. NumbersUsed'
  <2>1. \A k \in Message : \A i \in handed'[k] : attempt'[k][i] # "none"
    BY <1>1, <1>2 DEF AInv, NumbersUsed
  <2> QED BY <1>1, <1>3, <2>1 DEF AInv, NumbersUsed, At
<1>6. SendsAreFresh'
  <2> SUFFICES ASSUME NEW k \in Message, NEW g \in Handler,
                      handler'[g].message = k, handler'[g].pc = "send"
               PROVE  handler'[g].number \notin handed'[k]
    BY DEF SendsAreFresh, At
  <2>1. g # h /\ At(g, k) /\ handler'[g] = handler[g] /\ handler[g].pc = "send"
    BY <1>1, <1>3 DEF Opened
  <2>2. handler[g].number \notin handed[k]
    BY <2>1 DEF AInv, SendsAreFresh
  <2>3. k = m => handler[g].number # handler[h].number
    BY <1>1, <1>2, <2>1 DEF AInv, NumbersUsed
  <2> QED BY <1>1, <2>1, <2>2, <2>3
<1>7. CurrentOwns'
  BY <1>1, <1>3 DEF AInv, CurrentOwns, At
<1>8. SentIsAccepted'
  <2>1. \A k \in Message : accepted[k] \in Nat /\ accepted'[k] \in Nat /\ accepted'[k] >= accepted[k]
    BY <1>0, <1>1 DEF TInv, Tables
  <2> QED BY <1>1, <1>3, <2>1 DEF AInv, SentIsAccepted, At
<1> QED BY <1>1, <1>4, <1>5, <1>6, <1>7, <1>8 DEF AInv

LEMMA FinishAttempts ==
    ASSUME AInv, NEW h \in Handler, FinishStep(h) PROVE AInv'
<1> DEFINE m == handler[h].message
<1>0. TInv
  BY DEF AInv
<1>1. /\ TInv'
      /\ UNCHANGED <<budget, handed, accepted>>
      /\ m \in Message /\ handler[h].pc # "idle"
      /\ \A k \in Message : k # m => delivery'[k] = delivery[k] /\ attempt'[k] = attempt[k]
      /\ delivery'[m].status # "sending"
      /\ delivery'[m].status = "sent" => handler[h].pc = "accepted"
      /\ \E s \in {"sent", "retry", "dead"} : attempt'[m] = Closed(m, s)
      /\ \A g \in Handler : g # h => handler'[g] = handler[g]
      /\ handler'[h] = IdleHandler
  BY <1>0, FinishWrites DEF Opened
<1> HIDE DEF m
<1>2. \A k \in Numbers : /\ attempt'[m][k] # "sending"
                         /\ attempt[m][k] # "none" => attempt'[m][k] # "none"
  BY <1>1 DEF Closed
<1>3. \A g \in Handler, k \in Message : handler'[g].message = k /\ handler'[g].pc \in Opened =>
          /\ At(g, k) /\ handler'[g] = handler[g] /\ handler[g].number \in Numbers
  BY <1>0, <1>1, Counts DEF At, IdleHandler, Opened, TInv, Tables, References, HandlerRow
<1>4. OpenIsCounted'
  BY <1>1, <1>2 DEF AInv, OpenIsCounted
<1>5. NumbersUsed'
  <2>1. \A k \in Message : \A i \in Numbers : attempt[k][i] # "none" => attempt'[k][i] # "none"
    BY <1>1, <1>2
  <2>2. \A k \in Message : handed'[k] = handed[k] /\ handed[k] \subseteq Numbers
    BY <1>0, <1>1 DEF TInv, Tables
  <2> QED BY <1>3, <2>1, <2>2 DEF AInv, NumbersUsed, At
<1>6. SendsAreFresh'
  BY <1>1, <1>3 DEF AInv, SendsAreFresh, At
<1>7. CurrentOwns'
  BY <1>1, <1>3 DEF AInv, CurrentOwns, At
<1>8. SentIsAccepted'
  BY <1>1, <1>3 DEF AInv, SentIsAccepted, At, Opened, m
<1> QED BY <1>1, <1>4, <1>5, <1>6, <1>7, <1>8 DEF AInv

LEMMA AttemptsStep == AInv /\ [Next]_vars => AInv'
<1> SUFFICES ASSUME AInv, [Next]_vars PROVE AInv'
  OBVIOUS
<1>1. CASE Next
  BY <1>1, StepIsOneOf, RowStepAttempts, QuietStepAttempts, ClaimAttempts, SendAttempts,
     FinishAttempts
<1>2. CASE UNCHANGED vars
  <2>1. TInv /\ TInv'
    BY <1>2, TypeStep DEF AInv
  <2> QED BY <1>2, <2>1, Undisturbed DEF vars
<1> QED BY <1>1, <1>2

(* The attempt rows of a delivery agree with its row: exactly the attempt  *)
(* it counted last is open while it is being sent, and none otherwise.     *)
THEOREM OneIsOpen == Spec => []OneOpenAttempt
BY AttemptsInit, AttemptsStep, OpenIsOne, PTL DEF Spec

(* The provider never sees a delivery's number twice, and sent is final.   *)
THEOREM SendsAccounted == Spec => SendsAreAccountedFor
<1> DEFINE A == /\ \A h \in Handler : handler[h].pc = "send" /\ handler'[h].pc # "send"
                      => \/ handler[h].number \notin handed[handler[h].message]
                         \/ handler'[h].pc = "idle"
                /\ \A m \in Message :
                      /\ delivery[m].status = "sent" => delivery'[m].status = "sent"
                      /\ delivery'[m].status = "sent" => accepted[m] > 0
<1>1. AInv /\ AInv' /\ [Next]_vars => [A]_vars
  <2> SUFFICES ASSUME AInv, AInv', Next PROVE A
    OBVIOUS
  <2>0. TInv
    BY DEF AInv
  <2>1. \A h \in Handler : handler[h].pc = "send"
            => handler[h].number \notin handed[handler[h].message]
    BY <2>0 DEF AInv, SendsAreFresh, At, Opened, TInv, References
  <2>2. \A m \in Message : delivery[m].status = "sent" => delivery'[m].status = "sent"
    <3>1. ASSUME NEW h \in Handler, Claim(h) \/ FinishStep(h), delivery[handler[h].message].status = "sent"
          PROVE  FALSE
      BY <2>0, <3>1, ClaimWrites, FinishWrites DEF Claimable, Owns
    <3> QED BY <2>0, <3>1, StepIsOneOf, RowStepWrites, QuietStepWrites, ClaimWrites,
               SendWrites, FinishWrites
  <2>3. \A m \in Message : delivery'[m].status = "sent" => accepted[m] > 0
    <3>1. ASSUME NEW h \in Handler, FinishStep(h), delivery'[handler[h].message].status = "sent"
          PROVE  accepted[handler[h].message] > 0
      <4>1. handler[h].pc = "accepted" /\ handler[h].message \in Message
        BY <2>0, <3>1, FinishWrites
      <4> QED BY <4>1 DEF AInv, SentIsAccepted, At, Opened
    <3>2. \A m \in Message : delivery[m].status = "sent" => accepted[m] > 0
      BY DEF AInv, SentIsAccepted
    <3> QED BY <2>0, <3>1, <3>2, StepIsOneOf, RowStepWrites, QuietStepWrites, ClaimWrites,
               SendWrites, FinishWrites
  <2> QED BY <2>1, <2>2, <2>3
<1>2. SendsAreAccountedFor <=> [][A]_vars
  BY DEF SendsAreAccountedFor
<1> QED BY <1>1, <1>2, AttemptsInit, AttemptsStep, PTL DEF Spec

-----------------------------------------------------------------------------
(* Every second acceptance has a cause.  The argument counts, for each     *)
(* delivery, what was accepted, the executions that may still have it      *)
(* accepted or have it tried again, and whether another claim may come     *)
(* without a fault: a lapse, a crash or a manual retry adds one to the     *)
(* count and to the causes, and so does an answer that is lost.            *)

Busy(m) == {h \in Handler : handler[h].message = m /\ handler[h].pc \in {"send", "failed"}}

Again(m) == IF \/ delivery[m].status \in {"none", "queued", "retry"}
               \/ delivery[m].status = "sending" /\ (~delivery[m].live \/ ~AtWork(m))
            THEN 1 ELSE 0

Causes == Spent("lost") + Spent("crash") + Spent("lapse") + Spent("requeue")

Counted == \A m \in Message :
    accepted[m] + Cardinality(Busy(m)) + Again(m) <= 1 + Causes

CInv == AInv /\ Counted

LEMMA BusyIsFinite ==
    ASSUME NEW m \in Message
    PROVE  /\ IsFiniteSet(Busy(m)) /\ Cardinality(Busy(m)) \in Nat
           /\ IsFiniteSet(Busy(m)') /\ Cardinality(Busy(m)') \in Nat
<1>1. Busy(m) \subseteq Handler /\ Busy(m)' \subseteq Handler /\ IsFiniteSet(Handler)
  BY MailAssumption DEF Busy, MailAssumption
<1> QED BY <1>1, FS_Subset, FS_CardinalityType

(* Executions leave, or one of them does, or one joins.                    *)
LEMMA BusyChanges ==
    ASSUME NEW m \in Message, NEW h \in Handler
    PROVE  /\ Busy(m)' = Busy(m) => Cardinality(Busy(m)') = Cardinality(Busy(m))
           /\ Busy(m)' \subseteq Busy(m) => Cardinality(Busy(m)') <= Cardinality(Busy(m))
           /\ h \in Busy(m) /\ Busy(m)' = Busy(m) \ {h}
                  => Cardinality(Busy(m)') = Cardinality(Busy(m)) - 1
           /\ h \notin Busy(m) /\ Busy(m)' = Busy(m) \cup {h}
                  => Cardinality(Busy(m)') = Cardinality(Busy(m)) + 1
<1>1. IsFiniteSet(Busy(m)) /\ IsFiniteSet(Busy(m)')
  BY BusyIsFinite
<1>2. Busy(m)' \subseteq Busy(m) => Cardinality(Busy(m)') <= Cardinality(Busy(m))
  BY <1>1, FS_Subset
<1>3. h \in Busy(m) /\ Busy(m)' = Busy(m) \ {h}
          => Cardinality(Busy(m)') = Cardinality(Busy(m)) - 1
  BY <1>1, FS_RemoveElement
<1>4. h \notin Busy(m) /\ Busy(m)' = Busy(m) \cup {h}
          => Cardinality(Busy(m)') = Cardinality(Busy(m)) + 1
  BY <1>1, FS_AddElement
<1> QED BY <1>2, <1>3, <1>4

LEMMA CausesAdd ==
    ASSUME TInv
    PROVE  /\ Causes \in Int
           /\ UNCHANGED budget => Causes' = Causes
           /\ \A f \in Fault : Spend(f) =>
                  Causes' = IF f \in {"lost", "crash", "lapse", "requeue"}
                            THEN Causes + 1 ELSE Causes
<1>1. Budget \in [Fault -> Nat] /\ budget \in [Fault -> Nat]
  BY MailAssumption DEF MailAssumption, TInv, Tables
<1>2. Causes \in Int
  BY <1>1 DEF Causes, Spent, Fault
<1>3. ASSUME NEW f \in Fault, Spend(f)
      PROVE  Causes' = IF f \in {"lost", "crash", "lapse", "requeue"}
                       THEN Causes + 1 ELSE Causes
  <2>1. /\ budget'[f] = budget[f] - 1
        /\ \A g \in Fault : g # f => budget'[g] = budget[g]
    BY <1>3, Spending
  <2> QED BY <1>1, <2>1 DEF Causes, Spent, Fault
<1> QED BY <1>2, <1>3 DEF Causes, Spent

LEMMA AgainIsOne == \A m \in Message : Again(m) \in {0, 1} /\ Again(m)' \in {0, 1}
BY DEF Again

LEMMA CountInit == Init => CInv
<1> SUFFICES ASSUME Init PROVE Counted
  BY AttemptsInit DEF CInv
<1> SUFFICES ASSUME NEW m \in Message
             PROVE  accepted[m] + Cardinality(Busy(m)) + Again(m) <= 1 + Causes
  BY DEF Counted
<1>1. Busy(m) = {} /\ accepted[m] = 0 /\ Again(m) = 1
  BY DEF Init, Busy, IdleHandler, Again, NoDelivery
<1>2. Causes = 0
  BY MailAssumption DEF Init, Causes, Spent, MailAssumption, Fault
<1> QED BY <1>1, <1>2, FS_EmptySet

(* Deliveries that a step leaves alone, with the executions on them.       *)
LEMMA Others ==
    ASSUME NEW k \in Message, delivery'[k] = delivery[k],
           \A g \in Handler : \/ handler'[g] = handler[g]
                              \/ handler'[g].message # k /\ handler[g].message # k
    PROVE  Busy(k)' = Busy(k) /\ Again(k)' = Again(k)
<1>1. Busy(k)' = Busy(k)
  BY DEF Busy
<1>2. AtWork(k)' <=> AtWork(k)
  BY DEF AtWork
<1> QED BY <1>1, <1>2 DEF Again

LEMMA CountIsKept ==
    ASSUME CInv, TInv', AInv',
           \A k \in Message :
               accepted'[k] + Cardinality(Busy(k)') + Again(k)' - Causes'
                   <= accepted[k] + Cardinality(Busy(k)) + Again(k) - Causes
    PROVE  CInv'
<1> SUFFICES ASSUME NEW k \in Message
             PROVE  accepted'[k] + Cardinality(Busy(k)') + Again(k)' <= 1 + Causes'
  BY DEF CInv, Counted
<1>1. /\ accepted[k] \in Nat /\ accepted'[k] \in Nat
      /\ Cardinality(Busy(k)) \in Nat /\ Cardinality(Busy(k)') \in Nat
      /\ Again(k) \in {0, 1} /\ Again(k)' \in {0, 1}
  BY BusyIsFinite, AgainIsOne DEF CInv, AInv, TInv, Tables
<1>2. Causes \in Int
  BY CausesAdd DEF CInv, AInv
<1>3. Causes' \in Int
  <2>1. Budget \in [Fault -> Nat] /\ budget' \in [Fault -> Nat]
    BY MailAssumption DEF MailAssumption, TInv, Tables
  <2> QED BY <2>1 DEF Causes, Spent, Fault
<1>4. accepted[k] + Cardinality(Busy(k)) + Again(k) <= 1 + Causes
  BY DEF CInv, Counted
<1> HIDE DEF Causes, Busy, Again
<1> QED BY <1>1, <1>2, <1>3, <1>4

LEMMA RowStepCount ==
    ASSUME CInv, NEW m \in Message, RowStep(m) PROVE CInv'
<1>0. TInv /\ AInv
  BY DEF CInv, AInv
<1>1. /\ TInv' /\ AInv'
      /\ UNCHANGED <<handler, accepted>>
      /\ \A k \in Message : k # m => delivery'[k] = delivery[k]
  BY <1>0, RowStepWrites, RowStepAttempts
<1>2. \A k \in Message : /\ accepted'[k] = accepted[k] /\ accepted[k] \in Nat
                         /\ Busy(k)' = Busy(k) /\ Cardinality(Busy(k)) \in Nat
                         /\ Again(k) \in {0, 1} /\ Again(k)' \in {0, 1}
  BY <1>0, <1>1, BusyIsFinite, AgainIsOne DEF Busy, TInv, Tables
<1>3. \A k \in Message : k # m => Again(k)' = Again(k)
  BY <1>1, Others
<1>4. Causes \in Int /\ (Causes' = Causes \/ Causes' = Causes + 1)
  BY <1>0, CausesAdd DEF RowStep, Enqueue, RetryDelivery, Suppress, FallDue, LeaseLapses, Fault
<1>5. Again(m)' <= Again(m) \/ Causes' = Causes + 1
  <2>1. CASE RetryDelivery(m)
    BY <1>0, <2>1, CausesAdd DEF RetryDelivery, Fault
  <2>2. CASE LeaseLapses(m) /\ AtWork(m)
    BY <1>0, <2>2, CausesAdd DEF LeaseLapses, Fault
  <2>3. CASE LeaseLapses(m) /\ ~AtWork(m)
    <3>1. Again(m) = 1
      BY <2>3 DEF LeaseLapses, Again
    <3> QED BY <1>2, <3>1
  <2>4. CASE Enqueue(m)
    <3>1. Again(m) = 1
      BY <2>4 DEF Enqueue, Again
    <3> QED BY <1>2, <3>1
  <2>5. CASE Suppress(m) \/ FallDue(m)
    <3>1. Again(m) = 1
      BY <2>5 DEF Suppress, FallDue, Again
    <3> QED BY <1>2, <3>1
  <2> QED BY <2>1, <2>2, <2>3, <2>4, <2>5 DEF RowStep
<1> HIDE DEF Causes, Busy, Again
<1>6. \A k \in Message : accepted'[k] + Cardinality(Busy(k)') + Again(k)' - Causes'
                             <= accepted[k] + Cardinality(Busy(k)) + Again(k) - Causes
  BY <1>2, <1>3, <1>4, <1>5
<1> QED BY <1>1, <1>6, CountIsKept

LEMMA QuietStepCount ==
    ASSUME CInv, NEW h \in Handler, QuietStep(h) PROVE CInv'
<1>0. TInv /\ AInv
  BY DEF CInv, AInv
<1>1. /\ TInv' /\ AInv'
      /\ UNCHANGED <<delivery, attempt, handed, accepted>>
      /\ \A g \in Handler : g # h => handler'[g] = handler[g]
      /\ handler'[h].pc \in {"idle", "claim"}
  BY <1>0, QuietStepWrites, QuietStepAttempts
<1>2. \A k \in Message : /\ accepted'[k] = accepted[k] /\ accepted[k] \in Nat
                         /\ Cardinality(Busy(k)) \in Nat /\ Cardinality(Busy(k)') \in Nat
                         /\ Cardinality(Busy(k)') <= Cardinality(Busy(k))
                         /\ Again(k) \in {0, 1} /\ Again(k)' \in {0, 1}
  <2>1. \A k \in Message : Busy(k)' \subseteq Busy(k)
    BY <1>1 DEF Busy
  <2> QED BY <1>0, <1>1, <2>1, BusyChanges, BusyIsFinite, AgainIsOne DEF TInv, Tables
<1>3. Causes \in Int /\ (Causes' = Causes \/ Causes' = Causes + 1)
  BY <1>0, CausesAdd DEF QuietStep, Deliver, ClaimFails, Answer, ClaimErrs, LeaseLost,
     HandlerDies, Fault
<1>4. (\A k \in Message : Again(k)' = Again(k)) \/ Causes' = Causes + 1
  <2>1. CASE HandlerDies(h)
    BY <1>0, <2>1, CausesAdd DEF HandlerDies, Fault
  <2>2. CASE ~HandlerDies(h)
    <3>1. ASSUME NEW k \in Message, delivery[k].status = "sending",
                 handler[h].message = k, handler[h].number = delivery[k].attempts
          PROVE  FALSE
      <4>1. delivery[k].attempts # 0
        BY <3>1 DEF CInv, AInv, CurrentOwns
      <4>2. handler[h].pc \in Opened /\ At(h, k)
        BY <1>0, <3>1, <4>1 DEF TInv, References, At
      <4>3. Owns(h)
        BY <3>1, <4>2 DEF CInv, AInv, CurrentOwns, Owns
      <4>4. LeaseLost(h)
        BY <2>2, <4>2 DEF QuietStep, Deliver, ClaimFails, Answer, ClaimErrs, Opened
      <4> QED BY <4>3, <4>4 DEF LeaseLost
    <3>2. handler'[h].number = 0
      BY <1>1 DEF TInv, References, Opened
    <3>3. ASSUME NEW k \in Message, delivery[k].status = "sending"
          PROVE  AtWork(k)' <=> AtWork(k)
      <4>1. delivery[k].attempts # 0
        BY <3>3 DEF CInv, AInv, CurrentOwns
      <4> QED BY <1>1, <3>1, <3>2, <3>3, <4>1 DEF AtWork
    <3> QED BY <1>1, <3>3 DEF Again
  <2> QED BY <2>1, <2>2
<1> HIDE DEF Causes, Busy, Again
<1>5. \A k \in Message : accepted'[k] + Cardinality(Busy(k)') + Again(k)' - Causes'
                             <= accepted[k] + Cardinality(Busy(k)) + Again(k) - Causes
  BY <1>2, <1>3, <1>4
<1> QED BY <1>1, <1>5, CountIsKept

LEMMA ClaimCount ==
    ASSUME CInv, NEW h \in Handler, Claim(h) PROVE CInv'
<1>0. TInv /\ AInv
  BY DEF CInv, AInv
<1> PICK m \in Message : m = handler[h].message
  BY <1>0, ClaimWrites
<1> DEFINE n == delivery[m].attempts + 1
<1>1. /\ TInv' /\ AInv' /\ m \in Message
      /\ UNCHANGED <<budget, accepted>>
      /\ Claimable(m) /\ handler[h].pc = "claim"
      /\ \A k \in Message : k # m => delivery'[k] = delivery[k]
      /\ delivery'[m].status = "sending" /\ delivery'[m].attempts = n /\ delivery'[m].live
      /\ \A g \in Handler : g # h => handler'[g] = handler[g]
      /\ handler'[h].pc = "send" /\ handler'[h].number = n /\ handler'[h].message = m
  BY <1>0, ClaimWrites, ClaimAttempts
<1> HIDE DEF n
<1>2. \A k \in Message : k # m => Busy(k)' = Busy(k) /\ Again(k)' = Again(k)
  BY <1>1, Others
<1>3. h \notin Busy(m) /\ Busy(m)' = Busy(m) \cup {h}
  BY <1>1 DEF Busy
<1>4. Again(m) = 1
  BY <1>1 DEF Again, Claimable
<1>5. Again(m)' = 0
  <2>1. AtWork(m)'
    BY <1>1 DEF AtWork
  <2> QED BY <1>1, <2>1 DEF Again
<1>6. Causes' = Causes /\ Causes \in Int
  BY <1>0, <1>1, CausesAdd
<1>7. Cardinality(Busy(m)') = Cardinality(Busy(m)) + 1
  BY <1>1, <1>3, BusyChanges
<1> HIDE DEF Causes, Busy, Again
<1>8. \A k \in Message : /\ accepted'[k] = accepted[k] /\ accepted[k] \in Nat
                         /\ Cardinality(Busy(k)) \in Nat /\ Again(k) \in {0, 1}
  BY <1>0, <1>1, BusyIsFinite, AgainIsOne DEF TInv, Tables
<1>9. \A k \in Message : accepted'[k] + Cardinality(Busy(k)') + Again(k)' - Causes'
                             <= accepted[k] + Cardinality(Busy(k)) + Again(k) - Causes
  BY <1>2, <1>4, <1>5, <1>6, <1>7, <1>8
<1> QED BY <1>1, <1>9, CountIsKept

LEMMA SendCount ==
    ASSUME CInv, NEW h \in Handler, Send(h) PROVE CInv'
<1>0. TInv /\ AInv
  BY DEF CInv, AInv
<1> PICK m \in Message : m = handler[h].message
  BY <1>0, SendWrites
<1>1. /\ TInv' /\ AInv' /\ m \in Message
      /\ UNCHANGED delivery
      /\ handler[h].pc = "send"
      /\ \A k \in Message : k # m => accepted'[k] = accepted[k]
      /\ \A g \in Handler : g # h => handler'[g] = handler[g]
      /\ handler'[h].message = m /\ handler'[h].number = handler[h].number
      /\ \/ /\ handler'[h].pc = "accepted" /\ UNCHANGED budget
            /\ accepted'[m] = accepted[m] + 1
         \/ /\ handler'[h].pc = "failed" /\ Spend("lost")
            /\ accepted'[m] = accepted[m] + 1
         \/ /\ handler'[h].pc = "failed" /\ Spend("failure")
            /\ accepted'[m] = accepted[m]
         \/ /\ handler'[h].pc = "refused" /\ UNCHANGED budget
            /\ accepted'[m] = accepted[m]
  BY <1>0, SendWrites, SendAttempts
<1>2. \A k \in Message : Again(k)' = Again(k)
  <2>1. \A k \in Message : AtWork(k)' <=> AtWork(k)
    BY <1>1 DEF AtWork
  <2> QED BY <1>1, <2>1 DEF Again
<1>3. \A k \in Message : k # m => Busy(k)' = Busy(k)
  BY <1>1, Others
<1>4. h \in Busy(m) /\ Busy(m)' = IF handler'[h].pc = "failed" THEN Busy(m) ELSE Busy(m) \ {h}
  BY <1>1 DEF Busy
<1>5. Cardinality(Busy(m)') = IF handler'[h].pc = "failed" THEN Cardinality(Busy(m))
                              ELSE Cardinality(Busy(m)) - 1
  BY <1>1, <1>4, BusyChanges
<1>6. Causes \in Int /\ Causes' = IF Spend("lost") /\ handler'[h].pc = "failed"
                                     THEN Causes + 1 ELSE Causes
  BY <1>0, <1>1, CausesAdd DEF Fault
<1> HIDE DEF Causes, Busy, Again
<1>7. \A k \in Message : /\ accepted[k] \in Nat
                         /\ Cardinality(Busy(k)) \in Nat /\ Again(k) \in {0, 1}
  BY <1>0, BusyIsFinite, AgainIsOne DEF TInv, Tables
<1>8. accepted'[m] + Cardinality(Busy(m)') - Causes' <= accepted[m] + Cardinality(Busy(m)) - Causes
  BY <1>1, <1>5, <1>6, <1>7
<1>9. \A k \in Message : accepted'[k] + Cardinality(Busy(k)') + Again(k)' - Causes'
                             <= accepted[k] + Cardinality(Busy(k)) + Again(k) - Causes
  <2>1. accepted'[m] + Cardinality(Busy(m)') + Again(m)' - Causes'
            <= accepted[m] + Cardinality(Busy(m)) + Again(m) - Causes
    <3>1. accepted'[m] \in Nat /\ Cardinality(Busy(m)') \in Nat /\ Causes' \in Int
      BY <1>1, <1>6, BusyIsFinite DEF TInv, Tables
    <3> QED BY <1>1, <1>2, <1>6, <1>7, <1>8, <3>1
  <2>2. Causes' \in Int /\ Causes' >= Causes
    BY <1>6
  <2> QED BY <1>1, <1>2, <1>3, <1>6, <1>7, <2>1, <2>2
<1> QED BY <1>1, <1>9, CountIsKept

LEMMA FinishCount ==
    ASSUME CInv, NEW h \in Handler, FinishStep(h) PROVE CInv'
<1>0. TInv /\ AInv
  BY DEF CInv, AInv
<1> PICK m \in Message : m = handler[h].message
  BY <1>0, FinishWrites
<1>1. /\ TInv' /\ AInv' /\ m \in Message
      /\ UNCHANGED <<budget, accepted>>
      /\ \A k \in Message : k # m => delivery'[k] = delivery[k]
      /\ \/ delivery'[m].status \in {"dead", "sent"}
         \/ handler[h].pc = "failed" /\ delivery'[m].status = "retry"
      /\ \A g \in Handler : g # h => handler'[g] = handler[g]
      /\ handler'[h] = IdleHandler
  BY <1>0, FinishWrites, FinishAttempts
<1>2. IdleHandler.message \notin Message /\ IdleHandler.pc = "idle"
  BY MailAssumption DEF MailAssumption, IdleHandler
<1>3. \A k \in Message : k # m => Busy(k)' = Busy(k) /\ Again(k)' = Again(k)
  BY <1>1, <1>2, Others
<1>4. Busy(m)' = Busy(m) \ {h}
  BY <1>1, <1>2 DEF Busy
<1>5. \/ Again(m)' = 0 /\ Cardinality(Busy(m)') <= Cardinality(Busy(m))
      \/ Again(m)' = 1 /\ Cardinality(Busy(m)') = Cardinality(Busy(m)) - 1
  <2>1. CASE delivery'[m].status \in {"dead", "sent"}
    <3>1. Again(m)' = 0
      BY <2>1 DEF Again
    <3> QED BY <1>1, <1>4, <3>1, BusyChanges
  <2>2. CASE handler[h].pc = "failed" /\ delivery'[m].status = "retry"
    <3>1. Again(m)' = 1 /\ h \in Busy(m)
      BY <2>2 DEF Again, Busy
    <3> QED BY <1>1, <1>4, <3>1, BusyChanges
  <2> QED BY <1>1, <2>1, <2>2
<1>6. Causes' = Causes /\ Causes \in Int
  BY <1>0, <1>1, CausesAdd
<1> HIDE DEF Causes, Busy, Again
<1>7. \A k \in Message : /\ accepted'[k] = accepted[k] /\ accepted[k] \in Nat
                         /\ Cardinality(Busy(k)) \in Nat /\ Cardinality(Busy(k)') \in Nat
                         /\ Again(k) \in {0, 1}
  BY <1>0, <1>1, BusyIsFinite, AgainIsOne DEF TInv, Tables
<1>8. \A k \in Message : accepted'[k] + Cardinality(Busy(k)') + Again(k)' - Causes'
                             <= accepted[k] + Cardinality(Busy(k)) + Again(k) - Causes
  BY <1>1, <1>3, <1>5, <1>6, <1>7
<1> QED BY <1>1, <1>8, CountIsKept

LEMMA CountStep == CInv /\ [Next]_vars => CInv'
<1> SUFFICES ASSUME CInv, [Next]_vars PROVE CInv'
  OBVIOUS
<1>1. CASE Next
  BY <1>1, StepIsOneOf, RowStepCount, QuietStepCount, ClaimCount, SendCount, FinishCount
<1>2. CASE UNCHANGED vars
  <2>1. AInv'
    BY <1>2, AttemptsStep DEF CInv
  <2>2. /\ \A m \in Message : Busy(m)' = Busy(m) /\ Again(m)' = Again(m)
        /\ accepted' = accepted /\ Causes' = Causes
    BY <1>2 DEF vars, Busy, Again, AtWork, Causes, Spent
  <2> HIDE DEF Busy, Again, Causes
  <2>3. Counted'
    BY <2>2 DEF CInv, Counted
  <2> QED BY <2>1, <2>3 DEF CInv
<1> QED BY <1>1, <1>2

(* A message is accepted again at most once for each lost answer, crash,   *)
(* lapsed lease and manual retry.                                          *)
THEOREM DuplicatesCaused == Spec => []DuplicatesHaveACause
<1>1. CInv => DuplicatesHaveACause
  <2> SUFFICES ASSUME CInv, NEW m \in Message
               PROVE  accepted[m] <= 1 + Spent("lost") + Spent("crash") + Spent("lapse")
                                          + Spent("requeue")
    BY DEF DuplicatesHaveACause
  <2>1. /\ accepted[m] \in Nat /\ Cardinality(Busy(m)) \in Nat /\ Again(m) \in {0, 1}
        /\ Causes \in Int
    BY BusyIsFinite, AgainIsOne, CausesAdd DEF CInv, AInv, TInv, Tables
  <2>2. accepted[m] + Cardinality(Busy(m)) + Again(m) <= 1 + Causes
    BY DEF CInv, Counted
  <2>3. accepted[m] <= 1 + Causes
    <3> HIDE DEF Causes, Busy, Again
    <3> QED BY <2>1, <2>2
  <2>4. \A f \in Fault : Spent(f) \in Int
    BY MailAssumption DEF MailAssumption, Spent, CInv, AInv, TInv, Tables
  <2> QED BY <2>3, <2>4 DEF Causes, Fault
<1> QED BY <1>1, CountInit, CountStep, PTL DEF Spec
=============================================================================
