--------------------------- MODULE WorkflowProofs ---------------------------
(***************************************************************************)
(* Theorems about module Workflow, for every number of keys, plugins,      *)
(* relays, deliveries and operators and every budget of faults.            *)
(***************************************************************************)
EXTENDS WorkflowProps, TLAPS

(* A busy process works on a key, and a busy operator on a request.        *)
KeysHeld ==
    /\ \A p \in Relay : ~Idle(relay[p]) => relay[p].key \in Key
    /\ \A d \in Delivery : ~Idle(delivery[d]) => delivery[d].key \in Key
    /\ \A o \in Operator : ~Idle(operator[o]) =>
            operator[o].key \in Key /\ operator[o].op \in Request

TInv == TypeOK /\ KeysHeld

-----------------------------------------------------------------------------
(* Every operation on the pair of rows leaves a pair of rows.              *)
LEMMA RowType ==
    ASSUME NEW r \in Row
    PROVE  /\ Enqueued(r) \in Row
           /\ Publishing(r) \in Row
           /\ \A id \in RemoteId : Published(r, id) \in Row
           /\ PublishFailed(r) \in Row
           /\ \A d \in Delivery : Claimed(r, d) \in Row
           /\ Completed(r) \in Row
           /\ Deferred(r) \in Row
           /\ Failed(r) \in Row
           /\ CompletedMark(r) \in Row
           /\ FailedMark(r) \in Row
           /\ Cancelled(r) \in Row
           /\ Paused(r) \in Row
           /\ Resumed(r) \in Row
           /\ Replayed(r) \in Row
           /\ \A id \in RemoteId : ReplayedRemotely(r, id) \in Row
           /\ Retried(r) \in Row
<1> USE DEF Row, OutboxStatus, RunStatus, RemoteId, Unclaimed, Withheld
<1>1. Enqueued(r) \in Row
  BY DEF Enqueued, NoRow
<1>2. Publishing(r) \in Row
  BY DEF Publishing
<1>3. ASSUME NEW id \in RemoteId
      PROVE  Published(r, id) \in Row
  <2> DEFINE o == IF r.outbox \in Withheld THEN r
                  ELSE [r EXCEPT !.outbox = "published"]
  <2>1. o \in Row
    OBVIOUS
  <2>2. [o EXCEPT !.run = IF @ = "pending" THEN "running" ELSE @,
                  !.remote = id] \in Row
    <3> HIDE DEF o
    <3> QED BY <2>1
  <2> QED
    BY <2>1, <2>2 DEF Published
<1>4. PublishFailed(r) \in Row
  BY DEF PublishFailed
<1>5. \A d \in Delivery : Claimed(r, d) \in Row
  BY DEF Claimed
<1>6. Completed(r) \in Row
  BY DEF Completed
<1>7. Deferred(r) \in Row
  BY DEF Deferred
<1>8. Failed(r) \in Row
  BY DEF Failed
<1>9. CompletedMark(r) \in Row /\ FailedMark(r) \in Row
  BY DEF CompletedMark, FailedMark
<1>10. Cancelled(r) \in Row
  BY DEF Cancelled
<1>11. Paused(r) \in Row
  BY DEF Paused
<1>12. Resumed(r) \in Row
  BY DEF Resumed
<1>13. Replayed(r) \in Row /\ Retried(r) \in Row
  BY DEF Replayed, Retried
<1>14. ASSUME NEW id \in RemoteId
       PROVE  ReplayedRemotely(r, id) \in Row
  <2> DEFINE kept == IF id = "none" THEN r.remote ELSE id
  <2>1. kept \in RemoteId
    OBVIOUS
  <2>2. [Unclaimed(r) EXCEPT !.outbox = "published", !.run = "running",
                             !.remote = kept] \in Row
    <3> HIDE DEF kept
    <3> QED BY <2>1
  <2> QED
    BY <2>2 DEF ReplayedRemotely
<1> QED
  BY <1>1, <1>2, <1>3, <1>4, <1>5, <1>6, <1>7, <1>8, <1>9, <1>10, <1>11,
     <1>12, <1>13, <1>14

(* What a control request writes is a pair of rows.                        *)
LEMMA ControlsType ==
    ASSUME NEW r \in Row, NEW op \in Request,
           NEW q \in OperatorState,
           q.op = op
    PROVE  Controls(q, r) \in Row
<1>1. q.id \in RemoteId
  BY DEF OperatorState
<1>2. Rebound(q, r) \in Row
  BY <1>1 DEF Rebound, Row
<1>3. q.op \in {"cancel", "pause", "resume", "replay", "retry"}
  BY WorkflowAssumption
<1> QED
  BY <1>1, <1>2, <1>3, RowType DEF Controls

(* So do the passing of available_at and of claim_until.                   *)
LEMMA FlagType ==
    ASSUME NEW r \in Row
    PROVE  \A s \in {[r EXCEPT !.due = TRUE], [r EXCEPT !.live = FALSE]} :
               s \in Row /\ s.run = r.run /\ s.token = r.token
                        /\ s.outbox = r.outbox
BY DEF Row

-----------------------------------------------------------------------------
LEMMA WriteType ==
    ASSUME TypeOK, NEW k \in Key, NEW r \in Row, Write(k, r)
    PROVE  row' \in [Key -> Row] /\ reopened' \in [Key -> Nat]
BY DEF TypeOK, Write

LEMMA SpendType ==
    ASSUME TypeOK, NEW f \in Fault, Spend(f)
    PROVE  budget' \in [Fault -> Nat]
BY DEF TypeOK, Spend

LEMMA GotoType ==
    ASSUME TInv, NEW d \in Delivery, NEW pc \in DeliveryPC, Goto(d, pc),
           ~Idle(delivery[d])
    PROVE  /\ delivery' \in [Delivery -> DeliveryState]
           /\ \A e \in Delivery : ~Idle(delivery'[e]) => delivery'[e].key \in Key
BY DEF TInv, TypeOK, KeysHeld, DeliveryState, Goto, Idle, At

LEMMA ReleaseType ==
    ASSUME TInv, NEW d \in Delivery, Release(d)
    PROVE  /\ delivery' \in [Delivery -> DeliveryState]
           /\ \A e \in Delivery : ~Idle(delivery'[e]) => delivery'[e].key \in Key
BY DEF TInv, TypeOK, KeysHeld, DeliveryState, Release, IdleDelivery,
       DeliveryPC, Idle, At

LEMMA RelayUpdateType ==
    ASSUME TInv, NEW p \in Relay, NEW s \in RelayState,
           Idle(s) \/ s.key \in Key,
           relay' = [relay EXCEPT ![p] = s]
    PROVE  /\ relay' \in [Relay -> RelayState]
           /\ \A e \in Relay : ~Idle(relay'[e]) => relay'[e].key \in Key
BY DEF TInv, TypeOK, KeysHeld

LEMMA OperatorUpdateType ==
    ASSUME TInv, NEW o \in Operator, NEW s \in OperatorState,
           Idle(s) \/ (s.key \in Key /\ s.op \in Request),
           operator' = [operator EXCEPT ![o] = s]
    PROVE  /\ operator' \in [Operator -> OperatorState]
           /\ \A e \in Operator : ~Idle(operator'[e]) =>
                 operator'[e].key \in Key /\ operator'[e].op \in Request
BY DEF TInv, TypeOK, KeysHeld

-----------------------------------------------------------------------------
(* Type correctness.                                                       *)

LEMMA EnvironmentType ==
    ASSUME TInv,
           \/ \E k \in Key : Enqueue(k) \/ FallDue(k) \/ FireSchedule(k)
                           \/ LeaseLapses(k)
           \/ \E p \in Plugin : TogglePlugin(p)
           \/ \E d \in Delivery, k \in Key : Deliver(d, k)
    PROVE  TInv'
<1>1. ASSUME NEW k \in Key, Enqueue(k) PROVE TInv'
  <2>1. Enqueued(row[k]) \in Row
    BY RowType DEF TInv, TypeOK
  <2>2. row' \in [Key -> Row] /\ reopened' \in [Key -> Nat]
    BY <1>1, <2>1, WriteType DEF Enqueue, TInv
  <2>3. queue' \in Seq(Key)
    BY <1>1 DEF Enqueue, TInv, TypeOK
  <2> QED
    BY <1>1, <2>2, <2>3 DEF Enqueue, TInv, TypeOK, KeysHeld, Idle, At
<1>2. ASSUME NEW k \in Key, FallDue(k) PROVE TInv'
  <2>1. row' \in [Key -> Row]
    BY <1>2, FlagType DEF FallDue, TInv, TypeOK
  <2> QED
    BY <1>2, <2>1 DEF FallDue, TInv, TypeOK, KeysHeld, Idle, At
<1>3. ASSUME NEW k \in Key, FireSchedule(k) PROVE TInv'
  BY <1>3 DEF FireSchedule, TInv, TypeOK, KeysHeld, Idle, At, Remote
<1>4. ASSUME NEW k \in Key, LeaseLapses(k) PROVE TInv'
  <2>1. budget' \in [Fault -> Nat]
    BY <1>4, SpendType DEF LeaseLapses, TInv, TypeOK, Fault
  <2>2. row' \in [Key -> Row]
    BY <1>4, FlagType DEF LeaseLapses, TInv, TypeOK
  <2> QED
    BY <1>4, <2>1, <2>2 DEF LeaseLapses, TInv, TypeOK, KeysHeld, Idle, At
<1>5. ASSUME NEW p \in Plugin, TogglePlugin(p) PROVE TInv'
  <2>1. budget' \in [Fault -> Nat]
    BY <1>5, SpendType DEF TogglePlugin, TInv, Fault
  <2> QED
    BY <1>5, <2>1 DEF TogglePlugin, TInv, TypeOK, KeysHeld, Idle, At
<1>6. ASSUME NEW d \in Delivery, NEW k \in Key, Deliver(d, k) PROVE TInv'
  <2>1. budget' \in [Fault -> Nat]
    BY <1>6, SpendType DEF Deliver, TInv, TypeOK, Fault
  <2> QED
    BY <1>6, <2>1 DEF Deliver, TInv, TypeOK, KeysHeld, Idle, At, DeliveryPC,
                      DeliveryState
<1> QED
  BY <1>1, <1>2, <1>3, <1>4, <1>5, <1>6

LEMMA RelayType ==
    ASSUME TInv, NEW p \in Relay,
           RelayStep(p) \/ RelayRefused(p) \/ RelayCrash(p)
    PROVE  TInv'
<1> USE DEF TInv, TypeOK, KeysHeld
<1>0. IdleRelay \in RelayState /\ Idle(IdleRelay)
  BY DEF IdleRelay, RelayState, RelayPC, RemoteId, Idle, At
<1>1. CASE RelayClaim(p)
  <2>1. PICK k \in Key :
            /\ row' = [row EXCEPT ![k] = Publishing(@)]
            /\ relay' = [relay EXCEPT ![p] = [pc |-> "publish", key |-> k,
                                              id |-> "none"]]
    BY <1>1 DEF RelayClaim
  <2>2. row' \in [Key -> Row]
    BY <2>1, RowType
  <2>3. [pc |-> "publish", key |-> k, id |-> "none"] \in RelayState
    BY DEF RelayState, RelayPC, RemoteId
  <2>4. /\ relay' \in [Relay -> RelayState]
        /\ \A e \in Relay : ~Idle(relay'[e]) => relay'[e].key \in Key
    BY <2>1, <2>3, RelayUpdateType
  <2> QED
    BY <1>1, <2>2, <2>4 DEF RelayClaim
<1>2. CASE RelayCancel(p)
  <2>1. PICK k \in Key : Write(k, Cancelled(Publishing(row[k])))
    BY <1>2 DEF RelayCancel
  <2>2. Cancelled(Publishing(row[k])) \in Row
    BY RowType
  <2>3. row' \in [Key -> Row] /\ reopened' \in [Key -> Nat]
    BY <2>1, <2>2, WriteType
  <2> QED
    BY <1>2, <2>3 DEF RelayCancel
<1>3. CASE RelayPublish(p)
  <2> DEFINE k == relay[p].key
  <2>1. k \in Key
    BY <1>3 DEF RelayPublish, Idle, At
  <2>2. Dispatched(k) \subseteq Remote
    BY <2>1 DEF Dispatched, Remote
  <2>3. hatchet' \in [Key -> Remote]
    BY <1>3, <2>1, <2>2 DEF RelayPublish
  <2>4. budget' \in [Fault -> Nat]
    BY <1>3, SpendType DEF RelayPublish, Fault
  <2>5. \A h : IdOf(h) \in RemoteId
    BY DEF IdOf, RemoteId
  <2>6. PICK s \in RelayState : s.key \in Key /\ relay' = [relay EXCEPT ![p] = s]
    <3>1. PICK h \in Dispatched(k) :
              \/ relay' = [relay EXCEPT ![p].pc = "accepted", ![p].id = IdOf(h)]
              \/ relay' = [relay EXCEPT ![p].pc = "refused"]
      BY <1>3 DEF RelayPublish
    <3>2. /\ [relay[p] EXCEPT !.pc = "accepted", !.id = IdOf(h)] \in RelayState
          /\ [relay[p] EXCEPT !.pc = "refused"] \in RelayState
      BY <2>5 DEF RelayState, RelayPC
    <3>3. /\ [relay[p] EXCEPT !.pc = "accepted", !.id = IdOf(h)].key \in Key
          /\ [relay[p] EXCEPT !.pc = "refused"].key \in Key
      BY <2>1 DEF RelayState
    <3> QED
      BY <3>1, <3>2, <3>3
  <2>7. /\ relay' \in [Relay -> RelayState]
        /\ \A e \in Relay : ~Idle(relay'[e]) => relay'[e].key \in Key
    BY <2>6, RelayUpdateType
  <2> QED
    BY <1>3, <2>3, <2>4, <2>7 DEF RelayPublish
<1>4. CASE RelayMark(p)
  <2> DEFINE k == relay[p].key
  <2>1. k \in Key /\ relay[p].id \in RemoteId
    BY <1>4 DEF RelayMark, RelayState, Idle, At
  <2>2. Published(row[k], relay[p].id) \in Row /\ PublishFailed(row[k]) \in Row
    BY <2>1, RowType
  <2>3. row' \in [Key -> Row] /\ reopened' \in [Key -> Nat]
    BY <1>4, <2>1, <2>2, WriteType DEF RelayMark
  <2>4. /\ relay' \in [Relay -> RelayState]
        /\ \A e \in Relay : ~Idle(relay'[e]) => relay'[e].key \in Key
    BY <1>0, <1>4, RelayUpdateType DEF RelayMark
  <2> QED
    BY <1>4, <2>3, <2>4 DEF RelayMark
<1>5. CASE RelayRefused(p)
  <2>1. budget' \in [Fault -> Nat]
    BY <1>5, SpendType DEF RelayRefused, Fault
  <2>2. relay[p].key \in Key
    BY <1>5 DEF RelayRefused, Idle, At
  <2>3. /\ [relay[p] EXCEPT !.pc = "refused"] \in RelayState
        /\ [relay[p] EXCEPT !.pc = "refused"].key \in Key
    BY <2>2 DEF RelayState, RelayPC
  <2>4. relay' = [relay EXCEPT ![p] = [relay[p] EXCEPT !.pc = "refused"]]
    BY <1>5 DEF RelayRefused
  <2>5. /\ relay' \in [Relay -> RelayState]
        /\ \A e \in Relay : ~Idle(relay'[e]) => relay'[e].key \in Key
    BY <2>3, <2>4, RelayUpdateType
  <2> QED
    BY <1>5, <2>1, <2>5 DEF RelayRefused
<1>6. CASE RelayCrash(p)
  <2>1. budget' \in [Fault -> Nat]
    BY <1>6, SpendType DEF RelayCrash, Fault
  <2>2. /\ relay' \in [Relay -> RelayState]
        /\ \A e \in Relay : ~Idle(relay'[e]) => relay'[e].key \in Key
    BY <1>0, <1>6, RelayUpdateType DEF RelayCrash
  <2> QED
    BY <1>6, <2>1, <2>2 DEF RelayCrash
<1> QED
  BY <1>1, <1>2, <1>3, <1>4, <1>5, <1>6 DEF RelayStep

LEMMA DeliveryType ==
    ASSUME TInv, NEW d \in Delivery, DeliveryStep(d) \/ DeliveryFault(d)
    PROVE  TInv'
<1> USE DEF TInv, TypeOK, KeysHeld
<1> DEFINE k == delivery[d].key
           DeliveriesHeld ==
             \A e \in Delivery : ~Idle(delivery[e]) => delivery[e].key \in Key
           Kept == /\ delivery' \in [Delivery -> DeliveryState]
                   /\ DeliveriesHeld'
           Written == row' \in [Key -> Row] /\ reopened' \in [Key -> Nat]
<1>0. ~Idle(delivery[d]) /\ k \in Key
  BY DEF DeliveryStep, DeliveryFault, CheckRun, Activate, CancelDisabled, Claim,
         CommitClaim, InspectRun, InspectJob, BeginMutation, CommitMutation,
         Verify, AnswerOk, AnswerErr, JobFails, JobDefers, ExecutorErrors,
         DeliveryCrash, Idle, At
<1>a. \A pc \in DeliveryPC : Goto(d, pc) => Kept
  BY <1>0, GotoType
<1>b. Release(d) => Kept
  BY ReleaseType
<1>c. \A r \in Row : Write(k, r) => Written
  BY <1>0, WriteType
<1>d. Acknowledge(d) => Kept /\ hatchet' \in [Key -> Remote]
  BY <1>0, <1>b DEF Acknowledge, Remote
<1>r. /\ row[k] \in Row /\ Cancelled(row[k]) \in Row
      /\ Completed(row[k]) \in Row /\ CompletedMark(row[k]) \in Row
      /\ FailedMark(row[k]) \in Row /\ Failed(row[k]) \in Row
      /\ Deferred(row[k]) \in Row /\ Claimed(row[k], d) \in Row
  BY <1>0, RowType
<1> HIDE DEF Kept, Written
<1>1. CASE CheckRun(d)
  <2>1. Kept /\ Written /\ hatchet' \in [Key -> Remote]
    <3>1. "activate" \in DeliveryPC
      BY DEF DeliveryPC
    <3> QED
      BY <1>1, <1>a, <1>c, <1>d, <1>r, <3>1 DEF CheckRun, Written
  <2> QED
    BY <1>1, <2>1 DEF CheckRun, Kept, Written
<1>2. CASE Activate(d)
  <2>1. Kept
    BY <1>2, <1>a DEF Activate, DeliveryPC
  <2> QED
    BY <1>2, <2>1 DEF Activate, Kept
<1>3. CASE CancelDisabled(d)
  <2>1. Kept /\ Written
    BY <1>3, <1>a, <1>c, <1>r DEF CancelDisabled, DeliveryPC
  <2> QED
    BY <1>3, <2>1 DEF CancelDisabled, Kept, Written
<1>4. CASE Claim(d)
  <2>1. Kept
    BY <1>4, <1>a DEF Claim, DeliveryPC
  <2>2. lock' \in [Key -> Delivery \cup {NoOne}]
    BY <1>0, <1>4 DEF Claim
  <2> QED
    BY <1>4, <2>1, <2>2 DEF Claim, Kept
<1>5. CASE CommitClaim(d)
  <2>1. Kept
    BY <1>5, <1>a DEF CommitClaim, DeliveryPC
  <2>2. row' \in [Key -> Row] /\ lock' \in [Key -> Delivery \cup {NoOne}]
    BY <1>0, <1>5, <1>r DEF CommitClaim
  <2> QED
    BY <1>5, <2>1, <2>2 DEF CommitClaim, Kept
<1>6. CASE InspectRun(d)
  <2>1. Kept
    BY <1>6, <1>a DEF InspectRun, DeliveryPC
  <2> QED
    BY <1>6, <2>1 DEF InspectRun, Kept
<1>7. CASE InspectJob(d)
  <2>1. Kept
    BY <1>7, <1>a, <1>b DEF InspectJob, DeliveryPC
  <2> QED
    BY <1>7, <2>1 DEF InspectJob, Kept
<1>8. CASE BeginMutation(d)
  <2>1. row[k].live \in BOOLEAN
    BY <1>r DEF Row
  <2> DEFINE s == [delivery[d] EXCEPT !.pc = "mutate", !.inTime = row[k].live]
  <2>2. s \in DeliveryState /\ s.key \in Key
    BY <1>0, <2>1 DEF DeliveryState, DeliveryPC
  <2>3. delivery' = [delivery EXCEPT ![d] = s]
    BY <1>8 DEF BeginMutation
  <2>4. Kept
    <3> HIDE DEF s
    <3> QED
      BY <2>2, <2>3 DEF Kept
  <2> QED
    BY <1>8, <2>4 DEF BeginMutation, Kept
<1>9. CASE CommitMutation(d)
  <2>1. Kept
    BY <1>9, <1>a DEF CommitMutation, DeliveryPC
  <2>2. Written
    BY <1>9, <1>c, <1>r DEF CommitMutation, Written
  <2>3. effects' \in [Key -> Nat]
    <3>1. \/ effects' = [effects EXCEPT ![k] = @ + 1]
          \/ effects' = effects
      BY <1>9 DEF CommitMutation
    <3>2. effects[k] + 1 \in Nat
      BY <1>0
    <3> QED
      BY <3>1, <3>2
  <2> QED
    BY <1>9, <2>1, <2>2, <2>3 DEF CommitMutation, Kept, Written
<1>10. CASE Verify(d)
  <2>1. Kept
    BY <1>10, <1>a DEF Verify, DeliveryPC
  <2> QED
    BY <1>10, <2>1 DEF Verify, Kept
<1>11. CASE AnswerOk(d)
  <2>1. Kept /\ Written /\ hatchet' \in [Key -> Remote]
    BY <1>11, <1>c, <1>d, <1>r DEF AnswerOk
  <2> QED
    BY <1>11, <2>1 DEF AnswerOk, Kept, Written
<1>12. CASE AnswerErr(d)
  <2>1. Kept /\ Written
    BY <1>12, <1>b, <1>c, <1>r DEF AnswerErr, Reject
  <2> QED
    BY <1>12, <2>1 DEF AnswerErr, Reject, Kept, Written
<1>13. ASSUME NEW r \in Row, JobReturns(d, r)
       PROVE  TInv'
  <2>1. Kept
    BY <1>13, <1>a DEF JobReturns, DeliveryPC
  <2>2. Written
    BY <1>13, <1>c, <1>r DEF JobReturns
  <2>3. budget' \in [Fault -> Nat]
    BY <1>13, SpendType DEF JobReturns, Fault
  <2> QED
    BY <1>13, <2>1, <2>2, <2>3 DEF JobReturns, Kept, Written
<1>14. CASE JobFails(d) \/ JobDefers(d)
  BY <1>13, <1>14, <1>r DEF JobFails, JobDefers
<1>15. CASE ExecutorErrors(d)
  <2>1. Kept
    BY <1>15, <1>a DEF ExecutorErrors, DeliveryPC
  <2>2. budget' \in [Fault -> Nat]
    BY <1>15, SpendType DEF ExecutorErrors, Fault
  <2> QED
    BY <1>15, <2>1, <2>2 DEF ExecutorErrors, Kept
<1>16. CASE DeliveryCrash(d)
  <2>1. Kept
    BY <1>16, <1>b DEF DeliveryCrash, Reject
  <2>2. budget' \in [Fault -> Nat]
    BY <1>16, SpendType DEF DeliveryCrash, Fault
  <2> QED
    BY <1>16, <2>1, <2>2 DEF DeliveryCrash, Reject, Kept
<1> QED
  BY <1>1, <1>2, <1>3, <1>4, <1>5, <1>6, <1>7, <1>8, <1>9, <1>10, <1>11,
     <1>12, <1>14, <1>15, <1>16 DEF DeliveryStep, DeliveryFault

LEMMA OperatorType ==
    ASSUME TInv, NEW o \in Operator,
           \/ \E op \in Request, k \in Key : Ask(o, op, k)
           \/ CallBridge(o) \/ Control(o) \/ AbandonRequest(o)
    PROVE  TInv'
<1> USE DEF TInv, TypeOK, KeysHeld
<1> DEFINE q == operator[o]
           Kept == /\ operator' \in [Operator -> OperatorState]
                   /\ \A e \in Operator : ~Idle(operator'[e]) =>
                        operator'[e].key \in Key /\ operator'[e].op \in Request
<1>0. IdleOperator \in OperatorState /\ Idle(IdleOperator)
  BY DEF IdleOperator, OperatorState, OperatorPC, RemoteId, Idle, At
<1>1. ASSUME NEW op \in Request, NEW k \in Key, Ask(o, op, k)
      PROVE  TInv'
  <2> DEFINE seen == IF op = "retry" THEN "none" ELSE row[k].remote
             s == [pc |-> IF seen = "none" THEN "write" ELSE "remote",
                   key |-> k, op |-> op, seen |-> seen, id |-> "none"]
  <2>1. s \in OperatorState
    BY DEF OperatorState, OperatorPC, Row, RemoteId
  <2>2. operator' = [operator EXCEPT ![o] = s]
    BY <1>1 DEF Ask
  <2>3. Kept
    <3>1. s.key \in Key /\ s.op \in Request
      OBVIOUS
    <3> HIDE DEF s
    <3> QED
      BY <2>1, <2>2, <3>1, OperatorUpdateType
  <2>4. budget' \in [Fault -> Nat]
    BY <1>1, SpendType DEF Ask, Fault
  <2> QED
    BY <1>1, <2>3, <2>4 DEF Ask
<1>2. CASE CallBridge(o)
  <2>1. q.key \in Key /\ q.op \in Request /\ q \in OperatorState
    BY <1>2 DEF CallBridge, Idle, At
  <2>2. Controlled(q.op, q.seen, hatchet[q.key]) \in Remote
    BY <2>1 DEF Controlled, Remote
  <2>3. hatchet' \in [Key -> Remote]
    BY <1>2, <2>1, <2>2 DEF CallBridge
  <2>4. Answered(q.op, q.seen, hatchet[q.key]) \in RemoteId
    BY DEF Answered, RemoteId
  <2> DEFINE s == [q EXCEPT !.pc = "write",
                            !.id = Answered(q.op, q.seen, hatchet[q.key])]
  <2>5. s \in OperatorState /\ s.key \in Key /\ s.op \in Request
    BY <2>1, <2>4 DEF OperatorState, OperatorPC
  <2>6. operator' = [operator EXCEPT ![o] = s]
    BY <1>2 DEF CallBridge
  <2>7. Kept
    <3> HIDE DEF s
    <3> QED
      BY <2>5, <2>6, OperatorUpdateType
  <2> QED
    BY <1>2, <2>3, <2>7 DEF CallBridge
<1>3. CASE Control(o)
  <2>1. q.key \in Key /\ q.op \in Request /\ q \in OperatorState
    BY <1>3 DEF Control, Idle, At
  <2>2. Controls(q, row[q.key]) \in Row
    BY <2>1, ControlsType
  <2>3. row' \in [Key -> Row] /\ reopened' \in [Key -> Nat]
    BY <1>3, <2>1, <2>2, WriteType DEF Control
  <2>4. Kept
    BY <1>0, <1>3, OperatorUpdateType DEF Control
  <2> QED
    BY <1>3, <2>3, <2>4 DEF Control
<1>4. CASE AbandonRequest(o)
  <2>1. Kept
    BY <1>0, <1>4, OperatorUpdateType DEF AbandonRequest
  <2> QED
    BY <1>4, <2>1 DEF AbandonRequest
<1> QED
  BY <1>1, <1>2, <1>3, <1>4

LEMMA TypeStep == TInv /\ [Next]_vars => TInv'
<1> SUFFICES ASSUME TInv, [Next]_vars PROVE TInv'
  OBVIOUS
<1>1. CASE Next
  BY <1>1, EnvironmentType, RelayType, DeliveryType, OperatorType DEF Next, Work
<1>2. CASE UNCHANGED vars
  BY <1>2 DEF vars, TInv, TypeOK, KeysHeld
<1> QED
  BY <1>1, <1>2

LEMMA TypeInit == Init => TInv
<1> SUFFICES ASSUME Init PROVE TInv
  OBVIOUS
<1>1. NoRow \in Row
  BY DEF NoRow, Row, OutboxStatus, RunStatus, RemoteId
<1>2. /\ IdleRelay \in RelayState /\ Idle(IdleRelay)
      /\ IdleDelivery \in DeliveryState /\ Idle(IdleDelivery)
      /\ IdleOperator \in OperatorState /\ Idle(IdleOperator)
  BY DEF IdleRelay, IdleDelivery, IdleOperator, RelayState, DeliveryState,
         OperatorState, RelayPC, DeliveryPC, OperatorPC, RemoteId, Idle, At
<1>3. "none" \in Remote
  BY DEF Remote
<1> QED
  BY <1>1, <1>2, <1>3, WorkflowAssumption DEF Init, TInv, TypeOK, KeysHeld

(* Every reachable state of the durable workflow is one of rows the tables *)
(* accept and of processes at a known place, whatever crashes, lapses and  *)
(* interleavings led there.                                                *)
THEOREM TypeCorrect == Spec => []TypeOK
<1>1. TInv => TypeOK
  BY DEF TInv
<1> QED
  BY <1>1, TypeInit, TypeStep, PTL DEF Spec

-----------------------------------------------------------------------------
(* The execution fence.  A claim token sits only on a running run whose    *)
(* intent is not withheld, a locked row can only be waiting for its claim  *)
(* to commit, and effects are counted against openings of the run.         *)

Fenced(r) ==
    r.token # NoOne => r.run = "running" /\ r.outbox \notin Withheld

Done(r) == IF r.run = "completed" THEN 1 ELSE 0

RowsFenced == \A k \in Key : Fenced(row[k])

EffectsCounted == \A k \in Key : effects[k] <= reopened[k] + Done(row[k])

LockInv ==
    /\ \A k \in Key : lock[k] # NoOne =>
            /\ At(delivery[lock[k]], "claiming")
            /\ delivery[lock[k]].key = k
            /\ row[k].run \notin Withheld \cup {"absent", "completed"}
            /\ row[k].outbox \notin Withheld
    /\ \A d \in Delivery : At(delivery[d], "claiming") =>
            lock[delivery[d].key] = d

FInv == TInv /\ RowsFenced /\ EffectsCounted /\ LockInv

(* Whatever a transaction writes, it never leaves a token behind on a run  *)
(* that is not running.                                                    *)
LEMMA RowFence ==
    ASSUME NEW r \in Row, Fenced(r)
    PROVE  /\ Fenced(Enqueued(r))
           /\ Fenced(Publishing(r))
           /\ \A id \in RemoteId : Fenced(Published(r, id))
           /\ Fenced(PublishFailed(r))
           /\ Fenced(Completed(r)) /\ Fenced(Deferred(r)) /\ Fenced(Failed(r))
           /\ Fenced(CompletedMark(r)) /\ Fenced(FailedMark(r))
           /\ Fenced(Cancelled(r)) /\ Fenced(Cancelled(Publishing(r)))
           /\ Fenced(Paused(r)) /\ Fenced(Resumed(r))
           /\ Fenced(Replayed(r)) /\ Fenced(Retried(r))
           /\ \A id \in RemoteId : Fenced(ReplayedRemotely(r, id))
<1> USE DEF Fenced, Row, Unclaimed, Withheld
<1>1. Fenced(Enqueued(r))
  BY DEF Enqueued, NoRow
<1>2. Fenced(Publishing(r)) /\ Fenced(PublishFailed(r))
  BY DEF Publishing, PublishFailed
<1>3. ASSUME NEW id \in RemoteId
      PROVE  Fenced(Published(r, id)) /\ Fenced(ReplayedRemotely(r, id))
  <2>1. Fenced(Published(r, id))
    BY DEF Published
  <2>2. Fenced(ReplayedRemotely(r, id))
    BY DEF ReplayedRemotely
  <2> QED
    BY <2>1, <2>2
<1>4. Fenced(Completed(r)) /\ Fenced(Deferred(r)) /\ Fenced(Failed(r))
  BY DEF Completed, Deferred, Failed
<1>5. Fenced(CompletedMark(r)) /\ Fenced(FailedMark(r))
  BY DEF CompletedMark, FailedMark
<1>6. Fenced(Cancelled(r)) /\ Fenced(Cancelled(Publishing(r)))
  BY DEF Cancelled, Publishing
<1>7. Fenced(Paused(r)) /\ Fenced(Resumed(r))
  BY DEF Paused, Resumed
<1>8. Fenced(Replayed(r)) /\ Fenced(Retried(r))
  BY DEF Replayed, Retried
<1> QED
  BY <1>1, <1>2, <1>3, <1>4, <1>5, <1>6, <1>7, <1>8

LEMMA ControlsFence ==
    ASSUME NEW r \in Row, Fenced(r), NEW q \in OperatorState, q.op \in Request
    PROVE  Fenced(Controls(q, r))
<1>1. q.id \in RemoteId
  BY DEF OperatorState
<1>2. Rebound(q, r) \in Row /\ Fenced(Rebound(q, r))
  BY <1>1 DEF Rebound, Row, Fenced
<1>3. q.op \in {"cancel", "pause", "resume", "replay", "retry"}
  BY WorkflowAssumption
<1> QED
  BY <1>1, <1>2, <1>3, RowFence DEF Controls

(* A write under no lock, of a fenced row and without an effect: nothing   *)
(* of the fence is disturbed.                                              *)
LEMMA WriteFence ==
    ASSUME FInv, NEW k \in Key, NEW r \in Row, Fenced(r), Write(k, r),
           effects' = effects
    PROVE  /\ RowsFenced' /\ EffectsCounted'
           /\ \A j \in Key : lock[j] # NoOne => row'[j] = row[j]
<1> USE DEF FInv, TInv, TypeOK
<1>1. /\ lock[k] = NoOne
      /\ row' = [row EXCEPT ![k] = r]
      /\ reopened' = [reopened EXCEPT ![k] =
            IF row[k].run = "completed" /\ r.run # "completed"
            THEN @ + 1 ELSE @]
  BY DEF Write
<1>2. RowsFenced'
  BY <1>1 DEF RowsFenced
<1>3. ASSUME NEW j \in Key
      PROVE  effects'[j] <= reopened'[j] + Done(row'[j])
  <2>1. effects[j] <= reopened[j] + Done(row[j])
    BY DEF EffectsCounted
  <2>2. CASE j = k
    BY <1>1, <2>1, <2>2 DEF Done
  <2>3. CASE j # k
    BY <1>1, <2>1, <2>3
  <2> QED
    BY <2>2, <2>3
<1> QED
  BY <1>1, <1>2, <1>3 DEF EffectsCounted

(* So is a step that keeps every run, its claim and its effects.           *)
LEMMA StillFence ==
    ASSUME FInv, effects' = effects, reopened' = reopened,
           \A k \in Key : /\ row'[k].run = row[k].run
                          /\ row'[k].token = row[k].token
                          /\ row[k].outbox \notin Withheld =>
                                row'[k].outbox \notin Withheld
    PROVE  RowsFenced' /\ EffectsCounted'
BY DEF FInv, RowsFenced, Fenced, EffectsCounted, Done

(* Locks stay as they are when no claiming delivery moves, none begins to  *)
(* claim, and locked rows keep their run.                                  *)
LEMMA LockStep ==
    ASSUME FInv, lock' = lock,
           \A d \in Delivery :
               \/ delivery'[d] = delivery[d]
               \/ ~At(delivery[d], "claiming") /\ ~At(delivery'[d], "claiming"),
           \A k \in Key : lock[k] # NoOne =>
               /\ row'[k].run = row[k].run
               /\ row[k].outbox \notin Withheld =>
                      row'[k].outbox \notin Withheld
    PROVE  LockInv'
<1>1. ASSUME NEW k \in Key, lock[k] # NoOne
      PROVE  /\ At(delivery'[lock[k]], "claiming")
             /\ delivery'[lock[k]].key = k
             /\ row'[k].run \notin Withheld \cup {"absent", "completed"}
             /\ row'[k].outbox \notin Withheld
  <2>1. lock[k] \in Delivery
    BY <1>1 DEF FInv, TInv, TypeOK
  <2> QED
    BY <1>1, <2>1 DEF FInv, LockInv
<1>2. ASSUME NEW d \in Delivery, At(delivery'[d], "claiming")
      PROVE  lock[delivery'[d].key] = d
  BY <1>2 DEF FInv, LockInv
<1> QED
  BY <1>1, <1>2 DEF LockInv, At

LEMMA EnvironmentFence ==
    ASSUME FInv,
           \/ \E k \in Key : Enqueue(k) \/ FallDue(k) \/ FireSchedule(k)
                           \/ LeaseLapses(k)
           \/ \E p \in Plugin : TogglePlugin(p)
           \/ \E d \in Delivery, k \in Key : Deliver(d, k)
    PROVE  RowsFenced' /\ EffectsCounted' /\ LockInv'
<1> USE DEF FInv, TInv, TypeOK
<1>1. ASSUME NEW k \in Key, Enqueue(k)
      PROVE  RowsFenced' /\ EffectsCounted' /\ LockInv'
  <2>1. Enqueued(row[k]) \in Row /\ Fenced(Enqueued(row[k]))
    BY RowType, RowFence DEF RowsFenced
  <2>2. /\ Write(k, Enqueued(row[k])) /\ effects' = effects
        /\ lock' = lock /\ delivery' = delivery
    BY <1>1 DEF Enqueue
  <2> QED
    BY <2>1, <2>2, WriteFence, LockStep
<1>2. ASSUME NEW k \in Key, FallDue(k) \/ LeaseLapses(k)
      PROVE  RowsFenced' /\ EffectsCounted' /\ LockInv'
  <2>0. ASSUME NEW j \in Key
        PROVE  row'[j] \in {row[j], [row[j] EXCEPT !.due = TRUE],
                                   [row[j] EXCEPT !.live = FALSE]}
    BY <1>2 DEF FallDue, LeaseLapses
  <2>1. \A j \in Key : /\ row'[j].run = row[j].run
                       /\ row'[j].token = row[j].token
                       /\ row'[j].outbox = row[j].outbox
    BY <2>0, FlagType
  <2>2. /\ effects' = effects /\ reopened' = reopened
        /\ lock' = lock /\ delivery' = delivery
    BY <1>2 DEF FallDue, LeaseLapses
  <2> QED
    BY <2>1, <2>2, StillFence, LockStep
<1>3. ASSUME \/ \E k \in Key : FireSchedule(k)
             \/ \E p \in Plugin : TogglePlugin(p)
      PROVE  RowsFenced' /\ EffectsCounted' /\ LockInv'
  <2>1. /\ row' = row /\ effects' = effects /\ reopened' = reopened
        /\ lock' = lock /\ delivery' = delivery
    BY <1>3 DEF FireSchedule, TogglePlugin
  <2> QED
    BY <2>1, StillFence, LockStep
<1>4. ASSUME NEW d \in Delivery, NEW k \in Key, Deliver(d, k)
      PROVE  RowsFenced' /\ EffectsCounted' /\ LockInv'
  <2>1. /\ row' = row /\ effects' = effects /\ reopened' = reopened
        /\ lock' = lock
        /\ Idle(delivery[d])
        /\ delivery' = [delivery EXCEPT ![d] = [pc |-> "check", key |-> k,
                                                inTime |-> FALSE]]
    BY <1>4 DEF Deliver
  <2>2. \A e \in Delivery :
            \/ delivery'[e] = delivery[e]
            \/ ~At(delivery[e], "claiming") /\ ~At(delivery'[e], "claiming")
    BY <2>1 DEF Idle, At
  <2> QED
    BY <2>1, <2>2, StillFence, LockStep
<1> QED
  BY <1>1, <1>2, <1>3, <1>4

LEMMA RelayFence ==
    ASSUME FInv, NEW p \in Relay,
           RelayStep(p) \/ RelayRefused(p) \/ RelayCrash(p)
    PROVE  RowsFenced' /\ EffectsCounted' /\ LockInv'
<1> USE DEF FInv, TInv, TypeOK
<1>0. effects' = effects /\ lock' = lock /\ delivery' = delivery
  BY DEF RelayStep, RelayClaim, RelayCancel, RelayPublish, RelayMark,
         RelayRefused, RelayCrash
<1>1. CASE RelayClaim(p)
  <2>1. PICK k \in Key : row' = [row EXCEPT ![k] = Publishing(@)]
    BY <1>1 DEF RelayClaim
  <2>2. \A j \in Key : /\ row'[j].run = row[j].run
                       /\ row'[j].token = row[j].token
                       /\ row[j].outbox \notin Withheld =>
                             row'[j].outbox \notin Withheld
    BY <2>1 DEF Publishing, Row, Withheld
  <2>3. reopened' = reopened
    BY <1>1 DEF RelayClaim
  <2> QED
    BY <1>0, <2>2, <2>3, StillFence, LockStep
<1>2. CASE RelayCancel(p)
  <2>1. PICK k \in Key : Write(k, Cancelled(Publishing(row[k])))
    BY <1>2 DEF RelayCancel
  <2>2. /\ Cancelled(Publishing(row[k])) \in Row
        /\ Fenced(Cancelled(Publishing(row[k])))
    BY RowType, RowFence DEF RowsFenced
  <2> QED
    BY <1>0, <2>1, <2>2, WriteFence, LockStep
<1>3. CASE RelayMark(p)
  <2> DEFINE k == relay[p].key
  <2>1. k \in Key /\ relay[p].id \in RemoteId
    BY <1>3 DEF RelayMark, RelayState, KeysHeld, Idle, At
  <2>2. /\ Published(row[k], relay[p].id) \in Row
        /\ Fenced(Published(row[k], relay[p].id))
        /\ PublishFailed(row[k]) \in Row /\ Fenced(PublishFailed(row[k]))
    BY <2>1, RowType, RowFence DEF RowsFenced
  <2>3. PICK r \in Row : Fenced(r) /\ Write(k, r)
    BY <1>3, <2>2 DEF RelayMark
  <2> HIDE DEF k
  <2> QED
    BY <1>0, <2>1, <2>3, WriteFence, LockStep
<1>4. CASE RelayPublish(p) \/ RelayRefused(p) \/ RelayCrash(p)
  <2>1. row' = row /\ reopened' = reopened
    BY <1>4 DEF RelayPublish, RelayRefused, RelayCrash
  <2> QED
    BY <1>0, <2>1, StillFence, LockStep
<1> QED
  BY <1>1, <1>2, <1>3, <1>4 DEF RelayStep

LEMMA OperatorFence ==
    ASSUME FInv, NEW o \in Operator,
           \/ \E op \in Request, k \in Key : Ask(o, op, k)
           \/ CallBridge(o) \/ Control(o) \/ AbandonRequest(o)
    PROVE  RowsFenced' /\ EffectsCounted' /\ LockInv'
<1> USE DEF FInv, TInv, TypeOK
<1>0. effects' = effects /\ lock' = lock /\ delivery' = delivery
  BY DEF Ask, CallBridge, Control, AbandonRequest
<1>1. CASE Control(o)
  <2> DEFINE q == operator[o]  r == Controls(q, row[q.key])
  <2>1. q.key \in Key /\ q.op \in Request /\ q \in OperatorState
    BY <1>1 DEF Control, KeysHeld, Idle, At
  <2>2. r \in Row /\ Fenced(r)
    BY <2>1, ControlsType, ControlsFence DEF RowsFenced
  <2>3. Write(q.key, r)
    BY <1>1 DEF Control
  <2> HIDE DEF q, r
  <2> QED
    BY <1>0, <2>1, <2>2, <2>3, WriteFence, LockStep
<1>2. CASE CallBridge(o) \/ AbandonRequest(o)
           \/ \E op \in Request, k \in Key : Ask(o, op, k)
  <2>1. row' = row /\ reopened' = reopened
    BY <1>2 DEF Ask, CallBridge, AbandonRequest
  <2> QED
    BY <1>0, <2>1, StillFence, LockStep
<1> QED
  BY <1>1, <1>2

(* A mutation commits only under a claim, and so only while the run is     *)
(* running and its intent is not withheld.                                 *)
LEMMA CommitFence ==
    ASSUME FInv, NEW d \in Delivery, CommitMutation(d)
    PROVE  /\ RowsFenced' /\ EffectsCounted' /\ LockInv'
           /\ \A j \in Key : effects'[j] # effects[j] =>
                row[j].run = "running" /\ row[j].outbox \notin Withheld
<1> USE DEF FInv, TInv, TypeOK
<1> DEFINE k == delivery[d].key
<1>1. /\ k \in Key /\ lock[k] = NoOne /\ lock' = lock
      /\ At(delivery[d], "mutate")
      /\ delivery' = [delivery EXCEPT ![d].pc = "verify"]
  BY DEF CommitMutation, KeysHeld, Goto, Idle, At
<1>2. \A e \in Delivery :
          \/ delivery'[e] = delivery[e]
          \/ ~At(delivery[e], "claiming") /\ ~At(delivery'[e], "claiming")
  BY <1>1 DEF At, DeliveryState
<1>3. CASE ~OwnsClaim(row[k], d, delivery[d].inTime)
  <2>1. row' = row /\ effects' = effects /\ reopened' = reopened
    BY <1>3 DEF CommitMutation
  <2> QED
    BY <1>1, <1>2, <2>1, StillFence, LockStep
<1>4. CASE OwnsClaim(row[k], d, delivery[d].inTime)
  <2>1. /\ Write(k, Completed(row[k]))
        /\ effects' = [effects EXCEPT ![k] = @ + 1]
    BY <1>4 DEF CommitMutation
  <2>2. row[k].run = "running" /\ row[k].outbox \notin Withheld
    BY <1>1, <1>4, NoOneAssumption DEF OwnsClaim, RowsFenced, Fenced
  <2>3. /\ Completed(row[k]) \in Row /\ Fenced(Completed(row[k]))
        /\ Completed(row[k]).run = "completed"
    <3>1. row[k] \in Row
      BY <1>1
    <3>2. Completed(row[k]).run = "completed"
      BY <3>1 DEF Completed, Unclaimed, Row
    <3> QED
      BY <1>1, <3>1, <3>2, RowType, RowFence DEF RowsFenced
  <2> DEFINE r == Completed(row[k])
  <2>4. row' = [row EXCEPT ![k] = r] /\ reopened' = reopened
    BY <2>1, <2>2 DEF Write
  <2> HIDE DEF r
  <2>5. RowsFenced'
    BY <2>3, <2>4 DEF RowsFenced, r
  <2>6. EffectsCounted'
    <3>1. ASSUME NEW j \in Key
          PROVE  effects'[j] <= reopened'[j] + Done(row'[j])
      <4>1. effects[j] <= reopened[j] + Done(row[j])
        BY DEF EffectsCounted
      <4>2. CASE j = k
        BY <1>1, <2>1, <2>2, <2>3, <2>4, <4>1, <4>2 DEF Done, r
      <4>3. CASE j # k
        BY <2>1, <2>4, <4>1, <4>3
      <4> QED
        BY <4>2, <4>3
    <3> QED
      BY <3>1 DEF EffectsCounted
  <2>7. LockInv'
    BY <1>1, <1>2, <2>4, LockStep
  <2>8. \A j \in Key : effects'[j] # effects[j] => j = k
    BY <2>1
  <2> QED
    BY <2>2, <2>5, <2>6, <2>7, <2>8
<1> QED
  BY <1>3, <1>4

(* Taking the row's lock, committing the claim, and dying with either.     *)
LEMMA ClaimFence ==
    ASSUME FInv, NEW d \in Delivery,
           Claim(d) \/ CommitClaim(d) \/ DeliveryCrash(d)
    PROVE  RowsFenced' /\ EffectsCounted' /\ LockInv'
<1> USE DEF FInv, TInv, TypeOK
<1> DEFINE k == delivery[d].key
<1>0. k \in Key
  BY DEF Claim, CommitClaim, DeliveryCrash, KeysHeld, Idle, At
<1>1. CASE Claim(d)
  <2>1. row' = row /\ effects' = effects /\ reopened' = reopened
    BY <1>1 DEF Claim
  <2>2. CASE lock[k] = NoOne /\ Claimable(row[k])
    <3>1. /\ lock' = [lock EXCEPT ![k] = d]
          /\ delivery' = [delivery EXCEPT ![d].pc = "claiming"]
          /\ At(delivery[d], "claim")
      BY <1>1, <2>2 DEF Claim, Goto
    <3>2. /\ delivery'[d].pc = "claiming" /\ delivery'[d].key = k
          /\ \A e \in Delivery : e # d => delivery'[e] = delivery[e]
      BY <3>1 DEF DeliveryState
    <3>3. ASSUME NEW j \in Key, lock'[j] # NoOne
          PROVE  /\ At(delivery'[lock'[j]], "claiming")
                 /\ delivery'[lock'[j]].key = j
                 /\ row'[j].run \notin Withheld \cup {"absent", "completed"}
                 /\ row'[j].outbox \notin Withheld
      <4>1. CASE j = k
        BY <1>0, <2>1, <2>2, <3>1, <3>2, <4>1 DEF Claimable, At
      <4>2. CASE j # k
        <5>1. lock'[j] = lock[j] /\ lock[j] # d
          BY <3>1, <3>3, <4>2 DEF LockInv, At
        <5>2. lock[j] \in Delivery
          BY <3>3, <5>1
        <5> QED
          BY <2>1, <3>2, <3>3, <5>1, <5>2 DEF LockInv
      <4> QED
        BY <4>1, <4>2
    <3>4. ASSUME NEW e \in Delivery, At(delivery'[e], "claiming")
          PROVE  lock'[delivery'[e].key] = e
      <4>1. CASE e = d
        BY <1>0, <3>1, <3>2, <4>1
      <4>2. CASE e # d
        <5>1. lock[delivery[e].key] = e
          BY <3>2, <3>4, <4>2 DEF LockInv
        <5>2. delivery[e].key # k
          BY <2>2, <5>1, NoOneAssumption
        <5> QED
          BY <3>1, <3>2, <4>2, <5>1, <5>2
      <4> QED
        BY <4>1, <4>2
    <3>5. LockInv'
      BY <3>3, <3>4 DEF LockInv
    <3> QED
      BY <2>1, <3>5, StillFence
  <2>3. CASE lock[k] # NoOne \/ ~Claimable(row[k])
    <3>1. /\ lock' = lock
          /\ delivery' = [delivery EXCEPT ![d].pc = "inspectRun"]
          /\ At(delivery[d], "claim")
      BY <1>1, <2>3 DEF Claim, Goto
    <3>2. \A e \in Delivery :
              \/ delivery'[e] = delivery[e]
              \/ ~At(delivery[e], "claiming") /\ ~At(delivery'[e], "claiming")
      BY <3>1 DEF At, DeliveryState
    <3> QED
      BY <2>1, <3>1, <3>2, StillFence, LockStep
  <2> QED
    BY <2>2, <2>3
<1>2. CASE CommitClaim(d)
  <2>1. /\ row' = [row EXCEPT ![k] = Claimed(@, d)]
        /\ lock' = [lock EXCEPT ![k] = NoOne]
        /\ delivery' = [delivery EXCEPT ![d].pc = "exec"]
        /\ effects' = effects /\ reopened' = reopened
        /\ At(delivery[d], "claiming")
    BY <1>2 DEF CommitClaim, Goto
  <2>2. /\ lock[k] = d
        /\ row[k].run \notin Withheld \cup {"absent", "completed"}
        /\ row[k].outbox \notin Withheld
    BY <1>0, <2>1, NoOneAssumption DEF LockInv
  <2>3. /\ row'[k].run = "running" /\ row'[k].outbox = row[k].outbox
        /\ \A j \in Key : j # k => row'[j] = row[j]
    BY <1>0, <2>1 DEF Claimed, Row
  <2>4. RowsFenced'
    BY <2>2, <2>3 DEF RowsFenced, Fenced
  <2>5. EffectsCounted'
    <3>1. \A j \in Key : Done(row'[j]) = Done(row[j])
      BY <2>2, <2>3 DEF Done
    <3> QED
      BY <2>1, <3>1 DEF EffectsCounted
  <2>6. /\ delivery'[d].pc = "exec"
        /\ \A e \in Delivery : e # d => delivery'[e] = delivery[e]
    BY <2>1 DEF DeliveryState
  <2>7. ASSUME NEW j \in Key, lock'[j] # NoOne
        PROVE  /\ At(delivery'[lock'[j]], "claiming")
               /\ delivery'[lock'[j]].key = j
               /\ row'[j].run \notin Withheld \cup {"absent", "completed"}
               /\ row'[j].outbox \notin Withheld
    <3>1. j # k /\ lock'[j] = lock[j] /\ lock[j] \in Delivery
      BY <1>0, <2>1, <2>7
    <3>2. lock[j] # d
      BY <2>7, <3>1 DEF LockInv
    <3> QED
      BY <2>3, <2>6, <2>7, <3>1, <3>2 DEF LockInv
  <2>8. ASSUME NEW e \in Delivery, At(delivery'[e], "claiming")
        PROVE  lock'[delivery'[e].key] = e
    <3>1. e # d
      BY <2>6, <2>8 DEF At
    <3>2. lock[delivery[e].key] = e
      BY <2>6, <2>8, <3>1 DEF LockInv
    <3>3. delivery[e].key # k
      BY <2>2, <3>1, <3>2
    <3>4. delivery[e].key \in Key
      BY <2>6, <2>8, <3>1 DEF KeysHeld, Idle, At
    <3> QED
      BY <2>1, <2>6, <3>1, <3>2, <3>3, <3>4
  <2> QED
    BY <2>4, <2>5, <2>7, <2>8 DEF LockInv
<1>3. CASE DeliveryCrash(d)
  <2>1. /\ row' = row /\ effects' = effects /\ reopened' = reopened
        /\ delivery' = [delivery EXCEPT ![d] = IdleDelivery]
        /\ lock' = [j \in Key |-> IF lock[j] = d THEN NoOne ELSE lock[j]]
    BY <1>3 DEF DeliveryCrash, Reject, Release
  <2>2. ~At(delivery'[d], "claiming")
    BY <2>1 DEF IdleDelivery, At
  <2>3. \A e \in Delivery : e # d => delivery'[e] = delivery[e]
    BY <2>1
  <2>4. ASSUME NEW j \in Key, lock'[j] # NoOne
        PROVE  /\ At(delivery'[lock'[j]], "claiming")
               /\ delivery'[lock'[j]].key = j
               /\ row'[j].run \notin Withheld \cup {"absent", "completed"}
               /\ row'[j].outbox \notin Withheld
    BY <2>1, <2>3, <2>4 DEF LockInv
  <2>5. ASSUME NEW e \in Delivery, At(delivery'[e], "claiming")
        PROVE  lock'[delivery'[e].key] = e
    <3>1. e # d /\ delivery'[e] = delivery[e]
      BY <2>2, <2>3, <2>5
    <3>2. delivery[e].key \in Key
      BY <2>5, <3>1 DEF KeysHeld, Idle, At
    <3> QED
      BY <2>1, <2>5, <3>1, <3>2 DEF LockInv
  <2>6. LockInv'
    BY <2>4, <2>5 DEF LockInv
  <2> QED
    BY <2>1, <2>6, StillFence
<1> QED
  BY <1>1, <1>2, <1>3

LEMMA DeliveryFence ==
    ASSUME FInv, NEW d \in Delivery, DeliveryStep(d) \/ DeliveryFault(d)
    PROVE  RowsFenced' /\ EffectsCounted' /\ LockInv'
<1> USE DEF FInv, TInv, TypeOK
<1> DEFINE k == delivery[d].key
<1>1. CASE CommitMutation(d)
  BY <1>1, CommitFence
<1>2. CASE Claim(d) \/ CommitClaim(d) \/ DeliveryCrash(d)
  BY <1>2, ClaimFence
<1> DEFINE Writes == CheckRun(d) \/ CancelDisabled(d) \/ AnswerOk(d)
                     \/ AnswerErr(d) \/ JobFails(d) \/ JobDefers(d)
           Reads  == Activate(d) \/ InspectRun(d) \/ InspectJob(d)
                     \/ BeginMutation(d) \/ Verify(d) \/ ExecutorErrors(d)
<1>3. CASE Writes \/ Reads
  <2>1. k \in Key /\ effects' = effects /\ lock' = lock
    BY <1>3 DEF CheckRun, CancelDisabled, AnswerOk, AnswerErr, JobFails,
                JobDefers, JobReturns, Activate, InspectRun, InspectJob,
                BeginMutation, Verify, ExecutorErrors, KeysHeld, Idle, At
  <2>2. /\ ~At(delivery[d], "claiming")
        /\ \E s \in DeliveryState :
              ~At(s, "claiming") /\ delivery' = [delivery EXCEPT ![d] = s]
    <3>1. IdleDelivery \in DeliveryState /\ ~At(IdleDelivery, "claiming")
      BY DEF IdleDelivery, DeliveryState, DeliveryPC, At
    <3>2. \A pc \in DeliveryPC, b \in BOOLEAN :
              /\ [delivery[d] EXCEPT !.pc = pc] \in DeliveryState
              /\ [delivery[d] EXCEPT !.pc = pc].pc = pc
              /\ [delivery[d] EXCEPT !.pc = pc, !.inTime = b] \in DeliveryState
              /\ [delivery[d] EXCEPT !.pc = pc, !.inTime = b].pc = pc
      BY DEF DeliveryState
    <3>3. \/ Release(d)
          \/ \E pc \in DeliveryPC \ {"claiming"} : Goto(d, pc)
          \/ BeginMutation(d)
      BY <1>3 DEF CheckRun, CancelDisabled, AnswerOk, AnswerErr, JobFails,
                  JobDefers, JobReturns, Activate, InspectRun, InspectJob,
                  Verify, ExecutorErrors, Acknowledge, Reject, DeliveryPC
    <3>4. BeginMutation(d) =>
            /\ row[k].live \in BOOLEAN
            /\ delivery' = [delivery EXCEPT ![d] =
                  [delivery[d] EXCEPT !.pc = "mutate", !.inTime = row[k].live]]
      BY <2>1 DEF BeginMutation, Row
    <3>5. \E s \in DeliveryState :
              ~At(s, "claiming") /\ delivery' = [delivery EXCEPT ![d] = s]
      <4>1. CASE Release(d)
        BY <3>1, <4>1 DEF Release
      <4>2. CASE \E pc \in DeliveryPC \ {"claiming"} : Goto(d, pc)
        <5>1. PICK pc \in DeliveryPC \ {"claiming"} :
                delivery' = [delivery EXCEPT ![d] = [delivery[d] EXCEPT !.pc = pc]]
          BY <4>2 DEF Goto
        <5> QED
          BY <3>2, <5>1 DEF At
      <4>3. CASE BeginMutation(d)
        <5>1. "mutate" \in DeliveryPC
          BY DEF DeliveryPC
        <5> QED
          BY <3>2, <3>4, <4>3, <5>1 DEF At
      <4> QED
        BY <3>3, <4>1, <4>2, <4>3
    <3>6. ~At(delivery[d], "claiming")
      BY <1>3 DEF CheckRun, CancelDisabled, AnswerOk, AnswerErr, JobFails,
                  JobDefers, Activate, InspectRun, InspectJob, BeginMutation,
                  Verify, ExecutorErrors, At
    <3> QED
      BY <3>5, <3>6
  <2>3. \A e \in Delivery :
            \/ delivery'[e] = delivery[e]
            \/ ~At(delivery[e], "claiming") /\ ~At(delivery'[e], "claiming")
    BY <2>2
  <2>4. \/ row' = row /\ reopened' = reopened
        \/ \E r \in Row : Fenced(r) /\ Write(k, r)
    <3>1. \A r \in {row[k], Cancelled(row[k]), CompletedMark(row[k]),
                    FailedMark(row[k]), Failed(row[k]), Deferred(row[k])} :
              r \in Row /\ Fenced(r)
      <4>1. row[k] \in Row /\ Fenced(row[k])
        BY <2>1 DEF RowsFenced
      <4> QED
        BY <4>1, RowType, RowFence
    <3> DEFINE Some == \E r \in Row : Fenced(r) /\ Write(k, r)
    <3>2. CASE Reads
      BY <3>2 DEF Activate, InspectRun, InspectJob, BeginMutation, Verify,
                  ExecutorErrors
    <3>3. CASE CheckRun(d) \/ CancelDisabled(d)
      BY <3>1, <3>3 DEF CheckRun, CancelDisabled
    <3>4. CASE AnswerOk(d) \/ AnswerErr(d)
      BY <3>1, <3>4 DEF AnswerOk, AnswerErr
    <3>5. CASE JobFails(d) \/ JobDefers(d)
      BY <3>1, <3>5 DEF JobFails, JobDefers, JobReturns
    <3> QED
      BY <1>3, <3>2, <3>3, <3>4, <3>5
  <2> HIDE DEF k
  <2> QED
    BY <2>1, <2>3, <2>4, WriteFence, StillFence, LockStep
<1> QED
  BY <1>1, <1>2, <1>3 DEF DeliveryStep, DeliveryFault

LEMMA FenceStep == FInv /\ [Next]_vars => FInv'
<1> SUFFICES ASSUME FInv, [Next]_vars PROVE FInv'
  OBVIOUS
<1>1. TInv'
  BY TypeStep DEF FInv
<1>2. CASE Next
  <2>1. RowsFenced' /\ EffectsCounted' /\ LockInv'
    BY <1>2, EnvironmentFence, RelayFence, DeliveryFence, OperatorFence DEF Next, Work
  <2> QED
    BY <1>1, <2>1 DEF FInv
<1>3. CASE UNCHANGED vars
  BY <1>1, <1>3 DEF vars, FInv, RowsFenced, EffectsCounted, LockInv
<1> QED
  BY <1>2, <1>3

LEMMA FenceInit == Init => FInv
<1> SUFFICES ASSUME Init PROVE FInv
  OBVIOUS
<1>1. TInv
  BY TypeInit
<1>2. RowsFenced /\ EffectsCounted
  BY DEF Init, NoRow, RowsFenced, Fenced, EffectsCounted, Done
<1>3. LockInv
  BY DEF Init, LockInv, IdleDelivery, At
<1> QED
  BY <1>1, <1>2, <1>3 DEF FInv

(* The mutation of an intent commits at most once for each opening of its  *)
(* run, whatever duplicates, lapses, crashes and operators do: the token   *)
(* and the status that complete checks are enough, the lease is not needed.*)
THEOREM EffectOnce == Spec => []AtMostOneEffect
<1>1. FInv => AtMostOneEffect
  <2> SUFFICES ASSUME FInv, NEW k \in Key
               PROVE  effects[k] <= reopened[k] + 1
    BY DEF AtMostOneEffect
  <2>1. effects[k] <= reopened[k] + Done(row[k])
    BY DEF FInv, EffectsCounted
  <2>2. effects[k] \in Nat /\ reopened[k] \in Nat
    BY DEF FInv, TInv, TypeOK
  <2> QED
    BY <2>1, <2>2 DEF Done
<1> QED
  BY <1>1, FenceInit, FenceStep, PTL DEF Spec

(* No mutation commits under a pause or a cancel, not even one that was    *)
(* already executing when the operator asked.                              *)
THEOREM WithheldStopsEffects == Spec => NoEffectWhileWithheld
<1> DEFINE Act == \A k \in Key :
                effects'[k] # effects[k] =>
                    row[k].run = "running" /\ row[k].outbox \notin Withheld
<1>1. FInv /\ [Next]_vars => [Act]_vars
  <2> SUFFICES ASSUME FInv, Next PROVE Act
    OBVIOUS
  <2>1. ASSUME NEW d \in Delivery, CommitMutation(d) PROVE Act
    BY <2>1, CommitFence
  <2>2. CASE effects' = effects
    BY <2>2
  <2>3. effects' = effects \/ \E d \in Delivery : CommitMutation(d)
    BY DEF Next, Work, Enqueue, FallDue, FireSchedule, LeaseLapses, TogglePlugin,
           RelayStep, RelayClaim, RelayCancel, RelayPublish, RelayMark,
           RelayRefused, RelayCrash, Deliver, DeliveryStep, DeliveryFault,
           CheckRun, Activate, CancelDisabled, Claim, CommitClaim, InspectRun,
           InspectJob, BeginMutation, Verify, AnswerOk, AnswerErr, JobFails,
           JobDefers, JobReturns, ExecutorErrors, DeliveryCrash, Ask,
           CallBridge, Control, AbandonRequest
  <2> QED
    BY <2>1, <2>2, <2>3
<1> QED
  BY <1>1, FenceInit, FenceStep, PTL DEF Spec, NoEffectWhileWithheld

-----------------------------------------------------------------------------
(* A completed or cancelled run stays so until an operator reopens it.     *)

(* A row s that keeps what has ended in r.                                 *)
Keeps(r, s) == r.run \in {"completed", "cancelled"} => s.run = r.run

LEMMA RowKeeps ==
    ASSUME NEW r \in Row
    PROVE  /\ Keeps(r, Enqueued(r))
           /\ Keeps(r, Publishing(r)) /\ Keeps(r, PublishFailed(r))
           /\ \A id \in RemoteId : Keeps(r, Published(r, id))
           /\ Keeps(r, CompletedMark(r)) /\ Keeps(r, FailedMark(r))
           /\ Keeps(r, Cancelled(r)) /\ Keeps(r, Cancelled(Publishing(r)))
           /\ Keeps(r, Paused(r))
<1> USE DEF Keeps, Row, Unclaimed, Withheld
<1>1. Keeps(r, Enqueued(r))
  BY DEF Enqueued, Present
<1>2. Keeps(r, Publishing(r)) /\ Keeps(r, PublishFailed(r))
  BY DEF Publishing, PublishFailed
<1>3. \A id \in RemoteId : Keeps(r, Published(r, id))
  BY DEF Published
<1>4. Keeps(r, CompletedMark(r)) /\ Keeps(r, FailedMark(r))
  BY DEF CompletedMark, FailedMark
<1>5. Keeps(r, Cancelled(r)) /\ Keeps(r, Cancelled(Publishing(r)))
  BY DEF Cancelled, Publishing
<1>6. Keeps(r, Paused(r))
  BY DEF Paused
<1> QED
  BY <1>1, <1>2, <1>3, <1>4, <1>5, <1>6

LEMMA ControlsKeeps ==
    ASSUME NEW r \in Row, NEW q \in OperatorState, q.op \in {"cancel", "pause"}
    PROVE  Keeps(r, Controls(q, r))
<1>1. Rebound(q, r) \in Row /\ Rebound(q, r).run = r.run
  BY DEF Rebound, Row, OperatorState
<1>2. /\ Keeps(Rebound(q, r), Cancelled(Rebound(q, r)))
      /\ Keeps(Rebound(q, r), Paused(Rebound(q, r)))
  BY <1>1, RowKeeps
<1>3. CASE q.op = "cancel"
  BY <1>1, <1>2, <1>3 DEF Controls, Keeps
<1>4. CASE q.op = "pause"
  BY <1>1, <1>2, <1>4 DEF Controls, Keeps
<1> QED
  BY <1>3, <1>4

(* A step keeps what has ended, but for an operator's request to reopen.   *)
Reopens(k) == \E o \in Operator : /\ operator[o].key = k
                                  /\ At(operator[o], "write")
                                  /\ operator[o].op \in {"resume", "replay", "retry"}

KeepsEnded == \A k \in Key : Keeps(row[k], row'[k]) \/ Reopens(k)

LEMMA WriteKeeps ==
    ASSUME TypeOK, NEW k \in Key, NEW r, Keeps(row[k], r) \/ Reopens(k), Write(k, r)
    PROVE  KeepsEnded
BY DEF Write, KeepsEnded, Keeps, TypeOK

LEMMA EnvironmentKeeps ==
    ASSUME FInv, NEW k \in Key, Enqueue(k) \/ FallDue(k) \/ FireSchedule(k) \/ LeaseLapses(k)
    PROVE  KeepsEnded
<1>0. TypeOK /\ row[k] \in Row
  BY DEF FInv, TInv, TypeOK
<1>1. CASE Enqueue(k)
  BY <1>0, <1>1, RowKeeps, WriteKeeps DEF Enqueue
<1>2. CASE FallDue(k)
  BY <1>0, <1>2 DEF FallDue, KeepsEnded, Keeps, TypeOK, Row
<1>3. CASE FireSchedule(k)
  BY <1>3 DEF FireSchedule, KeepsEnded, Keeps
<1>4. CASE LeaseLapses(k)
  BY <1>0, <1>4 DEF LeaseLapses, KeepsEnded, Keeps, TypeOK, Row
<1> QED
  BY <1>1, <1>2, <1>3, <1>4

LEMMA RelayKeeps ==
    ASSUME FInv, NEW p \in Relay, RelayStep(p) \/ RelayRefused(p) \/ RelayCrash(p)
    PROVE  KeepsEnded
<1>0. TypeOK /\ \A k \in Key : row[k] \in Row
  BY DEF FInv, TInv, TypeOK
<1>1. CASE RelayClaim(p)
  <2>1. PICK k \in Key : row' = [row EXCEPT ![k] = Publishing(row[k])]
    BY <1>0, <1>1 DEF RelayClaim, TypeOK
  <2> QED
    BY <1>0, <2>1, RowKeeps DEF KeepsEnded, Keeps, TypeOK
<1>2. CASE RelayCancel(p)
  BY <1>0, <1>2, RowKeeps, WriteKeeps DEF RelayCancel
<1>3. CASE RelayMark(p)
  <2>1. relay[p].key \in Key /\ relay[p].id \in RemoteId
    BY <1>3 DEF FInv, TInv, TypeOK, KeysHeld, RelayMark, At, Idle, RelayState
  <2> QED
    BY <1>0, <1>3, <2>1, RowKeeps, WriteKeeps DEF RelayMark
<1>4. CASE RelayPublish(p) \/ RelayRefused(p) \/ RelayCrash(p)
  BY <1>4 DEF RelayPublish, RelayRefused, RelayCrash, KeepsEnded, Keeps
<1> QED
  BY <1>1, <1>2, <1>3, <1>4 DEF RelayStep

LEMMA DeliveryKeeps ==
    ASSUME FInv, NEW d \in Delivery, DeliveryStep(d) \/ DeliveryFault(d)
    PROVE  KeepsEnded
<1> DEFINE k == delivery[d].key
<1>0. TypeOK /\ k \in Key /\ row[k] \in Row
  <2>1. ~Idle(delivery[d])
    BY DEF DeliveryStep, DeliveryFault, CheckRun, Activate, CancelDisabled, Claim, CommitClaim,
           InspectRun, InspectJob, BeginMutation, CommitMutation, Verify, AnswerOk, AnswerErr,
           JobFails, JobDefers, ExecutorErrors, DeliveryCrash, At, Idle
  <2> QED
    BY <2>1 DEF FInv, TInv, TypeOK, KeysHeld
<1>1. CASE UNCHANGED row
  BY <1>1 DEF KeepsEnded, Keeps
<1>2. CASE CheckRun(d)
  BY <1>0, <1>1, <1>2, RowKeeps, WriteKeeps DEF CheckRun
<1>3. CASE CancelDisabled(d)
  BY <1>0, <1>3, RowKeeps, WriteKeeps DEF CancelDisabled
<1>4. CASE CommitClaim(d)
  <2>1. lock[k] = d /\ d # NoOne
    BY <1>4, NoOneAssumption DEF FInv, LockInv, CommitClaim
  <2>2. row[k].run \notin {"completed", "cancelled"}
    BY <1>0, <2>1 DEF FInv, LockInv, Withheld
  <2>3. \A i \in Key : i # k => row'[i] = row[i]
    BY <1>0, <1>4 DEF CommitClaim, TypeOK
  <2> QED
    BY <2>2, <2>3 DEF KeepsEnded, Keeps
<1>5. CASE CommitMutation(d)
  <2>1. CASE OwnsClaim(row[k], d, delivery[d].inTime)
    <3>1. Keeps(row[k], Completed(row[k]))
      BY <2>1 DEF OwnsClaim, Keeps, Withheld
    <3> QED
      BY <1>0, <1>5, <2>1, <3>1, WriteKeeps DEF CommitMutation
  <2> QED
    BY <1>1, <1>5, <2>1 DEF CommitMutation
<1>6. ASSUME NEW r, JobReturns(d, r) PROVE KeepsEnded
  <2> DEFINE s == IF OwnsClaim(row[k], d, row[k].live) THEN r ELSE row[k]
  <2>1. Keeps(row[k], s)
    BY DEF OwnsClaim, Keeps, Withheld
  <2>2. Write(k, s)
    BY <1>6 DEF JobReturns
  <2> HIDE DEF s
  <2> QED
    BY <1>0, <2>1, <2>2, WriteKeeps
<1>7. CASE AnswerOk(d)
  <2> DEFINE s == IF row[k].run = "failed" THEN row[k] ELSE CompletedMark(row[k])
  <2>1. Keeps(row[k], s)
    BY <1>0, RowKeeps DEF Keeps
  <2>2. Write(k, s)
    BY <1>7 DEF AnswerOk
  <2> HIDE DEF s
  <2> QED
    BY <1>0, <2>1, <2>2, WriteKeeps
<1>8. CASE AnswerErr(d)
  BY <1>0, <1>8, RowKeeps, WriteKeeps DEF AnswerErr
<1>9. CASE \/ Activate(d) \/ Claim(d) \/ InspectRun(d) \/ InspectJob(d)
           \/ BeginMutation(d) \/ Verify(d) \/ ExecutorErrors(d) \/ DeliveryCrash(d)
  BY <1>1, <1>9 DEF Activate, Claim, InspectRun, InspectJob, BeginMutation, Verify,
                    ExecutorErrors, DeliveryCrash
<1> QED
  BY <1>2, <1>3, <1>4, <1>5, <1>6, <1>7, <1>8, <1>9
  DEF DeliveryStep, DeliveryFault, JobFails, JobDefers

LEMMA OperatorKeeps ==
    ASSUME FInv, NEW o \in Operator, CallBridge(o) \/ Control(o) \/ AbandonRequest(o)
    PROVE  KeepsEnded
<1>1. CASE CallBridge(o) \/ AbandonRequest(o)
  BY <1>1 DEF CallBridge, AbandonRequest, KeepsEnded, Keeps
<1>2. CASE Control(o)
  <2> DEFINE q == operator[o]  k == q.key
  <2>0. /\ TypeOK /\ q \in OperatorState /\ At(q, "write")
        /\ k \in Key /\ q.op \in Request /\ row[k] \in Row
    BY <1>2 DEF Control, FInv, TInv, TypeOK, KeysHeld, At, Idle
  <2>1. q.op \in {"cancel", "pause", "resume", "replay", "retry"}
    BY <2>0, WorkflowAssumption
  <2>2. Write(k, Controls(q, row[k]))
    BY <1>2 DEF Control
  <2>3. CASE q.op \in {"cancel", "pause"}
    BY <2>0, <2>2, <2>3, ControlsKeeps, WriteKeeps
  <2>4. CASE q.op \in {"resume", "replay", "retry"}
    <3>1. Reopens(k)
      BY <2>0, <2>4 DEF Reopens
    <3> QED
      BY <2>0, <2>2, <3>1, WriteKeeps
  <2> QED
    BY <2>1, <2>3, <2>4
<1> QED
  BY <1>1, <1>2

(* No late mark of a relay, stale delivery or answer of the endpoint       *)
(* reopens a completed or cancelled run: only an operator's request does.  *)
THEOREM EndedUntilOperator == Spec => TerminalUntilOperator
<1> DEFINE Act == \A k \in Key :
        (/\ row[k].run \in {"completed", "cancelled"}
         /\ row'[k].run # row[k].run) =>
            \E o \in Operator : /\ operator[o].key = k
                               /\ At(operator[o], "write")
                               /\ operator[o].op \in {"resume", "replay", "retry"}
<1>1. FInv /\ [Next]_vars => [Act]_vars
  <2> SUFFICES ASSUME FInv, Next PROVE Act
    OBVIOUS
  <2>1. CASE UNCHANGED row
    BY <2>1
  <2>2. KeepsEnded => Act
    BY DEF KeepsEnded, Keeps, Reopens
  <2> QED
    BY <2>1, <2>2, EnvironmentKeeps, RelayKeeps, DeliveryKeeps, OperatorKeeps
    DEF Next, Work, TogglePlugin, Deliver, Ask
<1> QED
  BY <1>1, FenceInit, FenceStep, PTL DEF Spec, TerminalUntilOperator

-----------------------------------------------------------------------------
(* Implementing RunPromise, where operators may only cancel.               *)

(* Rows exist before anything works on them, and stay.                     *)
Opened ==
    /\ \A k \in Key : ~Present(row[k]) => row[k] = NoRow
    /\ \A k \in Key : hatchet[k] # "none" => Present(row[k])
    /\ \A p \in Relay : ~Idle(relay[p]) => Present(row[relay[p].key])
    /\ \A d \in Delivery : ~Idle(delivery[d]) => Present(row[delivery[d].key])
    /\ \A o \in Operator : ~Idle(operator[o]) => Present(row[operator[o].key])

Ended(r) == r.run \in {"completed", "cancelled"}

NeverPaused == \A k \in Key : row[k].run # "paused"

(* A delivery answers Ok only for a run that is over.                      *)
OkIsEnded == \A d \in Delivery :
    At(delivery[d], "ok") => Ended(row[delivery[d].key])

PInv == FInv /\ Opened /\ NeverPaused /\ OkIsEnded

(* What a write may do to a row that is present: leave its phase alone, or *)
(* stop an open run; an ended run keeps its status.                        *)
Honest(r, s) ==
    /\ Present(r)
    /\ Present(s) /\ s.run # "paused"
    /\ Ended(r) => s.run = r.run
    /\ ~Ended(r) => s.run # "completed"

LEMMA RowHonest ==
    ASSUME NEW r \in Row, Present(r), r.run # "paused"
    PROVE  /\ Honest(r, r)
           /\ Honest(r, Publishing(r))
           /\ \A id \in RemoteId : Honest(r, Published(r, id))
           /\ Honest(r, PublishFailed(r))
           /\ ~Ended(r) => Honest(r, Deferred(r)) /\ Honest(r, Failed(r))
           /\ Ended(r) => Honest(r, CompletedMark(r))
           /\ Honest(r, FailedMark(r))
           /\ Honest(r, Cancelled(r)) /\ Ended(Cancelled(r))
           /\ ~Ended(r) => \A d \in Delivery : Honest(r, Claimed(r, d))
           /\ r.run # "completed" => Honest(r, Cancelled(Publishing(r)))
<1> USE DEF Honest, Present, Ended, Row, Unclaimed, Withheld
<1>1. Honest(r, r) /\ Honest(r, Publishing(r)) /\ Honest(r, PublishFailed(r))
  BY DEF Publishing, PublishFailed
<1>2. ASSUME NEW id \in RemoteId PROVE Honest(r, Published(r, id))
  BY DEF Published
<1>3. ~Ended(r) => Honest(r, Deferred(r)) /\ Honest(r, Failed(r))
  BY DEF Deferred, Failed
<1>4. /\ Ended(r) => Honest(r, CompletedMark(r))
      /\ Honest(r, FailedMark(r))
  BY DEF CompletedMark, FailedMark
<1>5. Honest(r, Cancelled(r)) /\ Ended(Cancelled(r))
  BY DEF Cancelled
<1>6. ~Ended(r) => \A d \in Delivery : Honest(r, Claimed(r, d))
  BY DEF Claimed
<1>7. r.run # "completed" => Honest(r, Cancelled(Publishing(r)))
  BY DEF Cancelled, Publishing
<1> QED
  BY <1>1, <1>2, <1>3, <1>4, <1>5, <1>6, <1>7

HonestStep ==
    /\ effects' = effects
    /\ \/ row' = row
       \/ \E k \in Key, s \in Row :
            Honest(row[k], s) /\ row' = [row EXCEPT ![k] = s]

(* The keys processes work on after the step were present before it, and   *)
(* a delivery about to answer Ok answers for an ended run.                 *)
StaysOpened ==
    /\ \A k \in Key : hatchet'[k] # "none" => Present(row[k])
    /\ \A p \in Relay : ~Idle(relay'[p]) => Present(row[relay'[p].key])
    /\ \A d \in Delivery : ~Idle(delivery'[d]) => Present(row[delivery'[d].key])
    /\ \A o \in Operator : ~Idle(operator'[o]) => Present(row[operator'[o].key])
    /\ \A d \in Delivery :
          At(delivery'[d], "ok") => \/ At(delivery[d], "ok")
                                      /\ delivery'[d].key = delivery[d].key
                                   \/ Ended(row'[delivery'[d].key])

(* Rows appear and end, and neither is undone.                             *)
Onward ==
    \A k \in Key : /\ Present(row[k]) => Present(row'[k])
                   /\ ~Present(row'[k]) => row'[k] = row[k]
                   /\ Ended(row[k]) => Ended(row'[k])
                   /\ row'[k].run # "paused"

LEMMA HonestOnward ==
    ASSUME PInv, HonestStep
    PROVE  Onward
BY DEF Onward, HonestStep, Honest, Ended, PInv, NeverPaused, FInv, TInv, TypeOK

LEMMA OnwardKeeps ==
    ASSUME PInv, FInv', Onward, StaysOpened
    PROVE  PInv'
<1> USE DEF FInv, TInv, TypeOK
<1>1. \A k \in Key : /\ Present(row[k]) => Present(row'[k])
                     /\ ~Present(row'[k]) => row'[k] = row[k]
                     /\ Ended(row[k]) => Ended(row'[k])
                     /\ row'[k].run # "paused"
  BY DEF Onward
<1>2. /\ \A p \in Relay : ~Idle(relay'[p]) => relay'[p].key \in Key
      /\ \A d \in Delivery : ~Idle(delivery'[d]) => delivery'[d].key \in Key
      /\ \A o \in Operator : ~Idle(operator'[o]) => operator'[o].key \in Key
  BY DEF KeysHeld
<1>3. Opened'
  BY <1>1, <1>2 DEF StaysOpened, Opened, PInv
<1>4. NeverPaused'
  BY <1>1 DEF NeverPaused
<1>5. ASSUME NEW d \in Delivery, At(delivery'[d], "ok")
      PROVE  Ended(row'[delivery'[d].key])
  <2>1. delivery'[d].key \in Key
    BY <1>2, <1>5 DEF Idle, At
  <2> QED
    BY <1>1, <1>5, <2>1 DEF StaysOpened, PInv, OkIsEnded
<1> QED
  BY <1>3, <1>4, <1>5 DEF PInv, OkIsEnded

LEMMA HonestMaps ==
    ASSUME PInv, HonestStep
    PROVE  [Promise!Next]_(Promise!vars)
<1> USE DEF FInv, TInv, TypeOK
<1> DEFINE phase == [k \in Key |-> Phase(row[k])]
<1>1. CASE row' = row
  BY <1>1 DEF HonestStep, Promise!vars, Phase
<1>2. CASE \E k \in Key, s \in Row :
              Honest(row[k], s) /\ row' = [row EXCEPT ![k] = s]
  <2>1. PICK k \in Key, s \in Row :
              Honest(row[k], s) /\ row' = [row EXCEPT ![k] = s]
    BY <1>2
  <2>2. \/ Phase(s) = Phase(row[k])
        \/ Phase(row[k]) = "open" /\ Phase(s) = "stopped"
    BY <2>1 DEF Honest, Phase, Ended, Present, PInv, NeverPaused, Row, RunStatus
  <2>3. phase' = [phase EXCEPT ![k] = Phase(s)]
    BY <2>1 DEF PInv
  <2>4. CASE Phase(s) = Phase(row[k])
    <3>1. phase' = phase
      BY <2>3, <2>4
    <3> QED
      BY <3>1 DEF HonestStep, Promise!vars
  <2>5. CASE Phase(row[k]) = "open" /\ Phase(s) = "stopped"
    BY <2>3, <2>5 DEF HonestStep, Promise!Next, Promise!Stop, Promise!Move
  <2> QED
    BY <2>2, <2>4, <2>5
<1> QED
  BY <1>1, <1>2 DEF HonestStep

LEMMA EnvironmentHonest ==
    ASSUME PInv,
           \/ \E k \in Key : FallDue(k) \/ FireSchedule(k) \/ LeaseLapses(k)
           \/ \E p \in Plugin : TogglePlugin(p)
           \/ \E d \in Delivery, k \in Key : Deliver(d, k)
    PROVE  HonestStep /\ StaysOpened
<1> USE DEF PInv, FInv, TInv, TypeOK
<1>1. ASSUME NEW k \in Key, FallDue(k) \/ LeaseLapses(k)
      PROVE  HonestStep /\ StaysOpened
  <2>1. Present(row[k]) /\ row[k].run # "paused"
    BY <1>1 DEF FallDue, LeaseLapses, Opened, NoRow, NeverPaused
  <2>2. \A s \in {[row[k] EXCEPT !.due = TRUE], [row[k] EXCEPT !.live = FALSE]} :
            s \in Row /\ Honest(row[k], s)
    BY <2>1, FlagType DEF Honest, Present, Ended
  <2>3. \E s \in {[row[k] EXCEPT !.due = TRUE], [row[k] EXCEPT !.live = FALSE]} :
            row' = [row EXCEPT ![k] = s]
    BY <1>1 DEF FallDue, LeaseLapses
  <2>4. /\ effects' = effects /\ relay' = relay /\ delivery' = delivery
        /\ operator' = operator /\ hatchet' = hatchet
    BY <1>1 DEF FallDue, LeaseLapses
  <2> QED
    BY <2>2, <2>3, <2>4 DEF HonestStep, StaysOpened, Opened
<1>2. ASSUME NEW k \in Key, FireSchedule(k)
      PROVE  HonestStep /\ StaysOpened
  BY <1>2 DEF FireSchedule, HonestStep, StaysOpened, Opened
<1>3. ASSUME NEW p \in Plugin, TogglePlugin(p)
      PROVE  HonestStep /\ StaysOpened
  BY <1>3 DEF TogglePlugin, HonestStep, StaysOpened, Opened
<1>4. ASSUME NEW d \in Delivery, NEW k \in Key, Deliver(d, k)
      PROVE  HonestStep /\ StaysOpened
  <2>1. /\ delivery' = [delivery EXCEPT ![d] = [pc |-> "check", key |-> k,
                                                inTime |-> FALSE]]
        /\ row' = row /\ effects' = effects /\ relay' = relay
        /\ operator' = operator /\ hatchet' = hatchet
        /\ Present(row[k])
    BY <1>4 DEF Deliver, Opened
  <2> QED
    BY <2>1 DEF HonestStep, StaysOpened, Opened, At
<1> QED
  BY <1>1, <1>2, <1>3, <1>4

LEMMA RelayHonest ==
    ASSUME PInv, NEW p \in Relay,
           RelayStep(p) \/ RelayRefused(p) \/ RelayCrash(p)
    PROVE  HonestStep /\ StaysOpened
<1> USE DEF PInv, FInv, TInv, TypeOK
<1>0. effects' = effects /\ operator' = operator /\ delivery' = delivery
  BY DEF RelayStep, RelayClaim, RelayCancel, RelayPublish, RelayMark,
         RelayRefused, RelayCrash
<1>1. \A k \in Key : Publishable(row[k]) => Present(row[k])
  BY DEF Opened, Publishable, NoRow
<1>2. CASE RelayClaim(p)
  <2>1. PICK k \in Key :
            /\ Oldest(k)
            /\ row' = [row EXCEPT ![k] = Publishing(@)]
            /\ relay' = [relay EXCEPT ![p] = [pc |-> "publish", key |-> k,
                                              id |-> "none"]]
    BY <1>2 DEF RelayClaim
  <2>2. Present(row[k]) /\ row[k].run # "paused"
    BY <1>1, <2>1 DEF Oldest, NeverPaused
  <2>3. Publishing(row[k]) \in Row /\ Honest(row[k], Publishing(row[k]))
    BY <2>2, RowType, RowHonest
  <2>4. HonestStep
    BY <1>0, <2>1, <2>3 DEF HonestStep
  <2>5. hatchet' = hatchet
    BY <1>2 DEF RelayClaim
  <2> QED
    BY <1>0, <2>1, <2>2, <2>4, <2>5 DEF StaysOpened, Opened
<1>3. CASE RelayCancel(p)
  <2>1. PICK k \in Key :
            /\ Oldest(k) /\ row[k].run # "completed"
            /\ Write(k, Cancelled(Publishing(row[k])))
    BY <1>3 DEF RelayCancel
  <2>2. Present(row[k]) /\ row[k].run # "paused"
    BY <1>1, <2>1 DEF Oldest, NeverPaused
  <2>3. /\ Cancelled(Publishing(row[k])) \in Row
        /\ Honest(row[k], Cancelled(Publishing(row[k])))
    BY <2>1, <2>2, RowType, RowHonest
  <2>4. relay' = relay /\ hatchet' = hatchet
    BY <1>3 DEF RelayCancel
  <2> QED
    BY <1>0, <2>1, <2>3, <2>4 DEF HonestStep, StaysOpened, Opened, Write
<1>4. CASE RelayMark(p)
  <2> DEFINE k == relay[p].key
  <2>1. k \in Key /\ relay[p].id \in RemoteId /\ Present(row[k])
    BY <1>4 DEF RelayMark, RelayState, KeysHeld, Opened, Idle, At
  <2>2. row[k].run # "paused"
    BY <2>1 DEF NeverPaused
  <2>3. /\ Published(row[k], relay[p].id) \in Row
        /\ Honest(row[k], Published(row[k], relay[p].id))
        /\ PublishFailed(row[k]) \in Row /\ Honest(row[k], PublishFailed(row[k]))
    BY <2>1, <2>2, RowType, RowHonest
  <2>4. \E s \in Row : Honest(row[k], s) /\ row' = [row EXCEPT ![k] = s]
    BY <1>4, <2>3 DEF RelayMark, Write
  <2>5. relay' = [relay EXCEPT ![p] = IdleRelay] /\ hatchet' = hatchet
    BY <1>4 DEF RelayMark
  <2>6. HonestStep
    BY <1>0, <2>1, <2>4 DEF HonestStep
  <2> QED
    BY <1>0, <2>5, <2>6 DEF StaysOpened, Opened, IdleRelay, Idle, At
<1>5. CASE RelayPublish(p)
  <2>1. Present(row[relay[p].key])
    BY <1>5 DEF RelayPublish, Opened, Idle, At
  <2>2. PICK s : s.key = relay[p].key /\ relay' = [relay EXCEPT ![p] = s]
    <3>1. PICK h : \/ relay' = [relay EXCEPT ![p] =
                          [relay[p] EXCEPT !.pc = "accepted", !.id = IdOf(h)]]
                   \/ relay' = [relay EXCEPT ![p] =
                          [relay[p] EXCEPT !.pc = "refused"]]
      BY <1>5 DEF RelayPublish
    <3>2. /\ [relay[p] EXCEPT !.pc = "accepted", !.id = IdOf(h)].key = relay[p].key
          /\ [relay[p] EXCEPT !.pc = "refused"].key = relay[p].key
      BY DEF RelayState
    <3> QED
      BY <3>1, <3>2
  <2>3. row' = row /\ \A j \in Key : j # relay[p].key => hatchet'[j] = hatchet[j]
    BY <1>5 DEF RelayPublish
  <2>4. \A k \in Key : hatchet'[k] # "none" => Present(row[k])
    BY <2>1, <2>3 DEF Opened
  <2>5. \A e \in Relay : ~Idle(relay'[e]) => Present(row[relay'[e].key])
    BY <2>1, <2>2 DEF Opened
  <2> QED
    BY <1>0, <2>3, <2>4, <2>5 DEF HonestStep, StaysOpened, Opened
<1>6. CASE RelayRefused(p) \/ RelayCrash(p)
  <2>1. PICK s : /\ relay' = [relay EXCEPT ![p] = s]
                 /\ Idle(s) \/ s.key = relay[p].key
    <3>1. [relay[p] EXCEPT !.pc = "refused"].key = relay[p].key
      BY DEF RelayState
    <3>2. Idle(IdleRelay)
      BY DEF IdleRelay, Idle, At
    <3> QED
      BY <1>6, <3>1, <3>2 DEF RelayRefused, RelayCrash
  <2>2. row' = row /\ hatchet' = hatchet /\ ~Idle(relay[p])
    BY <1>6 DEF RelayRefused, RelayCrash, Idle, At
  <2>3. \A e \in Relay : ~Idle(relay'[e]) => Present(row[relay'[e].key])
    BY <2>1, <2>2 DEF Opened
  <2> QED
    BY <1>0, <2>2, <2>3 DEF HonestStep, StaysOpened, Opened
<1> QED
  BY <1>2, <1>3, <1>4, <1>5, <1>6 DEF RelayStep

LEMMA OperatorHonest ==
    ASSUME PInv, Request \subseteq {"cancel"}, NEW o \in Operator,
           \/ \E op \in Request, k \in Key : Ask(o, op, k)
           \/ CallBridge(o) \/ Control(o) \/ AbandonRequest(o)
    PROVE  HonestStep /\ StaysOpened
<1> USE DEF PInv, FInv, TInv, TypeOK
<1>0. effects' = effects /\ relay' = relay /\ delivery' = delivery
  BY DEF Ask, CallBridge, Control, AbandonRequest
<1>1. ASSUME NEW op \in Request, NEW k \in Key, Ask(o, op, k)
      PROVE  HonestStep /\ StaysOpened
  <2>1. /\ row' = row /\ hatchet' = hatchet /\ Present(row[k])
        /\ \A e \in Operator : e # o => operator'[e] = operator[e]
        /\ operator'[o].key = k
    BY <1>1 DEF Ask, Admitted
  <2> QED
    BY <1>0, <2>1 DEF HonestStep, StaysOpened, Opened
<1>2. CASE CallBridge(o)
  <2>1. /\ row' = row
        /\ \A j \in Key : hatchet'[j] # "none" => hatchet[j] # "none"
    BY <1>2 DEF CallBridge, KeysHeld
  <2>2. \A e \in Operator : /\ operator'[e].key = operator[e].key
                            /\ ~Idle(operator'[e]) => ~Idle(operator[e])
    BY <1>2 DEF CallBridge, OperatorState, Idle, At
  <2> QED
    BY <1>0, <2>1, <2>2 DEF HonestStep, StaysOpened, Opened
<1>3. CASE Control(o)
  <2> DEFINE q == operator[o]
  <2>1. q.key \in Key /\ q.op = "cancel" /\ q \in OperatorState
        /\ Present(row[q.key]) /\ row[q.key].run # "paused"
    BY <1>3 DEF Control, KeysHeld, Opened, NeverPaused, Idle, At
  <2>2. Controls(q, row[q.key]) \in Row
    BY <2>1, <1>3, ControlsType DEF Control, KeysHeld, Idle, At
  <2>3. Honest(row[q.key], Controls(q, row[q.key]))
    <3> DEFINE r == row[q.key]
    <3>1. Rebound(q, r) \in Row /\ Rebound(q, r).run = r.run
      <4>1. q.id \in RemoteId /\ r \in Row
        BY <2>1 DEF OperatorState
      <4> HIDE DEF q, r
      <4> QED
        BY <4>1 DEF Rebound, Row
    <3>2. Honest(Rebound(q, r), Cancelled(Rebound(q, r)))
      BY <2>1, <3>1, RowHonest DEF Present
    <3>3. Controls(q, r) = IF r.run = "completed" THEN r ELSE Cancelled(Rebound(q, r))
      BY <2>1 DEF Controls
    <3> QED
      BY <2>1, <3>1, <3>2, <3>3 DEF Honest, Present, Ended
  <2>4. row' = [row EXCEPT ![q.key] = Controls(q, row[q.key])]
    BY <1>3 DEF Control, Write
  <2>5. operator' = [operator EXCEPT ![o] = IdleOperator] /\ hatchet' = hatchet
    BY <1>3 DEF Control
  <2>6. HonestStep
    <3> HIDE DEF q
    <3> QED
      BY <1>0, <2>1, <2>2, <2>3, <2>4 DEF HonestStep
  <2> QED
    BY <1>0, <2>5, <2>6 DEF StaysOpened, Opened, IdleOperator, Idle, At
<1>4. CASE AbandonRequest(o)
  <2>1. /\ operator' = [operator EXCEPT ![o] = IdleOperator]
        /\ row' = row /\ hatchet' = hatchet
    BY <1>4 DEF AbandonRequest
  <2> QED
    BY <1>0, <2>1 DEF HonestStep, StaysOpened, Opened, IdleOperator, Idle, At
<1> QED
  BY <1>1, <1>2, <1>3, <1>4

(* Where a delivery that keeps its key goes, and when it may answer Ok.    *)
LEMMA DeliveryStays ==
    ASSUME PInv, NEW d \in Delivery, ~Idle(delivery[d]),
           NEW s \in DeliveryState, delivery' = [delivery EXCEPT ![d] = s],
           Idle(s) \/ s.key = delivery[d].key,
           At(s, "ok") => Ended(row'[delivery[d].key]),
           relay' = relay, operator' = operator,
           \A k \in Key : hatchet'[k] # "none" => hatchet[k] # "none"
    PROVE  StaysOpened
<1> USE DEF PInv, FInv, TInv, TypeOK
<1>1. \A e \in Delivery : ~Idle(delivery'[e]) => Present(row[delivery'[e].key])
  BY DEF Opened
<1>2. \A e \in Delivery :
          At(delivery'[e], "ok") => \/ At(delivery[e], "ok")
                                      /\ delivery'[e].key = delivery[e].key
                                   \/ Ended(row'[delivery'[e].key])
  <2>1. At(s, "ok") => ~Idle(s)
    BY DEF At, Idle
  <2> QED
    BY <2>1
<1> QED
  BY <1>1, <1>2 DEF StaysOpened, Opened

(* Every step of a delivery but a committing mutation is an honest one.    *)
LEMMA DeliveryHonest ==
    ASSUME PInv, NEW d \in Delivery, DeliveryStep(d) \/ DeliveryFault(d)
    PROVE  /\ StaysOpened
           /\ HonestStep \/ (CommitMutation(d)
                  /\ OwnsClaim(row[delivery[d].key], d, delivery[d].inTime))
<1> USE DEF PInv, FInv, TInv, TypeOK
<1> DEFINE k == delivery[d].key
           to(pc) == [delivery[d] EXCEPT !.pc = pc]
           claimed == OwnsClaim(row[k], d, delivery[d].inTime)
<1>0. /\ ~Idle(delivery[d]) /\ k \in Key /\ relay' = relay
      /\ operator' = operator
  BY DEF DeliveryStep, DeliveryFault, CheckRun, Activate, CancelDisabled, Claim,
         CommitClaim, InspectRun, InspectJob, BeginMutation, CommitMutation,
         Verify, AnswerOk, AnswerErr, JobFails, JobDefers, JobReturns,
         ExecutorErrors, DeliveryCrash, KeysHeld, Idle, At
<1>1. row[k] \in Row /\ Present(row[k]) /\ row[k].run # "paused"
  BY <1>0 DEF Opened, NeverPaused
<1>2. \A pc \in DeliveryPC : /\ to(pc) \in DeliveryState
                             /\ to(pc).key = k /\ to(pc).pc = pc
  BY DEF DeliveryState
<1>3. /\ IdleDelivery \in DeliveryState /\ Idle(IdleDelivery)
      /\ ~At(IdleDelivery, "ok")
  BY DEF IdleDelivery, DeliveryState, DeliveryPC, Idle, At
<1> HIDE DEF k, to
<1>4. ASSUME NEW pc \in DeliveryPC, Goto(d, pc),
             pc = "ok" => Ended(row'[k]),
             \A j \in Key : hatchet'[j] # "none" => hatchet[j] # "none"
      PROVE  StaysOpened
  <2>1. delivery' = [delivery EXCEPT ![d] = to(pc)]
    BY <1>4 DEF Goto, to
  <2> QED
    BY <1>0, <1>2, <1>4, <2>1, DeliveryStays DEF At, k
<1>5. ASSUME Release(d),
             \A j \in Key : hatchet'[j] # "none" => hatchet[j] # "none"
      PROVE  StaysOpened
  BY <1>0, <1>3, <1>5, DeliveryStays DEF Release
<1>6. ASSUME NEW r \in Row, Honest(row[k], r),
             row' = [row EXCEPT ![k] = r], effects' = effects
      PROVE  HonestStep
  BY <1>0, <1>6 DEF HonestStep
<1>7. Acknowledge(d) => \A j \in Key : hatchet'[j] # "none" => hatchet[j] # "none"
  BY <1>0 DEF Acknowledge, k
<1>8. /\ Honest(row[k], row[k]) /\ Honest(row[k], Cancelled(row[k]))
      /\ Ended(Cancelled(row[k])) /\ Cancelled(row[k]) \in Row
      /\ Honest(row[k], FailedMark(row[k])) /\ FailedMark(row[k]) \in Row
      /\ CompletedMark(row[k]) \in Row
      /\ Failed(row[k]) \in Row /\ Deferred(row[k]) \in Row
      /\ Claimed(row[k], d) \in Row
  BY <1>1, RowType, RowHonest
<1>10. CASE CheckRun(d)
  <2>1. effects' = effects
    BY <1>10 DEF CheckRun
  <2>2. /\ (Release(d) /\ Acknowledge(d)) \/ (Goto(d, "activate") /\ hatchet' = hatchet)
        /\ row' = row \/ row' = [row EXCEPT ![k] = Cancelled(row[k])]
    BY <1>10 DEF CheckRun, Acknowledge, Write, k
  <2>3. HonestStep
    BY <1>6, <1>8, <2>1, <2>2 DEF HonestStep
  <2>4. StaysOpened
    BY <1>4, <1>5, <1>7, <2>2 DEF DeliveryPC
  <2> QED
    BY <2>3, <2>4
<1>11. CASE Activate(d) \/ BeginMutation(d) \/ ExecutorErrors(d) \/ Claim(d)
  <2>1. HonestStep /\ hatchet' = hatchet
    BY <1>11 DEF Activate, BeginMutation, ExecutorErrors, Claim, HonestStep
  <2>2. CASE BeginMutation(d)
    <3> DEFINE s == [delivery[d] EXCEPT !.pc = "mutate", !.inTime = row[k].live]
    <3>1. s \in DeliveryState /\ s.key = k /\ ~At(s, "ok")
      BY <1>1 DEF DeliveryState, DeliveryPC, Row, At, k
    <3>2. delivery' = [delivery EXCEPT ![d] = s]
      BY <2>2 DEF BeginMutation, k
    <3> HIDE DEF s
    <3> QED
      BY <1>0, <2>1, <3>1, <3>2, DeliveryStays DEF k
  <2>3. CASE Activate(d) \/ ExecutorErrors(d) \/ Claim(d)
    <3>1. \E pc \in DeliveryPC : pc # "ok" /\ Goto(d, pc)
      BY <2>3 DEF Activate, ExecutorErrors, Claim, DeliveryPC
    <3> QED
      BY <1>4, <2>1, <3>1
  <2> QED
    BY <1>11, <2>1, <2>2, <2>3
<1>12. CASE CancelDisabled(d)
  <2>1. /\ row' = [row EXCEPT ![k] = Cancelled(row[k])] /\ effects' = effects
        /\ Goto(d, "ok") /\ hatchet' = hatchet
    BY <1>12 DEF CancelDisabled, Write, k
  <2>2. Ended(row'[k])
    BY <1>0, <1>8, <2>1
  <2>3. StaysOpened
    BY <1>4, <2>1, <2>2 DEF DeliveryPC
  <2> QED
    BY <1>6, <1>8, <2>1, <2>3
<1>13. CASE CommitClaim(d)
  <2>1. /\ row' = [row EXCEPT ![k] = Claimed(row[k], d)] /\ effects' = effects
        /\ Goto(d, "exec") /\ hatchet' = hatchet /\ At(delivery[d], "claiming")
    BY <1>0, <1>13 DEF CommitClaim, k
  <2>2. ~Ended(row[k])
    <3>1. lock[k] = d
      BY <2>1 DEF LockInv, k
    <3> QED
      BY <1>0, <3>1, NoOneAssumption DEF LockInv, Ended, Withheld
  <2>3. Honest(row[k], Claimed(row[k], d))
    BY <1>1, <2>2, RowHonest
  <2>4. StaysOpened
    BY <1>4, <2>1 DEF DeliveryPC
  <2> QED
    BY <1>6, <1>8, <2>1, <2>3, <2>4
<1>14. CASE InspectRun(d) \/ InspectJob(d) \/ Verify(d)
  <2>1. HonestStep /\ hatchet' = hatchet /\ row' = row
    BY <1>14 DEF InspectRun, InspectJob, Verify, HonestStep
  <2>2. \/ Release(d)
        \/ \E pc \in DeliveryPC : Goto(d, pc) /\ (pc = "ok" => Ended(row[k]))
    BY <1>1, <1>14
       DEF InspectRun, InspectJob, Verify, DeliveryPC, Ended, Withheld, k
  <2> QED
    BY <1>4, <1>5, <2>1, <2>2
<1>15. CASE CommitMutation(d)
  <2>1. Goto(d, "verify") /\ hatchet' = hatchet
    BY <1>15 DEF CommitMutation
  <2>2. StaysOpened
    BY <1>4, <2>1 DEF DeliveryPC
  <2>3. ~claimed => HonestStep
    BY <1>15 DEF CommitMutation, HonestStep, k
  <2> QED
    BY <1>15, <2>2, <2>3 DEF k
<1>16. CASE JobFails(d) \/ JobDefers(d)
  <2>1. PICK r \in {Failed(row[k]), Deferred(row[k])} : JobReturns(d, r)
    BY <1>16 DEF JobFails, JobDefers, k
  <2>2. /\ Goto(d, "verify") /\ hatchet' = hatchet /\ effects' = effects
        /\ row' = [row EXCEPT ![k] =
              IF OwnsClaim(row[k], d, row[k].live) THEN r ELSE row[k]]
    BY <2>1 DEF JobReturns, Write, k
  <2>3. OwnsClaim(row[k], d, row[k].live) => ~Ended(row[k])
    BY DEF OwnsClaim, Ended, Withheld
  <2>4. OwnsClaim(row[k], d, row[k].live) => Honest(row[k], r) /\ r \in Row
    BY <1>1, <1>8, <2>3, RowHonest
  <2>5. HonestStep
    BY <1>1, <1>6, <1>8, <2>2, <2>4
  <2>6. StaysOpened
    BY <1>4, <2>2 DEF DeliveryPC
  <2> QED
    BY <2>5, <2>6
<1>17. CASE AnswerOk(d)
  <2>1. /\ Acknowledge(d) /\ effects' = effects /\ At(delivery[d], "ok")
        /\ \/ row' = [row EXCEPT ![k] = row[k]]
           \/ row' = [row EXCEPT ![k] = CompletedMark(row[k])]
    BY <1>17 DEF AnswerOk, Write, k
  <2>2. Ended(row[k])
    BY <2>1 DEF OkIsEnded, k
  <2>3. Honest(row[k], CompletedMark(row[k]))
    BY <1>1, <2>2, RowHonest
  <2>4. HonestStep
    BY <1>1, <1>6, <1>8, <2>1, <2>3
  <2>5. StaysOpened
    BY <1>5, <1>7, <2>1 DEF Acknowledge
  <2> QED
    BY <2>4, <2>5
<1>18. CASE AnswerErr(d)
  <2>1. /\ Release(d) /\ effects' = effects /\ hatchet' = hatchet
        /\ row' = [row EXCEPT ![k] = FailedMark(row[k])]
    BY <1>18 DEF AnswerErr, Reject, Write, k
  <2> QED
    BY <1>5, <1>6, <1>8, <2>1
<1>19. CASE DeliveryCrash(d)
  <2>1. HonestStep /\ Release(d) /\ hatchet' = hatchet
    BY <1>19 DEF DeliveryCrash, Reject, HonestStep
  <2> QED
    BY <1>5, <2>1
<1> QED
  BY <1>10, <1>11, <1>12, <1>13, <1>14, <1>15, <1>16, <1>17, <1>18, <1>19
     DEF DeliveryStep, DeliveryFault

(* The committing step is RunPromise's Commit.                             *)
LEMMA CommitMaps ==
    ASSUME PInv, NEW d \in Delivery, CommitMutation(d),
           OwnsClaim(row[delivery[d].key], d, delivery[d].inTime)
    PROVE  Onward /\ Promise!Next
<1> USE DEF PInv, FInv, TInv, TypeOK
<1> DEFINE k == delivery[d].key
           phase == [j \in Key |-> Phase(row[j])]
<1>1. /\ k \in Key
      /\ row' = [row EXCEPT ![k] = Completed(row[k])]
      /\ effects' = [effects EXCEPT ![k] = @ + 1]
  BY DEF CommitMutation, Write, KeysHeld, Idle, At
<1>2. row[k].run = "running"
  BY <1>1, NoOneAssumption DEF OwnsClaim, RowsFenced, Fenced
<1>3. Completed(row[k]).run = "completed"
  BY <1>1 DEF Completed, Unclaimed, Row
<1>4. Onward
  BY <1>1, <1>2, <1>3 DEF Onward, Present, Ended, NeverPaused
<1>5. /\ Phase(row[k]) = "open" /\ Phase(Completed(row[k])) = "done"
      /\ phase' = [phase EXCEPT ![k] = "done"]
  <2>1. Phase(row[k]) = "open" /\ Phase(Completed(row[k])) = "done"
    BY <1>2, <1>3 DEF Phase
  <2> QED
    BY <1>1, <2>1
<1> HIDE DEF k
<1>6. Promise!Commit(k)
  BY <1>1, <1>5 DEF Promise!Commit, Promise!Move
<1> QED
  BY <1>1, <1>4, <1>6 DEF Promise!Next

(* Enqueuing is its Open.                                                  *)
LEMMA EnqueueMaps ==
    ASSUME PInv, NEW k \in Key, Enqueue(k)
    PROVE  Onward /\ StaysOpened /\ Promise!Next
<1> USE DEF PInv, FInv, TInv, TypeOK
<1> DEFINE phase == [j \in Key |-> Phase(row[j])]
<1>1. /\ row' = [row EXCEPT ![k] = Enqueued(row[k])]
      /\ ~Present(row[k])
      /\ effects' = effects /\ relay' = relay /\ delivery' = delivery
      /\ operator' = operator /\ hatchet' = hatchet
  BY DEF Enqueue, Write
<1>2. Enqueued(row[k]).run = "pending" /\ row[k].run = "absent"
  BY <1>1 DEF Enqueued, NoRow, Present
<1>3. Onward
  BY <1>1, <1>2 DEF Onward, Present, Ended, NeverPaused
<1>4. StaysOpened
  BY <1>1 DEF StaysOpened, Opened
<1>5. /\ Phase(row[k]) = "absent"
      /\ phase' = [phase EXCEPT ![k] = "open"]
  <2>1. Phase(row[k]) = "absent" /\ Phase(Enqueued(row[k])) = "open"
    BY <1>2 DEF Phase
  <2> QED
    BY <1>1, <2>1
<1>6. Promise!Open(k)
  BY <1>1, <1>5 DEF Promise!Open, Promise!Move
<1> QED
  BY <1>3, <1>4, <1>6 DEF Promise!Next

LEMMA PromiseStep ==
    ASSUME Request \subseteq {"cancel"}, PInv, [Next]_vars
    PROVE  PInv' /\ [Promise!Next]_(Promise!vars)
<1>1. FInv'
  BY FenceStep DEF PInv
<1>2. ASSUME HonestStep, StaysOpened
      PROVE  PInv' /\ [Promise!Next]_(Promise!vars)
  BY <1>1, <1>2, HonestOnward, OnwardKeeps, HonestMaps
<1>3. ASSUME NEW k \in Key, Enqueue(k)
      PROVE  PInv' /\ [Promise!Next]_(Promise!vars)
  BY <1>1, <1>3, EnqueueMaps, OnwardKeeps
<1>4. ASSUME NEW d \in Delivery, DeliveryStep(d) \/ DeliveryFault(d)
      PROVE  PInv' /\ [Promise!Next]_(Promise!vars)
  <2>1. CASE HonestStep
    BY <1>2, <1>4, <2>1, DeliveryHonest
  <2>2. CASE CommitMutation(d)
             /\ OwnsClaim(row[delivery[d].key], d, delivery[d].inTime)
    BY <1>1, <1>4, <2>2, DeliveryHonest, CommitMaps, OnwardKeeps
  <2> QED
    BY <1>4, <2>1, <2>2, DeliveryHonest
<1>5. CASE UNCHANGED vars
  <2>1. HonestStep /\ StaysOpened
    BY <1>5 DEF vars, HonestStep, StaysOpened, PInv, Opened
  <2> QED
    BY <1>2, <2>1
<1>6. CASE \E p \in Relay : RelayStep(p) \/ RelayRefused(p) \/ RelayCrash(p)
  BY <1>2, <1>6, RelayHonest
<1>7. CASE \E o \in Operator :
              \/ \E op \in Request, k \in Key : Ask(o, op, k)
              \/ CallBridge(o) \/ Control(o) \/ AbandonRequest(o)
  BY <1>2, <1>7, OperatorHonest
<1>8. CASE \/ \E k \in Key : FallDue(k) \/ FireSchedule(k) \/ LeaseLapses(k)
           \/ \E p \in Plugin : TogglePlugin(p)
           \/ \E d \in Delivery, k \in Key : Deliver(d, k)
  BY <1>2, <1>8, EnvironmentHonest
<1> QED
  BY <1>3, <1>4, <1>5, <1>6, <1>7, <1>8 DEF Next, Work

LEMMA PromiseInit == Init => PInv /\ Promise!Init
<1> SUFFICES ASSUME Init PROVE PInv /\ Promise!Init
  OBVIOUS
<1>1. FInv
  BY FenceInit
<1>2. Opened
  BY DEF Init, Opened, IdleRelay, IdleDelivery, IdleOperator, Idle, At
<1>3. NeverPaused /\ OkIsEnded
  BY DEF Init, NeverPaused, OkIsEnded, NoRow, IdleDelivery, At
<1>4. Promise!Init
  BY DEF Init, NoRow, Phase, Promise!Init
<1> QED
  BY <1>1, <1>2, <1>3, <1>4 DEF PInv

(* With cancellation as the only request, relays, bridge, endpoint and     *)
(* executor implement RunPromise: an intent is opened once and then either *)
(* its mutation commits exactly once or it is stopped and never commits.   *)
THEOREM ImplementsPromise ==
    ASSUME Request \subseteq {"cancel"}
    PROVE  Spec => KeepsPromise
<1>1. Init => PInv /\ Promise!Init
  BY PromiseInit
<1>2. PInv /\ [Next]_vars => PInv' /\ [Promise!Next]_(Promise!vars)
  BY PromiseStep
<1> QED
  BY <1>1, <1>2, PTL DEF Spec, KeepsPromise, Promise!Spec
=============================================================================
