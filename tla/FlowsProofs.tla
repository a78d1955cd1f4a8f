----------------------------- MODULE FlowsProofs -----------------------------
(***************************************************************************)
(* Proofs about Flows: a run's effects follow its steps, a webhook that    *)
(* arrives twice has a cause, and runs only advance.                       *)
(***************************************************************************)
EXTENDS Flows, TLAPS

-----------------------------------------------------------------------------
(* Types.                                                                  *)

FlowRow   == [phase : {"live", "trashed", "gone"}, enabled : BOOLEAN,
              kept : BOOLEAN, steps : Version]
RunRow    == [state : RunState, definition : Version, position : Nat]
JobRow    == [status : JobStatus, due : BOOLEAN, owner : Worker \cup {NoWorker}, live : BOOLEAN]
WorkerRow == [pc : {"idle", "start", "insert", "load", "post", "record"},
              run : Run, job : Job, inTime : BOOLEAN]

(* A worker is at a start job or at a step's.                              *)
AtItsJob ==
    \A w \in Worker : /\ worker[w].pc \in {"start", "insert"} => worker[w].job = 0
                      /\ worker[w].pc \in {"load", "post", "record"} => worker[w].job \in Position

Bounded == \A f \in Fault : budget[f] <= Budget[f]

TInv == TypeOK /\ AtItsJob /\ Bounded

-----------------------------------------------------------------------------
(* Effects follow steps.                                                   *)

Gone(r) == flow[FlowOf(r)].phase = "gone"

(* Position p of a run may be worked on: it is one of its steps, and every *)
(* earlier one is recorded.                                                *)
Ready(r, p) ==
    /\ run[r].state # "none"
    /\ p <= Len(Steps[run[r].definition])
    /\ 1 .. p - 1 \subseteq recorded[r]

(* What is purged does not come back.                                      *)
GoneIsEmpty ==
    \A r \in Run : Gone(r) => /\ run[r].state = "none"
                              /\ \A j \in Job : job[r][j].status = "none"

(* Nothing happens before a run's row.                                     *)
NoneYet ==
    \A r \in Run : run[r].state = "none" /\ ~Gone(r) =>
        /\ recorded[r] = {}
        /\ \A p \in Position : mail[r][p] = 0 /\ posted[r][p] = 0

JobsAreReady == \A r \in Run, p \in Position : job[r][p].status # "none" => Ready(r, p)

AtStep(w, r, p) ==
    /\ Ready(r, p)
    /\ At(w, "post") => KindAt(r, p) = "webhook"
    /\ At(w, "record") /\ KindAt(r, p) = "webhook" => posted[r][p] > 0

WorkIsReady ==
    \A w \in Worker : worker[w].pc \in {"load", "post", "record"} =>
        Gone(worker[w].run) \/ AtStep(w, worker[w].run, worker[w].job)

EndedIsDone ==
    \A r \in Run : run[r].state \in Ended => 1 .. Len(Steps[run[r].definition]) \subseteq recorded[r]

EInv ==
    /\ TInv
    /\ GoneIsEmpty /\ NoneYet /\ JobsAreReady /\ WorkIsReady /\ EndedIsDone
    /\ EffectsFollowSteps

-----------------------------------------------------------------------------
(* A webhook arrives once when nothing goes wrong.                         *)

Clean == \A f \in {"failure", "lapse", "replay"} : budget[f] = Budget[f]

Holds(w, r, j) == worker[w].pc # "idle" /\ worker[w].run = r /\ worker[w].job = j

WorkerHolds ==
    \A w \in Worker : worker[w].pc # "idle" =>
        /\ Row(w).status = "running" /\ Row(w).owner = w /\ Row(w).live
        /\ At(w, "insert") => worker[w].inTime

PostedOnce ==
    \A r \in Run, p \in Position :
        /\ posted[r][p] <= 1
        /\ posted[r][p] = 1 => \/ Gone(r)
                               \/ job[r][p].status = "completed"
                               \/ \E w \in Worker : At(w, "record") /\ Holds(w, r, p)

CInv == EInv /\ (Clean => WorkerHolds /\ PostedOnce)

-----------------------------------------------------------------------------
(* Runs only advance.                                                      *)

Straight == budget["replay"] = Budget["replay"]

AInv ==
    /\ EInv
    /\ \A r \in Run : run[r].position \in recorded[r] \cup {0}
    /\ Straight => \A r \in Run : \A p \in recorded[r] : job[r][p].status = "completed"

-----------------------------------------------------------------------------
(* What the operators return.                                              *)

LEMMA Positions ==
    /\ Position \subseteq Nat \ {0} /\ Position \subseteq Job /\ 0 \in Job /\ 0 \notin Position
    /\ \A v \in Version : \A p \in 1 .. Len(Steps[v]) : p \in Position /\ Steps[v][p] \in Kind
    /\ \A v \in Version : Len(Steps[v]) \in Nat \ {0}
<1>1. \A v \in Version : Steps[v] \in Seq(Kind) /\ Steps[v] # <<>>
  BY FlowsAssumption DEF FlowsAssumption, StepLists
<1>2. \A v \in Version : Len(Steps[v]) \in Nat \ {0}
                         /\ \A p \in 1 .. Len(Steps[v]) : Steps[v][p] \in Kind
  BY <1>1
<1> QED BY <1>2 DEF Position, Job

LEMMA Rows ==
    /\ NoJob \in JobRow /\ IdleWorker \in WorkerRow /\ NoRun \in RunRow
    /\ NoRun.state = "none" /\ NoRun.position = 0 /\ NoJob.status = "none"
    /\ IdleWorker.pc = "idle"
<1>1. AnyRun \in Run
  <2>1. Run # {}
    <3>1. PICK f \in Flow, e \in Event : TRUE
      BY FlowsAssumption DEF FlowsAssumption, StepLists
    <3>2. <<f, e>> \in Run
      BY DEF Run
    <3> QED BY <3>2
  <2> QED BY <2>1 DEF AnyRun
<1>2. (CHOOSE v \in Version : TRUE) \in Version
  BY FlowsAssumption DEF FlowsAssumption, StepLists
<1> QED BY <1>1, <1>2, Positions
        DEF NoJob, IdleWorker, NoRun, JobRow, WorkerRow, RunRow, RunState, JobStatus

(* The rows a job's delivery writes.                                       *)
LEMMA JobRows ==
    ASSUME NEW j \in JobRow
    PROVE  /\ Done(j) \in JobRow /\ Done(j).status = "completed"
           /\ Failed(j) \in JobRow /\ Failed(j).status = "failed"
           /\ \A due \in BOOLEAN : Enqueued(j, due) \in JobRow
                                   /\ Enqueued(j, due).status # "none"
                                   /\ (j.status # "none" => Enqueued(j, due) = j)
                                   /\ (j.status = "none" => Enqueued(j, due).status = "pending")
           /\ \A w \in Worker : /\ Claimed(j, w) \in JobRow
                                /\ Claimed(j, w).status = "running"
                                /\ Claimed(j, w).owner = w /\ Claimed(j, w).live
<1> USE DEF JobRow, JobStatus, NoJob
<1>1. Done(j) \in JobRow /\ Done(j).status = "completed"
  BY DEF Done
<1>2. Failed(j) \in JobRow /\ Failed(j).status = "failed"
  BY DEF Failed
<1>3. ASSUME NEW due \in BOOLEAN
      PROVE  /\ Enqueued(j, due) \in JobRow
             /\ Enqueued(j, due).status # "none"
             /\ j.status # "none" => Enqueued(j, due) = j
             /\ j.status = "none" => Enqueued(j, due).status = "pending"
  BY DEF Enqueued
<1>4. ASSUME NEW w \in Worker
      PROVE  /\ Claimed(j, w) \in JobRow
             /\ Claimed(j, w).status = "running"
             /\ Claimed(j, w).owner = w /\ Claimed(j, w).live
  BY DEF Claimed
<1> QED BY <1>1, <1>2, <1>3, <1>4

Others(r, j) == \A q \in Run, k \in Job : q # r \/ k # j => job'[q][k] = job[q][k]

(* One job's row is written.                                               *)
LEMMA JobPut ==
    ASSUME TInv, NEW r \in Run, NEW j \in Job, NEW v \in JobRow,
           job' = [job EXCEPT ![r][j] = v]
    PROVE  job' \in [Run -> [Job -> JobRow]] /\ job'[r][j] = v /\ Others(r, j)
<1>1. job \in [Run -> [Job -> JobRow]]
  BY DEF TInv, TypeOK, JobRow
<1> QED BY <1>1 DEF Others

(* One worker goes on.                                                     *)
LEMMA WorkerPut ==
    ASSUME TInv, NEW w \in Worker, NEW v \in WorkerRow,
           worker' = [worker EXCEPT ![w] = v]
    PROVE  /\ worker' \in [Worker -> WorkerRow] /\ worker'[w] = v
           /\ \A k \in Worker : k # w => worker'[k] = worker[k]
<1>1. worker \in [Worker -> WorkerRow]
  BY DEF TInv, TypeOK, WorkerRow
<1> QED BY <1>1

LEMMA Spends ==
    ASSUME TInv, NEW f \in Fault, Spend(f)
    PROVE  /\ budget' \in [Fault -> Nat] /\ budget'[f] < budget[f]
           /\ \A g \in Fault : budget'[g] <= budget[g] /\ (g # f => budget'[g] = budget[g])
           /\ Bounded'
<1>1. budget \in [Fault -> Nat] /\ budget[f] > 0 /\ budget' = [budget EXCEPT ![f] = @ - 1]
  BY DEF TInv, TypeOK, Spend
<1>2. /\ budget' \in [Fault -> Nat] /\ budget'[f] < budget[f]
      /\ \A g \in Fault : budget'[g] <= budget[g] /\ (g # f => budget'[g] = budget[g])
  BY <1>1
<1>3. \A g \in Fault : Budget[g] \in Nat /\ budget[g] <= Budget[g]
  BY FlowsAssumption DEF FlowsAssumption, StepLists, TInv, Bounded
<1>4. \A g \in Fault : budget[g] \in Nat /\ budget'[g] \in Nat
  BY <1>1, <1>2
<1>5. Bounded'
  BY <1>2, <1>3, <1>4 DEF Bounded
<1> QED BY <1>2, <1>5

LEMMA TypesNow ==
    ASSUME TInv
    PROVE  /\ flow \in [Flow -> FlowRow] /\ run \in [Run -> RunRow]
           /\ recorded \in [Run -> SUBSET Position] /\ mail \in [Run -> [Position -> Nat]]
           /\ job \in [Run -> [Job -> JobRow]] /\ worker \in [Worker -> WorkerRow]
           /\ budget \in [Fault -> Nat] /\ posted \in [Run -> [Position -> Nat]]
           /\ \A w \in Worker : worker[w].run \in Run /\ worker[w].job \in Job
                                /\ worker[w].inTime \in BOOLEAN
           /\ \A r \in Run : FlowOf(r) \in Flow
BY DEF TInv, TypeOK, FlowRow, RunRow, JobRow, WorkerRow, Run, FlowOf

-----------------------------------------------------------------------------
(* What each kind of step writes.                                          *)

Fewer == \A f \in Fault : budget'[f] <= budget[f]

Authoring ==
    \/ \E f \in Flow, enabled \in BOOLEAN, v \in Version : Update(f, enabled, v)
    \/ \E f \in Flow : Delete(f) \/ Restore(f)

LEMMA AuthoringWrites ==
    ASSUME TInv, Authoring
    PROVE  /\ TInv' /\ Fewer
           /\ UNCHANGED <<run, recorded, mail, job, worker, posted>>
           /\ \A r \in Run : Gone(r)' <=> Gone(r)
<1>0. flow \in [Flow -> FlowRow] /\ budget \in [Fault -> Nat]
      /\ \A r \in Run : FlowOf(r) \in Flow
  BY TypesNow
<1>1. UNCHANGED <<run, recorded, mail, job, worker, posted>>
  BY DEF Authoring, Update, Delete, Restore
<1>2. /\ flow' \in [Flow -> FlowRow]
      /\ \A f \in Flow : flow'[f].phase = "gone" <=> flow[f].phase = "gone"
  <2>1. ASSUME NEW f \in Flow, NEW enabled \in BOOLEAN, NEW v \in Version, Update(f, enabled, v)
        PROVE  <1>2!1 /\ <1>2!2
    BY <1>0, <2>1 DEF Update, FlowRow
  <2>2. ASSUME NEW f \in Flow, Delete(f) \/ Restore(f) PROVE <1>2!1 /\ <1>2!2
    BY <1>0, <2>2 DEF Delete, Restore, FlowRow
  <2> QED BY <2>1, <2>2 DEF Authoring
<1>3. Spend("authoring") \/ UNCHANGED budget
  BY DEF Authoring, Update, Delete, Restore
<1>4. Fewer /\ Bounded' /\ budget' \in [Fault -> Nat]
  <2>1. "authoring" \in Fault
    BY DEF Fault
  <2> QED BY <1>0, <1>3, <2>1, Spends DEF Fewer, TInv, Bounded
<1>5. TInv'
  BY <1>1, <1>2, <1>4 DEF TInv, TypeOK, AtItsJob, FlowRow
<1>6. \A r \in Run : Gone(r)' <=> Gone(r)
  BY <1>0, <1>2 DEF Gone
<1> QED BY <1>1, <1>4, <1>5, <1>6

LEMMA PurgeWrites ==
    ASSUME TInv, NEW f \in Flow, PermanentlyDelete(f)
    PROVE  /\ TInv' /\ Fewer
           /\ UNCHANGED <<mail, worker, budget, posted>> /\ AtRest(f)
           /\ \A r \in Run : FlowOf(r) = f =>
                  /\ Gone(r)' /\ run'[r] = NoRun /\ recorded'[r] = {}
                  /\ \A j \in Job : job'[r][j] = NoJob
           /\ \A r \in Run : FlowOf(r) # f =>
                  /\ Gone(r)' <=> Gone(r)
                  /\ run'[r] = run[r] /\ recorded'[r] = recorded[r] /\ job'[r] = job[r]
<1>0. /\ flow \in [Flow -> FlowRow] /\ run \in [Run -> RunRow]
      /\ recorded \in [Run -> SUBSET Position] /\ job \in [Run -> [Job -> JobRow]]
      /\ budget \in [Fault -> Nat] /\ \A r \in Run : FlowOf(r) \in Flow
  BY TypesNow
<1>1. UNCHANGED <<mail, worker, budget, posted>> /\ AtRest(f)
  BY DEF PermanentlyDelete
<1>2. flow' \in [Flow -> FlowRow] /\ flow'[f].phase = "gone"
      /\ \A g \in Flow : g # f => flow'[g] = flow[g]
  BY <1>0 DEF PermanentlyDelete, FlowRow
<1>3. run' \in [Run -> RunRow] /\ recorded' \in [Run -> SUBSET Position]
      /\ job' \in [Run -> [Job -> JobRow]]
  BY <1>0, Rows DEF PermanentlyDelete
<1>4. Fewer
  BY <1>0, <1>1 DEF Fewer
<1>5. TInv'
  BY <1>1, <1>2, <1>3 DEF TInv, TypeOK, AtItsJob, Bounded, FlowRow, RunRow, JobRow
<1>6. ASSUME NEW r \in Run, FlowOf(r) = f
      PROVE  /\ Gone(r)' /\ run'[r] = NoRun /\ recorded'[r] = {}
             /\ \A j \in Job : job'[r][j] = NoJob
  BY <1>2, <1>6 DEF PermanentlyDelete, Gone
<1>7. ASSUME NEW r \in Run, FlowOf(r) # f
      PROVE  /\ Gone(r)' <=> Gone(r)
             /\ run'[r] = run[r] /\ recorded'[r] = recorded[r] /\ job'[r] = job[r]
  BY <1>0, <1>2, <1>7 DEF PermanentlyDelete, Gone
<1> QED BY <1>1, <1>4, <1>5, <1>6, <1>7

LEMMA EmitWrites ==
    ASSUME TInv, NEW e \in Event, Emit(e)
    PROVE  /\ TInv' /\ UNCHANGED <<flow, run, recorded, mail, worker, budget, posted>>
           /\ \A r \in Run, p \in Position : job'[r][p] = job[r][p]
           /\ \A r \in Run : \/ job'[r][0] = job[r][0]
                             \/ job[r][0].status = "none" /\ ~Gone(r)
<1>0. job \in [Run -> [Job -> JobRow]]
  BY TypesNow
<1>1. UNCHANGED <<flow, run, recorded, mail, worker, budget, posted>>
  BY DEF Emit
<1>2. ASSUME NEW r \in Run
      PROVE  /\ job'[r] \in [Job -> JobRow]
             /\ \A p \in Position : job'[r][p] = job[r][p]
             /\ \/ job'[r][0] = job[r][0]
                \/ job[r][0].status = "none" /\ ~Gone(r)
  <2>1. CASE r[2] = e /\ flow[FlowOf(r)].phase = "live" /\ flow[FlowOf(r)].enabled
    <3>1. job'[r] = [job[r] EXCEPT ![0] = Enqueued(job[r][0], TRUE)]
      BY <1>0, <2>1, Positions DEF Emit
    <3>2. ~Gone(r)
      BY <2>1 DEF Gone
    <3>3. job[r] \in [Job -> JobRow] /\ job[r][0] \in JobRow
      BY <1>0, Positions
    <3>4. Enqueued(job[r][0], TRUE) \in JobRow
          /\ (job[r][0].status # "none" => Enqueued(job[r][0], TRUE) = job[r][0])
      BY <3>3, JobRows
    <3> HIDE DEF Enqueued
    <3> QED BY <3>1, <3>2, <3>3, <3>4, Positions
  <2>2. CASE ~(r[2] = e /\ flow[FlowOf(r)].phase = "live" /\ flow[FlowOf(r)].enabled)
    BY <1>0, <2>2 DEF Emit
  <2> QED BY <2>1, <2>2
<1>3. job' \in [Run -> [Job -> JobRow]]
  <2>1. job' = [r \in Run |-> job'[r]]
    BY DEF Emit
  <2> QED BY <1>2, <2>1
<1> QED BY <1>1, <1>2, <1>3 DEF TInv, TypeOK, AtItsJob, Bounded, JobRow

JobTurns(r, j) == FallDue(r, j) \/ LeaseLapses(r, j) \/ Replay(r, j)

LEMMA TurnWrites ==
    ASSUME TInv, NEW r \in Run, NEW j \in Job, JobTurns(r, j)
    PROVE  /\ TInv' /\ Fewer
           /\ UNCHANGED <<flow, run, recorded, mail, worker, posted>> /\ Others(r, j)
           /\ job'[r][j].status = "none" <=> job[r][j].status = "none"
           /\ \/ budget'["replay"] < budget["replay"]
              \/ /\ job'[r][j].status = job[r][j].status
                 /\ job'[r][j].owner = job[r][j].owner
                 /\ \/ job'[r][j].live = job[r][j].live
                    \/ ~AtWork(r, j)
                    \/ budget'["lapse"] < budget["lapse"]
<1>0. /\ job \in [Run -> [Job -> JobRow]] /\ job[r][j] \in JobRow
      /\ budget \in [Fault -> Nat]
  BY TypesNow
<1>1. UNCHANGED <<flow, run, recorded, mail, worker, posted>>
  BY DEF JobTurns, FallDue, LeaseLapses, Replay
<1>2. "lapse" \in Fault /\ "replay" \in Fault
  BY DEF Fault
<1>3. UNCHANGED budget \/ Spend("lapse") \/ Spend("replay")
  BY DEF JobTurns, FallDue, LeaseLapses, Replay
<1>4. budget' \in [Fault -> Nat] /\ Fewer /\ Bounded'
  BY <1>0, <1>2, <1>3, Spends DEF Fewer, TInv, Bounded
<1>5. \E v \in JobRow :
        /\ job' = [job EXCEPT ![r][j] = v]
        /\ v.status = "none" <=> job[r][j].status = "none"
        /\ \/ budget'["replay"] < budget["replay"]
           \/ /\ v.status = job[r][j].status /\ v.owner = job[r][j].owner
              /\ v.live = job[r][j].live \/ ~AtWork(r, j) \/ budget'["lapse"] < budget["lapse"]
  <2>1. CASE FallDue(r, j)
    <3> DEFINE v == [job[r][j] EXCEPT !.due = TRUE]
    <3>1. v \in JobRow /\ v.status = job[r][j].status /\ v.owner = job[r][j].owner
          /\ v.live = job[r][j].live
      BY <1>0 DEF JobRow
    <3>2. job' = [job EXCEPT ![r][j] = v]
      BY <1>0, <2>1 DEF FallDue
    <3> HIDE DEF v
    <3> QED BY <3>1, <3>2
  <2>2. CASE LeaseLapses(r, j)
    <3> DEFINE v == [job[r][j] EXCEPT !.live = FALSE]
    <3>1. v \in JobRow /\ v.status = job[r][j].status /\ v.owner = job[r][j].owner
      BY <1>0 DEF JobRow
    <3>2. job' = [job EXCEPT ![r][j] = v]
      BY <1>0, <2>2 DEF LeaseLapses
    <3>3. ~AtWork(r, j) \/ budget'["lapse"] < budget["lapse"]
      <4>1. CASE AtWork(r, j)
        BY <1>2, <2>2, <4>1, Spends DEF LeaseLapses
      <4> QED BY <4>1
    <3> HIDE DEF v
    <3> QED BY <3>1, <3>2, <3>3
  <2>3. CASE Replay(r, j)
    <3>1. Spend("replay")
      BY <2>3 DEF Replay
    <3>2. budget'["replay"] < budget["replay"]
      BY <1>2, <3>1, Spends
    <3>3. \E v \in {[NoJob EXCEPT !.status = "pending", !.due = TRUE],
                    [NoJob EXCEPT !.status = "running", !.due = TRUE]} :
            job' = [job EXCEPT ![r][j] = v]
      BY <2>3 DEF Replay
    <3>4. job[r][j].status # "none"
      BY <2>3 DEF Replay
    <3>5. \A v \in {[NoJob EXCEPT !.status = "pending", !.due = TRUE],
                    [NoJob EXCEPT !.status = "running", !.due = TRUE]} :
             v \in JobRow /\ v.status # "none"
      BY DEF NoJob, JobRow, JobStatus
    <3> QED BY <3>2, <3>3, <3>4, <3>5
  <2> QED BY <2>1, <2>2, <2>3 DEF JobTurns
<1>6. PICK v \in JobRow : <1>5!(v)
  BY <1>5
<1>7. job' \in [Run -> [Job -> JobRow]] /\ job'[r][j] = v /\ Others(r, j)
  BY <1>6, JobPut
<1>8. TInv'
  BY <1>1, <1>4, <1>7 DEF TInv, TypeOK, AtItsJob, JobRow
<1> QED BY <1>1, <1>4, <1>6, <1>7, <1>8

LEMMA ClaimWrites ==
    ASSUME TInv, NEW w \in Worker, NEW r \in Run, NEW j \in Job, Claim(w, r, j)
    PROVE  /\ TInv' /\ UNCHANGED <<flow, run, recorded, mail, budget, posted>>
           /\ At(w, "idle") /\ Claimable(job[r][j]) /\ Others(r, j)
           /\ job'[r][j].status = "running" /\ job'[r][j].owner = w /\ job'[r][j].live
           /\ worker'[w].run = r /\ worker'[w].job = j
           /\ worker'[w].pc = IF j = 0 THEN "start" ELSE "load"
           /\ \A k \in Worker : k # w => worker'[k] = worker[k]
<1>0. job \in [Run -> [Job -> JobRow]] /\ job[r][j] \in JobRow
  BY TypesNow
<1>1. UNCHANGED <<flow, run, recorded, mail, budget, posted>> /\ At(w, "idle")
      /\ Claimable(job[r][j])
  BY DEF Claim, At
<1>2. job' = [job EXCEPT ![r][j] = Claimed(job[r][j], w)]
  BY <1>0 DEF Claim
<1>3. /\ job' \in [Run -> [Job -> JobRow]] /\ Others(r, j)
      /\ job'[r][j].status = "running" /\ job'[r][j].owner = w /\ job'[r][j].live
  <2> DEFINE v == Claimed(job[r][j], w)
  <2>1. v \in JobRow /\ v.status = "running" /\ v.owner = w /\ v.live
    BY <1>0 DEF Claimed, JobRow, JobStatus
  <2> HIDE DEF v
  <2>2. job' = [job EXCEPT ![r][j] = v]
    BY <1>2 DEF v
  <2> QED BY <2>1, <2>2, JobPut
<1> DEFINE v == [pc |-> IF j = 0 THEN "start" ELSE "load", run |-> r, job |-> j, inTime |-> FALSE]
<1>4. v \in WorkerRow /\ v.run = r /\ v.job = j /\ v.pc = IF j = 0 THEN "start" ELSE "load"
  BY DEF WorkerRow
<1>5. worker' = [worker EXCEPT ![w] = v]
  BY DEF Claim
<1> HIDE DEF v
<1>6. /\ worker' \in [Worker -> WorkerRow] /\ worker'[w] = v
      /\ \A k \in Worker : k # w => worker'[k] = worker[k]
  BY <1>4, <1>5, WorkerPut
<1>7. j # 0 => j \in Position
  BY DEF Job
<1>8. AtItsJob'
  BY <1>4, <1>6, <1>7 DEF TInv, AtItsJob
<1> QED BY <1>1, <1>3, <1>4, <1>6, <1>8 DEF TInv, TypeOK, Bounded, JobRow, WorkerRow

(* A worker leaves its job: completed or failed under its claim, or as it  *)
(* is.                                                                     *)
Leaves(w) ==
    /\ Return(w)
    /\ UNCHANGED <<flow, run, recorded, mail, posted>>
    /\ UNCHANGED budget \/ Spend("failure")
    /\ \/ UNCHANGED job
       \/ /\ Owns(w, Row(w).live)
          /\ \E v \in {Done(Row(w)), Failed(Row(w))} :
                job' = [job EXCEPT ![worker[w].run][worker[w].job] = v]

LEMMA ReturnWrites ==
    ASSUME TInv, NEW w \in Worker, Return(w)
    PROVE  /\ worker' \in [Worker -> WorkerRow] /\ worker'[w].pc = "idle"
           /\ \A k \in Worker : k # w => worker'[k] = worker[k]
           /\ AtItsJob'
<1>1. /\ worker' \in [Worker -> WorkerRow] /\ worker'[w] = IdleWorker
      /\ \A k \in Worker : k # w => worker'[k] = worker[k]
  BY Rows, WorkerPut DEF Return
<1> QED BY <1>1, Rows DEF TInv, AtItsJob

LEMMA FailureSpends ==
    ASSUME TInv, UNCHANGED budget \/ Spend("failure")
    PROVE  budget' \in [Fault -> Nat] /\ Fewer /\ Bounded'
<1>1. "failure" \in Fault /\ budget \in [Fault -> Nat]
  BY TypesNow DEF Fault
<1> QED BY <1>1, Spends DEF Fewer, TInv, Bounded

LEMMA LeavesWrites ==
    ASSUME TInv, NEW w \in Worker, Leaves(w)
    PROVE  /\ TInv' /\ Fewer /\ UNCHANGED <<flow, run, recorded, mail, posted>>
           /\ worker'[w].pc = "idle"
           /\ \A k \in Worker : k # w => worker'[k] = worker[k]
           /\ Others(worker[w].run, worker[w].job)
           /\ \/ UNCHANGED job
              \/ /\ Owns(w, Row(w).live)
                 /\ job'[worker[w].run][worker[w].job].status \in {"completed", "failed"}
<1>0. /\ job \in [Run -> [Job -> JobRow]] /\ worker[w].run \in Run /\ worker[w].job \in Job
      /\ Row(w) \in JobRow
  BY TypesNow DEF Row
<1>1. UNCHANGED <<flow, run, recorded, mail, posted>> /\ Return(w)
      /\ (UNCHANGED budget \/ Spend("failure"))
  BY DEF Leaves
<1>2. /\ job' \in [Run -> [Job -> JobRow]] /\ Others(worker[w].run, worker[w].job)
      /\ \/ UNCHANGED job
         \/ /\ Owns(w, Row(w).live)
            /\ job'[worker[w].run][worker[w].job].status \in {"completed", "failed"}
  <2>1. CASE UNCHANGED job
    BY <1>0, <2>1 DEF Others
  <2>2. CASE /\ Owns(w, Row(w).live)
             /\ \E v \in {Done(Row(w)), Failed(Row(w))} :
                   job' = [job EXCEPT ![worker[w].run][worker[w].job] = v]
    <3>1. PICK v \in {Done(Row(w)), Failed(Row(w))} :
                   job' = [job EXCEPT ![worker[w].run][worker[w].job] = v]
      BY <2>2
    <3>2. v \in JobRow /\ v.status \in {"completed", "failed"}
      BY <1>0, JobRows
    <3> QED BY <1>0, <2>2, <3>1, <3>2, JobPut
  <2> QED BY <2>1, <2>2 DEF Leaves
<1>3. TInv'
  BY <1>1, <1>2, ReturnWrites, FailureSpends DEF TInv, TypeOK, JobRow, WorkerRow
<1> QED BY <1>1, <1>2, <1>3, ReturnWrites, FailureSpends

(* The branches of the handlers that are not Leaves.                       *)
Reads(w) ==
    /\ At(w, "start")
    /\ worker' = [worker EXCEPT ![w].pc = "insert", ![w].inTime = Row(w).live]

Loads(w) ==
    /\ At(w, "load")
    /\ run[worker[w].run].state \in {"running", "waiting"}
    /\ worker' = [worker EXCEPT ![w].pc =
          IF KindAt(worker[w].run, worker[w].job) = "webhook" THEN "post" ELSE "record"]

Starts(w) ==
    /\ At(w, "insert")
    /\ flow[FlowOf(worker[w].run)].phase # "gone"
    /\ Owns(w, worker[w].inTime)
    /\ run' = [run EXCEPT ![worker[w].run] = Started(worker[w].run)]
    /\ job' = [job EXCEPT ![worker[w].run][0] = Done(@),
                          ![worker[w].run][1] = IF run[worker[w].run].state = "none"
                                                THEN Enqueued(@, TRUE) ELSE @]
    /\ Return(w)
    /\ UNCHANGED <<flow, recorded, mail, posted, budget>>

Records(w) ==
    /\ At(w, "record")
    /\ run[worker[w].run].state # "none"
    /\ Owns(w, Row(w).live)
    /\ mail' = IF KindAt(worker[w].run, worker[w].job) = "mail"
               THEN [mail EXCEPT ![worker[w].run][worker[w].job]
                                    = Mailed(worker[w].run, worker[w].job)] ELSE mail
    /\ recorded' = [recorded EXCEPT ![worker[w].run] =
                      IF run[worker[w].run].state \in Ended THEN @ ELSE @ \cup {worker[w].job}]
    /\ run' = [run EXCEPT ![worker[w].run] = Recorded(worker[w].run, worker[w].job)]
    /\ job' = [job EXCEPT ![worker[w].run] = NextStep(worker[w].run, worker[w].job)]
    /\ Return(w)
    /\ UNCHANGED <<flow, posted, budget>>

Arrives(w) ==
    /\ At(w, "post")
    /\ posted' = [posted EXCEPT ![worker[w].run][worker[w].job] = @ + 1]
    /\ UNCHANGED <<flow, run, recorded, mail>>
    /\ \/ /\ worker' = [worker EXCEPT ![w].pc = "record"]
          /\ UNCHANGED <<job, budget>>
       \/ /\ Return(w) /\ Spend("failure")
          /\ \/ UNCHANGED job
             \/ /\ Owns(w, Row(w).live)
                /\ job' = [job EXCEPT ![worker[w].run][worker[w].job] = Failed(Row(w))]

(* What a worker may do: leave its job without an effect, for no fault     *)
(* only before its last transaction, or go on.                             *)
LEMMA WorkerSteps ==
    ASSUME TInv, NEW w \in Worker,
           Handle(w) \/ PostFails(w) \/ HandlerFails(w) \/ Crash(w)
    PROVE  \/ /\ Leaves(w)
              /\ ~At(w, "idle")
              /\ \/ Spend("failure")
                 \/ At(w, "start") \/ At(w, "insert") \/ At(w, "load")
                 \/ At(w, "record") /\ run[worker[w].run].state = "none"
                 \/ At(w, "record") /\ ~Owns(w, Row(w).live)
           \/ /\ Reads(w) \/ Loads(w)
              /\ UNCHANGED <<flow, run, recorded, mail, job, budget, posted>>
           \/ Starts(w) \/ Records(w) \/ Arrives(w)
<1>0. /\ job \in [Run -> [Job -> JobRow]] /\ worker[w].run \in Run /\ worker[w].job \in Job
  BY TypesNow
<1>1. Fail(w) /\ (UNCHANGED budget \/ Spend("failure")) => Leaves(w)
  BY <1>0 DEF Fail, Leaves, Row
<1>2. ASSUME Complete(w), Return(w), UNCHANGED <<flow, run, recorded, mail, posted, budget>>
      PROVE  Leaves(w)
  BY <1>0, <1>2 DEF Complete, Leaves, Row
<1>3. /\ Return(w) /\ UNCHANGED <<flow, run, recorded, mail, job, posted>>
      /\ UNCHANGED budget \/ Spend("failure")
      => Leaves(w)
  BY DEF Leaves
<1>4. CASE ReadFlow(w)
  BY <1>4 DEF ReadFlow, Reads
<1>5. CASE NotEnabled(w)
  BY <1>1, <1>5 DEF NotEnabled, At
<1>6. CASE InsertRun(w)
  BY <1>1, <1>3, <1>6 DEF InsertRun, Starts, At
<1>7. CASE LoadRun(w)
  BY <1>1, <1>2, <1>7 DEF LoadRun, Loads, At
<1>8. CASE Post(w)
  BY <1>8 DEF Post, Arrives
<1>9. CASE Record(w)
  BY <1>1, <1>3, <1>9 DEF Record, Records, At
<1>10. CASE PostFails(w)
  <2>1. CASE Fail(w)
    BY <1>1, <1>10, <2>1 DEF PostFails, At
  <2>2. CASE ~Fail(w)
    BY <1>0, <1>10, <2>2 DEF PostFails, Arrives, Row
  <2> QED BY <2>1, <2>2
<1>11. CASE HandlerFails(w)
  BY <1>1, <1>11 DEF HandlerFails, At
<1>12. CASE Crash(w)
  BY <1>3, <1>12 DEF Crash
<1> QED BY <1>4, <1>5, <1>6, <1>7, <1>8, <1>9, <1>10, <1>11, <1>12 DEF Handle

LEMMA GoesOnWrites ==
    ASSUME TInv, NEW w \in Worker, Reads(w) \/ Loads(w),
           UNCHANGED <<flow, run, recorded, mail, job, budget, posted>>
    PROVE  /\ TInv' /\ Fewer
           /\ \A k \in Worker : k # w => worker'[k] = worker[k]
           /\ worker'[w].run = worker[w].run /\ worker'[w].job = worker[w].job
           /\ worker[w].pc # "idle" /\ worker'[w].pc # "idle"
           /\ Reads(w) => worker'[w].pc = "insert" /\ worker'[w].inTime = Row(w).live
           /\ Loads(w) =>
                /\ worker[w].pc = "load" /\ run[worker[w].run].state # "none"
                /\ worker'[w].pc \in {"post", "record"}
                /\ worker'[w].pc = "post"
                      <=> KindAt(worker[w].run, worker[w].job) = "webhook"
<1>0. /\ worker \in [Worker -> WorkerRow] /\ budget \in [Fault -> Nat]
      /\ job \in [Run -> [Job -> JobRow]] /\ run \in [Run -> RunRow]
      /\ worker[w].run \in Run /\ worker[w].job \in Job
  BY TypesNow
<1>1. Row(w).live \in BOOLEAN
  BY <1>0 DEF Row, JobRow
<1>2. Fewer /\ Bounded'
  BY <1>0 DEF Fewer, TInv, Bounded
<1>3. \E v \in WorkerRow :
        /\ worker' = [worker EXCEPT ![w] = v]
        /\ v.run = worker[w].run /\ v.job = worker[w].job /\ v.pc # "idle"
        /\ v.pc \in {"start", "insert"} => v.job = 0
        /\ v.pc \in {"load", "post", "record"} => v.job \in Position
        /\ Reads(w) => v.pc = "insert" /\ v.inTime = Row(w).live
        /\ Loads(w) =>
             /\ v.pc \in {"post", "record"}
             /\ v.pc = "post" <=> KindAt(worker[w].run, worker[w].job) = "webhook"
  <2>1. CASE Reads(w)
    <3> DEFINE v == [worker[w] EXCEPT !.pc = "insert", !.inTime = Row(w).live]
    <3>1. /\ v \in WorkerRow /\ v.run = worker[w].run /\ v.job = worker[w].job
          /\ v.pc = "insert" /\ v.inTime = Row(w).live
      BY <1>0, <1>1 DEF WorkerRow
    <3>2. worker' = [worker EXCEPT ![w] = v]
      BY <1>0, <2>1 DEF Reads
    <3>3. ~Loads(w) /\ worker[w].job = 0
      BY <2>1 DEF Reads, Loads, At, TInv, AtItsJob
    <3> HIDE DEF v
    <3> QED BY <2>1, <3>1, <3>2, <3>3
  <2>2. CASE Loads(w)
    <3> DEFINE pc == IF KindAt(worker[w].run, worker[w].job) = "webhook" THEN "post" ELSE "record"
               v  == [worker[w] EXCEPT !.pc = pc]
    <3>1. pc \in {"post", "record"}
          /\ (pc = "post" <=> KindAt(worker[w].run, worker[w].job) = "webhook")
      OBVIOUS
    <3>2. worker' = [worker EXCEPT ![w].pc = pc]
      BY <2>2 DEF Loads
    <3>3. ~Reads(w) /\ worker[w].job \in Position
      BY <2>2 DEF Reads, Loads, At, TInv, AtItsJob
    <3> HIDE DEF pc
    <3>4. v \in WorkerRow /\ v.run = worker[w].run /\ v.job = worker[w].job /\ v.pc = pc
      BY <1>0, <3>1 DEF WorkerRow
    <3>5. worker' = [worker EXCEPT ![w] = v]
      BY <1>0, <3>2
    <3> HIDE DEF v
    <3> QED BY <2>2, <3>1, <3>3, <3>4, <3>5
  <2> QED BY <2>1, <2>2
<1>4. PICK v \in WorkerRow : <1>3!(v)
  BY <1>3
<1>5. /\ worker' \in [Worker -> WorkerRow] /\ worker'[w] = v
      /\ \A k \in Worker : k # w => worker'[k] = worker[k]
  BY <1>4, WorkerPut
<1>6. AtItsJob'
  BY <1>4, <1>5 DEF TInv, AtItsJob
<1>7. TInv'
  BY <1>2, <1>5, <1>6 DEF TInv, TypeOK, WorkerRow
<1>8. worker[w].pc # "idle"
      /\ (Loads(w) => worker[w].pc = "load" /\ run[worker[w].run].state # "none")
  BY DEF Reads, Loads, At
<1> QED BY <1>2, <1>4, <1>5, <1>7, <1>8

LEMMA StartsWrites ==
    ASSUME EInv, NEW w \in Worker, Starts(w), NEW r \in Run, r = worker[w].run
    PROVE  /\ TInv' /\ Fewer /\ UNCHANGED <<flow, recorded, mail, posted, budget>>
           /\ ~Gone(r) /\ worker[w].job = 0 /\ Owns(w, worker[w].inTime)
           /\ worker'[w].pc = "idle" /\ \A k \in Worker : k # w => worker'[k] = worker[k]
           /\ \A q \in Run : q # r => run'[q] = run[q] /\ job'[q] = job[q]
           /\ run[r].state # "none" => run'[r] = run[r]
           /\ run[r].state = "none" => run'[r].state = "running" /\ run'[r].position = 0
           /\ \A p \in Position : \/ job'[r][p] = job[r][p]
                                  \/ p = 1 /\ run[r].state = "none" /\ job[r][1].status = "none"
<1>0. /\ TInv /\ job \in [Run -> [Job -> JobRow]] /\ run \in [Run -> RunRow]
      /\ flow \in [Flow -> FlowRow] /\ budget \in [Fault -> Nat] /\ FlowOf(r) \in Flow
      /\ job[r][0] \in JobRow
  BY TypesNow, Positions DEF EInv
<1>1. 1 \in Position /\ 1 \in Job /\ 0 \in Job /\ 1 # 0 /\ job[r][1] \in JobRow
  <2>1. PICK v \in Version : TRUE
    BY FlowsAssumption DEF FlowsAssumption, StepLists
  <2>2. 1 \in 1 .. Len(Steps[v])
    BY Positions
  <2>3. 1 \in Position
    BY <2>2, Positions
  <2> QED BY <1>0, <2>3, Positions
<1>2. /\ UNCHANGED <<flow, recorded, mail, posted, budget>> /\ Return(w)
      /\ ~Gone(r) /\ worker[w].job = 0 /\ Owns(w, worker[w].inTime)
  BY <1>0 DEF Starts, Gone, At, TInv, AtItsJob
<1>3. Fewer /\ Bounded'
  BY <1>0, <1>2 DEF Fewer, TInv, Bounded
<1>4. Started(r) \in RunRow /\ (run[r].state # "none" => Started(r) = run[r])
      /\ (run[r].state = "none" => Started(r).state = "running" /\ Started(r).position = 0)
  <2>1. CASE run[r].state # "none"
    BY <1>0, <2>1 DEF Started
  <2>2. CASE run[r].state = "none"
    <3>1. Started(r) = [NoRun EXCEPT !.state = "running", !.definition = flow[FlowOf(r)].steps]
      BY <2>2 DEF Started
    <3>2. flow[FlowOf(r)].steps \in Version
      BY <1>0 DEF FlowRow
    <3>3. NoRun \in RunRow /\ NoRun.position = 0
      BY Rows
    <3> QED BY <2>2, <3>1, <3>2, <3>3 DEF RunRow, RunState
  <2> QED BY <2>1, <2>2
<1>5. run' = [run EXCEPT ![r] = Started(r)]
  BY DEF Starts
<1>6. run' \in [Run -> RunRow] /\ run'[r] = Started(r) /\ \A q \in Run : q # r => run'[q] = run[q]
  BY <1>0, <1>4, <1>5
<1> DEFINE first == IF run[r].state = "none" THEN Enqueued(job[r][1], TRUE) ELSE job[r][1]
           done  == Done(job[r][0])
<1>7. job' = [job EXCEPT ![r][0] = done, ![r][1] = first]
  BY <1>0, <1>1 DEF Starts
<1>8. first \in JobRow /\ done \in JobRow
      /\ (run[r].state # "none" \/ job[r][1].status # "none" => first = job[r][1])
  BY <1>0, <1>1, JobRows
<1> HIDE DEF first, done
<1>9. /\ job' \in [Run -> [Job -> JobRow]] /\ job'[r][1] = first
      /\ \A q \in Run : q # r => job'[q] = job[q]
      /\ \A p \in Position : p # 1 => job'[r][p] = job[r][p]
  BY <1>0, <1>1, <1>7, <1>8, Positions
<1>10. TInv'
  BY <1>0, <1>2, <1>3, <1>6, <1>9, ReturnWrites DEF TInv, TypeOK, JobRow, RunRow, WorkerRow
<1> QED BY <1>0, <1>2, <1>3, <1>4, <1>6, <1>8, <1>9, <1>10, ReturnWrites

(* The run's row and records after position p.                             *)
Advances(r, p) ==
    /\ run[r].state \in Ended => run'[r] = run[r] /\ recorded'[r] = recorded[r]
    /\ run[r].state \notin Ended =>
         /\ run'[r].state # "none" /\ run'[r].definition = run[r].definition
         /\ run'[r].position = p /\ recorded'[r] = recorded[r] \cup {p}
         /\ run'[r].state \in Ended => p = Len(Steps[run[r].definition])

LEMMA RecordsWrites ==
    ASSUME EInv, NEW w \in Worker, Records(w), NEW r \in Run, NEW p \in Job,
           r = worker[w].run, p = worker[w].job
    PROVE  /\ TInv' /\ Fewer /\ UNCHANGED <<flow, posted, budget>>
           /\ p \in Position /\ AtStep(w, r, p) /\ At(w, "record") /\ Owns(w, Row(w).live)
           /\ worker'[w].pc = "idle" /\ \A k \in Worker : k # w => worker'[k] = worker[k]
           /\ \A q \in Run : q # r => /\ run'[q] = run[q] /\ job'[q] = job[q]
                                      /\ recorded'[q] = recorded[q] /\ mail'[q] = mail[q]
           /\ \A k \in Position : k # p => mail'[r][k] = mail[r][k]
           /\ mail'[r][p] = IF KindAt(r, p) = "mail" THEN Mailed(r, p) ELSE mail[r][p]
           /\ Advances(r, p)
           /\ job'[r][p].status = "completed"
           /\ \A k \in Position : k # p =>
                \/ job'[r][k] = job[r][k]
                \/ /\ k = p + 1 /\ p < Len(Steps[run[r].definition])
                   /\ run[r].state \notin Ended /\ job[r][k].status = "none"
<1>0. /\ TInv /\ job \in [Run -> [Job -> JobRow]] /\ run \in [Run -> RunRow]
      /\ flow \in [Flow -> FlowRow] /\ budget \in [Fault -> Nat] /\ FlowOf(r) \in Flow
      /\ mail \in [Run -> [Position -> Nat]] /\ recorded \in [Run -> SUBSET Position]
  BY TypesNow DEF EInv
<1>1. /\ UNCHANGED <<flow, posted, budget>> /\ Return(w)
      /\ At(w, "record") /\ Owns(w, Row(w).live) /\ run[r].state # "none"
  BY DEF Records
<1>2. p \in Position /\ AtStep(w, r, p)
  <2>1. p \in Position
    BY <1>0, <1>1 DEF TInv, AtItsJob, At
  <2>2. ~Gone(r)
    BY <1>1 DEF EInv, GoneIsEmpty
  <2> QED BY <1>1, <2>1, <2>2 DEF EInv, WorkIsReady, At
<1> DEFINE v == run[r].definition  n == Len(Steps[v])
<1>3. /\ p \in 1 .. n /\ v \in Version /\ n \in Nat /\ p \in Nat
      /\ KindAt(r, p) = Steps[v][p] /\ job[r] \in [Job -> JobRow] /\ job[r][p] \in JobRow
  BY <1>0, <1>2, Positions DEF AtStep, Ready, RunRow, KindAt
<1>4. Fewer /\ Bounded'
  BY <1>0, <1>1 DEF Fewer, TInv, Bounded
<1>5. /\ mail' \in [Run -> [Position -> Nat]]
      /\ \A q \in Run : q # r => mail'[q] = mail[q]
      /\ \A k \in Position : k # p => mail'[r][k] = mail[r][k]
      /\ mail'[r][p] = IF KindAt(r, p) = "mail" THEN Mailed(r, p) ELSE mail[r][p]
  <2>1. Mailed(r, p) \in Nat
    BY <1>0, <1>2 DEF Mailed
  <2>2. CASE KindAt(r, p) = "mail"
    <3>1. mail' = [mail EXCEPT ![r][p] = Mailed(r, p)]
      BY <2>2 DEF Records
    <3> QED BY <1>0, <1>2, <2>1, <2>2, <3>1
  <2>3. CASE KindAt(r, p) # "mail"
    BY <1>0, <2>3 DEF Records
  <2> QED BY <2>2, <2>3
<1>6. /\ recorded' \in [Run -> SUBSET Position]
      /\ \A q \in Run : q # r => recorded'[q] = recorded[q]
      /\ recorded'[r] = IF run[r].state \in Ended THEN recorded[r] ELSE recorded[r] \cup {p}
  <2>1. recorded' = [recorded EXCEPT ![r] =
                       IF run[r].state \in Ended THEN recorded[r] ELSE recorded[r] \cup {p}]
    BY <1>0 DEF Records
  <2> QED BY <1>0, <1>2, <2>1
<1>7. /\ Recorded(r, p) \in RunRow
      /\ run[r].state \in Ended => Recorded(r, p) = run[r]
      /\ run[r].state \notin Ended =>
           /\ Recorded(r, p).state # "none" /\ Recorded(r, p).definition = v
           /\ Recorded(r, p).position = p
           /\ Recorded(r, p).state \in Ended => p = n
  <2>1. CASE run[r].state \in Ended
    BY <1>0, <2>1 DEF Recorded
  <2>2. CASE run[r].state \notin Ended
    <3>1. PICK s \in {"succeeded", "waiting", "running"} :
             /\ Recorded(r, p) = [run[r] EXCEPT !.position = p, !.state = s]
             /\ s = "succeeded" => p = n
      <4>1. CASE p = n
        BY <2>2, <4>1 DEF Recorded
      <4>2. CASE p # n /\ KindAt(r, p) = "wait"
        BY <2>2, <4>2 DEF Recorded
      <4>3. CASE p # n /\ KindAt(r, p) # "wait"
        BY <2>2, <4>3 DEF Recorded
      <4> QED BY <4>1, <4>2, <4>3
    <3>2. run[r] \in RunRow
      BY <1>0
    <3> HIDE DEF v, n
    <3> QED BY <1>3, <2>2, <3>1, <3>2 DEF v, RunRow, RunState, Ended
  <2> QED BY <2>1, <2>2
<1>8. /\ run' \in [Run -> RunRow] /\ run'[r] = Recorded(r, p)
      /\ \A q \in Run : q # r => run'[q] = run[q]
  BY <1>0, <1>7 DEF Records
<1>9. /\ NextStep(r, p) \in [Job -> JobRow] /\ NextStep(r, p)[p].status = "completed"
      /\ \A k \in Position : k # p =>
           \/ NextStep(r, p)[k] = job[r][k]
           \/ /\ k = p + 1 /\ p < n
              /\ run[r].state \notin Ended /\ job[r][k].status = "none"
  <2> DEFINE done == Done(job[r][p])
  <2>1. done \in JobRow /\ done.status = "completed"
    BY <1>3, JobRows
  <2>2. CASE run[r].state \in Ended \/ p = n
    <3>1. NextStep(r, p) = [job[r] EXCEPT ![p] = done]
      BY <1>3, <2>2 DEF NextStep
    <3> HIDE DEF done
    <3> QED BY <1>2, <1>3, <2>1, <3>1, Positions
  <2>3. CASE ~(run[r].state \in Ended \/ p = n)
    <3>1. p + 1 \in 1 .. n /\ p < n /\ p + 1 # p
      BY <1>3, <2>3
    <3>2. p + 1 \in Position /\ p + 1 \in Job
      BY <1>3, <3>1, Positions
    <3> DEFINE next == Enqueued(job[r][p + 1], KindAt(r, p) # "wait")
    <3>3. job[r][p + 1] \in JobRow /\ (KindAt(r, p) # "wait") \in BOOLEAN
      BY <1>3, <3>2
    <3>4. next \in JobRow /\ (job[r][p + 1].status # "none" => next = job[r][p + 1])
      BY <3>3, JobRows
    <3>5. NextStep(r, p) = [job[r] EXCEPT ![p] = done, ![p + 1] = next]
      BY <1>3, <2>3, <3>1, <3>2, Positions DEF NextStep
    <3> HIDE DEF done, next, n
    <3>6. job[r] \in [Job -> JobRow] /\ p \in Job
      BY <1>3
    <3>7. NextStep(r, p) \in [Job -> JobRow]
      BY <2>1, <3>2, <3>4, <3>5, <3>6
    <3>8. NextStep(r, p)[p] = done
      BY <3>1, <3>2, <3>5, <3>6
    <3>9. NextStep(r, p)[p + 1] = next
      BY <3>1, <3>2, <3>5, <3>6
    <3>10. ASSUME NEW k \in Position, k # p, k # p + 1 PROVE NextStep(r, p)[k] = job[r][k]
      <4>1. k \in Job
        BY Positions
      <4> QED BY <3>5, <3>6, <3>10, <4>1
    <3> QED BY <2>1, <2>3, <3>1, <3>4, <3>7, <3>8, <3>9, <3>10
  <2> QED BY <2>2, <2>3
<1>10. /\ job' \in [Run -> [Job -> JobRow]] /\ job'[r] = NextStep(r, p)
       /\ \A q \in Run : q # r => job'[q] = job[q]
  BY <1>0, <1>9 DEF Records
<1>11. TInv'
  BY <1>0, <1>1, <1>4, <1>5, <1>6, <1>8, <1>10, ReturnWrites
  DEF TInv, TypeOK, JobRow, RunRow, WorkerRow
<1> HIDE DEF v, n
<1>12. Advances(r, p)
  BY <1>6, <1>7, <1>8 DEF v, n, Advances
<1>13. /\ job'[r][p].status = "completed"
       /\ \A k \in Position : k # p =>
                \/ job'[r][k] = job[r][k]
                \/ /\ k = p + 1 /\ p < Len(Steps[run[r].definition])
                   /\ run[r].state \notin Ended /\ job[r][k].status = "none"
  BY <1>9, <1>10 DEF v, n
<1>14. /\ worker'[w].pc = "idle" /\ \A k \in Worker : k # w => worker'[k] = worker[k]
       /\ \A q \in Run : q # r => /\ run'[q] = run[q] /\ job'[q] = job[q]
                                  /\ recorded'[q] = recorded[q] /\ mail'[q] = mail[q]
  BY <1>0, <1>1, <1>5, <1>6, <1>8, <1>10, ReturnWrites
<1> QED BY <1>1, <1>2, <1>4, <1>5, <1>11, <1>12, <1>13, <1>14

LEMMA ArrivesWrites ==
    ASSUME TInv, NEW w \in Worker, Arrives(w), NEW r \in Run, NEW p \in Job,
           r = worker[w].run, p = worker[w].job
    PROVE  /\ TInv' /\ Fewer /\ UNCHANGED <<flow, run, recorded, mail>>
           /\ p \in Position /\ At(w, "post")
           /\ posted'[r][p] = posted[r][p] + 1
           /\ \A q \in Run, k \in Position : q # r \/ k # p => posted'[q][k] = posted[q][k]
           /\ Others(r, p) /\ \A k \in Worker : k # w => worker'[k] = worker[k]
           /\ \/ /\ UNCHANGED <<job, budget>>
                 /\ worker'[w].pc = "record" /\ worker'[w].run = r /\ worker'[w].job = p
              \/ /\ worker'[w].pc = "idle" /\ budget'["failure"] < budget["failure"]
                 /\ \/ UNCHANGED job
                    \/ Owns(w, Row(w).live) /\ job'[r][p].status = "failed"
<1>0. /\ TInv /\ job \in [Run -> [Job -> JobRow]] /\ posted \in [Run -> [Position -> Nat]]
      /\ worker \in [Worker -> WorkerRow] /\ budget \in [Fault -> Nat]
      /\ worker[w] \in WorkerRow
  BY TypesNow
<1>1. UNCHANGED <<flow, run, recorded, mail>> /\ At(w, "post")
      /\ (UNCHANGED budget \/ Spend("failure"))
  BY DEF Arrives
<1>2. p \in Position
  BY <1>0, <1>1 DEF TInv, AtItsJob, At
<1>3. /\ posted' \in [Run -> [Position -> Nat]] /\ posted'[r][p] = posted[r][p] + 1
      /\ \A q \in Run, k \in Position : q # r \/ k # p => posted'[q][k] = posted[q][k]
  BY <1>0, <1>2 DEF Arrives
<1>4. budget' \in [Fault -> Nat] /\ Fewer /\ Bounded'
  BY <1>1, FailureSpends
<1>5. CASE worker' = [worker EXCEPT ![w].pc = "record"] /\ UNCHANGED <<job, budget>>
  <2> DEFINE v == [worker[w] EXCEPT !.pc = "record"]
  <2>1. v \in WorkerRow /\ v.pc = "record" /\ v.run = r /\ v.job = p
    BY <1>0 DEF WorkerRow
  <2>2. worker' = [worker EXCEPT ![w] = v]
    BY <1>0, <1>5
  <2> HIDE DEF v
  <2>3. /\ worker' \in [Worker -> WorkerRow] /\ worker'[w] = v
        /\ \A k \in Worker : k # w => worker'[k] = worker[k]
    BY <2>1, <2>2, WorkerPut
  <2>4. AtItsJob'
    BY <1>2, <2>1, <2>3 DEF TInv, AtItsJob
  <2>5. TInv'
    BY <1>0, <1>1, <1>3, <1>4, <1>5, <2>3, <2>4 DEF TInv, TypeOK, WorkerRow
  <2>6. Others(r, p)
    BY <1>5 DEF Others
  <2> QED BY <1>1, <1>2, <1>3, <1>4, <1>5, <2>1, <2>3, <2>5, <2>6
<1>6. CASE /\ Return(w) /\ Spend("failure")
           /\ \/ UNCHANGED job
              \/ /\ Owns(w, Row(w).live)
                 /\ job' = [job EXCEPT ![worker[w].run][worker[w].job] = Failed(Row(w))]
  <2>1. /\ job' \in [Run -> [Job -> JobRow]] /\ Others(r, p)
        /\ \/ UNCHANGED job
           \/ Owns(w, Row(w).live) /\ job'[r][p].status = "failed"
    <3>1. CASE UNCHANGED job
      BY <1>0, <3>1 DEF Others
    <3>2. CASE /\ Owns(w, Row(w).live)
               /\ job' = [job EXCEPT ![worker[w].run][worker[w].job] = Failed(Row(w))]
      <4>1. Failed(Row(w)) \in JobRow /\ Failed(Row(w)).status = "failed"
        BY <1>0, JobRows DEF Row
      <4>2. PICK v \in JobRow : v = Failed(Row(w))
        BY <4>1
      <4>3. job'[r][p] = v /\ Others(r, p) /\ job' \in [Run -> [Job -> JobRow]]
        BY <3>2, <4>2, JobPut
      <4> QED BY <3>2, <4>1, <4>2, <4>3
    <3> QED BY <1>6, <3>1, <3>2
  <2>2. budget'["failure"] < budget["failure"]
    BY <1>6, Spends DEF Fault
  <2>3. TInv'
    BY <1>0, <1>1, <1>3, <1>4, <1>6, <2>1, ReturnWrites DEF TInv, TypeOK, JobRow, WorkerRow
  <2> QED BY <1>1, <1>2, <1>3, <1>4, <1>6, <2>1, <2>2, <2>3, ReturnWrites
<1> QED BY <1>5, <1>6 DEF Arrives

-----------------------------------------------------------------------------
(* The steps, by what they write.                                          *)

(* A worker leaves a step's last transaction only with a failure or for a  *)
(* run or a claim that is gone.                                            *)
LeavesFor(w) ==
    /\ Leaves(w) /\ ~At(w, "idle")
    /\ \/ Spend("failure")
       \/ At(w, "start") \/ At(w, "insert") \/ At(w, "load")
       \/ At(w, "record") /\ run[worker[w].run].state = "none"
       \/ At(w, "record") /\ ~Owns(w, Row(w).live)

GoesOn(w) ==
    /\ Reads(w) \/ Loads(w)
    /\ UNCHANGED <<flow, run, recorded, mail, job, budget, posted>>

LEMMA StepIsOneOf ==
    ASSUME TInv, [Next]_vars
    PROVE  \/ Authoring
           \/ \E f \in Flow : PermanentlyDelete(f)
           \/ \E e \in Event : Emit(e)
           \/ \E r \in Run, j \in Job : JobTurns(r, j)
           \/ \E w \in Worker, r \in Run, j \in Job : Claim(w, r, j)
           \/ \E w \in Worker : LeavesFor(w)
           \/ \E w \in Worker : GoesOn(w)
           \/ \E w \in Worker : Starts(w)
           \/ \E w \in Worker : Records(w)
           \/ \E w \in Worker : Arrives(w)
           \/ UNCHANGED vars
<1>1. ASSUME NEW w \in Worker, Handle(w) \/ PostFails(w) \/ HandlerFails(w) \/ Crash(w)
      PROVE  LeavesFor(w) \/ GoesOn(w) \/ Starts(w) \/ Records(w) \/ Arrives(w)
  BY <1>1, WorkerSteps DEF LeavesFor, GoesOn
<1> QED BY <1>1 DEF Next, Work, Authoring, JobTurns

-----------------------------------------------------------------------------
(* Effects follow steps: every step keeps EInv.                            *)

(* A step that touches no run, record or effect keeps EInv when it makes   *)
(* no job of a position, and no worker at one, that was not there.         *)
LEMMA QuietKeeps ==
    ASSUME EInv, TInv', UNCHANGED <<run, recorded, mail, posted>>,
           \A r \in Run : Gone(r)' <=> Gone(r),
           \A r \in Run, p \in Position : job'[r][p].status # "none" => job[r][p].status # "none",
           \A r \in Run : Gone(r) => \A j \in Job : job'[r][j].status = "none",
           \A w \in Worker : worker'[w] = worker[w] \/ worker'[w].pc \notin {"load", "post", "record"}
                             \/ AtStep(w, worker[w].run, worker[w].job)'
    PROVE  EInv'
<1>1. \A r \in Run, p \in Position : Ready(r, p)' <=> Ready(r, p)
  BY DEF Ready
<1>2. GoneIsEmpty' /\ NoneYet'
  BY DEF EInv, GoneIsEmpty, NoneYet
<1>3. JobsAreReady'
  BY <1>1 DEF EInv, JobsAreReady
<1>4. EndedIsDone' /\ EffectsFollowSteps'
  BY DEF EInv, EndedIsDone, EffectsFollowSteps, KindAt
<1>5. WorkIsReady'
  <2> SUFFICES ASSUME NEW w \in Worker, (worker[w].pc \in {"load", "post", "record"})'
               PROVE  (Gone(worker[w].run) \/ AtStep(w, worker[w].run, worker[w].job))'
    BY DEF WorkIsReady
  <2>1. CASE AtStep(w, worker[w].run, worker[w].job)'
    BY <2>1
  <2>2. CASE worker'[w] = worker[w]
    <3>1. PICK r \in Run, p \in Position : r = worker[w].run /\ p = worker[w].job
      BY <2>2, TypesNow DEF EInv, TInv, AtItsJob
    <3>2. Gone(r) \/ AtStep(w, r, p)
      BY <2>2, <3>1 DEF EInv, WorkIsReady
    <3>3. AtStep(w, r, p) => AtStep(w, r, p)'
      BY <1>1, <2>2 DEF AtStep, At, KindAt
    <3> QED BY <2>2, <3>1, <3>2, <3>3
  <2> QED BY <2>1, <2>2
<1> QED BY <1>2, <1>3, <1>4, <1>5 DEF EInv

LEMMA AuthoringKeeps == ASSUME EInv, Authoring PROVE EInv'
BY AuthoringWrites, QuietKeeps DEF EInv, GoneIsEmpty

LEMMA EmitKeeps == ASSUME EInv, NEW e \in Event, Emit(e) PROVE EInv'
<1>1. /\ TInv' /\ UNCHANGED <<flow, run, recorded, mail, worker, budget, posted>>
      /\ \A r \in Run, p \in Position : job'[r][p] = job[r][p]
      /\ \A r \in Run : \/ job'[r][0] = job[r][0]
                        \/ job[r][0].status = "none" /\ ~Gone(r)
  BY EmitWrites DEF EInv
<1>2. \A r \in Run : Gone(r) => \A j \in Job : job'[r][j].status = "none"
  <2> SUFFICES ASSUME NEW r \in Run, Gone(r), NEW j \in Job PROVE job'[r][j].status = "none"
    OBVIOUS
  <2>1. job[r][j].status = "none"
    BY DEF EInv, GoneIsEmpty
  <2>2. j = 0 \/ j \in Position
    BY DEF Job
  <2> QED BY <1>1, <2>1, <2>2
<1>3. \A r \in Run : Gone(r)' <=> Gone(r)
  BY <1>1 DEF Gone
<1> QED BY <1>1, <1>2, <1>3, QuietKeeps

LEMMA TurnKeeps == ASSUME EInv, NEW r \in Run, NEW j \in Job, JobTurns(r, j) PROVE EInv'
<1>1. /\ TInv' /\ UNCHANGED <<flow, run, recorded, mail, worker, posted>> /\ Others(r, j)
      /\ job'[r][j].status = "none" <=> job[r][j].status = "none"
  BY TurnWrites DEF EInv
<1>2. \A q \in Run, k \in Job : job'[q][k].status = "none" <=> job[q][k].status = "none"
  BY <1>1 DEF Others
<1>3. \A q \in Run : Gone(q) => \A k \in Job : job'[q][k].status = "none"
  BY <1>2 DEF EInv, GoneIsEmpty
<1>4. \A q \in Run : Gone(q)' <=> Gone(q)
  BY <1>1 DEF Gone
<1> QED BY <1>1, <1>2, <1>3, <1>4, Positions, QuietKeeps

LEMMA ClaimKeeps ==
    ASSUME EInv, NEW w \in Worker, NEW r \in Run, NEW j \in Job, Claim(w, r, j) PROVE EInv'
<1>1. /\ TInv' /\ UNCHANGED <<flow, run, recorded, mail, budget, posted>>
      /\ Claimable(job[r][j]) /\ Others(r, j)
      /\ worker'[w].run = r /\ worker'[w].job = j
      /\ worker'[w].pc = IF j = 0 THEN "start" ELSE "load"
      /\ \A k \in Worker : k # w => worker'[k] = worker[k]
  BY ClaimWrites DEF EInv
<1>2. job[r][j].status # "none"
  BY <1>1 DEF Claimable
<1>3. \A q \in Run, k \in Job : job'[q][k].status # "none" => job[q][k].status # "none"
  BY <1>1, <1>2 DEF Others
<1>4. \A q \in Run : Gone(q) => \A k \in Job : job'[q][k].status = "none"
  BY <1>3 DEF EInv, GoneIsEmpty
<1>5. \A q \in Run : Gone(q)' <=> Gone(q)
  BY <1>1 DEF Gone
<1>6. ASSUME j # 0 PROVE AtStep(w, r, j)'
  <2>1. j \in Position
    BY <1>6 DEF Job
  <2>2. Ready(r, j)
    BY <1>2, <2>1 DEF EInv, JobsAreReady
  <2> QED BY <1>1, <1>6, <2>2 DEF AtStep, At, Ready
<1>7. worker'[w].pc \notin {"load", "post", "record"} \/ AtStep(w, worker[w].run, worker[w].job)'
  BY <1>1, <1>6
<1> QED BY <1>1, <1>3, <1>4, <1>5, <1>7, Positions, QuietKeeps

LEMMA LeavesKeeps == ASSUME EInv, NEW w \in Worker, Leaves(w) PROVE EInv'
<1>1. /\ TInv' /\ UNCHANGED <<flow, run, recorded, mail, posted>>
      /\ worker'[w].pc = "idle"
      /\ \A k \in Worker : k # w => worker'[k] = worker[k]
      /\ Others(worker[w].run, worker[w].job)
      /\ \/ UNCHANGED job
         \/ Owns(w, Row(w).live)
  BY LeavesWrites DEF EInv
<1>2. \A q \in Run, k \in Job : job'[q][k].status # "none" => job[q][k].status # "none"
  BY <1>1 DEF Others, Owns, Row
<1>3. \A q \in Run : Gone(q) => \A k \in Job : job'[q][k].status = "none"
  BY <1>2 DEF EInv, GoneIsEmpty
<1>4. \A q \in Run : Gone(q)' <=> Gone(q)
  BY <1>1 DEF Gone
<1> QED BY <1>1, <1>2, <1>3, <1>4, Positions, QuietKeeps

LEMMA GoesOnKeeps == ASSUME EInv, NEW w \in Worker, GoesOn(w) PROVE EInv'
<1>1. TInv /\ UNCHANGED <<flow, run, recorded, mail, job, budget, posted>>
      /\ (Reads(w) \/ Loads(w))
  BY DEF EInv, GoesOn
<1>2. /\ TInv'
      /\ \A k \in Worker : k # w => worker'[k] = worker[k]
      /\ worker'[w].run = worker[w].run /\ worker'[w].job = worker[w].job
      /\ Reads(w) => worker'[w].pc = "insert"
      /\ Loads(w) =>
           /\ worker[w].pc = "load" /\ run[worker[w].run].state # "none"
           /\ worker'[w].pc \in {"post", "record"}
           /\ worker'[w].pc = "post"
                 <=> KindAt(worker[w].run, worker[w].job) = "webhook"
  BY <1>1, GoesOnWrites
<1>3. ASSUME Loads(w) PROVE AtStep(w, worker[w].run, worker[w].job)'
  <2>1. PICK r \in Run, p \in Position : r = worker[w].run /\ p = worker[w].job
    BY <1>1, <1>2, <1>3, TypesNow DEF TInv, AtItsJob
  <2>2. Ready(r, p)
    BY <1>2, <1>3, <2>1 DEF EInv, WorkIsReady, GoneIsEmpty, AtStep
  <2>3. AtStep(w, r, p)'
    BY <1>1, <1>2, <1>3, <2>1, <2>2 DEF AtStep, At, Ready, KindAt
  <2> QED BY <1>2, <2>1, <2>3
<1>4. \A r \in Run : Gone(r)' <=> Gone(r)
  BY <1>1 DEF Gone
<1>5. \A r \in Run : Gone(r) => \A j \in Job : job'[r][j].status = "none"
  BY <1>1 DEF EInv, GoneIsEmpty
<1> QED BY <1>1, <1>2, <1>3, <1>4, <1>5, QuietKeeps

LEMMA PurgeKeeps == ASSUME EInv, NEW f \in Flow, PermanentlyDelete(f) PROVE EInv'
<1>1. /\ TInv' /\ UNCHANGED <<mail, worker, budget, posted>> /\ AtRest(f)
      /\ \A r \in Run : FlowOf(r) = f =>
             /\ Gone(r)' /\ run'[r] = NoRun /\ recorded'[r] = {}
             /\ \A j \in Job : job'[r][j] = NoJob
      /\ \A r \in Run : FlowOf(r) # f =>
             /\ Gone(r)' <=> Gone(r)
             /\ run'[r] = run[r] /\ recorded'[r] = recorded[r] /\ job'[r] = job[r]
  BY PurgeWrites DEF EInv
<1>2. NoRun.state = "none" /\ NoJob.status = "none"
  BY Rows
<1>3. GoneIsEmpty' /\ NoneYet'
  BY <1>1, <1>2 DEF EInv, GoneIsEmpty, NoneYet
<1>4. ASSUME NEW r \in Run, FlowOf(r) # f, NEW p \in Position, Ready(r, p) PROVE Ready(r, p)'
  BY <1>1, <1>4 DEF Ready
<1>5. JobsAreReady'
  BY <1>1, <1>2, <1>4, Positions DEF EInv, JobsAreReady
<1>6. EndedIsDone' /\ EffectsFollowSteps'
  BY <1>1, <1>2 DEF EInv, EndedIsDone, EffectsFollowSteps, KindAt, Ended
<1>7. WorkIsReady'
  <2> SUFFICES ASSUME NEW w \in Worker, (worker[w].pc \in {"load", "post", "record"})'
               PROVE  (Gone(worker[w].run) \/ AtStep(w, worker[w].run, worker[w].job))'
    BY DEF WorkIsReady
  <2>1. PICK r \in Run, p \in Position : r = worker[w].run /\ p = worker[w].job
    BY <1>1, TypesNow DEF EInv, TInv, AtItsJob
  <2>2. Gone(r) \/ AtStep(w, r, p)
    BY <1>1, <2>1 DEF EInv, WorkIsReady
  <2>3. CASE FlowOf(r) = f
    BY <1>1, <2>1, <2>3
  <2>4. CASE FlowOf(r) # f
    <3>1. Gone(r)' \/ AtStep(w, r, p)'
      BY <1>1, <1>4, <2>2, <2>4 DEF AtStep, At, KindAt
    <3> QED BY <1>1, <2>1, <3>1
  <2> QED BY <2>3, <2>4
<1> QED BY <1>1, <1>3, <1>5, <1>6, <1>7 DEF EInv

LEMMA StartsKeeps == ASSUME EInv, NEW w \in Worker, Starts(w) PROVE EInv'
<1>0. PICK r \in Run : r = worker[w].run
  BY TypesNow DEF EInv
<1>1. /\ TInv' /\ UNCHANGED <<flow, recorded, mail, posted, budget>>
      /\ ~Gone(r)
      /\ worker'[w].pc = "idle" /\ \A k \in Worker : k # w => worker'[k] = worker[k]
      /\ \A q \in Run : q # r => run'[q] = run[q] /\ job'[q] = job[q]
      /\ run[r].state # "none" => run'[r] = run[r]
      /\ run[r].state = "none" => run'[r].state = "running" /\ run'[r].position = 0
      /\ \A p \in Position : \/ job'[r][p] = job[r][p]
                             \/ p = 1 /\ run[r].state = "none" /\ job[r][1].status = "none"
  BY <1>0, StartsWrites
<1>2. \A q \in Run : Gone(q)' <=> Gone(q)
  BY <1>1 DEF Gone
<1>3. \A q \in Run : Gone(q) => \A k \in Job : job'[q][k].status = "none"
  BY <1>1 DEF EInv, GoneIsEmpty
<1>4. CASE run[r].state # "none"
  <2>1. run' = run
    <3>1. run \in [Run -> RunRow] /\ run' \in [Run -> RunRow]
      BY <1>1 DEF EInv, TInv, TypeOK, RunRow
    <3>2. \A q \in Run : run'[q] = run[q]
      BY <1>1, <1>4
    <3> QED BY <3>1, <3>2
  <2>2. \A q \in Run, p \in Position : job'[q][p].status # "none" => job[q][p].status # "none"
    BY <1>1, <1>4
  <2> QED BY <1>1, <1>2, <1>3, <2>1, <2>2, QuietKeeps
<1>5. CASE run[r].state = "none"
  <2>1. /\ recorded[r] = {} /\ \A p \in Position : mail[r][p] = 0 /\ posted[r][p] = 0
        /\ \A p \in Position : job[r][p].status = "none"
    BY <1>1, <1>5 DEF EInv, NoneYet, JobsAreReady, Ready
  <2>2. run'[r].state = "running" /\ run'[r].definition \in Version
    BY <1>1, <1>5 DEF TInv, TypeOK
  <2>3. GoneIsEmpty' /\ NoneYet'
    BY <1>1, <1>2, <1>3, <2>2 DEF EInv, GoneIsEmpty, NoneYet
  <2>4. \A q \in Run, p \in Position : q # r => (Ready(q, p)' <=> Ready(q, p))
    BY <1>1 DEF Ready
  <2>5. JobsAreReady'
    <3>1. Ready(r, 1)'
      <4>1. Len(Steps[run'[r].definition]) \in Nat \ {0}
        BY <2>2, Positions
      <4> QED BY <2>2, <4>1 DEF Ready
    <3>2. \A p \in Position : job'[r][p].status # "none" => p = 1
      BY <1>1, <2>1
    <3> QED BY <1>1, <2>4, <3>1, <3>2 DEF EInv, JobsAreReady
  <2>6. EndedIsDone'
    BY <1>1, <2>2 DEF EInv, EndedIsDone, Ended
  <2>7. EffectsFollowSteps'
    <3>1. ASSUME NEW q \in Run, q # r, run'[q].state # "none", NEW p \in Position
          PROVE  EffectsFollowSteps!(q)!2!(p)'
      BY <1>1, <3>1 DEF EInv, EffectsFollowSteps, KindAt
    <3>2. ASSUME NEW p \in Position PROVE EffectsFollowSteps!(r)!2!(p)'
      BY <1>1, <2>1
    <3> QED BY <3>1, <3>2 DEF EffectsFollowSteps
  <2>8. WorkIsReady'
    <3> SUFFICES ASSUME NEW k \in Worker, (worker[k].pc \in {"load", "post", "record"})'
                 PROVE  (Gone(worker[k].run) \/ AtStep(k, worker[k].run, worker[k].job))'
      BY DEF WorkIsReady
    <3>1. k # w /\ worker'[k] = worker[k]
      BY <1>1
    <3>2. PICK q \in Run, p \in Position : q = worker[k].run /\ p = worker[k].job
      BY <3>1, TypesNow DEF EInv, TInv, AtItsJob
    <3>3. Gone(q) \/ AtStep(k, q, p)
      BY <3>1, <3>2 DEF EInv, WorkIsReady
    <3>4. q = r => FALSE
      BY <1>1, <1>5, <3>3 DEF AtStep, Ready
    <3>5. Gone(q)' \/ AtStep(k, q, p)'
      BY <1>1, <1>2, <2>4, <3>1, <3>3, <3>4 DEF AtStep, At, KindAt
    <3> QED BY <3>1, <3>2, <3>5
  <2> QED BY <1>1, <2>3, <2>5, <2>6, <2>7, <2>8 DEF EInv
<1> QED BY <1>4, <1>5

LEMMA ArrivesKeeps == ASSUME EInv, NEW w \in Worker, Arrives(w) PROVE EInv'
<1>0. PICK r \in Run, p \in Job : r = worker[w].run /\ p = worker[w].job
  BY TypesNow DEF EInv
<1>1. /\ TInv' /\ UNCHANGED <<flow, run, recorded, mail>>
      /\ p \in Position /\ At(w, "post")
      /\ posted'[r][p] = posted[r][p] + 1
      /\ \A q \in Run, k \in Position : q # r \/ k # p => posted'[q][k] = posted[q][k]
      /\ Others(r, p) /\ \A k \in Worker : k # w => worker'[k] = worker[k]
      /\ \/ /\ UNCHANGED <<job, budget>>
            /\ worker'[w].pc = "record" /\ worker'[w].run = r /\ worker'[w].job = p
         \/ /\ worker'[w].pc = "idle"
            /\ \/ UNCHANGED job
               \/ Owns(w, Row(w).live) /\ job'[r][p].status = "failed"
  BY <1>0, ArrivesWrites DEF EInv
<1>2. Gone(r) \/ (Ready(r, p) /\ KindAt(r, p) = "webhook")
  BY <1>0, <1>1 DEF EInv, WorkIsReady, AtStep, At
<1>3. \A q \in Run, k \in Position : posted[q][k] \in Nat /\ posted'[q][k] \in Nat
  BY <1>1 DEF EInv, TInv, TypeOK
<1>4. posted'[r][p] > 0 /\ \A q \in Run, k \in Position : posted[q][k] > 0 => posted'[q][k] > 0
  BY <1>1, <1>3
<1>5. /\ \A q \in Run : Gone(q)' <=> Gone(q)
      /\ \A q \in Run, k \in Position : Ready(q, k)' <=> Ready(q, k)
      /\ \A q \in Run, k \in Position : KindAt(q, k)' = KindAt(q, k)
  BY <1>1 DEF Gone, Ready, KindAt
<1>6. \A q \in Run, k \in Job : job'[q][k].status # "none" => job[q][k].status # "none"
  BY <1>0, <1>1 DEF Others, Owns, Row
<1>7. GoneIsEmpty'
  BY <1>1, <1>5, <1>6 DEF EInv, GoneIsEmpty
<1>8. NoneYet'
  BY <1>1, <1>2, <1>5 DEF EInv, NoneYet, Ready
<1>9. JobsAreReady' /\ EndedIsDone'
  BY <1>1, <1>5, <1>6, Positions DEF EInv, JobsAreReady, EndedIsDone
<1>10. EffectsFollowSteps'
  <2> SUFFICES ASSUME NEW q \in Run, run'[q].state # "none", NEW k \in Position
               PROVE  EffectsFollowSteps!(q)!2!(k)'
    BY DEF EffectsFollowSteps
  <2>1. EffectsFollowSteps!(q)!2!(k)
    BY <1>1 DEF EInv, EffectsFollowSteps
  <2>2. CASE q = r /\ k = p
    <3>1. ~Gone(r)
      BY <1>1, <2>2 DEF EInv, GoneIsEmpty
    <3> QED BY <1>1, <1>2, <1>4, <1>5, <2>1, <2>2, <3>1 DEF Ready
  <2>3. CASE ~(q = r /\ k = p)
    BY <1>1, <1>5, <2>1, <2>3
  <2> QED BY <2>2, <2>3
<1>11. WorkIsReady'
  <2> SUFFICES ASSUME NEW k \in Worker, (worker[k].pc \in {"load", "post", "record"})'
               PROVE  (Gone(worker[k].run) \/ AtStep(k, worker[k].run, worker[k].job))'
    BY DEF WorkIsReady
  <2>1. CASE k = w
    <3>1. worker'[w].pc = "record" /\ worker'[w].run = r /\ worker'[w].job = p
      BY <1>1, <2>1
    <3>2. Gone(r)' \/ AtStep(w, r, p)'
      BY <1>1, <1>2, <1>4, <1>5, <3>1 DEF AtStep, At
    <3> QED BY <2>1, <3>1, <3>2
  <2>2. CASE k # w
    <3>1. worker'[k] = worker[k]
      BY <1>1, <2>2
    <3>2. PICK q \in Run, i \in Position : q = worker[k].run /\ i = worker[k].job
      BY <3>1, TypesNow DEF EInv, TInv, AtItsJob
    <3>3. Gone(q) \/ AtStep(k, q, i)
      BY <3>1, <3>2 DEF EInv, WorkIsReady
    <3>4. Gone(q)' \/ AtStep(k, q, i)'
      BY <1>4, <1>5, <3>1, <3>3 DEF AtStep, At
    <3> QED BY <3>1, <3>2, <3>4
  <2> QED BY <2>1, <2>2
<1> QED BY <1>1, <1>7, <1>8, <1>9, <1>10, <1>11 DEF EInv

LEMMA RecordsKeeps == ASSUME EInv, NEW w \in Worker, Records(w) PROVE EInv'
<1>0. PICK r \in Run, p \in Job : r = worker[w].run /\ p = worker[w].job
  BY TypesNow DEF EInv
<1>1. /\ TInv' /\ UNCHANGED <<flow, posted, budget>>
      /\ p \in Position /\ AtStep(w, r, p) /\ At(w, "record") /\ Owns(w, Row(w).live)
      /\ worker'[w].pc = "idle" /\ \A k \in Worker : k # w => worker'[k] = worker[k]
      /\ \A q \in Run : q # r => /\ run'[q] = run[q] /\ job'[q] = job[q]
                                 /\ recorded'[q] = recorded[q] /\ mail'[q] = mail[q]
      /\ \A k \in Position : k # p => mail'[r][k] = mail[r][k]
      /\ mail'[r][p] = IF KindAt(r, p) = "mail" THEN Mailed(r, p) ELSE mail[r][p]
      /\ Advances(r, p)
      /\ \A k \in Position : k # p =>
           \/ job'[r][k] = job[r][k]
           \/ /\ k = p + 1 /\ p < Len(Steps[run[r].definition])
              /\ run[r].state \notin Ended /\ job[r][k].status = "none"
  BY <1>0, RecordsWrites
<1>2. /\ p \in Nat /\ p \in 1 .. Len(Steps[run[r].definition])
      /\ Len(Steps[run[r].definition]) \in Nat
      /\ \A q \in Run, k \in Position : mail[q][k] \in Nat /\ posted[q][k] \in Nat
  <2>1. run[r].definition \in Version /\ p <= Len(Steps[run[r].definition])
    BY <1>1 DEF EInv, TInv, TypeOK, AtStep, Ready
  <2>2. \A q \in Run, k \in Position : mail[q][k] \in Nat /\ posted[q][k] \in Nat
    BY DEF EInv, TInv, TypeOK
  <2> QED BY <1>1, <2>1, <2>2, Positions
<1>3. ~Gone(r) /\ run[r].state # "none"
  BY <1>1 DEF EInv, GoneIsEmpty, AtStep, Ready
<1>4. \A q \in Run : Gone(q)' <=> Gone(q)
  BY <1>1 DEF Gone
<1>5. GoneIsEmpty'
  <2> SUFFICES ASSUME NEW q \in Run, Gone(q)'
               PROVE  run'[q].state = "none" /\ \A j \in Job : job'[q][j].status = "none"
    BY DEF GoneIsEmpty
  <2>1. q # r /\ Gone(q)
    BY <1>3, <1>4
  <2> QED BY <1>1, <2>1 DEF EInv, GoneIsEmpty
<1>6. job[r][p].status # "none"
  BY <1>0, <1>1 DEF Owns, Row
<1>7. CASE run[r].state \in Ended
  <2>1. p \in recorded[r]
    BY <1>2, <1>7 DEF EInv, EndedIsDone
  <2>2. mail'[r][p] = mail[r][p]
    <3>1. KindAt(r, p) = "mail" => mail[r][p] = 1
      BY <1>1, <1>2, <1>3, <2>1 DEF EInv, EffectsFollowSteps
    <3> QED BY <1>1, <3>1 DEF Mailed
  <2>3. UNCHANGED <<run, recorded, mail>>
    <3>1. /\ run \in [Run -> RunRow] /\ run' \in [Run -> RunRow]
          /\ recorded \in [Run -> SUBSET Position] /\ recorded' \in [Run -> SUBSET Position]
          /\ mail \in [Run -> [Position -> Nat]] /\ mail' \in [Run -> [Position -> Nat]]
      BY <1>1 DEF EInv, TInv, TypeOK, RunRow
    <3>2. \A q \in Run : run'[q] = run[q] /\ recorded'[q] = recorded[q]
      BY <1>1, <1>7 DEF Advances
    <3>3. \A q \in Run, k \in Position : mail'[q][k] = mail[q][k]
      BY <1>1, <2>2
    <3>4. \A q \in Run : mail'[q] = mail[q]
      BY <3>1, <3>3
    <3> QED BY <3>1, <3>2, <3>4
  <2>4. \A q \in Run, k \in Position : job'[q][k].status # "none" => job[q][k].status # "none"
    BY <1>1, <1>6, <1>7
  <2>5. \A q \in Run : Gone(q) => \A j \in Job : job'[q][j].status = "none"
    BY <1>4, <1>5 DEF GoneIsEmpty
  <2> QED BY <1>1, <1>4, <2>3, <2>4, <2>5, QuietKeeps
<1>8. CASE run[r].state \notin Ended
  <2>1. /\ run'[r].state # "none" /\ run'[r].definition = run[r].definition
        /\ recorded'[r] = recorded[r] \cup {p}
        /\ run'[r].state \in Ended => p = Len(Steps[run[r].definition])
    BY <1>1, <1>8 DEF Advances
  <2>2. \A q \in Run, k \in Position : Ready(q, k) => Ready(q, k)'
    BY <1>1, <2>1 DEF Ready
  <2>3. 1 .. p \subseteq recorded'[r]
    <3>1. 1 .. p - 1 \subseteq recorded[r]
      BY <1>1 DEF AtStep, Ready
    <3> QED BY <1>2, <2>1, <3>1
  <2>4. NoneYet'
    BY <1>1, <1>4, <2>1 DEF EInv, NoneYet
  <2>5. JobsAreReady'
    <3> SUFFICES ASSUME NEW q \in Run, NEW k \in Position, job'[q][k].status # "none"
                 PROVE  Ready(q, k)'
      BY DEF JobsAreReady
    <3>1. CASE q = r /\ k = p + 1 /\ p < Len(Steps[run[r].definition])
      <4>1. p + 1 - 1 = p
        BY <1>2
      <4> QED BY <1>2, <2>1, <2>3, <3>1, <4>1 DEF Ready
    <3>2. CASE q = r /\ k = p
      BY <1>1, <2>2, <3>2 DEF AtStep
    <3>3. CASE job'[q][k] = job[q][k]
      BY <2>2, <3>3 DEF EInv, JobsAreReady
    <3> QED BY <1>1, <3>1, <3>2, <3>3
  <2>6. EndedIsDone'
    BY <1>1, <2>1, <2>3 DEF EInv, EndedIsDone
  <2>7. EffectsFollowSteps'
    <3> SUFFICES ASSUME NEW q \in Run, run'[q].state # "none", NEW k \in Position
                 PROVE  EffectsFollowSteps!(q)!2!(k)'
      BY DEF EffectsFollowSteps
    <3>1. run[q].state # "none"
      BY <1>1, <1>3
    <3>2. EffectsFollowSteps!(q)!2!(k)
      BY <3>1 DEF EInv, EffectsFollowSteps
    <3>3. KindAt(q, k)' = KindAt(q, k) /\ Len(Steps[run[q].definition])' = Len(Steps[run[q].definition])
      BY <1>1, <2>1 DEF KindAt
    <3>4. CASE q # r
      BY <1>1, <3>2, <3>3, <3>4
    <3>5. CASE q = r /\ k # p
      BY <1>1, <2>1, <3>2, <3>3, <3>5
    <3>6. CASE q = r /\ k = p
      <4>1. 1 .. p - 1 \subseteq recorded'[r] /\ p \in recorded'[r]
        BY <2>1, <1>1 DEF AtStep, Ready
      <4>2. KindAt(r, p) = "mail" => mail'[r][p] = 1
        <5>1. KindAt(r, p) = "mail" => mail[r][p] \in {0, 1}
          BY <1>2, <3>2, <3>6
        <5> QED BY <1>1, <5>1 DEF Mailed
      <4>3. KindAt(r, p) = "webhook" => posted'[r][p] > 0
        BY <1>1 DEF AtStep
      <4> QED BY <3>3, <3>6, <4>1, <4>2, <4>3
    <3> QED BY <3>4, <3>5, <3>6
  <2>8. WorkIsReady'
    <3> SUFFICES ASSUME NEW k \in Worker, (worker[k].pc \in {"load", "post", "record"})'
                 PROVE  (Gone(worker[k].run) \/ AtStep(k, worker[k].run, worker[k].job))'
      BY DEF WorkIsReady
    <3>1. k # w /\ worker'[k] = worker[k]
      BY <1>1
    <3>2. PICK q \in Run, i \in Position : q = worker[k].run /\ i = worker[k].job
      BY <3>1, TypesNow DEF EInv, TInv, AtItsJob
    <3>3. Gone(q) \/ AtStep(k, q, i)
      BY <3>1, <3>2 DEF EInv, WorkIsReady
    <3>4. KindAt(q, i)' = KindAt(q, i)
      BY <1>1, <2>1 DEF KindAt
    <3>5. Gone(q)' \/ AtStep(k, q, i)'
      BY <1>1, <1>4, <2>2, <3>1, <3>3, <3>4 DEF AtStep, At
    <3> QED BY <3>1, <3>2, <3>5
  <2> QED BY <1>1, <1>5, <2>4, <2>5, <2>6, <2>7, <2>8 DEF EInv
<1> QED BY <1>7, <1>8

LEMMA EffectsInit == Init => EInv
<1> SUFFICES ASSUME Init PROVE EInv
  OBVIOUS
<1>1. TInv
  <2>1. flow \in [Flow -> FlowRow]
    BY DEF Init, FlowRow
  <2>2. \A f \in Fault : budget[f] <= Budget[f]
    BY FlowsAssumption DEF Init, FlowsAssumption, StepLists
  <2> QED BY <2>1, <2>2, Rows, FlowsAssumption
      DEF Init, TInv, TypeOK, AtItsJob, Bounded, FlowsAssumption, StepLists, FlowRow, RunRow,
          JobRow, WorkerRow
<1>2. \A r \in Run : run[r].state = "none" /\ \A j \in Job : job[r][j].status = "none"
  BY Rows DEF Init
<1> QED BY <1>1, <1>2, Rows, Positions
    DEF Init, EInv, GoneIsEmpty, NoneYet, JobsAreReady, WorkIsReady, EndedIsDone,
        EffectsFollowSteps, Ended

LEMMA EffectsStep == EInv /\ [Next]_vars => EInv'
<1> SUFFICES ASSUME EInv, [Next]_vars PROVE EInv'
  OBVIOUS
<1>1. TInv
  BY DEF EInv
<1>2. CASE UNCHANGED vars
  BY <1>2 DEF vars, EInv, TInv, TypeOK, AtItsJob, Bounded, GoneIsEmpty, NoneYet, JobsAreReady,
              WorkIsReady, EndedIsDone, EffectsFollowSteps, Gone, Ready, AtStep, At, KindAt
<1>3. CASE \E w \in Worker : LeavesFor(w)
  BY <1>3, LeavesKeeps DEF LeavesFor
<1> QED BY <1>1, <1>2, <1>3, StepIsOneOf, AuthoringKeeps, PurgeKeeps, EmitKeeps, TurnKeeps,
           ClaimKeeps, GoesOnKeeps, StartsKeeps, RecordsKeeps, ArrivesKeeps

(* Every variable keeps its type.                                          *)
THEOREM TypeCorrect == Spec => []TypeOK
<1>1. EInv => TypeOK
  BY DEF EInv, TInv
<1> QED BY <1>1, EffectsInit, EffectsStep, PTL DEF Spec

(* Nothing is recorded, mailed or posted before every earlier step is      *)
(* recorded, and a step's effect agrees with its record.                   *)
THEOREM EffectsFollow == Spec => []EffectsFollowSteps
<1>1. EInv => EffectsFollowSteps
  BY DEF EInv
<1> QED BY <1>1, EffectsInit, EffectsStep, PTL DEF Spec

-----------------------------------------------------------------------------
(* A webhook arrives once when nothing goes wrong: every step keeps CInv.  *)

CleanState == EInv /\ WorkerHolds /\ PostedOnce

LEMMA FewerBudget == ASSUME TInv, [Next]_vars PROVE Fewer
<1>1. CASE UNCHANGED budget
  BY <1>1 DEF Fewer, TInv, TypeOK
<1>2. CASE Authoring \/ \E w \in Worker : Leaves(w) \/ Arrives(w)
  BY <1>2, AuthoringWrites, LeavesWrites, FailureSpends DEF Arrives
<1> QED BY <1>1, <1>2, StepIsOneOf, PurgeWrites, EmitWrites, TurnWrites, ClaimWrites
    DEF LeavesFor, GoesOn, Starts, Records, vars

LEMMA CleanBefore ==
    ASSUME TInv, TInv', Fewer, Clean'
    PROVE  Clean /\ \A f \in {"failure", "lapse", "replay"} : budget'[f] = budget[f]
<1> SUFFICES ASSUME NEW f \in {"failure", "lapse", "replay"}
             PROVE  budget[f] = Budget[f] /\ budget'[f] = budget[f]
  BY DEF Clean
<1>1. f \in Fault /\ budget'[f] = Budget[f]
  BY DEF Clean, Fault
<1>2. budget[f] \in Nat /\ Budget[f] \in Nat /\ budget[f] <= Budget[f] /\ budget'[f] <= budget[f]
  BY <1>1, FlowsAssumption DEF FlowsAssumption, StepLists, TInv, TypeOK, Bounded, Fewer
<1> QED BY <1>1, <1>2

(* A job has one worker at most.                                           *)
LEMMA OneHolds ==
    ASSUME WorkerHolds, NEW w \in Worker, NEW k \in Worker, NEW r \in Run, NEW j \in Job,
           Holds(w, r, j), Holds(k, r, j)
    PROVE  w = k
BY DEF WorkerHolds, Holds, Row

(* What a job that is held is like.                                        *)
LEMMA Held ==
    ASSUME WorkerHolds, NEW w \in Worker, NEW r \in Run, NEW j \in Job, Holds(w, r, j)
    PROVE  job[r][j].status = "running" /\ job[r][j].owner = w /\ job[r][j].live
BY DEF WorkerHolds, Holds, Row

(* The webhook of a job that runs arrived only if its worker is past it.   *)
LEMMA NotYet ==
    ASSUME CleanState, NEW r \in Run, NEW p \in Position, posted[r][p] # 0,
           job[r][p].status # "completed", job[r][p].status # "none" \/ ~Gone(r)
    PROVE  \E w \in Worker : At(w, "record") /\ Holds(w, r, p)
<1>1. posted[r][p] = 1
  <2>1. posted[r][p] \in Nat
    BY DEF CleanState, EInv, TInv, TypeOK
  <2>2. posted[r][p] <= 1
    BY DEF CleanState, PostedOnce
  <2> QED BY <2>1, <2>2
<1>2. ~Gone(r)
  BY Positions DEF CleanState, EInv, GoneIsEmpty
<1> QED BY <1>1, <1>2 DEF CleanState, PostedOnce

(* What keeps the workers' holds and the single posts: a job that is held  *)
(* stays as it is, or its worker leaves or has just come; a completed job  *)
(* of a webhook that arrived stays completed.                              *)
LEMMA CleanKeeps ==
    ASSUME CleanState, UNCHANGED posted,
           \A r \in Run : Gone(r) => Gone(r)',
           \A w \in Worker :
               \/ worker'[w].pc = "idle" /\ worker[w].pc # "record"
               \/ /\ worker'[w] = worker[w]
                  /\ \A r \in Run, j \in Job : Holds(w, r, j) =>
                       /\ job'[r][j].status = job[r][j].status
                       /\ job'[r][j].owner = job[r][j].owner /\ job'[r][j].live = job[r][j].live
               \/ /\ Row(w)'.status = "running" /\ Row(w)'.owner = w /\ Row(w)'.live
                  /\ worker'[w].pc = "insert" => worker'[w].inTime
                  /\ worker[w].pc # "record",
           \A r \in Run, p \in Position : posted[r][p] # 0 /\ job[r][p].status = "completed" =>
               job'[r][p].status = "completed" \/ Gone(r)'
    PROVE  WorkerHolds' /\ PostedOnce'
<1>1. WorkerHolds'
  <2> SUFFICES ASSUME NEW w \in Worker, worker'[w].pc # "idle"
               PROVE  /\ Row(w)'.status = "running" /\ Row(w)'.owner = w /\ Row(w)'.live
                      /\ worker'[w].pc = "insert" => worker'[w].inTime
    BY DEF WorkerHolds, At
  <2>1. CASE /\ worker'[w] = worker[w]
             /\ \A r \in Run, j \in Job : Holds(w, r, j) =>
                  /\ job'[r][j].status = job[r][j].status
                  /\ job'[r][j].owner = job[r][j].owner /\ job'[r][j].live = job[r][j].live
    <3>1. worker[w].run \in Run /\ worker[w].job \in Job
      BY TypesNow DEF CleanState, EInv
    <3>2. Holds(w, worker[w].run, worker[w].job)
      BY <2>1 DEF Holds
    <3> QED BY <2>1, <3>1, <3>2 DEF CleanState, WorkerHolds, Row, At
  <2> QED BY <2>1
<1>2. PostedOnce'
  <2> SUFFICES ASSUME NEW r \in Run, NEW p \in Position, posted[r][p] = 1
               PROVE  \/ Gone(r)'
                      \/ job'[r][p].status = "completed"
                      \/ \E w \in Worker : At(w, "record")' /\ Holds(w, r, p)'
    BY DEF CleanState, PostedOnce
  <2>1. CASE Gone(r) \/ job[r][p].status = "completed"
    BY <2>1
  <2>2. ASSUME NEW w \in Worker, At(w, "record"), Holds(w, r, p)
        PROVE  At(w, "record")' /\ Holds(w, r, p)'
    BY <2>2 DEF At, Holds
  <2> QED BY <2>1, <2>2 DEF CleanState, PostedOnce
<1> QED BY <1>1, <1>2

LEMMA CleanAuthoring ==
    ASSUME CleanState, Authoring PROVE WorkerHolds' /\ PostedOnce'
BY AuthoringWrites, CleanKeeps DEF CleanState, EInv

LEMMA CleanPurge ==
    ASSUME CleanState, NEW f \in Flow, PermanentlyDelete(f) PROVE WorkerHolds' /\ PostedOnce'
<1>1. /\ UNCHANGED <<mail, worker, budget, posted>> /\ AtRest(f)
      /\ \A r \in Run : FlowOf(r) = f => Gone(r)'
      /\ \A r \in Run : FlowOf(r) # f => (Gone(r)' <=> Gone(r)) /\ job'[r] = job[r]
  BY PurgeWrites DEF CleanState, EInv
<1>2. ASSUME NEW w \in Worker, NEW r \in Run, NEW j \in Job, Holds(w, r, j)
      PROVE  FlowOf(r) # f
  <2>1. job[r][j].status = "running"
    BY <1>2, Held DEF CleanState
  <2>2. PICK g \in Flow, e \in Event : r = <<g, e>>
    BY DEF Run
  <2>3. FlowOf(r) = f => job[<<f, e>>][j].status # "running"
    BY <1>1 DEF AtRest
  <2> QED BY <2>1, <2>2, <2>3 DEF FlowOf
<1> QED BY <1>1, <1>2, CleanKeeps

LEMMA CleanEmit ==
    ASSUME CleanState, NEW e \in Event, Emit(e) PROVE WorkerHolds' /\ PostedOnce'
<1>1. /\ UNCHANGED <<flow, run, recorded, mail, worker, budget, posted>>
      /\ \A r \in Run, p \in Position : job'[r][p] = job[r][p]
      /\ \A r \in Run : \/ job'[r][0] = job[r][0]
                        \/ job[r][0].status = "none"
  BY EmitWrites DEF CleanState, EInv
<1>2. ASSUME NEW w \in Worker, NEW r \in Run, NEW j \in Job, Holds(w, r, j)
      PROVE  job'[r][j] = job[r][j]
  <2>1. job[r][j].status = "running"
    BY <1>2, Held DEF CleanState
  <2>2. j = 0 \/ j \in Position
    BY DEF Job
  <2> QED BY <1>1, <2>1, <2>2
<1>3. \A r \in Run : Gone(r) => Gone(r)'
  BY <1>1 DEF Gone
<1> QED BY <1>1, <1>2, <1>3, CleanKeeps

LEMMA CleanTurn ==
    ASSUME CleanState, Clean', NEW r \in Run, NEW j \in Job, JobTurns(r, j)
    PROVE  WorkerHolds' /\ PostedOnce'
<1>1. /\ TInv' /\ Fewer
      /\ UNCHANGED <<flow, run, recorded, mail, worker, posted>> /\ Others(r, j)
      /\ \/ budget'["replay"] < budget["replay"]
         \/ /\ job'[r][j].status = job[r][j].status
            /\ job'[r][j].owner = job[r][j].owner
            /\ \/ job'[r][j].live = job[r][j].live
               \/ ~AtWork(r, j)
               \/ budget'["lapse"] < budget["lapse"]
  BY TurnWrites DEF CleanState, EInv
<1>2. ~(budget'["replay"] < budget["replay"]) /\ ~(budget'["lapse"] < budget["lapse"])
  <2>1. budget'["replay"] = budget["replay"] /\ budget'["lapse"] = budget["lapse"]
    BY <1>1, CleanBefore DEF CleanState, EInv
  <2>2. budget["replay"] \in Nat /\ budget["lapse"] \in Nat
    BY DEF CleanState, EInv, TInv, TypeOK, Fault
  <2> QED BY <2>1, <2>2
<1>3. ASSUME NEW w \in Worker, NEW q \in Run, NEW k \in Job, Holds(w, q, k)
      PROVE  /\ job'[q][k].status = job[q][k].status
             /\ job'[q][k].owner = job[q][k].owner /\ job'[q][k].live = job[q][k].live
  <2>1. CASE q = r /\ k = j
    <3>1. AtWork(r, j)
      BY <1>3, <2>1, Held DEF CleanState, Holds, AtWork
    <3> QED BY <1>1, <1>2, <2>1, <3>1
  <2>2. CASE ~(q = r /\ k = j)
    BY <1>1, <2>2 DEF Others
  <2> QED BY <2>1, <2>2
<1>4. \A q \in Run, p \in Position : job'[q][p].status = job[q][p].status
  BY <1>1, <1>2, Positions DEF Others
<1>5. \A q \in Run : Gone(q) => Gone(q)'
  BY <1>1 DEF Gone
<1> QED BY <1>1, <1>3, <1>4, <1>5, CleanKeeps

LEMMA CleanClaim ==
    ASSUME CleanState, NEW w \in Worker, NEW r \in Run, NEW j \in Job, Claim(w, r, j)
    PROVE  WorkerHolds' /\ PostedOnce'
<1>1. /\ UNCHANGED <<flow, run, recorded, mail, budget, posted>>
      /\ At(w, "idle") /\ Claimable(job[r][j]) /\ Others(r, j)
      /\ job'[r][j].status = "running" /\ job'[r][j].owner = w /\ job'[r][j].live
      /\ worker'[w].run = r /\ worker'[w].job = j
      /\ worker'[w].pc = IF j = 0 THEN "start" ELSE "load"
      /\ \A k \in Worker : k # w => worker'[k] = worker[k]
  BY ClaimWrites DEF CleanState, EInv
<1>2. Row(w)'.status = "running" /\ Row(w)'.owner = w /\ Row(w)'.live
  BY <1>1 DEF Row
<1>3. ASSUME NEW k \in Worker, NEW q \in Run, NEW i \in Job, Holds(k, q, i)
      PROVE  job'[q][i] = job[q][i]
  <2>1. job[q][i].live
    BY <1>3, Held DEF CleanState
  <2>2. ~(q = r /\ i = j)
    BY <1>1, <2>1 DEF Claimable
  <2> QED BY <1>1, <2>2 DEF Others
<1>4. \A q \in Run, p \in Position : job[q][p].status = "completed" => job'[q][p] = job[q][p]
  BY <1>1, Positions DEF Others, Claimable
<1>5. \A q \in Run : Gone(q) => Gone(q)'
  BY <1>1 DEF Gone
<1> QED BY <1>1, <1>2, <1>3, <1>4, <1>5, CleanKeeps DEF At

LEMMA CleanLeaves ==
    ASSUME CleanState, Clean', NEW w \in Worker, LeavesFor(w)
    PROVE  WorkerHolds' /\ PostedOnce'
<1>0. TInv /\ Leaves(w) /\ ~At(w, "idle")
  BY DEF CleanState, EInv, LeavesFor
<1>1. /\ TInv' /\ Fewer /\ UNCHANGED <<flow, run, recorded, mail, posted>>
      /\ worker'[w].pc = "idle"
      /\ \A k \in Worker : k # w => worker'[k] = worker[k]
      /\ Others(worker[w].run, worker[w].job)
  BY <1>0, LeavesWrites
<1>2. PICK r \in Run, j \in Job : r = worker[w].run /\ j = worker[w].job
  BY <1>0, TypesNow
<1>3. Holds(w, r, j)
  BY <1>0, <1>2 DEF Holds, At
<1>4. job[r][j].status = "running" /\ job[r][j].owner = w /\ job[r][j].live
  BY <1>3, Held DEF CleanState
<1>5. ~Spend("failure")
  <2>1. Spend("failure") => budget'["failure"] < budget["failure"]
    BY <1>0, Spends DEF Fault
  <2>2. budget'["failure"] = budget["failure"]
    BY <1>0, <1>1, CleanBefore
  <2>3. budget["failure"] \in Nat
    BY <1>0 DEF TInv, TypeOK, Fault
  <2> QED BY <2>1, <2>2, <2>3
<1>6. worker[w].pc # "record"
  <2> SUFFICES ASSUME At(w, "record") PROVE FALSE
    BY DEF At
  <2>1. Owns(w, Row(w).live)
    BY <1>2, <1>4 DEF Owns, Row
  <2>2. run[r].state = "none"
    BY <1>2, <1>5, <2>1 DEF LeavesFor, At
  <2>3. Gone(r)
    BY <1>2, <2>2 DEF CleanState, EInv, WorkIsReady, AtStep, Ready, At
  <2> QED BY <1>4, <2>3 DEF CleanState, EInv, GoneIsEmpty
<1>7. ASSUME NEW k \in Worker, k # w, NEW q \in Run, NEW i \in Job, Holds(k, q, i)
      PROVE  job'[q][i] = job[q][i]
  <2>1. ~(q = r /\ i = j)
    BY <1>3, <1>7, OneHolds DEF CleanState
  <2> QED BY <1>1, <1>2, <2>1 DEF Others
<1>8. \A q \in Run, p \in Position : job[q][p].status = "completed" => job'[q][p] = job[q][p]
  BY <1>1, <1>2, <1>4, Positions DEF Others
<1>9. \A q \in Run : Gone(q) => Gone(q)'
  BY <1>1 DEF Gone
<1> QED BY <1>1, <1>6, <1>7, <1>8, <1>9, CleanKeeps

LEMMA CleanGoesOn ==
    ASSUME CleanState, NEW w \in Worker, GoesOn(w) PROVE WorkerHolds' /\ PostedOnce'
<1>1. TInv /\ UNCHANGED <<flow, run, recorded, mail, job, budget, posted>>
      /\ (Reads(w) \/ Loads(w))
  BY DEF CleanState, EInv, GoesOn
<1>2. /\ \A k \in Worker : k # w => worker'[k] = worker[k]
      /\ worker'[w].run = worker[w].run /\ worker'[w].job = worker[w].job
      /\ worker[w].pc # "idle"
      /\ Reads(w) => worker'[w].pc = "insert" /\ worker'[w].inTime = Row(w).live
      /\ Loads(w) => worker'[w].pc \in {"post", "record"}
  BY <1>1, GoesOnWrites
<1>3. Row(w)' = Row(w) /\ Row(w).status = "running" /\ Row(w).owner = w /\ Row(w).live
  BY <1>1, <1>2 DEF CleanState, WorkerHolds, Row
<1>4. worker[w].pc # "record"
  BY <1>1 DEF Reads, Loads, At
<1>5. worker'[w].pc = "insert" => worker'[w].inTime
  BY <1>1, <1>2, <1>3
<1>6. \A q \in Run : Gone(q) => Gone(q)'
  BY <1>1 DEF Gone
<1> QED BY <1>1, <1>2, <1>3, <1>4, <1>5, <1>6, CleanKeeps

LEMMA CleanStarts ==
    ASSUME CleanState, NEW w \in Worker, Starts(w) PROVE WorkerHolds' /\ PostedOnce'
<1>0. PICK r \in Run : r = worker[w].run
  BY TypesNow DEF CleanState, EInv
<1>1. /\ UNCHANGED <<flow, recorded, mail, posted, budget>>
      /\ worker[w].job = 0
      /\ worker'[w].pc = "idle" /\ \A k \in Worker : k # w => worker'[k] = worker[k]
      /\ \A q \in Run : q # r => run'[q] = run[q] /\ job'[q] = job[q]
      /\ \A p \in Position : \/ job'[r][p] = job[r][p]
                             \/ p = 1 /\ run[r].state = "none" /\ job[r][1].status = "none"
  BY <1>0, StartsWrites DEF CleanState
<1>2. worker[w].pc = "insert" /\ Holds(w, r, 0)
  BY <1>0, <1>1 DEF Starts, At, Holds
<1>3. ASSUME NEW k \in Worker, k # w, NEW q \in Run, NEW i \in Job, Holds(k, q, i)
      PROVE  job'[q][i] = job[q][i]
  <2>1. ~(q = r /\ i = 0)
    BY <1>2, <1>3, OneHolds, Positions DEF CleanState
  <2>2. job[q][i].status = "running"
    BY <1>3, Held DEF CleanState
  <2>3. i = 0 \/ i \in Position
    BY DEF Job
  <2> QED BY <1>1, <2>1, <2>2, <2>3
<1>4. \A q \in Run, p \in Position : job[q][p].status = "completed" => job'[q][p] = job[q][p]
  BY <1>1
<1>5. \A q \in Run : Gone(q) => Gone(q)'
  BY <1>1 DEF Gone
<1> QED BY <1>1, <1>2, <1>3, <1>4, <1>5, CleanKeeps

LEMMA CleanRecords ==
    ASSUME CleanState, NEW w \in Worker, Records(w) PROVE WorkerHolds' /\ PostedOnce'
<1>0. PICK r \in Run, p \in Job : r = worker[w].run /\ p = worker[w].job
  BY TypesNow DEF CleanState, EInv
<1>1. /\ UNCHANGED <<flow, posted, budget>> /\ At(w, "record") /\ p \in Position
      /\ worker'[w].pc = "idle" /\ \A k \in Worker : k # w => worker'[k] = worker[k]
      /\ \A q \in Run : q # r => job'[q] = job[q]
      /\ job'[r][p].status = "completed"
      /\ \A k \in Position : k # p => job'[r][k] = job[r][k] \/ job[r][k].status = "none"
  BY <1>0, RecordsWrites DEF CleanState
<1>2. Holds(w, r, p)
  BY <1>0, <1>1 DEF At, Holds
<1>3. job'[r][0] = job[r][0]
  <2>1. job' = [job EXCEPT ![r] = NextStep(r, p)]
    BY <1>0 DEF Records
  <2>2. job \in [Run -> [Job -> JobRow]] /\ 0 \in Job /\ p # 0
    BY <1>1, Positions, TypesNow DEF CleanState, EInv
  <2>3. p + 1 # 0
    BY <1>1, Positions
  <2>4. NextStep(r, p)[0] = job[r][0]
    BY <2>2, <2>3 DEF NextStep
  <2> QED BY <2>1, <2>2, <2>4
<1>4. ASSUME NEW k \in Worker, k # w, NEW q \in Run, NEW i \in Job, Holds(k, q, i)
      PROVE  job'[q][i] = job[q][i]
  <2>1. ~(q = r /\ i = p)
    BY <1>2, <1>4, OneHolds DEF CleanState
  <2>2. job[q][i].status = "running"
    BY <1>4, Held DEF CleanState
  <2>3. i = 0 \/ i \in Position
    BY DEF Job
  <2> QED BY <1>1, <1>3, <2>1, <2>2, <2>3
<1>5. WorkerHolds'
  <2> SUFFICES ASSUME NEW k \in Worker, worker'[k].pc # "idle"
               PROVE  /\ Row(k)'.status = "running" /\ Row(k)'.owner = k /\ Row(k)'.live
                      /\ worker'[k].pc = "insert" => worker'[k].inTime
    BY DEF WorkerHolds, At
  <2>1. k # w /\ worker'[k] = worker[k]
    BY <1>1
  <2>2. PICK q \in Run, i \in Job : q = worker[k].run /\ i = worker[k].job
    BY TypesNow DEF CleanState, EInv
  <2>3. job'[q][i] = job[q][i]
    BY <1>4, <2>1, <2>2 DEF Holds
  <2> QED BY <2>1, <2>2, <2>3 DEF CleanState, WorkerHolds, Row, At
<1>6. PostedOnce'
  <2> SUFFICES ASSUME NEW q \in Run, NEW i \in Position, posted[q][i] = 1
               PROVE  \/ Gone(q)'
                      \/ job'[q][i].status = "completed"
                      \/ \E k \in Worker : At(k, "record")' /\ Holds(k, q, i)'
    BY <1>1 DEF CleanState, PostedOnce
  <2>1. CASE q = r /\ i = p
    BY <1>1, <2>1
  <2>2. CASE Gone(q)
    BY <1>1, <2>2 DEF Gone
  <2>3. CASE ~(q = r /\ i = p) /\ job[q][i].status = "completed"
    BY <1>1, <2>3
  <2>4. ASSUME NEW k \in Worker, At(k, "record"), Holds(k, q, i), ~(q = r /\ i = p)
        PROVE  At(k, "record")' /\ Holds(k, q, i)'
    <3>1. k # w
      BY <1>0, <2>4 DEF Holds
    <3> QED BY <1>1, <2>4, <3>1 DEF At, Holds
  <2> QED BY <2>1, <2>2, <2>3, <2>4 DEF CleanState, PostedOnce
<1> QED BY <1>5, <1>6

LEMMA CleanArrives ==
    ASSUME CleanState, Clean', NEW w \in Worker, Arrives(w) PROVE WorkerHolds' /\ PostedOnce'
<1>0. PICK r \in Run, p \in Job : r = worker[w].run /\ p = worker[w].job
  BY TypesNow DEF CleanState, EInv
<1>1. /\ TInv' /\ Fewer /\ UNCHANGED <<flow, run, recorded, mail>>
      /\ p \in Position /\ At(w, "post")
      /\ posted'[r][p] = posted[r][p] + 1
      /\ \A q \in Run, k \in Position : q # r \/ k # p => posted'[q][k] = posted[q][k]
      /\ \A k \in Worker : k # w => worker'[k] = worker[k]
      /\ \/ /\ UNCHANGED <<job, budget>>
            /\ worker'[w].pc = "record" /\ worker'[w].run = r /\ worker'[w].job = p
         \/ budget'["failure"] < budget["failure"]
  BY <1>0, ArrivesWrites DEF CleanState, EInv
<1>2. ~(budget'["failure"] < budget["failure"])
  <2>1. budget'["failure"] = budget["failure"]
    BY <1>1, CleanBefore DEF CleanState, EInv
  <2>2. budget["failure"] \in Nat
    BY DEF CleanState, EInv, TInv, TypeOK, Fault
  <2> QED BY <2>1, <2>2
<1>3. /\ UNCHANGED <<flow, job>>
      /\ worker'[w].pc = "record" /\ worker'[w].run = r /\ worker'[w].job = p
  BY <1>1, <1>2
<1>4. Holds(w, r, p) /\ worker[w].pc = "post"
  BY <1>0, <1>1 DEF At, Holds
<1>5. job[r][p].status = "running" /\ job[r][p].owner = w /\ job[r][p].live
  BY <1>4, Held DEF CleanState
<1>6. posted[r][p] = 0
  <2> SUFFICES ASSUME posted[r][p] # 0 PROVE FALSE
    OBVIOUS
  <2>1. PICK k \in Worker : At(k, "record") /\ Holds(k, r, p)
    BY <1>1, <1>5, NotYet
  <2>2. k = w
    BY <1>4, <2>1, OneHolds DEF CleanState
  <2> QED BY <1>4, <2>1, <2>2 DEF At
<1>7. WorkerHolds'
  BY <1>0, <1>1, <1>3, <1>5 DEF CleanState, WorkerHolds, Row, At
<1>8. PostedOnce'
  <2> SUFFICES ASSUME NEW q \in Run, NEW i \in Position
               PROVE  /\ posted'[q][i] <= 1
                      /\ posted'[q][i] = 1 =>
                            \/ Gone(q)'
                            \/ job'[q][i].status = "completed"
                            \/ \E k \in Worker : At(k, "record")' /\ Holds(k, q, i)'
    BY DEF PostedOnce
  <2>1. CASE q = r /\ i = p
    <3>1. posted'[r][p] = 1
      BY <1>1, <1>6
    <3>2. At(w, "record")' /\ Holds(w, r, p)'
      BY <1>3 DEF At, Holds
    <3> QED BY <2>1, <3>1, <3>2
  <2>2. CASE ~(q = r /\ i = p)
    <3>1. posted'[q][i] = posted[q][i]
      BY <1>1, <2>2
    <3>2. Gone(q)' <=> Gone(q)
      BY <1>3 DEF Gone
    <3>3. ASSUME NEW k \in Worker, At(k, "record"), Holds(k, q, i)
          PROVE  At(k, "record")' /\ Holds(k, q, i)'
      <4>1. k # w
        BY <1>4, <3>3 DEF At
      <4> QED BY <1>1, <3>3, <4>1 DEF At, Holds
    <3> QED BY <1>3, <3>1, <3>2, <3>3 DEF CleanState, PostedOnce
  <2> QED BY <2>1, <2>2
<1> QED BY <1>7, <1>8

LEMMA CleanStep == CInv /\ [Next]_vars => CInv'
<1> SUFFICES ASSUME CInv, [Next]_vars PROVE CInv'
  OBVIOUS
<1>1. EInv /\ EInv' /\ TInv /\ TInv'
  BY EffectsStep DEF CInv, EInv
<1>2. Fewer
  BY <1>1, FewerBudget
<1> SUFFICES ASSUME Clean' PROVE WorkerHolds' /\ PostedOnce'
  BY <1>1 DEF CInv
<1>3. CleanState
  BY <1>1, <1>2, CleanBefore DEF CInv, CleanState
<1>4. CASE UNCHANGED vars
  BY <1>3, <1>4 DEF vars, CleanState, WorkerHolds, PostedOnce, Row, At, Holds, Gone
<1> QED BY <1>1, <1>3, <1>4, StepIsOneOf, CleanAuthoring, CleanPurge, CleanEmit, CleanTurn,
           CleanClaim, CleanLeaves, CleanGoesOn, CleanStarts, CleanRecords, CleanArrives

(* A webhook arrives more than once only if a call or a job failed or its  *)
(* worker died, a lease lapsed or an operator replayed a job.              *)
THEOREM RepeatsCaused == Spec => []RepeatedPostHasCause
<1>1. Init => CInv
  <2> SUFFICES ASSUME Init PROVE EInv /\ WorkerHolds /\ PostedOnce
    BY DEF CInv
  <2>1. \A w \in Worker : worker[w].pc = "idle"
    BY Rows DEF Init
  <2>2. \A r \in Run, p \in Position : posted[r][p] = 0
    BY DEF Init
  <2> QED BY <2>1, <2>2, EffectsInit DEF WorkerHolds, PostedOnce
<1>2. CInv => RepeatedPostHasCause
  <2> SUFFICES ASSUME CInv, NEW r \in Run, NEW p \in Position, posted[r][p] > 1
               PROVE  \E f \in {"failure", "lapse", "replay"} : budget[f] < Budget[f]
    BY DEF RepeatedPostHasCause
  <2>1. ~Clean
    <3>1. posted[r][p] \in Nat /\ ~(posted[r][p] <= 1)
      BY DEF CInv, EInv, TInv, TypeOK
    <3> QED BY <3>1 DEF CInv, PostedOnce
  <2>2. PICK f \in {"failure", "lapse", "replay"} : budget[f] # Budget[f]
    BY <2>1 DEF Clean
  <2>3. f \in Fault
    BY DEF Fault
  <2> QED BY <2>2, <2>3, FlowsAssumption
      DEF FlowsAssumption, StepLists, CInv, EInv, TInv, TypeOK, Bounded
<1> QED BY <1>1, <1>2, CleanStep, PTL DEF Spec

-----------------------------------------------------------------------------
(* Runs only advance: every step keeps AInv.                               *)

Placed   == \A r \in Run : run[r].position \in recorded[r] \cup {0}
DoneOnce == \A r \in Run : \A p \in recorded[r] : job[r][p].status = "completed"

LEMMA StraightBefore == ASSUME TInv, TInv', Fewer, Straight' PROVE Straight
<1>1. "replay" \in Fault
  BY DEF Fault
<1>2. /\ budget["replay"] \in Nat /\ Budget["replay"] \in Nat
      /\ budget["replay"] <= Budget["replay"] /\ budget'["replay"] <= budget["replay"]
  BY <1>1, FlowsAssumption DEF FlowsAssumption, StepLists, TInv, TypeOK, Bounded, Fewer
<1> QED BY <1>2 DEF Straight

(* What a step that writes no run and no record keeps.                     *)
LEMMA PlacedKeeps ==
    ASSUME EInv, Placed, Straight => DoneOnce, Straight' => Straight, UNCHANGED <<run, recorded>>,
           Straight' => \A r \in Run, p \in Position :
               job[r][p].status = "completed" => job'[r][p].status = "completed"
    PROVE  Placed' /\ (Straight' => DoneOnce')
<1>1. \A r \in Run : recorded[r] \subseteq Position
  BY DEF EInv, TInv, TypeOK
<1> QED BY <1>1 DEF Placed, DoneOnce

(* Steps that write no run and no record, and what they keep.              *)
LEMMA CompletedStays ==
    ASSUME EInv, EInv', Fewer, Straight',
           \/ Authoring
           \/ \E e \in Event : Emit(e)
           \/ \E r \in Run, j \in Job : JobTurns(r, j)
           \/ \E w \in Worker, r \in Run, j \in Job : Claim(w, r, j)
           \/ \E w \in Worker : LeavesFor(w) \/ GoesOn(w) \/ Arrives(w)
    PROVE  \A r \in Run, p \in Position :
               job[r][p].status = "completed" => job'[r][p].status = "completed"
<1>0. TInv /\ TInv'
  BY DEF EInv
<1>1. CASE Authoring
  BY <1>0, <1>1, AuthoringWrites
<1>2. CASE \E e \in Event : Emit(e)
  BY <1>0, <1>2, EmitWrites
<1>3. ASSUME NEW q \in Run, NEW j \in Job, JobTurns(q, j)
      PROVE  \A r \in Run, p \in Position :
               job[r][p].status = "completed" => job'[r][p].status = "completed"
  <2>1. ~(budget'["replay"] < budget["replay"])
    <3>1. budget["replay"] \in Nat /\ budget'["replay"] = Budget["replay"]
          /\ budget["replay"] = Budget["replay"]
      BY <1>0, StraightBefore DEF Straight, TInv, TypeOK, Fault
    <3> QED BY <3>1
  <2>2. job'[q][j].status = job[q][j].status /\ Others(q, j)
    BY <1>0, <1>3, <2>1, TurnWrites
  <2> QED BY <2>2, Positions DEF Others
<1>4. ASSUME NEW w \in Worker, NEW q \in Run, NEW j \in Job, Claim(w, q, j)
      PROVE  \A r \in Run, p \in Position :
               job[r][p].status = "completed" => job'[r][p].status = "completed"
  BY <1>0, <1>4, ClaimWrites, Positions DEF Others, Claimable
<1>5. ASSUME NEW w \in Worker, LeavesFor(w)
      PROVE  \A r \in Run, p \in Position :
               job[r][p].status = "completed" => job'[r][p].status = "completed"
  <2>1. /\ Others(worker[w].run, worker[w].job)
        /\ UNCHANGED job \/ Owns(w, Row(w).live)
    BY <1>0, <1>5, LeavesWrites DEF LeavesFor
  <2> QED BY <2>1, Positions DEF Others, Owns, Row
<1>6. CASE \E w \in Worker : GoesOn(w)
  BY <1>6 DEF GoesOn
<1>7. ASSUME NEW w \in Worker, Arrives(w)
      PROVE  \A r \in Run, p \in Position :
               job[r][p].status = "completed" => job'[r][p].status = "completed"
  <2>1. worker[w].run \in Run /\ worker[w].job \in Job
    BY <1>0, TypesNow
  <2>2. /\ Others(worker[w].run, worker[w].job)
        /\ UNCHANGED job \/ Owns(w, Row(w).live)
    BY <1>0, <1>7, <2>1, ArrivesWrites
  <2> QED BY <2>2, Positions DEF Others, Owns, Row
<1> QED BY <1>1, <1>2, <1>3, <1>4, <1>5, <1>6, <1>7

(* A step writes a run in three ways only.                                 *)
LEMMA RunWrites ==
    ASSUME EInv, [Next]_vars
    PROVE  \/ /\ UNCHANGED <<run, recorded>>
              /\ \/ Authoring
                 \/ \E e \in Event : Emit(e)
                 \/ \E r \in Run, j \in Job : JobTurns(r, j)
                 \/ \E w \in Worker, r \in Run, j \in Job : Claim(w, r, j)
                 \/ \E w \in Worker : LeavesFor(w) \/ GoesOn(w) \/ Arrives(w)
                 \/ UNCHANGED vars
           \/ \E f \in Flow : PermanentlyDelete(f)
           \/ \E w \in Worker : Starts(w) \/ Records(w)
<1>1. TInv
  BY DEF EInv
<1>2. ASSUME NEW w \in Worker, LeavesFor(w) \/ GoesOn(w) \/ Arrives(w)
      PROVE  UNCHANGED <<run, recorded>>
  BY <1>1, <1>2, LeavesWrites DEF LeavesFor, GoesOn, Arrives
<1> QED BY <1>1, <1>2, StepIsOneOf, AuthoringWrites, EmitWrites, TurnWrites, ClaimWrites DEF vars

LEMMA PlacedPurge ==
    ASSUME EInv, Placed, Straight => DoneOnce, Straight' => Straight,
           NEW f \in Flow, PermanentlyDelete(f)
    PROVE  Placed' /\ (Straight' => DoneOnce')
<1>1. /\ \A r \in Run : FlowOf(r) = f => run'[r] = NoRun /\ recorded'[r] = {}
      /\ \A r \in Run : FlowOf(r) # f =>
             run'[r] = run[r] /\ recorded'[r] = recorded[r] /\ job'[r] = job[r]
  BY PurgeWrites DEF EInv
<1> QED BY <1>1, Rows DEF Placed, DoneOnce

LEMMA PlacedStarts ==
    ASSUME EInv, Placed, Straight => DoneOnce, Straight' => Straight,
           NEW w \in Worker, Starts(w)
    PROVE  Placed' /\ (Straight' => DoneOnce')
<1>0. PICK r \in Run : r = worker[w].run
  BY TypesNow DEF EInv
<1>1. /\ UNCHANGED <<flow, recorded, mail, posted, budget>>
      /\ \A q \in Run : q # r => run'[q] = run[q] /\ job'[q] = job[q]
      /\ run[r].state # "none" => run'[r] = run[r]
      /\ run[r].state = "none" => run'[r].state = "running" /\ run'[r].position = 0
      /\ \A p \in Position : \/ job'[r][p] = job[r][p]
                             \/ p = 1 /\ run[r].state = "none" /\ job[r][1].status = "none"
  BY <1>0, StartsWrites
<1>2. \A q \in Run : recorded[q] \subseteq Position
  BY DEF EInv, TInv, TypeOK
<1>3. Placed'
  BY <1>1 DEF Placed
<1>4. \A q \in Run, p \in Position : job[q][p].status = "completed" => job'[q][p] = job[q][p]
  BY <1>1
<1> QED BY <1>1, <1>2, <1>3, <1>4 DEF DoneOnce

LEMMA PlacedRecords ==
    ASSUME EInv, Placed, Straight => DoneOnce, Straight' => Straight,
           NEW w \in Worker, Records(w)
    PROVE  Placed' /\ (Straight' => DoneOnce')
<1>0. PICK r \in Run, p \in Job : r = worker[w].run /\ p = worker[w].job
  BY TypesNow DEF EInv
<1>1. /\ \A q \in Run : q # r => /\ run'[q] = run[q] /\ job'[q] = job[q]
                                 /\ recorded'[q] = recorded[q]
      /\ Advances(r, p) /\ job'[r][p].status = "completed"
      /\ \A k \in Position : k # p => job'[r][k] = job[r][k] \/ job[r][k].status = "none"
  BY <1>0, RecordsWrites
<1>2. \A q \in Run : recorded[q] \subseteq Position
  BY DEF EInv, TInv, TypeOK
<1>3. \A q \in Run, k \in Position :
          job[q][k].status = "completed" => job'[q][k].status = "completed"
  BY <1>1
<1>4. \A q \in Run : recorded'[q] \subseteq recorded[q] \cup IF q = r THEN {p} ELSE {}
  BY <1>1 DEF Advances
<1>5. Placed'
  <2>1. run'[r].position \in recorded'[r] \cup {0}
    BY <1>1 DEF Placed, Advances
  <2> QED BY <1>1, <2>1 DEF Placed
<1>6. Straight' => DoneOnce'
  BY <1>1, <1>2, <1>3, <1>4 DEF DoneOnce
<1> QED BY <1>5, <1>6

LEMMA PlacedStep == AInv /\ [Next]_vars => AInv'
<1> SUFFICES ASSUME AInv, [Next]_vars PROVE AInv'
  OBVIOUS
<1>1. EInv /\ EInv' /\ Placed /\ (Straight => DoneOnce)
  BY EffectsStep DEF AInv, Placed, DoneOnce
<1>2. Fewer /\ (Straight' => Straight)
  BY <1>1, FewerBudget, StraightBefore DEF EInv
<1>3. Placed' /\ (Straight' => DoneOnce')
  <2>1. CASE UNCHANGED vars
    BY <1>1, <2>1 DEF vars, Placed, DoneOnce, Straight
  <2>2. CASE UNCHANGED <<run, recorded>> /\ ~ UNCHANGED vars
             /\ ~ (\E f \in Flow : PermanentlyDelete(f))
             /\ ~ (\E w \in Worker : Starts(w) \/ Records(w))
    <3>1. ASSUME Straight'
          PROVE  \A r \in Run, p \in Position :
                   job[r][p].status = "completed" => job'[r][p].status = "completed"
      BY <1>1, <1>2, <2>2, <3>1, RunWrites, CompletedStays
    <3> QED BY <1>1, <1>2, <2>2, <3>1, PlacedKeeps
  <2> QED BY <1>1, <1>2, <2>1, <2>2, RunWrites, PlacedPurge, PlacedStarts, PlacedRecords
<1> QED BY <1>1, <1>3 DEF AInv, Placed, DoneOnce

(* The step of RunsOnlyAdvance.                                            *)
Advance ==
    \A r \in Run :
        run[r].state # "none" /\ run'[r].state # "none" =>
            /\ run'[r].definition = run[r].definition
            /\ run[r].state \in Ended => run'[r] = run[r]
            /\ budget["replay"] = Budget["replay"] => run'[r].position >= run[r].position

LEMMA AdvanceStep == AInv /\ [Next]_vars => Advance
<1> SUFFICES ASSUME AInv, [Next]_vars, NEW r \in Run,
                    run[r].state # "none", run'[r].state # "none"
             PROVE  /\ run'[r].definition = run[r].definition
                    /\ run[r].state \in Ended => run'[r] = run[r]
                    /\ budget["replay"] = Budget["replay"] => run'[r].position >= run[r].position
  BY DEF Advance
<1>1. EInv /\ Placed /\ (Straight => DoneOnce) /\ run[r].position \in Nat
  BY DEF AInv, Placed, DoneOnce, EInv, TInv, TypeOK
<1>2. CASE run'[r] = run[r]
  BY <1>1, <1>2
<1>3. ASSUME NEW f \in Flow, PermanentlyDelete(f) PROVE run'[r] = run[r]
  BY <1>1, <1>3, PurgeWrites, Rows DEF EInv
<1>4. ASSUME NEW w \in Worker, Starts(w) PROVE run'[r] = run[r]
  <2>1. PICK q \in Run : q = worker[w].run
    BY <1>1, TypesNow DEF EInv
  <2> QED BY <1>1, <1>4, <2>1, StartsWrites
<1>5. ASSUME NEW w \in Worker, Records(w), run'[r] # run[r]
      PROVE  /\ run'[r].definition = run[r].definition
             /\ run[r].state \in Ended => run'[r] = run[r]
             /\ Straight => run'[r].position >= run[r].position
  <2>1. PICK q \in Run, p \in Job : q = worker[w].run /\ p = worker[w].job
    BY <1>1, TypesNow DEF EInv
  <2>2. /\ \A k \in Run : k # q => run'[k] = run[k]
        /\ Advances(q, p) /\ Owns(w, Row(w).live) /\ p \in Position
    BY <1>1, <1>5, <2>1, RecordsWrites
  <2>3. q = r
    BY <1>5, <2>2
  <2>4. /\ run[r].state \notin Ended /\ run'[r].definition = run[r].definition
        /\ run'[r].position = p
    BY <1>5, <2>2, <2>3 DEF Advances
  <2>5. ASSUME Straight, p < run[r].position PROVE FALSE
    <3> DEFINE last == run[r].position
    <3>1. p \in Nat \ {0} /\ last \in Nat /\ p \in 1 .. last - 1
      BY <1>1, <2>2, <2>5, Positions
    <3>2. last \in recorded[r] /\ last \in Position
      BY <1>1, <3>1 DEF Placed, EInv, TInv, TypeOK
    <3>3. p \in recorded[r]
      BY <1>1, <3>1, <3>2 DEF EInv, EffectsFollowSteps
    <3>4. job[r][p].status = "completed"
      BY <1>1, <2>5, <3>3 DEF DoneOnce
    <3> QED BY <2>1, <2>2, <2>3, <3>4 DEF Owns, Row
  <2>6. p \in Nat
    BY <2>2, Positions
  <2> QED BY <1>1, <2>4, <2>5, <2>6
<1> QED BY <1>1, <1>2, <1>3, <1>4, <1>5, RunWrites DEF Straight

(* A run keeps its definition, an ended run stays as it is, and without a  *)
(* replay a run never goes back.                                           *)
THEOREM RunsAdvance == Spec => RunsOnlyAdvance
<1>1. Init => AInv
  BY EffectsInit, Rows DEF Init, AInv
<1>2. AInv /\ [Next]_vars => [Advance]_vars
  BY AdvanceStep
<1>3. Spec => []AInv
  BY <1>1, PlacedStep, PTL DEF Spec
<1>4. Spec => [][Advance]_vars
  BY <1>2, <1>3, PTL DEF Spec
<1> QED BY <1>4 DEF RunsOnlyAdvance, Advance
=============================================================================
