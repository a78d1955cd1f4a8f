------------------------------- MODULE Flows -------------------------------
(***************************************************************************)
(* Flows: an emitted event enqueues a start job for every enabled flow;    *)
(* the job makes a run with a copy of the flow's steps and enqueues the    *)
(* first step; executing a step records it and enqueues the next one in    *)
(* the transaction that completes the step's job.  Jobs are the rows of    *)
(* Workflow, reduced to what their delivery amounts to: executed at least  *)
(* once, perhaps by two workers at once, completed only under their claim. *)
(***************************************************************************)
EXTENDS Naturals, Sequences

CONSTANTS
    Flow, Event,
    Version, Steps,       \* authored step lists, and their kinds
    Worker, NoWorker,
    Budget                \* bounds, see Fault

Kind  == {"wait", "mail", "list", "webhook"}
Fault == {"authoring", "replay", "failure", "lapse"}

(* What validate_steps accepts of an author, but for configurations.       *)
StepLists == Seq(Kind) \ {<<>>}

ASSUME FlowsAssumption ==
    /\ NoWorker \notin Worker
    /\ Flow # {} /\ Event # {} /\ Version # {}
    /\ Steps \in [Version -> StepLists]
    /\ Budget \in [Fault -> Nat]

VARIABLES
    flow,       \* automation_flows and automation_flow_steps
    run,        \* automation_runs, by flow and source_key
    recorded,   \* automation_run_steps: positions recorded for a run
    mail,       \* mail_deliveries enqueued for a position of a run
    job,        \* start job (0) and step jobs of each run
    worker,     \* per worker: where it is, on which job, and what it read
    budget,     \* what is left of Budget
    posted      \* history: webhook calls that arrived

vars == <<flow, run, recorded, mail, job, worker, budget, posted>>

Run      == Flow \X Event
Position == UNION {1 .. Len(Steps[v]) : v \in Version}
Job      == {0} \cup Position
FlowOf(r) == r[1]

Ended     == {"succeeded", "failed"}
RunState  == {"none", "running", "waiting"} \cup Ended
JobStatus == {"none", "pending", "running", "failed", "completed"}

TypeOK ==
    /\ flow \in [Flow -> [phase : {"live", "trashed", "gone"}, enabled : BOOLEAN,
                          kept : BOOLEAN, steps : Version]]
    /\ run \in [Run -> [state : RunState, definition : Version, position : Nat]]
    /\ recorded \in [Run -> SUBSET Position]
    /\ mail \in [Run -> [Position -> Nat]]
    /\ job \in [Run -> [Job -> [status : JobStatus, due : BOOLEAN,
                                owner : Worker \cup {NoWorker}, live : BOOLEAN]]]
    /\ worker \in [Worker -> [pc : {"idle", "start", "insert", "load", "post", "record"},
                              run : Run, job : Job, inTime : BOOLEAN]]
    /\ budget \in [Fault -> Nat]
    /\ posted \in [Run -> [Position -> Nat]]

AnyRun     == CHOOSE r \in Run : TRUE
NoRun      == [state |-> "none", definition |-> CHOOSE v \in Version : TRUE, position |-> 0]
NoJob      == [status |-> "none", due |-> FALSE, owner |-> NoWorker, live |-> FALSE]
IdleWorker == [pc |-> "idle", run |-> AnyRun, job |-> 0, inTime |-> FALSE]

Init ==
    /\ flow \in [Flow -> [phase : {"live"}, enabled : BOOLEAN, kept : {FALSE}, steps : Version]]
    /\ run = [r \in Run |-> NoRun]
    /\ recorded = [r \in Run |-> {}]
    /\ mail = [r \in Run |-> [p \in Position |-> 0]]
    /\ job = [r \in Run |-> [j \in Job |-> NoJob]]
    /\ worker = [w \in Worker |-> IdleWorker]
    /\ budget = Budget
    /\ posted = [r \in Run |-> [p \in Position |-> 0]]

Spend(f) == budget[f] > 0 /\ budget' = [budget EXCEPT ![f] = @ - 1]

-----------------------------------------------------------------------------
(* Authoring.                                                              *)

Update(f, enabled, v) ==
    /\ flow[f].phase = "live"
    /\ Spend("authoring")
    /\ flow' = [flow EXCEPT ![f].enabled = enabled, ![f].steps = v]
    /\ UNCHANGED <<run, recorded, mail, job, worker, posted>>

Delete(f) ==
    /\ flow[f].phase = "live"
    /\ Spend("authoring")
    /\ flow' = [flow EXCEPT ![f].phase = "trashed", ![f].enabled = FALSE,
                            ![f].kept = flow[f].enabled]
    /\ UNCHANGED <<run, recorded, mail, job, worker, posted>>

Restore(f) ==
    /\ flow[f].phase = "trashed"
    /\ flow' = [flow EXCEPT ![f].phase = "live", ![f].enabled = flow[f].kept,
                            ![f].kept = FALSE]
    /\ UNCHANGED <<run, recorded, mail, job, worker, budget, posted>>

(* trash_flow_active_work: a run that has not ended, or a running job.     *)
AtRest(f) ==
    \A e \in Event :
        /\ run[<<f, e>>].state \in Ended \cup {"none"}
        /\ \A j \in Job : job[<<f, e>>][j].status # "running"

PermanentlyDelete(f) ==
    /\ flow[f].phase = "trashed"
    /\ AtRest(f)
    /\ flow' = [flow EXCEPT ![f].phase = "gone"]
    /\ run' = [r \in Run |-> IF FlowOf(r) = f THEN NoRun ELSE run[r]]
    /\ recorded' = [r \in Run |-> IF FlowOf(r) = f THEN {} ELSE recorded[r]]
    /\ job' = [r \in Run |-> IF FlowOf(r) = f THEN [j \in Job |-> NoJob] ELSE job[r]]
    /\ UNCHANGED <<mail, worker, budget, posted>>

-----------------------------------------------------------------------------
(* Jobs, as Workflow delivers them.                                        *)

(* A second enqueue of a key changes nothing.                              *)
Enqueued(j, due) ==
    IF j.status = "none" THEN [NoJob EXCEPT !.status = "pending", !.due = due] ELSE j

(* emit, in the transaction of the event.                                  *)
Emit(e) ==
    /\ \E f \in Flow : flow[f].enabled /\ job[<<f, e>>][0].status = "none"
    /\ job' = [r \in Run |->
          IF r[2] = e /\ flow[FlowOf(r)].phase = "live" /\ flow[FlowOf(r)].enabled
          THEN [job[r] EXCEPT ![0] = Enqueued(@, TRUE)] ELSE job[r]]
    /\ UNCHANGED <<flow, run, recorded, mail, worker, budget, posted>>

FallDue(r, j) ==
    /\ job[r][j].status # "none" /\ ~job[r][j].due
    /\ job' = [job EXCEPT ![r][j].due = TRUE]
    /\ UNCHANGED <<flow, run, recorded, mail, worker, budget, posted>>

\* Mutant: a claim does not look at the lease.
ClaimableAnyLease(j) == j.status \notin {"none", "completed"} /\ j.due

\* Mutant: a failed job is not delivered again.
ClaimableOnce(j) == j.status \in {"pending", "running"} /\ j.due /\ ~j.live

Claimable(j) == j.status \notin {"none", "completed"} /\ j.due /\ ~j.live

Claimed(j, w) == [j EXCEPT !.status = "running", !.owner = w, !.live = TRUE]

Claim(w, r, j) ==
    /\ worker[w].pc = "idle"
    /\ Claimable(job[r][j])
    /\ job' = [job EXCEPT ![r][j] = Claimed(@, w)]
    /\ worker' = [worker EXCEPT ![w] = [pc |-> IF j = 0 THEN "start" ELSE "load",
                                        run |-> r, job |-> j, inTime |-> FALSE]]
    /\ UNCHANGED <<flow, run, recorded, mail, budget, posted>>

AtWork(r, j) == \E w \in Worker : /\ worker[w].pc # "idle"
                                  /\ worker[w].run = r /\ worker[w].job = j
                                  /\ job[r][j].owner = w

LeaseLapses(r, j) ==
    /\ job[r][j].live
    /\ IF AtWork(r, j) THEN Spend("lapse") ELSE UNCHANGED budget
    /\ job' = [job EXCEPT ![r][j].live = FALSE]
    /\ UNCHANGED <<flow, run, recorded, mail, worker, posted>>

(* An operator replays a job, a completed one too; through the Hatchet     *)
(* bridge its row reads running before anybody claims it, and the check    *)
(* that nobody has is of an earlier transaction.                           *)
Replay(r, j) ==
    /\ Spend("replay")
    /\ \/ /\ job[r][j].status \in {"pending", "failed", "completed"}
          /\ job' = [job EXCEPT ![r][j] = [NoJob EXCEPT !.status = "pending", !.due = TRUE]]
       \/ /\ job[r][j].status # "none"
          /\ job' = [job EXCEPT ![r][j] = [NoJob EXCEPT !.status = "running", !.due = TRUE]]
    /\ UNCHANGED <<flow, run, recorded, mail, worker, posted>>

-----------------------------------------------------------------------------
(* Handlers.                                                               *)

At(w, pc) == worker[w].pc = pc
Row(w)    == job[worker[w].run][worker[w].job]
Return(w) == worker' = [worker EXCEPT ![w] = IdleWorker]

(* The claim's fence; inTime is the lease as of the transaction's start.   *)
Owns(w, inTime) == Row(w).status = "running" /\ Row(w).owner = w /\ inTime

Done(j) == [j EXCEPT !.status = "completed", !.owner = NoWorker, !.live = FALSE]

(* complete_claim alone.                                                   *)
Complete(w) ==
    job' = IF Owns(w, Row(w).live)
           THEN [job EXCEPT ![worker[w].run][worker[w].job] = Done(@)] ELSE job

Failed(j) == [j EXCEPT !.status = "failed", !.owner = NoWorker, !.live = FALSE]

(* fail_claim: the job is retried.                                         *)
Fail(w) ==
    /\ job' = IF Owns(w, Row(w).live)
              THEN [job EXCEPT ![worker[w].run][worker[w].job] = Failed(@)] ELSE job
    /\ Return(w)
    /\ UNCHANGED <<flow, run, recorded, mail, posted>>

(* start reads the flow's row ...                                          *)
ReadFlow(w) ==
    LET f == flow[FlowOf(worker[w].run)] IN
    /\ At(w, "start")
    /\ f.phase = "live" /\ f.enabled
    /\ worker' = [worker EXCEPT ![w].pc = "insert", ![w].inTime = Row(w).live]
    /\ UNCHANGED <<flow, run, recorded, mail, job, budget, posted>>

NotEnabled(w) ==
    LET f == flow[FlowOf(worker[w].run)] IN
    /\ At(w, "start")
    /\ ~(f.phase = "live" /\ f.enabled)
    /\ Fail(w) /\ UNCHANGED budget

Started(r) ==
    IF run[r].state # "none" THEN run[r]
    ELSE [NoRun EXCEPT !.state = "running", !.definition = flow[FlowOf(r)].steps]

(* ... then its steps, and makes the run unless the source has one.  An    *)
(* insert for a flow that is gone violates the foreign key.                *)
InsertRun(w) ==
    LET r == worker[w].run IN
    /\ At(w, "insert")
    /\ \/ /\ flow[FlowOf(r)].phase # "gone"
          /\ Owns(w, worker[w].inTime)
          /\ run' = [run EXCEPT ![r] = Started(r)]
          /\ job' = [job EXCEPT ![r][0] = Done(@),
                                ![r][1] = IF run[r].state = "none" THEN Enqueued(@, TRUE) ELSE @]
          /\ Return(w)
          /\ UNCHANGED <<flow, recorded, mail, posted>>
       \/ /\ flow[FlowOf(r)].phase # "gone"
          /\ ~Owns(w, worker[w].inTime)
          /\ Return(w)
          /\ UNCHANGED <<flow, run, recorded, mail, job, posted>>
       \/ flow[FlowOf(r)].phase = "gone" /\ Fail(w)
    /\ UNCHANGED budget

KindAt(r, p) == Steps[run[r].definition][p]

(* execute_flow_step's first transaction.                                  *)
LoadRun(w) ==
    LET r == worker[w].run IN
    /\ At(w, "load")
    /\ \/ /\ run[r].state \in Ended
          /\ Complete(w) /\ Return(w)
          /\ UNCHANGED <<flow, run, recorded, mail, posted>>
       \/ /\ run[r].state \in {"running", "waiting"}
          /\ worker' = [worker EXCEPT ![w].pc =
                            IF KindAt(r, worker[w].job) = "webhook" THEN "post" ELSE "record"]
          /\ UNCHANGED <<flow, run, recorded, mail, job, posted>>
       \/ run[r].state = "none" /\ Fail(w)
    /\ UNCHANGED budget

Post(w) ==
    LET r == worker[w].run IN
    /\ At(w, "post")
    /\ posted' = [posted EXCEPT ![r][worker[w].job] = @ + 1]
    /\ worker' = [worker EXCEPT ![w].pc = "record"]
    /\ UNCHANGED <<flow, run, recorded, mail, job, budget>>

(* The call is refused or times out, perhaps after it arrived.             *)
PostFails(w) ==
    LET r == worker[w].run IN
    /\ At(w, "post")
    /\ Spend("failure")
    /\ \/ Fail(w)
       \/ /\ posted' = [posted EXCEPT ![r][worker[w].job] = @ + 1]
          /\ job' = IF Owns(w, Row(w).live)
                    THEN [job EXCEPT ![r][worker[w].job] = Failed(@)] ELSE job
          /\ Return(w)
          /\ UNCHANGED <<flow, run, recorded, mail>>

\* Mutant: a late result of a run that has ended opens it again.
RecordedOnEnded(r, p) ==
    LET last == p = Len(Steps[run[r].definition]) IN
    [run[r] EXCEPT !.position = p,
                   !.state = CASE last -> "succeeded"
                               [] ~last /\ KindAt(r, p) = "wait" -> "waiting"
                               [] OTHER -> "running"]

(* record_step on the run's row: position p is done, the next is p + 1.    *)
Recorded(r, p) ==
    LET last == p = Len(Steps[run[r].definition]) IN
    IF run[r].state \in Ended THEN run[r]
    ELSE [run[r] EXCEPT !.position = p,
                        !.state = CASE last -> "succeeded"
                                    [] ~last /\ KindAt(r, p) = "wait" -> "waiting"
                                    [] OTHER -> "running"]

(* enqueue_delivery under flow-mail:run:position.                          *)
Mailed(r, p) == IF mail[r][p] = 0 THEN 1 ELSE mail[r][p]

\* Mutant: the next position is counted twice.
NextStepTwice(r, p) ==
    IF run[r].state \in Ended \/ p + 2 > Len(Steps[run[r].definition])
    THEN [job[r] EXCEPT ![p] = Done(@)]
    ELSE [job[r] EXCEPT ![p] = Done(@), ![p + 2] = Enqueued(@, TRUE)]

(* The step's job is completed, and the next step enqueued.                *)
NextStep(r, p) ==
    IF run[r].state \in Ended \/ p = Len(Steps[run[r].definition])
    THEN [job[r] EXCEPT ![p] = Done(@)]
    ELSE [job[r] EXCEPT ![p] = Done(@), ![p + 1] = Enqueued(@, KindAt(r, p) # "wait")]

(* finish_flow_step: the effect in the database, record_step and           *)
(* complete_claim in one transaction, rolled back when the claim is lost.  *)
Record(w) ==
    LET r == worker[w].run  p == worker[w].job IN
    /\ At(w, "record")
    /\ \/ /\ run[r].state # "none"
          /\ Owns(w, Row(w).live)
          /\ mail' = IF KindAt(r, p) = "mail"
                     THEN [mail EXCEPT ![r][p] = Mailed(r, p)] ELSE mail
          /\ recorded' = [recorded EXCEPT ![r] =
                            IF run[r].state \in Ended THEN @ ELSE @ \cup {p}]
          /\ run' = [run EXCEPT ![r] = Recorded(r, p)]
          /\ job' = [job EXCEPT ![r] = NextStep(r, p)]
          /\ Return(w)
          /\ UNCHANGED <<flow, posted>>
       \/ /\ run[r].state # "none"
          /\ ~Owns(w, Row(w).live)
          /\ Return(w)
          /\ UNCHANGED <<flow, run, recorded, mail, job, posted>>
       \/ run[r].state = "none" /\ Fail(w)
    /\ UNCHANGED budget

(* A lookup or the database fails.                                         *)
HandlerFails(w) ==
    /\ worker[w].pc \in {"start", "insert", "load", "record"}
    /\ Spend("failure")
    /\ Fail(w)

Crash(w) ==
    /\ ~At(w, "idle")
    /\ Spend("failure")
    /\ Return(w)
    /\ UNCHANGED <<flow, run, recorded, mail, job, posted>>

-----------------------------------------------------------------------------
Handle(w) ==
    ReadFlow(w) \/ NotEnabled(w) \/ InsertRun(w) \/ LoadRun(w) \/ Post(w) \/ Record(w)

(* Everything but the delivery of jobs and their replay.                   *)
Work ==
    \/ \E f \in Flow, enabled \in BOOLEAN, v \in Version : Update(f, enabled, v)
    \/ \E f \in Flow : Delete(f) \/ Restore(f) \/ PermanentlyDelete(f)
    \/ \E e \in Event : Emit(e)
    \/ \E r \in Run, j \in Job : FallDue(r, j) \/ LeaseLapses(r, j)
    \/ \E w \in Worker : Handle(w) \/ PostFails(w) \/ HandlerFails(w) \/ Crash(w)

(* How often a job is delivered is not bounded here, and nothing says that *)
(* it is delivered at all: see FlowRetries.                                *)
Next ==
    \/ Work
    \/ \E r \in Run, j \in Job : Replay(r, j) \/ \E w \in Worker : Claim(w, r, j)

Spec == Init /\ [][Next]_vars

(* Time passes, and workers go on.                                         *)
Fairness ==
    /\ \A r \in Run, j \in Job : WF_vars(FallDue(r, j)) /\ WF_vars(LeaseLapses(r, j))
    /\ \A w \in Worker : WF_vars(Handle(w))

-----------------------------------------------------------------------------
(* What the flows of a site promise.                                       *)

(* Nothing is recorded, mailed or posted for a step before every earlier   *)
(* step of the run is recorded, and a step's effect agrees with its        *)
(* record, whichever jobs are repeated, late or replayed: a mail step has  *)
(* exactly one delivery when it is recorded and none before, a webhook is  *)
(* recorded only if it arrived.                                            *)
EffectsFollowSteps ==
    \A r \in Run : run[r].state # "none" => \A p \in Position :
        /\ p \in recorded[r] \/ mail[r][p] > 0 \/ posted[r][p] > 0
               => 1 .. p - 1 \subseteq recorded[r]
        /\ p <= Len(Steps[run[r].definition]) =>
               /\ KindAt(r, p) = "mail" => mail[r][p] = IF p \in recorded[r] THEN 1 ELSE 0
               /\ KindAt(r, p) = "webhook" /\ p \in recorded[r] => posted[r][p] > 0

(* A webhook arrives more than once only if a call or a job failed or its  *)
(* worker died, a lease lapsed or an operator replayed a job.              *)
RepeatedPostHasCause ==
    \A r \in Run, p \in Position :
        posted[r][p] > 1 =>
            \E f \in {"failure", "lapse", "replay"} : budget[f] < Budget[f]

(* "A flow rewritten while one of its runs is in the air does not move     *)
(* that run": a run keeps its definition, an ended run stays as it is, and *)
(* without a replay a run never goes back, until its flow is purged.       *)
RunsOnlyAdvance ==
    [][\A r \in Run :
        run[r].state # "none" /\ run'[r].state # "none" =>
            /\ run'[r].definition = run[r].definition
            /\ run[r].state \in Ended => run'[r] = run[r]
            /\ budget["replay"] = Budget["replay"] => run'[r].position >= run[r].position]_vars
=============================================================================
