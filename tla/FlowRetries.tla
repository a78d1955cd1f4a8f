---------------------------- MODULE FlowRetries ----------------------------
(***************************************************************************)
(* Flows under Hatchet's retry budget: the job of a step is delivered      *)
(* once, and again after each execution that failed, until its retries are *)
(* used up.  The worker never records a step as failed, so the run of a    *)
(* step that fails every time is left where it is.                         *)
(***************************************************************************)
EXTENDS Flows

CONSTANT Retries   \* maxTaskRetries: 25 in the code

ASSUME RetriesAssumption == Retries \in Nat

VARIABLE left      \* deliveries that are left of each job

retryVars == <<vars, left>>

RetryInit == Init /\ left = [r \in Run |-> [j \in Job |-> 0]]

Unfinished(j) == j.status \notin {"none", "completed"}

RetryWork ==
    /\ Work
    /\ left' = [r \in Run |-> [j \in Job |->
          CASE ~Unfinished(job[r][j])' -> 0
            [] ~Unfinished(job[r][j]) /\ Unfinished(job[r][j])' -> Retries + 1
            [] OTHER -> left[r][j]]]

Uses(r, j) ==
    /\ left[r][j] > 0
    /\ left' = [left EXCEPT ![r][j] = @ - 1]

RetryClaim(r, j) == Uses(r, j) /\ \E w \in Worker : Claim(w, r, j)

(* workflow_execution_in_progress: whoever claimed the job is gone, and    *)
(* its lease is still live.                                                *)
TurnedAway(r, j) ==
    /\ Uses(r, j)
    /\ job[r][j].due /\ job[r][j].live /\ ~AtWork(r, j)
    /\ UNCHANGED vars

(* A replay asks Hatchet for the task again, which may find the old one.   *)
RetryReplay(r, j) ==
    /\ Replay(r, j)
    /\ \E n \in {left[r][j], Retries + 1} : left' = [left EXCEPT ![r][j] = n]

RetryNext ==
    \/ RetryWork
    \/ \E r \in Run, j \in Job : RetryClaim(r, j) \/ TurnedAway(r, j) \/ RetryReplay(r, j)

(* Hatchet delivers every job that has deliveries left.                    *)
RetryFairSpec ==
    /\ RetryInit /\ [][RetryNext]_retryVars
    /\ Fairness
    /\ \A r \in Run, j \in Job : WF_retryVars(RetryClaim(r, j))

-----------------------------------------------------------------------------
(* Nobody executes what is left of r, and Hatchet has given it up.         *)
GivenUp(r) ==
    /\ \E j \in Job : Unfinished(job[r][j])
    /\ \A j \in Job : Unfinished(job[r][j]) =>
          left[r][j] = 0 /\ \A w \in Worker :
              worker[w].pc # "idle" => <<worker[w].run, worker[w].job>> # <<r, j>>

(* A run ends: until it has, there is a job of it which is still delivered *)
(* or executed, through failures, crashes, replays and the flow's trash.   *)
(* What the code leaves out: a run whose job has used up its retries, for  *)
(* the run goes on reading running.                                        *)
RunsEnd ==
    \A r \in Run : run[r].state # "none" ~> run[r].state \in Ended \cup {"none"} \/ GivenUp(r)

(* "A step that fails stops the run and says why".  Not so: its job is     *)
(* failed, and the run stays running when the retries are used up.         *)
FailureEndsRun ==
    \A r \in Run : run[r].state # "none" ~> run[r].state \in Ended \cup {"none"}
=============================================================================
