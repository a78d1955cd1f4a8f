-------------------------------- MODULE Media -------------------------------
(***************************************************************************)
(* Uploaded files, the variants rendered from images, and their bytes in a *)
(* file store that no transaction covers.  Rows and bytes are brought      *)
(* together by three background jobs: one renders a missing variant, one   *)
(* removes the bytes of a purged file, and one sweeps the store for bytes  *)
(* that nothing knows.                                                     *)
(***************************************************************************)
EXTENDS Naturals

CONSTANTS
    File,                \* images, numbered in the order of their created_at
    Broken,              \* those that cannot be decoded
    Runner, NoRunner,    \* executions of variant jobs in progress at once
    Nothing,             \* no file: the cleaner has nothing to do
    Faults,              \* bound: refusals of the store or the database,
                         \* crashes, leases that run out under a runner at work
                         \* and replays by an operator, together
    Restores             \* bound

ASSUME MediaAssumption ==
    /\ File \subseteq Nat /\ Broken \subseteq File /\ Nothing \notin File
    /\ NoRunner \notin Runner
    /\ Faults \in Nat /\ Restores \in Nat

VARIABLES
    file,       \* media_files: the row, or where the upload of it is
    variant,    \* media_variants, of the one preset modelled: files with a row
    task,       \* media_cleanup_tasks: the state and the keys of a purged file
    job,        \* per file: the variant job and the runner that holds its claim
    store,      \* FileStore: the keys under which there are bytes
    runner,     \* per execution of a variant job: where it is, and its file
    cleaner,    \* the execution of a cleanup job: its file, the keys left
    sweep,      \* the execution of an orphan cleanup: what it listed and knows
    faults, restores,
    exposed     \* history: keys whose row took part in a race, see RowsKeepBytes

vars == <<file, variant, task, job, store, runner, cleaner, sweep,
          faults, restores, exposed>>
bounds == <<faults, restores>>

Part == {"source", "variant"}
Key  == File \X Part

TypeOK ==
    /\ file \in [File -> {"none", "storing", "live", "trashed", "gone"}]
    /\ variant \subseteq {f \in File : file[f] \in {"live", "trashed"}}
    /\ task \in [File -> [state : {"none", "pending", "done"}, keys : SUBSET Key]]
    /\ job \in [File -> [state : {"none", "open", "dead", "ended"},
                         runner : Runner \cup {NoRunner}]]
    /\ store \subseteq Key
    /\ runner \in [Runner -> [pc : {"idle", "load", "render", "put", "check",
                                    "insert", "discard", "undo"},
                              file : File \cup {Nothing}]]
    /\ cleaner \in [file : File \cup {Nothing}, left : SUBSET Key]
    /\ sweep \in [pc : {"idle", "rows", "tasks", "jobs", "remove"},
                  listed : SUBSET Key, known : SUBSET Key,
                  owned : SUBSET Key]      \* history: owned when it read the rows
    /\ faults \in 0 .. Faults /\ restores \in 0 .. Restores
    /\ exposed \subseteq Key

IdleRunner  == [pc |-> "idle", file |-> Nothing]
IdleCleaner == [file |-> Nothing, left |-> {}]
IdleSweep   == [pc |-> "idle", listed |-> {}, known |-> {}, owned |-> {}]

Init ==
    /\ file = [f \in File |-> "none"]
    /\ variant = {}
    /\ task = [f \in File |-> [state |-> "none", keys |-> {}]]
    /\ job = [f \in File |-> [state |-> "none", runner |-> NoRunner]]
    /\ store = {}
    /\ runner = [r \in Runner |-> IdleRunner]
    /\ cleaner = IdleCleaner
    /\ sweep = IdleSweep
    /\ faults = Faults /\ restores = Restores
    /\ exposed = {}

Source(f)  == <<f, "source">>
Variant(f) == <<f, "variant">>

HasRow(f) == file[f] \in {"live", "trashed"}

Owned == {Source(f) : f \in {g \in File : HasRow(g)}} \cup {Variant(f) : f \in variant}

Fault == faults > 0 /\ faults' = faults - 1

-----------------------------------------------------------------------------
(* The life of a file.                                                     *)

(* upload puts the bytes inside its transaction, before the row.           *)
UploadPuts(f) ==
    /\ file[f] = "none"
    /\ \A g \in File : g < f => file[g] # "none"
    /\ file' = [file EXCEPT ![f] = "storing"]
    /\ store' = store \cup {Source(f)}
    /\ UNCHANGED <<variant, task, job, runner, cleaner, sweep, bounds, exposed>>

UploadCommits(f) ==
    /\ file[f] = "storing"
    /\ file' = [file EXCEPT ![f] = "live"]
    /\ UNCHANGED <<variant, task, job, store, runner, cleaner, sweep, bounds, exposed>>

(* The insert or the receipt fails and the bytes are removed; when the     *)
(* commit fails or the process dies nobody removes them.                   *)
UploadFails(f) ==
    /\ file[f] = "storing"
    /\ file' = [file EXCEPT ![f] = "gone"]
    /\ Fault
    /\ store' \in {store, store \ {Source(f)}}
    /\ UNCHANGED <<variant, task, job, runner, cleaner, sweep, restores, exposed>>

Trash(f) ==
    /\ file[f] = "live"
    /\ file' = [file EXCEPT ![f] = "trashed"]
    /\ UNCHANGED <<variant, task, job, store, runner, cleaner, sweep, bounds, exposed>>

Restore(f) ==
    /\ file[f] = "trashed"
    /\ restores > 0 /\ restores' = restores - 1
    /\ file' = [file EXCEPT ![f] = "live"]
    /\ UNCHANGED <<variant, task, job, store, runner, cleaner, sweep, faults, exposed>>

(* storage_key and storage_keys of the task.                               *)
TaskKeys(f) == {Source(f)} \cup (IF f \in variant THEN {Variant(f)} ELSE {})

(* permanently_delete: rows go, a task and its job stay.                   *)
Purge(f) ==
    /\ file[f] = "trashed"
    /\ file' = [file EXCEPT ![f] = "gone"]
    /\ task' = [task EXCEPT ![f] = [state |-> "pending", keys |-> TaskKeys(f)]]
    /\ variant' = variant \ {f}
    /\ UNCHANGED <<job, store, runner, cleaner, sweep, bounds, exposed>>

-----------------------------------------------------------------------------
(* execute_media_cleanup: the keys are removed one after another, and only *)
(* then the task is completed.                                             *)

Clean(f) ==
    /\ cleaner.file = Nothing /\ task[f].state = "pending"
    /\ cleaner' = [file |-> f, left |-> task[f].keys]
    /\ UNCHANGED <<file, variant, task, job, store, runner, sweep, bounds, exposed>>

CleanerRemoves(k) ==
    /\ k \in cleaner.left
    /\ k[2] = "variant" => Source(k[1]) \notin cleaner.left
    /\ store' = store \ {k}
    /\ cleaner' = [cleaner EXCEPT !.left = @ \ {k}]
    /\ UNCHANGED <<file, variant, task, job, runner, sweep, bounds, exposed>>

CleanerCompletes ==
    /\ cleaner.file # Nothing /\ cleaner.left = {}
    /\ task' = [task EXCEPT ![cleaner.file].state = "done"]
    /\ cleaner' = IdleCleaner
    /\ UNCHANGED <<file, variant, job, store, runner, sweep, bounds, exposed>>

CleanerStops ==
    /\ cleaner.file # Nothing
    /\ Fault
    /\ cleaner' = IdleCleaner
    /\ UNCHANGED <<file, variant, task, job, store, runner, sweep, restores, exposed>>

-----------------------------------------------------------------------------
(* execute_media_variant                                                   *)

Missing == {f \in File : file[f] = "live" /\ f \notin variant}

(* enqueue_next_variant_job looks at the oldest image that lacks a variant:*)
(* it has a job already, unless it is new; a dead job is opened again.     *)
Discover(f) ==
    /\ f \in Missing /\ \A g \in Missing : f <= g
    /\ job[f].state \in {"none", "dead"}
    /\ job' = [job EXCEPT ![f].state = "open"]
    /\ UNCHANGED <<file, variant, task, store, runner, cleaner, sweep, bounds, exposed>>

(* An operator replays the run of a job that has ended.                    *)
Replay(f) ==
    /\ job[f].state \in {"ended", "dead"}
    /\ Fault
    /\ job' = [job EXCEPT ![f].state = "open"]
    /\ UNCHANGED <<file, variant, task, store, runner, cleaner, sweep, restores, exposed>>

AtWork(f) == \E r \in Runner : runner[r].file = f

(* The variant's key is exposed when its job is done again.                *)
ClaimJob(r, f) ==
    /\ runner[r].pc = "idle"
    /\ job[f].state = "open" /\ job[f].runner = NoRunner
    /\ job' = [job EXCEPT ![f].runner = r]
    /\ runner' = [runner EXCEPT ![r] = [pc |-> "load", file |-> f]]
    /\ exposed' = exposed \cup (IF AtWork(f) \/ f \in variant THEN {Variant(f)} ELSE {})
    /\ UNCHANGED <<file, variant, task, store, cleaner, sweep, bounds>>

LeaseLapses(f) ==
    /\ job[f].runner # NoRunner
    /\ IF runner[job[f].runner].file = f THEN Fault ELSE UNCHANGED faults
    /\ job' = [job EXCEPT ![f].runner = NoRunner]
    /\ UNCHANGED <<file, variant, task, store, runner, cleaner, sweep, restores, exposed>>

(* complete and fail change the run only under the claim.                  *)
Fenced(r) == job[runner[r].file].runner = r

Release(r) == runner' = [runner EXCEPT ![r] = IdleRunner]

CompleteClaim(r) ==
    /\ job' = [job EXCEPT ![runner[r].file] =
                  IF Fenced(r) THEN [state |-> "ended", runner |-> NoRunner] ELSE @]
    /\ Release(r)

(* The last attempt leaves the job dead.                                   *)
FailClaim(r) ==
    /\ \E s \in {"open", "dead"} :
          job' = [job EXCEPT ![runner[r].file] =
                     IF Fenced(r) THEN [state |-> s, runner |-> NoRunner] ELSE @]
    /\ Release(r)

Go(r, pc) == runner' = [runner EXCEPT ![r].pc = pc]

(* variant_source; without a live source there is nothing to do.           *)
Load(r) ==
    /\ runner[r].pc = "load"
    /\ IF file[runner[r].file] = "live" THEN Go(r, "render") /\ UNCHANGED job
       ELSE CompleteClaim(r)
    /\ UNCHANGED <<file, variant, task, store, cleaner, sweep, bounds, exposed>>

Render(r) ==
    LET f == runner[r].file IN
    /\ runner[r].pc = "render"
    /\ IF Source(f) \in store /\ f \notin Broken THEN Go(r, "put") /\ UNCHANGED job
       ELSE FailClaim(r)
    /\ UNCHANGED <<file, variant, task, store, cleaner, sweep, bounds, exposed>>

PutCandidate(r) ==
    /\ runner[r].pc = "put"
    /\ store' = store \cup {Variant(runner[r].file)}
    /\ Go(r, "check")
    /\ UNCHANGED <<file, variant, task, job, cleaner, sweep, bounds, exposed>>

RunnerFails(r) ==
    /\ runner[r].pc \in {"render", "put"}
    /\ Fault
    /\ FailClaim(r)
    /\ UNCHANGED <<file, variant, task, store, cleaner, sweep, restores, exposed>>

(* finalize_variant first looks again for the source.                      *)
Check(r) ==
    /\ runner[r].pc = "check"
    /\ \/ Go(r, IF file[runner[r].file] = "live" THEN "insert" ELSE "discard")
          /\ UNCHANGED faults
       \/ Go(r, "undo") /\ Fault
    /\ UNCHANGED <<file, variant, task, job, store, cleaner, sweep, restores, exposed>>

\* Mutant: nothing ties a variant to its file.

(* The foreign key from a variant to its file, which the insert locks.     *)
HasSource(f) == HasRow(f)

(* The candidate's key is the one of the row, whoever inserted it; the     *)
(* insert commits with the job or not at all.                              *)
Insert(r) ==
    LET f == runner[r].file IN
    /\ runner[r].pc = "insert" /\ HasSource(f)
    /\ variant' = IF Fenced(r) THEN variant \cup {f} ELSE variant
    /\ CompleteClaim(r)
    /\ UNCHANGED <<file, task, store, cleaner, sweep, bounds, exposed>>

InsertFails(r) ==
    /\ runner[r].pc = "insert"
    /\ IF HasSource(runner[r].file) THEN Fault ELSE UNCHANGED faults
    /\ Go(r, "undo")
    /\ UNCHANGED <<file, variant, task, job, store, cleaner, sweep, restores, exposed>>

(* The candidate is removed under no claim, and the job ends.              *)
Discard(r) ==
    /\ runner[r].pc = "discard"
    /\ \/ /\ store' = store \ {Variant(runner[r].file)}
          /\ CompleteClaim(r)
          /\ UNCHANGED faults
       \/ Fault /\ FailClaim(r) /\ UNCHANGED store
    /\ UNCHANGED <<file, variant, task, cleaner, sweep, restores, exposed>>

(* The candidate is removed, if that works, and the job fails.             *)
Undo(r) ==
    /\ runner[r].pc = "undo"
    /\ \/ store' = store \ {Variant(runner[r].file)} /\ UNCHANGED faults
       \/ Fault /\ UNCHANGED store
    /\ FailClaim(r)
    /\ UNCHANGED <<file, variant, task, cleaner, sweep, restores, exposed>>

RunnerDies(r) ==
    /\ runner[r].pc # "idle"
    /\ Fault
    /\ Release(r)
    /\ UNCHANGED <<file, variant, task, job, store, cleaner, sweep, restores, exposed>>

-----------------------------------------------------------------------------
(* execute_media_orphan_cleanup, with the three statements of              *)
(* known_storage_keys.                                                     *)

SweepList ==
    /\ sweep.pc = "idle"
    /\ sweep' = [IdleSweep EXCEPT !.pc = "rows", !.listed = store]
    /\ UNCHANGED <<file, variant, task, job, store, runner, cleaner, bounds, exposed>>

Pending == {f \in File : task[f].state = "pending"}

\* Mutant: files in the trash are not known.
KnownRowsLive == {Source(f) : f \in {g \in File : file[g] = "live"}}
                     \cup {Variant(f) : f \in variant}

KnownRows == Owned \cup {Source(f) : f \in Pending}   \* in one statement

KnownTasks == UNION {task[f].keys : f \in Pending}

\* Mutant: the keys of variant jobs stay known when these have ended.
KnownJobsForGood == {Variant(f) : f \in {g \in File : job[g].state # "none"}}

KnownJobs == {Variant(f) : f \in {g \in File : job[g].state \in {"open", "dead"}}}

SweepReadsRows ==
    /\ sweep.pc = "rows"
    /\ sweep' = [sweep EXCEPT !.pc = "tasks", !.known = KnownRows, !.owned = Owned]
    /\ UNCHANGED <<file, variant, task, job, store, runner, cleaner, bounds, exposed>>

SweepReadsTasks ==
    /\ sweep.pc = "tasks"
    /\ sweep' = [sweep EXCEPT !.pc = "jobs", !.known = @ \cup KnownTasks]
    /\ UNCHANGED <<file, variant, task, job, store, runner, cleaner, bounds, exposed>>

(* Exposed is what was listed when neither its row was there nor is now a  *)
(* job that will make it.                                                  *)
SweepReadsJobs ==
    /\ sweep.pc = "jobs"
    /\ sweep' = [sweep EXCEPT !.pc = "remove", !.known = @ \cup KnownJobs]
    /\ exposed' = exposed \cup {k \in sweep.listed \ sweep.owned :
                       k[2] = "variant" => job[k[1]].state \notin {"open", "dead"}}
    /\ UNCHANGED <<file, variant, task, job, store, runner, cleaner, bounds>>

SweepRemoves(k) ==
    /\ sweep.pc = "remove" /\ k \in sweep.listed \ sweep.known
    /\ store' = store \ {k}
    /\ sweep' = [sweep EXCEPT !.listed = @ \ {k}]
    /\ UNCHANGED <<file, variant, task, job, runner, cleaner, bounds, exposed>>

SweepEnds ==
    /\ sweep.pc # "idle"
    /\ \/ sweep.pc = "remove" /\ sweep.listed \subseteq sweep.known /\ UNCHANGED faults
       \/ Fault
    /\ sweep' = IdleSweep
    /\ UNCHANGED <<file, variant, task, job, store, runner, cleaner, restores, exposed>>

-----------------------------------------------------------------------------
SweepStep ==
    \/ SweepList \/ SweepReadsRows \/ SweepReadsTasks \/ SweepReadsJobs
    \/ \E k \in Key : SweepRemoves(k)
    \/ SweepEnds

RunnerStep(r) == Load(r) \/ Render(r) \/ PutCandidate(r) \/ Check(r) \/ Insert(r)
                     \/ InsertFails(r) \/ Discard(r) \/ Undo(r)

CleanerStep == (\E k \in Key : CleanerRemoves(k)) \/ CleanerCompletes

Next ==
    \/ \E f \in File : UploadPuts(f) \/ UploadCommits(f) \/ UploadFails(f)
                          \/ Trash(f) \/ Restore(f) \/ Purge(f) \/ Clean(f)
                          \/ Discover(f) \/ Replay(f) \/ LeaseLapses(f)
    \/ \E r \in Runner, f \in File : ClaimJob(r, f)
    \/ \E r \in Runner : RunnerStep(r) \/ RunnerFails(r) \/ RunnerDies(r)
    \/ CleanerStep \/ CleanerStops
    \/ SweepStep

Spec == Init /\ [][Next]_vars

(* The maintenance tick finds work again and again, Hatchet delivers it,   *)
(* what has begun goes on, and leases run out.  Nobody has to upload,      *)
(* trash, restore or purge.                                                *)
Fairness ==
    /\ \A f \in File : /\ WF_vars(Discover(f)) /\ WF_vars(Clean(f))
                       /\ WF_vars(LeaseLapses(f))
                       /\ SF_vars(\E r \in Runner : ClaimJob(r, f))
    /\ \A r \in Runner : WF_vars(RunnerStep(r))
    /\ WF_vars(CleanerStep) /\ WF_vars(SweepStep)

FairSpec == Spec /\ Fairness
=============================================================================
