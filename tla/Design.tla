------------------------------- MODULE Design -------------------------------
(***************************************************************************)
(* Design changes, their builds, and which of them is live.  Rows change   *)
(* in transactions; a worker builds outside any transaction and puts the   *)
(* artifacts under keys named by the build, which no claim protects.       *)
(***************************************************************************)
EXTENDS Integers, Sequences, FiniteSets

CONSTANTS
    Change, Build, NoBuild,
    Worker, NoWorker,    \* deliveries of build jobs in progress at once
    Editor, NoChange,    \* publish and rollback requests in flight at once
    Path, Paths,         \* the artifact paths, in the order they are put
    MaxSource,           \* bound: versions of a change's files
    MaxAttempts,         \* attempts of a build job before it is failed
    Lapses, Crashes      \* bounds

ASSUME DesignAssumption ==
    /\ NoBuild \notin Build /\ NoWorker \notin Worker /\ NoChange \notin Change
    /\ Paths \in Seq(Path) /\ Len(Paths) > 0 /\ Path = {Paths[i] : i \in DOMAIN Paths}
    /\ MaxSource \in Nat /\ MaxAttempts \in Nat \ {0}
    /\ Lapses \in Nat /\ Crashes \in Nat

VARIABLES
    change,    \* design_changes, and the version of the change's files
    build,     \* design_builds, the version asked for and the one recorded
    job,       \* per build: the claim on its job
    store,     \* FileStore: the version of the bytes under each build's path
    worker,    \* per delivery: where it is, what it builds from, what it put
    editor,    \* per request: the change it locked and what it read
    lapses, crashes

vars == <<change, build, job, store, worker, editor, lapses, crashes>>

Version == 0 .. MaxSource     \* 0: no file, no bytes, nothing recorded
Stages  == {"idle", "loaded", "stored", "failing"}

TypeOK ==
    /\ change \in [Change -> [state : {"none", "writing", "building", "ready",
                                       "failed", "published"},
                              ready : Build \cup {NoBuild},
                              published : Build \cup {NoBuild},
                              source : Version]]
    /\ \A c \in Change : change[c].state = "published" => change[c].published \in Build
    /\ build \in [Build -> [state : {"none", "queued", "ready", "failed"},
                            change : Change \cup {NoChange},
                            asked : Version, recorded : Version]]
    /\ job \in [Build -> [state : {"none", "pending", "running", "done"},
                          owner : Worker \cup {NoWorker},
                          attempts : Nat]]
    /\ store \in [Build -> [Path -> Version]]
    /\ worker \in [Worker -> [pc : Stages, build : Build \cup {NoBuild},
                              source : Version, put : 0 .. Len(Paths),
                              attempt : Nat]]
    /\ editor \in [Editor -> [pc : {"idle", "locked", "found"},
                              change : Change \cup {NoChange},
                              build : Build \cup {NoBuild},
                              seen : Change \cup {NoChange}]]
    /\ lapses \in 0 .. Lapses /\ crashes \in 0 .. Crashes

NewChange  == [state |-> "none", ready |-> NoBuild, published |-> NoBuild,
               source |-> 0]
NewBuild   == [state |-> "none", change |-> NoChange, asked |-> 0, recorded |-> 0]
NewJob     == [state |-> "none", owner |-> NoWorker, attempts |-> 0]
IdleWorker == [pc |-> "idle", build |-> NoBuild, source |-> 0, put |-> 0,
               attempt |-> 0]
IdleEditor == [pc |-> "idle", change |-> NoChange, build |-> NoBuild,
               seen |-> NoChange]

Init ==
    /\ change = [c \in Change |-> NewChange]
    /\ build = [b \in Build |-> NewBuild]
    /\ job = [b \in Build |-> NewJob]
    /\ store = [b \in Build |-> [p \in Path |-> 0]]
    /\ worker = [w \in Worker |-> IdleWorker]
    /\ editor = [e \in Editor |-> IdleEditor]
    /\ lapses = Lapses /\ crashes = Crashes

Published == {c \in Change : change[c].state = "published"}
Exists(c) == change[c].state # "none"

(* Only a request that publishes keeps a change locked between two steps.  *)
Free(c) == \A e \in Editor : editor[e].change # c

-----------------------------------------------------------------------------
(* Writing a change.                                                       *)

(* A new change copies the source of the published one.                    *)
StartChange(c) ==
    /\ ~Exists(c)
    /\ \E v \in IF Published = {} THEN {0}
                ELSE {change[d].source : d \in Published} :
          change' = [change EXCEPT ![c] = [NewChange EXCEPT !.state = "writing",
                                                            !.source = v]]
    /\ UNCHANGED <<build, job, store, worker, editor, lapses, crashes>>

(* write_file and remove_file: only a published change refuses them, and   *)
(* the change is then no longer ready.                                     *)
EditFiles(c) ==
    /\ Exists(c) /\ Free(c)
    /\ change[c].state # "published"
    /\ change[c].source < MaxSource
    /\ change' = [change EXCEPT ![c].state = "writing", ![c].ready = NoBuild,
                                ![c].source = @ + 1]
    /\ UNCHANGED <<build, job, store, worker, editor, lapses, crashes>>

(* The route enqueues the build's job in the same transaction.             *)
StartBuild(c, b) ==
    /\ Free(c)
    /\ change[c].state \in {"writing", "ready", "failed"}
    /\ build[b].state = "none"
    /\ build' = [build EXCEPT ![b] = [NewBuild EXCEPT !.state = "queued",
                                                      !.change = c,
                                                      !.asked = change[c].source]]
    /\ change' = [change EXCEPT ![c].state = "building", ![c].ready = NoBuild]
    /\ job' = [job EXCEPT ![b].state = "pending"]
    /\ UNCHANGED <<store, worker, editor, lapses, crashes>>

-----------------------------------------------------------------------------
(* execute_design_build.                                                   *)

Working(w, b) == worker[w].pc # "idle" /\ worker[w].build = b

(* Mutant: a claim whose worker died is never taken over.                  *)
ClaimableOnce(b) == job[b].state = "pending"

(* A job is claimed when nobody's lease covers it: a lease lapses when its *)
(* worker has died, or when the build takes longer than the lease.         *)
Claimable(b) ==
    \/ job[b].state = "pending"
    \/ job[b].state = "running" /\ \/ ~Working(job[b].owner, b)
                                   \/ lapses > 0

(* The claim, and load_build_request, which reads the files as they are.   *)
Load(w, b) ==
    LET n == job[b].attempts + 1
        lapsing == job[b].state = "running" /\ Working(job[b].owner, b) IN
    /\ worker[w].pc = "idle"
    /\ Claimable(b)
    /\ job' = [job EXCEPT ![b] = [state |-> "running", owner |-> w, attempts |-> n]]
    /\ worker' = [worker EXCEPT ![w] =
          [pc |-> "loaded", build |-> b, source |-> change[build[b].change].source,
           put |-> 0, attempt |-> n]]
    /\ lapses' = IF lapsing THEN lapses - 1 ELSE lapses
    /\ UNCHANGED <<change, build, store, editor, crashes>>

(* The engine refuses a design without an entry point, or fails.           *)
BuildFails(w) ==
    /\ worker[w].pc = "loaded" /\ worker[w].put = 0
    /\ worker' = [worker EXCEPT ![w].pc = "failing"]
    /\ UNCHANGED <<change, build, job, store, editor, lapses, crashes>>

(* Mutant: the last artifact is forgotten.                                 *)
AllPutButOne(n) == n >= Len(Paths) - 1

AllPut(n) == n = Len(Paths)

PutArtifact(w) ==
    LET n == worker[w].put + 1 IN
    /\ worker[w].pc = "loaded" /\ worker[w].source > 0
    /\ store' = [store EXCEPT ![worker[w].build][Paths[n]] = worker[w].source]
    /\ worker' = [worker EXCEPT ![w].put = n,
                                ![w].pc = IF AllPut(n) THEN "stored" ELSE @]
    /\ UNCHANGED <<change, build, job, editor, lapses, crashes>>

(* remove_artifacts takes back what this attempt has put so far.           *)
PutFails(w) ==
    /\ worker[w].pc = "loaded" /\ worker[w].put > 0
    /\ store' = [store EXCEPT ![worker[w].build] =
          [p \in Path |-> IF \E i \in 1 .. worker[w].put : Paths[i] = p THEN 0
                          ELSE store[worker[w].build][p]]]
    /\ worker' = [worker EXCEPT ![w].pc = "failing"]
    /\ UNCHANGED <<change, build, job, editor, lapses, crashes>>

StillQueued(b) == build[b].state = "queued"

Owns(w) == job[worker[w].build].owner = w

(* The build's rows and the claim's completion are one transaction: a      *)
(* worker that lost its claim, or came second, changes neither.            *)
MayRecord(w) == StillQueued(worker[w].build) /\ Owns(w)

Done(b)   == job' = [job EXCEPT ![b].state = "done", ![b].owner = NoWorker]
GoHome(w) == worker' = [worker EXCEPT ![w] = IdleWorker]

FinishSuccess(w) ==
    LET b == worker[w].build IN
    /\ worker[w].pc = "stored" /\ Free(build[b].change)
    /\ IF MayRecord(w)
       THEN /\ build' = [build EXCEPT ![b].state = "ready",
                                      ![b].recorded = worker[w].source]
            /\ change' = [change EXCEPT ![build[b].change].state = "ready",
                                        ![build[b].change].ready = b]
            /\ Done(b)
       ELSE UNCHANGED <<build, change, job>>
    /\ GoHome(w)
    /\ UNCHANGED <<store, editor, lapses, crashes>>

(* The last attempt fails the build, an earlier one only its job.          *)
FinishFailed(w) ==
    LET b == worker[w].build IN
    /\ worker[w].pc = "failing" /\ Free(build[b].change)
    /\ IF ~MayRecord(w) THEN UNCHANGED <<build, change, job>>
       ELSE IF worker[w].attempt >= MaxAttempts
       THEN /\ build' = [build EXCEPT ![b].state = "failed"]
            /\ change' = [change EXCEPT ![build[b].change].state = "failed",
                                        ![build[b].change].ready = NoBuild]
            /\ Done(b)
       ELSE /\ job' = [job EXCEPT ![b].state = "pending", ![b].owner = NoWorker]
            /\ UNCHANGED <<build, change>>
    /\ GoHome(w)
    /\ UNCHANGED <<store, editor, lapses, crashes>>

WorkerDies(w) ==
    /\ crashes > 0 /\ worker[w].pc # "idle"
    /\ crashes' = crashes - 1
    /\ GoHome(w)
    /\ UNCHANGED <<change, build, job, store, editor, lapses>>

-----------------------------------------------------------------------------
(* activate: publish, or roll back to what was published before.           *)

Selected(c, rollback) == IF rollback THEN change[c].published ELSE change[c].ready

(* Mutant: a change that never was live may be rolled back to.             *)
HasBuildUnchecked(c, rollback) == TRUE

HasBuild(c, rollback) == Selected(c, rollback) # NoBuild

Activate(e, c, rollback) ==
    /\ editor[e].pc = "idle"
    /\ Free(c) /\ change[c].state = "ready" /\ HasBuild(c, rollback)
    /\ editor' = [editor EXCEPT ![e] = [pc |-> "locked", change |-> c,
                                        build |-> Selected(c, rollback),
                                        seen |-> NoChange]]
    /\ UNCHANGED <<change, build, job, store, worker, lapses, crashes>>

(* The published change as the statement's snapshot has it.                *)
FindPublished(e) ==
    /\ editor[e].pc = "locked"
    /\ \E d \in IF Published = {} THEN {NoChange} ELSE Published :
          editor' = [editor EXCEPT ![e].pc = "found", ![e].seen = d]
    /\ UNCHANGED <<change, build, job, store, worker, lapses, crashes>>

(* Once its lock is granted, the row is looked at again.                   *)
Current(e) == IF editor[e].seen \in Published THEN {editor[e].seen} ELSE {}

(* Mutant: nothing keeps a second change from being published.             *)
UniquePublishedUnchecked(e) == TRUE

(* The unique index on the published state.                                *)
UniquePublished(e) == Published \subseteq Current(e)

Switch(e) ==
    LET c == editor[e].change IN
    /\ editor[e].pc = "found"
    /\ editor[e].seen # NoChange => Free(editor[e].seen)
    /\ IF UniquePublished(e)
       THEN change' = [d \in Change |->
              IF d = c THEN [change[d] EXCEPT !.state = "published",
                                              !.published = editor[e].build]
              ELSE IF d \in Current(e) THEN [change[d] EXCEPT !.state = "ready"]
              ELSE change[d]]
       ELSE UNCHANGED change
    /\ editor' = [editor EXCEPT ![e] = IdleEditor]
    /\ UNCHANGED <<build, job, store, worker, lapses, crashes>>

EditorGone(e) ==
    /\ crashes > 0 /\ editor[e].pc # "idle"
    /\ crashes' = crashes - 1
    /\ editor' = [editor EXCEPT ![e] = IdleEditor]
    /\ UNCHANGED <<change, build, job, store, worker, lapses>>

-----------------------------------------------------------------------------
WorkerStep(w) ==
    BuildFails(w) \/ PutArtifact(w) \/ PutFails(w) \/ FinishSuccess(w)
        \/ FinishFailed(w)

EditorStep(e) == FindPublished(e) \/ Switch(e)

Next ==
    \/ \E c \in Change : StartChange(c) \/ EditFiles(c)
    \/ \E c \in Change, b \in Build : StartBuild(c, b)
    \/ \E w \in Worker : WorkerStep(w) \/ WorkerDies(w)
    \/ \E w \in Worker, b \in Build : Load(w, b)
    \/ \E e \in Editor : EditorStep(e) \/ EditorGone(e)
    \/ \E e \in Editor, c \in Change, r \in BOOLEAN : Activate(e, c, r)

Spec == Init /\ [][Next]_vars

(* Hatchet delivers a job until it is done, and requests run to their end. *)
Fairness ==
    /\ \A b \in Build : SF_vars(\E w \in Worker : Load(w, b))
    /\ \A w \in Worker : SF_vars(WorkerStep(w))
    /\ \A e \in Editor : SF_vars(EditorStep(e))

FairSpec == Spec /\ Fairness

-----------------------------------------------------------------------------
(* What building and publishing must do.                                   *)

BuildOf(c, b) == b # NoBuild => build[b].state = "ready" /\ build[b].change = c

(* There is never a moment with two published sets, however publish and    *)
(* rollback requests overlap, and what a change points at, to preview or   *)
(* to serve, is a build of its own that is ready, whatever builds end late *)
(* or twice.                                                               *)
OnePublishedReady ==
    /\ Cardinality(Published) <= 1
    /\ \A c \in Change : BuildOf(c, change[c].ready) /\ BuildOf(c, change[c].published)

(* Every build that was asked for becomes ready or failed.                 *)
EveryBuildEnds == \A b \in Build :
    build[b].state = "queued" ~> build[b].state \in {"ready", "failed"}

(* Ready builds are immutable: what is served under a ready build's paths  *)
(* is what was recorded of it.                                             *)
ReadyBuildsImmutable == \A b \in Build : build[b].state = "ready" =>
    \A p \in Path : store[b][p] = build[b].recorded

(* Once something is published, there is never a moment with none.         *)
NeverNonePublished == [][Published # {} => Published' # {}]_vars

(* A build is of the source it was asked for: the snapshot is immutable.   *)
BuildsItsSnapshot == \A b \in Build : build[b].state = "ready" =>
    build[b].recorded = build[b].asked
=============================================================================
