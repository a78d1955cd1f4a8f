----------------------------- MODULE MediaProofs ----------------------------
(***************************************************************************)
(* Proofs about Media for all files, runners, faults and restores.         *)
(***************************************************************************)
EXTENDS MediaProps, TLAPS

-----------------------------------------------------------------------------
(* Types.                                                                  *)

(* An execution that is not idle has a file.                               *)
RunnersAtWork == \A r \in Runner : runner[r].pc # "idle" => runner[r].file \in File

TInv == TypeOK /\ RunnersAtWork

LEMMA KeysTyped == \A f \in File : Source(f) \in Key /\ Variant(f) \in Key
BY DEF Source, Variant, Key, Part

LEMMA OwnedTyped == TypeOK => Owned \subseteq Key
BY KeysTyped DEF TypeOK, Owned

LEMMA InitTyped == Init => TInv
BY MediaAssumption DEF MediaAssumption, Init, TInv, TypeOK, RunnersAtWork, IdleRunner,
                       IdleCleaner, IdleSweep

LEMMA FaultTyped == ASSUME TypeOK, Fault PROVE faults' \in 0 .. Faults
BY MediaAssumption DEF MediaAssumption, TypeOK, Fault

(* What the life of a file writes.                                         *)
LEMMA FileTyped ==
    ASSUME TInv, NEW f \in File,
           UploadPuts(f) \/ UploadCommits(f) \/ UploadFails(f) \/ Trash(f) \/ Restore(f) \/ Purge(f)
    PROVE  TInv'
<1> USE KeysTyped DEF TInv, RunnersAtWork
<1>1. CASE UploadPuts(f)
  BY <1>1 DEF UploadPuts, bounds, TypeOK
<1>2. CASE UploadCommits(f)
  BY <1>2 DEF UploadCommits, bounds, TypeOK
<1>3. CASE UploadFails(f)
  BY <1>3, FaultTyped DEF UploadFails, TypeOK
<1>4. CASE Trash(f)
  BY <1>4 DEF Trash, bounds, TypeOK
<1>5. CASE Restore(f)
  BY <1>5, MediaAssumption DEF MediaAssumption, Restore, TypeOK
<1>6. CASE Purge(f)
  BY <1>6 DEF Purge, TaskKeys, bounds, TypeOK
<1> QED BY <1>1, <1>2, <1>3, <1>4, <1>5, <1>6

(* What a cleanup writes.                                                  *)
LEMMA CleanTyped ==
    ASSUME TInv, (\E f \in File : Clean(f)) \/ CleanerStep \/ CleanerStops
    PROVE  TInv'
<1> USE DEF TInv, RunnersAtWork
<1>1. ASSUME NEW f \in File, Clean(f) PROVE TInv'
  BY <1>1 DEF Clean, bounds, TypeOK
<1>2. ASSUME NEW k \in Key, CleanerRemoves(k) PROVE TInv'
  BY <1>2 DEF CleanerRemoves, bounds, TypeOK
<1>3. CASE CleanerCompletes
  BY <1>3 DEF CleanerCompletes, IdleCleaner, bounds, TypeOK
<1>4. CASE CleanerStops
  BY <1>4, FaultTyped DEF CleanerStops, IdleCleaner, TypeOK
<1> QED BY <1>1, <1>2, <1>3, <1>4 DEF CleanerStep

(* What a sweep writes.                                                    *)
LEMMA SweepTyped ==
    ASSUME TInv, SweepStep
    PROVE  TInv'
<1> USE DEF TInv, RunnersAtWork
<1>1. CASE SweepList
  BY <1>1 DEF SweepList, IdleSweep, bounds, TypeOK
<1>2. CASE SweepReadsRows
  <2>1. KnownRows \subseteq Key /\ Owned \subseteq Key
    BY OwnedTyped, KeysTyped DEF KnownRows, Pending
  <2> QED BY <1>2, <2>1 DEF SweepReadsRows, bounds, TypeOK
<1>3. CASE SweepReadsTasks
  <2>1. KnownTasks \subseteq Key
    BY DEF KnownTasks, Pending, TypeOK
  <2> QED BY <1>3, <2>1 DEF SweepReadsTasks, bounds, TypeOK
<1>4. CASE SweepReadsJobs
  <2>1. KnownJobs \subseteq Key
    BY KeysTyped DEF KnownJobs
  <2> QED BY <1>4, <2>1 DEF SweepReadsJobs, bounds, TypeOK
<1>5. ASSUME NEW k \in Key, SweepRemoves(k) PROVE TInv'
  BY <1>5 DEF SweepRemoves, bounds, TypeOK
<1>6. CASE SweepEnds
  BY <1>6, FaultTyped DEF SweepEnds, IdleSweep, TypeOK
<1> QED BY <1>1, <1>2, <1>3, <1>4, <1>5, <1>6 DEF SweepStep

(* What becomes of jobs and their executions between two results.          *)
LEMMA JobTyped ==
    ASSUME TInv, NEW f \in File,
           Discover(f) \/ Replay(f) \/ LeaseLapses(f) \/ \E r \in Runner : ClaimJob(r, f)
    PROVE  TInv'
<1> USE DEF TInv, RunnersAtWork
<1>1. CASE Discover(f)
  BY <1>1 DEF Discover, bounds, TypeOK
<1>2. CASE Replay(f)
  BY <1>2, FaultTyped DEF Replay, TypeOK
<1>3. CASE LeaseLapses(f)
  BY <1>3, FaultTyped DEF LeaseLapses, TypeOK
<1>4. ASSUME NEW r \in Runner, ClaimJob(r, f) PROVE TInv'
  BY <1>4, KeysTyped DEF ClaimJob, bounds, TypeOK
<1> QED BY <1>1, <1>2, <1>3, <1>4

JobAndRunner ==
    /\ job' \in [File -> [state : {"none", "open", "dead", "ended"},
                          runner : Runner \cup {NoRunner}]]
    /\ runner' \in [Runner -> [pc : {"idle", "load", "render", "put", "check",
                                     "insert", "discard", "undo"},
                               file : File \cup {Nothing}]]
    /\ RunnersAtWork'

LEMMA ResultTyped ==
    ASSUME TInv, NEW r \in Runner, runner[r].pc # "idle"
    PROVE  /\ CompleteClaim(r) => JobAndRunner
           /\ FailClaim(r) => JobAndRunner
           /\ Release(r) /\ UNCHANGED job => JobAndRunner
           /\ \A pc \in {"render", "put", "check", "insert", "discard", "undo"} :
                  Go(r, pc) /\ UNCHANGED job => JobAndRunner
<1> USE DEF TInv, TypeOK, RunnersAtWork, JobAndRunner
<1>1. CompleteClaim(r) => JobAndRunner
  BY DEF CompleteClaim, Release, IdleRunner
<1>2. FailClaim(r) => JobAndRunner
  BY DEF FailClaim, Release, IdleRunner
<1>3. Release(r) /\ UNCHANGED job => JobAndRunner
  BY DEF Release, IdleRunner
<1>4. ASSUME NEW pc \in {"render", "put", "check", "insert", "discard", "undo"},
             Go(r, pc), UNCHANGED job
      PROVE  JobAndRunner
  BY <1>4 DEF Go
<1> QED BY <1>1, <1>2, <1>3, <1>4

(* What an execution of a variant job writes.                              *)
LEMMA RunnerTyped ==
    ASSUME TInv, NEW r \in Runner, RunnerStep(r) \/ RunnerFails(r) \/ RunnerDies(r)
    PROVE  TInv'
<1>0. runner[r].pc # "idle" => runner[r].file \in File /\ Variant(runner[r].file) \in Key
  BY KeysTyped DEF TInv, RunnersAtWork
<1>1. CASE Load(r)
  <2>1. JobAndRunner
    BY <1>1, ResultTyped DEF Load
  <2> QED BY <1>1, <2>1 DEF Load, bounds, TInv, TypeOK, JobAndRunner
<1>2. CASE Render(r)
  <2>1. JobAndRunner
    BY <1>2, ResultTyped DEF Render
  <2> QED BY <1>2, <2>1 DEF Render, bounds, TInv, TypeOK, JobAndRunner
<1>3. CASE PutCandidate(r)
  <2>1. JobAndRunner
    BY <1>3, ResultTyped DEF PutCandidate
  <2> QED BY <1>0, <1>3, <2>1 DEF PutCandidate, bounds, TInv, TypeOK, JobAndRunner
<1>4. CASE Check(r)
  <2>1. JobAndRunner
    BY <1>4, ResultTyped DEF Check
  <2>2. faults' \in 0 .. Faults
    BY <1>4, FaultTyped DEF Check, TInv, TypeOK
  <2> QED BY <1>4, <2>1, <2>2 DEF Check, TInv, TypeOK, JobAndRunner
<1>5. CASE Insert(r)
  <2>1. JobAndRunner
    BY <1>5, ResultTyped DEF Insert
  <2> QED BY <1>0, <1>5, <2>1 DEF Insert, HasSource, HasRow, bounds, TInv, TypeOK, JobAndRunner
<1>6. CASE InsertFails(r)
  <2>1. JobAndRunner
    BY <1>6, ResultTyped DEF InsertFails
  <2>2. faults' \in 0 .. Faults
    BY <1>6, FaultTyped DEF InsertFails, TInv, TypeOK
  <2> QED BY <1>6, <2>1, <2>2 DEF InsertFails, TInv, TypeOK, JobAndRunner
<1>7. CASE Discard(r)
  <2>1. JobAndRunner
    BY <1>7, ResultTyped DEF Discard
  <2>2. faults' \in 0 .. Faults
    BY <1>7, FaultTyped DEF Discard, TInv, TypeOK
  <2> QED BY <1>7, <2>1, <2>2 DEF Discard, TInv, TypeOK, JobAndRunner
<1>8. CASE Undo(r)
  <2>1. JobAndRunner
    BY <1>8, ResultTyped DEF Undo
  <2>2. faults' \in 0 .. Faults
    BY <1>8, FaultTyped DEF Undo, TInv, TypeOK
  <2> QED BY <1>8, <2>1, <2>2 DEF Undo, TInv, TypeOK, JobAndRunner
<1>9. CASE RunnerFails(r)
  <2>1. JobAndRunner
    BY <1>9, ResultTyped DEF RunnerFails
  <2> QED BY <1>9, <2>1, FaultTyped DEF RunnerFails, TInv, TypeOK, JobAndRunner
<1>10. CASE RunnerDies(r)
  <2>1. JobAndRunner
    BY <1>10, ResultTyped DEF RunnerDies
  <2> QED BY <1>10, <2>1, FaultTyped DEF RunnerDies, TInv, TypeOK, JobAndRunner
<1> QED
  BY <1>1, <1>2, <1>3, <1>4, <1>5, <1>6, <1>7, <1>8, <1>9, <1>10 DEF RunnerStep

LEMMA StepTyped == TInv /\ [Next]_vars => TInv'
<1> SUFFICES ASSUME TInv, [Next]_vars PROVE TInv'
  OBVIOUS
<1>1. CASE UNCHANGED vars
  BY <1>1 DEF vars, TInv, TypeOK, RunnersAtWork
<1>2. CASE Next
  BY <1>2, FileTyped, CleanTyped, SweepTyped, JobTyped, RunnerTyped DEF Next
<1> QED BY <1>1, <1>2

(* Rows, jobs, executions and keys keep their types, and a variant has the *)
(* row of its file: what the foreign key and the order of a purge ensure.  *)
THEOREM TypeCorrect == Spec => []TypeOK
<1>1. Spec => []TInv
  BY InitTyped, StepTyped, PTL DEF Spec
<1>2. TInv => TypeOK
  BY DEF TInv
<1> QED BY <1>1, <1>2, PTL

-----------------------------------------------------------------------------
(* Rows keep their bytes.                                                  *)

BytesInv == /\ UploadHasBytes /\ CleanupOfGone /\ SweepOfExposed
            /\ RunnersUndisturbed /\ RowsKeepBytes

LEMMA InitKept == Init => BytesInv
BY DEF Init, BytesInv, UploadHasBytes, CleanupOfGone, Pending, SweepOfExposed, Undisturbed,
       RunnersUndisturbed, RowsKeepBytes, Owned, HasRow, IdleRunner, IdleCleaner, IdleSweep

(* Keys of different files differ, and so do the two keys of a file.       *)
LEMMA KeysDiffer ==
    \A f, g \in File : /\ Source(f) = Source(g) => f = g
                       /\ Variant(f) = Variant(g) => f = g
                       /\ Source(f) # Variant(g)
                       /\ Source(f)[1] = f /\ Variant(f)[1] = f
BY DEF Source, Variant

LEMMA FileKept ==
    ASSUME TInv, BytesInv, NEW f \in File,
           UploadPuts(f) \/ UploadCommits(f) \/ UploadFails(f) \/ Trash(f) \/ Restore(f) \/ Purge(f)
    PROVE  BytesInv'
<1> USE KeysDiffer DEF TInv, TypeOK, RunnersAtWork, BytesInv, UploadHasBytes, CleanupOfGone,
        Pending, SweepOfExposed, RunnersUndisturbed, Undisturbed, RowsKeepBytes, Owned, HasRow
<1>1. CASE UploadPuts(f)
  BY <1>1 DEF UploadPuts, bounds
<1>2. CASE UploadCommits(f)
  BY <1>2 DEF UploadCommits, bounds
<1>3. CASE UploadFails(f)
  BY <1>3 DEF UploadFails
<1>4. CASE Trash(f)
  BY <1>4 DEF Trash, bounds
<1>5. CASE Restore(f)
  BY <1>5 DEF Restore
<1>6. CASE Purge(f)
  BY <1>6 DEF Purge, TaskKeys, bounds
<1> QED BY <1>1, <1>2, <1>3, <1>4, <1>5, <1>6

LEMMA CleanKept ==
    ASSUME TInv, BytesInv, (\E f \in File : Clean(f)) \/ CleanerStep \/ CleanerStops
    PROVE  BytesInv'
<1> USE KeysDiffer DEF TInv, TypeOK, RunnersAtWork, BytesInv, UploadHasBytes, CleanupOfGone,
        Pending, SweepOfExposed, RunnersUndisturbed, Undisturbed, RowsKeepBytes, Owned, HasRow
<1>1. ASSUME NEW f \in File, Clean(f) PROVE BytesInv'
  BY <1>1 DEF Clean, bounds
<1>2. ASSUME NEW k \in Key, CleanerRemoves(k) PROVE BytesInv'
  <2>1. /\ file[k[1]] = "gone" /\ store' = store \ {k}
        /\ UNCHANGED <<file, variant, task, job, runner, sweep, exposed>>
    BY <1>2 DEF CleanerRemoves
  <2>2. \A f \in File : /\ file[f] # "gone" => Source(f) # k /\ Variant(f) # k
                        /\ f \in variant => Variant(f) # k
    BY <2>1
  <2>3. UploadHasBytes'
    BY <2>1, <2>2
  <2>4. CleanupOfGone' /\ SweepOfExposed'
    BY <1>2 DEF CleanerRemoves
  <2>5. RunnersUndisturbed'
    BY <2>1, <2>2
  <2>6. RowsKeepBytes'
    BY <2>1, <2>2
  <2> QED BY <2>3, <2>4, <2>5, <2>6
<1>3. CASE CleanerCompletes
  BY <1>3 DEF CleanerCompletes, IdleCleaner, bounds
<1>4. CASE CleanerStops
  BY <1>4 DEF CleanerStops, IdleCleaner
<1> QED BY <1>1, <1>2, <1>3, <1>4 DEF CleanerStep

LEMMA SweepKept ==
    ASSUME TInv, BytesInv, SweepStep
    PROVE  BytesInv'
<1> USE KeysDiffer DEF TInv, TypeOK, RunnersAtWork, BytesInv, UploadHasBytes, CleanupOfGone,
        Pending, SweepOfExposed, RunnersUndisturbed, Undisturbed, RowsKeepBytes, Owned, HasRow
<1>1. CASE SweepList
  BY <1>1 DEF SweepList, IdleSweep, bounds
<1>2. CASE SweepReadsRows
  BY <1>2 DEF SweepReadsRows, KnownRows, bounds
<1>3. CASE SweepReadsTasks
  BY <1>3 DEF SweepReadsTasks, bounds
<1>4. CASE SweepReadsJobs
  BY <1>4 DEF SweepReadsJobs, KnownJobs, bounds, Key, Part, Variant
<1>5. ASSUME NEW k \in Key, SweepRemoves(k) PROVE BytesInv'
  BY <1>5 DEF SweepRemoves, bounds
<1>6. CASE SweepEnds
  BY <1>6 DEF SweepEnds, IdleSweep
<1> QED BY <1>1, <1>2, <1>3, <1>4, <1>5, <1>6 DEF SweepStep

LEMMA JobKept ==
    ASSUME TInv, BytesInv, NEW f \in File,
           Discover(f) \/ Replay(f) \/ LeaseLapses(f) \/ \E r \in Runner : ClaimJob(r, f)
    PROVE  BytesInv'
<1> USE KeysDiffer DEF TInv, TypeOK, RunnersAtWork, BytesInv, UploadHasBytes, CleanupOfGone,
        Pending, SweepOfExposed, RunnersUndisturbed, Undisturbed, RowsKeepBytes, Owned, HasRow
<1>1. CASE Discover(f)
  BY <1>1 DEF Discover, bounds
<1>2. CASE Replay(f)
  BY <1>2 DEF Replay
<1>3. CASE LeaseLapses(f)
  BY <1>3 DEF LeaseLapses
<1>4. ASSUME NEW r \in Runner, ClaimJob(r, f) PROVE BytesInv'
  BY <1>4 DEF ClaimJob, AtWork, bounds
<1> QED BY <1>1, <1>2, <1>3, <1>4

(* What one execution does to itself and to its candidate leaves the       *)
(* others undisturbed.                                                     *)
LEMMA OthersUndisturbed ==
    ASSUME TInv, RunnersUndisturbed, NEW r \in Runner, runner[r].pc # "idle",
           UNCHANGED <<file, variant, exposed>>,
           NEW x, x.file \in {runner[r].file, Nothing},
           runner' = [runner EXCEPT ![r] = x],
           store' \in {store, store \ {Variant(runner[r].file)}}
    PROVE  \A q \in Runner \ {r} : runner'[q].pc # "idle" =>
               Variant(runner'[q].file) \in exposed' \/ Undisturbed(q)'
<1> SUFFICES ASSUME NEW q \in Runner \ {r}, runner'[q].pc # "idle",
                    Variant(runner'[q].file) \notin exposed'
             PROVE  Undisturbed(q)'
  OBVIOUS
<1>1. runner'[q] = runner[q] /\ \A t \in Runner \ {r} : runner'[t] = runner[t]
  BY DEF TInv, TypeOK
<1>2. runner'[r] = x
  BY DEF TInv, TypeOK
<1>3. runner[q].file \in File /\ runner[r].file \in File
  BY <1>1 DEF TInv, RunnersAtWork
<1>4. Undisturbed(q)
  BY <1>1 DEF RunnersUndisturbed
<1>5. runner[r].file # runner[q].file /\ x.file # runner[q].file
  BY <1>3, <1>4, MediaAssumption DEF MediaAssumption, Undisturbed
<1>6. \A t \in Runner \ {q} : runner'[t].file # runner'[q].file
  BY <1>1, <1>2, <1>4, <1>5 DEF Undisturbed
<1>7. Variant(runner[q].file) \in store => Variant(runner[q].file) \in store'
  BY <1>3, <1>5, KeysDiffer
<1> QED BY <1>1, <1>4, <1>6, <1>7 DEF Undisturbed

LEMMA RunnerKept ==
    ASSUME TInv, BytesInv, NEW r \in Runner, RunnerStep(r) \/ RunnerFails(r) \/ RunnerDies(r)
    PROVE  BytesInv'
<1> USE KeysDiffer DEF TInv, TypeOK, RunnersAtWork, BytesInv, UploadHasBytes, CleanupOfGone,
        Pending, SweepOfExposed, RunnersUndisturbed, Undisturbed, RowsKeepBytes, Owned, HasRow
<1> USE MediaAssumption DEF MediaAssumption, Release, IdleRunner, Go
<1>1. CASE Load(r)
  <2>1. UploadHasBytes' /\ CleanupOfGone' /\ SweepOfExposed'
    BY <1>1 DEF Load, CompleteClaim, bounds
  <2>2. RunnersUndisturbed'
    <3>1. PICK x \in {IdleRunner, [runner[r] EXCEPT !.pc = "render"]} :
              runner' = [runner EXCEPT ![r] = x]
      BY <1>1 DEF Load, CompleteClaim
    <3>2. \A q \in Runner \ {r} : runner'[q].pc # "idle" =>
              Variant(runner'[q].file) \in exposed' \/ Undisturbed(q)'
      BY <1>1, <3>1, OthersUndisturbed DEF Load, bounds
    <3>3. runner'[r].pc # "idle" => Variant(runner'[r].file) \in exposed' \/ Undisturbed(r)'
      BY <1>1, <3>1 DEF Load, bounds
    <3> QED BY <3>2, <3>3
  <2>3. RowsKeepBytes'
    BY <1>1 DEF Load, CompleteClaim, bounds
  <2> QED BY <2>1, <2>2, <2>3
<1>2. CASE Render(r)
  <2>1. UploadHasBytes' /\ CleanupOfGone' /\ SweepOfExposed'
    BY <1>2 DEF Render, FailClaim, bounds
  <2>2. RunnersUndisturbed'
    <3>1. PICK x \in {IdleRunner, [runner[r] EXCEPT !.pc = "put"]} :
              runner' = [runner EXCEPT ![r] = x]
      BY <1>2 DEF Render, FailClaim
    <3>2. \A q \in Runner \ {r} : runner'[q].pc # "idle" =>
              Variant(runner'[q].file) \in exposed' \/ Undisturbed(q)'
      BY <1>2, <3>1, OthersUndisturbed DEF Render, bounds
    <3>3. runner'[r].pc # "idle" => Variant(runner'[r].file) \in exposed' \/ Undisturbed(r)'
      <4>1. CASE x = IdleRunner
        BY <3>1, <4>1
      <4>2. CASE x = [runner[r] EXCEPT !.pc = "put"]
        <5>1. /\ runner'[r] = [runner[r] EXCEPT !.pc = "put"]
              /\ \A q \in Runner \ {r} : runner'[q] = runner[q]
          BY <3>1, <4>2
        <5>2. UNCHANGED <<file, variant, store, exposed>> /\ runner[r].pc = "render"
          BY <1>2 DEF Render
        <5> QED BY <5>1, <5>2
      <4> QED BY <3>1, <4>1, <4>2
    <3> QED BY <3>2, <3>3
  <2>3. RowsKeepBytes'
    BY <1>2 DEF Render, FailClaim, bounds
  <2> QED BY <2>1, <2>2, <2>3
<1>3. CASE PutCandidate(r)
  BY <1>3 DEF PutCandidate, bounds
<1>4. CASE Check(r)
  <2>1. UploadHasBytes' /\ CleanupOfGone' /\ SweepOfExposed'
    BY <1>4 DEF Check
  <2>2. RunnersUndisturbed'
    BY <1>4 DEF Check
  <2>3. RowsKeepBytes'
    BY <1>4 DEF Check
  <2> QED BY <2>1, <2>2, <2>3
<1>5. CASE Insert(r)
  BY <1>5 DEF Insert, HasSource, CompleteClaim, bounds
<1>6. CASE InsertFails(r)
  BY <1>6 DEF InsertFails
<1>7. CASE Discard(r)
  <2>1. UploadHasBytes' /\ CleanupOfGone' /\ SweepOfExposed'
    BY <1>7 DEF Discard, CompleteClaim, FailClaim
  <2>2. RunnersUndisturbed'
    <3>1. runner' = [runner EXCEPT ![r] = IdleRunner]
      BY <1>7 DEF Discard, CompleteClaim, FailClaim
    <3>2. \A q \in Runner \ {r} : runner'[q].pc # "idle" =>
              Variant(runner'[q].file) \in exposed' \/ Undisturbed(q)'
      BY <1>7, <3>1, OthersUndisturbed DEF Discard
    <3> QED BY <3>1, <3>2
  <2>3. RowsKeepBytes'
    BY <1>7 DEF Discard, CompleteClaim, FailClaim
  <2> QED BY <2>1, <2>2, <2>3
<1>8. CASE Undo(r)
  BY <1>8 DEF Undo, FailClaim
<1>9. CASE RunnerFails(r)
  BY <1>9 DEF RunnerFails, FailClaim
<1>10. CASE RunnerDies(r)
  BY <1>10 DEF RunnerDies
<1> QED
  BY <1>1, <1>2, <1>3, <1>4, <1>5, <1>6, <1>7, <1>8, <1>9, <1>10 DEF RunnerStep

LEMMA StepKept == TInv /\ BytesInv /\ [Next]_vars => BytesInv'
<1> SUFFICES ASSUME TInv, BytesInv, [Next]_vars PROVE BytesInv'
  OBVIOUS
<1>1. CASE UNCHANGED vars
  BY <1>1 DEF vars, BytesInv, UploadHasBytes, CleanupOfGone, Pending, SweepOfExposed,
              RunnersUndisturbed, Undisturbed, RowsKeepBytes, Owned, HasRow
<1>2. CASE Next
  BY <1>2, FileKept, CleanKept, SweepKept, JobKept, RunnerKept DEF Next
<1> QED BY <1>1, <1>2

(* No interleaving of uploads, runners, cleanups and sweeps takes bytes    *)
(* away from a row, unless its key is exposed.                             *)
THEOREM RowsKept == Spec => []RowsKeepBytes
<1>1. Init => TInv /\ BytesInv
  BY InitTyped, InitKept
<1>2. TInv /\ BytesInv /\ [Next]_vars => (TInv /\ BytesInv)'
  BY StepTyped, StepKept
<1>3. TInv /\ BytesInv => RowsKeepBytes
  BY DEF BytesInv
<1> QED BY <1>1, <1>2, <1>3, PTL DEF Spec
=============================================================================
