---------------------------- MODULE DesignProofs ----------------------------
(***************************************************************************)
(* Proofs about Design, for any number of changes, builds, deliveries,     *)
(* publish requests, artifacts, attempts, lapses and crashes.              *)
(***************************************************************************)
EXTENDS Design, FiniteSetTheorems, TLAPS

-----------------------------------------------------------------------------
(* Types.                                                                  *)

ChangeRow == [state : {"none", "writing", "building", "ready", "failed", "published"},
              ready : Build \cup {NoBuild}, published : Build \cup {NoBuild},
              source : Version]
BuildRow  == [state : {"none", "queued", "ready", "failed"},
              change : Change \cup {NoChange}, asked : Version, recorded : Version]
JobRow    == [state : {"none", "pending", "running", "done"},
              owner : Worker \cup {NoWorker}, attempts : Nat]
WorkerRow == [pc : Stages, build : Build \cup {NoBuild}, source : Version,
              put : 0 .. Len(Paths), attempt : Nat]
EditorRow == [pc : {"idle", "locked", "found"}, change : Change \cup {NoChange},
              build : Build \cup {NoBuild}, seen : Change \cup {NoChange}]

Live(row) == row.state = "published" => row.published \in Build

Tables ==
    /\ change \in [Change -> ChangeRow]
    /\ \A c \in Change : Live(change[c])
    /\ build \in [Build -> BuildRow]
    /\ job \in [Build -> JobRow]
    /\ store \in [Build -> [Path -> Version]]
    /\ worker \in [Worker -> WorkerRow]
    /\ editor \in [Editor -> EditorRow]
    /\ lapses \in 0 .. Lapses /\ crashes \in 0 .. Crashes

LEMMA Types == (TypeOK <=> Tables) /\ (TypeOK' <=> Tables')
BY DEF TypeOK, Tables, ChangeRow, BuildRow, JobRow, WorkerRow, EditorRow, Live

(* One row of a table is written.                                          *)
LEMMA Put ==
    ASSUME NEW S, NEW T, NEW f \in [S -> T], NEW x \in S, NEW v \in T
    PROVE  /\ [f EXCEPT ![x] = v] \in [S -> T]
           /\ [f EXCEPT ![x] = v][x] = v
           /\ \A y \in S : y # x => [f EXCEPT ![x] = v][y] = f[y]
OBVIOUS

(* What was asked for has a change, and whoever is busy works on rows that *)
(* there are.                                                              *)
References ==
    /\ \A b \in Build : job[b].state # "none" => build[b].change \in Change
    /\ \A w \in Worker : worker[w].pc # "idle" =>
           /\ worker[w].build \in Build
           /\ job[worker[w].build].state # "none"
    /\ \A w \in Worker : worker[w].pc = "loaded" => worker[w].put < Len(Paths)
    /\ \A e \in Editor : editor[e].pc # "idle" =>
           editor[e].change \in Change /\ editor[e].build \in Build

TInv == Tables /\ References

LEMMA Bounds == /\ Len(Paths) \in Nat \ {0}
                /\ \A i \in 1 .. Len(Paths) : Paths[i] \in Path
                /\ 0 \in Version
BY DesignAssumption DEF DesignAssumption, Version

LEMMA Blank ==
    /\ NewChange \in ChangeRow /\ NewBuild \in BuildRow /\ NewJob \in JobRow
    /\ IdleWorker \in WorkerRow /\ IdleEditor \in EditorRow
BY Bounds DEF NewChange, NewBuild, NewJob, IdleWorker, IdleEditor, Stages,
              ChangeRow, BuildRow, JobRow, WorkerRow, EditorRow

LEMMA TypeInit == Init => TInv
<1> SUFFICES ASSUME Init PROVE TInv
  OBVIOUS
<1>1. Tables
  BY Bounds, Blank, DesignAssumption DEF DesignAssumption, Init, Tables, Live, NewChange
<1> QED BY <1>1 DEF Init, TInv, References, NewJob, IdleWorker, IdleEditor

(* What a change's row becomes.                                            *)
LEMMA ChangeWritten ==
    ASSUME NEW r \in ChangeRow
    PROVE  /\ \A v \in Version : [NewChange EXCEPT !.state = "writing", !.source = v] \in ChangeRow
           /\ r.source < MaxSource => r.source + 1 \in Version
           /\ \A v \in Version :
                 [r EXCEPT !.state = "writing", !.ready = NoBuild, !.source = v] \in ChangeRow
           /\ [r EXCEPT !.state = "building", !.ready = NoBuild] \in ChangeRow
           /\ [r EXCEPT !.state = "failed", !.ready = NoBuild] \in ChangeRow
           /\ [r EXCEPT !.state = "ready"] \in ChangeRow
           /\ \A b \in Build : /\ [r EXCEPT !.state = "ready", !.ready = b] \in ChangeRow
                               /\ [r EXCEPT !.state = "published", !.published = b] \in ChangeRow
<1> USE DEF ChangeRow
<1>1. \A v \in Version : [NewChange EXCEPT !.state = "writing", !.source = v] \in ChangeRow
  BY DEF NewChange
<1>2. r.source < MaxSource => r.source + 1 \in Version
  BY DesignAssumption DEF DesignAssumption, Version
<1>3. \A v \in Version :
          [r EXCEPT !.state = "writing", !.ready = NoBuild, !.source = v] \in ChangeRow
  OBVIOUS
<1>4. /\ [r EXCEPT !.state = "building", !.ready = NoBuild] \in ChangeRow
      /\ [r EXCEPT !.state = "failed", !.ready = NoBuild] \in ChangeRow
      /\ [r EXCEPT !.state = "ready"] \in ChangeRow
  OBVIOUS
<1>5. \A b \in Build : /\ [r EXCEPT !.state = "ready", !.ready = b] \in ChangeRow
                       /\ [r EXCEPT !.state = "published", !.published = b] \in ChangeRow
  OBVIOUS
<1> QED BY <1>1, <1>2, <1>3, <1>4, <1>5

(* What writing a change and asking for a build write.                     *)
LEMMA WritingTyped ==
    ASSUME TInv, NEW c \in Change,
           StartChange(c) \/ EditFiles(c) \/ \E b \in Build : StartBuild(c, b)
    PROVE  TInv'
<1>1. Tables /\ change \in [Change -> ChangeRow] /\ change[c] \in ChangeRow
  BY DEF TInv, Tables
<1>2. ASSUME NEW v \in ChangeRow, Live(v), change' = [change EXCEPT ![c] = v],
             UNCHANGED <<build, job, store, worker, editor, lapses, crashes>>
      PROVE  TInv'
  <2>1. change' \in [Change -> ChangeRow] /\ \A d \in Change : Live(change'[d])
    BY <1>1, <1>2 DEF Tables
  <2> QED BY <1>1, <1>2, <2>1 DEF TInv, References, Tables
<1>3. CASE StartChange(c)
  <2>1. \A d \in Change : change[d].source \in Version
    BY <1>1 DEF ChangeRow
  <2>2. PICK v \in Version :
          change' = [change EXCEPT ![c] = [NewChange EXCEPT !.state = "writing", !.source = v]]
    BY <1>3, <2>1, Bounds DEF StartChange, Published
  <2>3. Live([NewChange EXCEPT !.state = "writing", !.source = v])
    BY DEF Live, NewChange
  <2> QED BY <1>1, <1>2, <1>3, <2>2, <2>3, ChangeWritten DEF StartChange
<1>4. CASE EditFiles(c)
  <2> DEFINE v == [change[c] EXCEPT !.state = "writing", !.ready = NoBuild,
                                    !.source = change[c].source + 1]
  <2>1. change' = [change EXCEPT ![c] = v] /\ change[c].source < MaxSource
    BY <1>1, <1>4 DEF EditFiles
  <2>2. v \in ChangeRow
    BY <1>1, <2>1, ChangeWritten
  <2>3. Live(v)
    BY <1>1 DEF Live, ChangeRow
  <2> QED BY <1>2, <1>4, <2>1, <2>2, <2>3 DEF EditFiles
<1>5. ASSUME NEW b \in Build, StartBuild(c, b) PROVE TInv'
  <2> DEFINE v == [change[c] EXCEPT !.state = "building", !.ready = NoBuild]
             n == [NewBuild EXCEPT !.state = "queued", !.change = c, !.asked = change[c].source]
             j == [job[b] EXCEPT !.state = "pending"]
  <2>1. /\ change' = [change EXCEPT ![c] = v] /\ build' = [build EXCEPT ![b] = n]
        /\ job' = [job EXCEPT ![b] = j]
        /\ UNCHANGED <<store, worker, editor, lapses, crashes>>
    BY <1>5 DEF StartBuild
  <2>2. v \in ChangeRow /\ Live(v)
    BY <1>1, ChangeWritten DEF Live, ChangeRow
  <2>3. n \in BuildRow /\ n.change = c
    BY <1>1, Blank DEF ChangeRow, BuildRow, NewBuild
  <2>4. j \in JobRow /\ j.state = "pending"
    BY <1>1 DEF Tables, JobRow
  <2> HIDE DEF v, n, j
  <2>5. /\ change' \in [Change -> ChangeRow] /\ \A d \in Change : Live(change'[d])
        /\ build' \in [Build -> BuildRow] /\ job' \in [Build -> JobRow]
    BY <1>1, <2>1, <2>2, <2>3, <2>4 DEF Tables
  <2>6. /\ build'[b].change = c /\ job'[b].state = "pending"
        /\ \A a \in Build : a # b => build'[a] = build[a] /\ job'[a] = job[a]
    BY <1>1, <2>1, <2>3, <2>4 DEF Tables
  <2>7. Tables'
    BY <1>1, <2>1, <2>5 DEF Tables
  <2> QED BY <2>1, <2>6, <2>7 DEF TInv, References
<1> QED BY <1>3, <1>4, <1>5

(* What a delivery writes about itself.                                    *)
LEMMA WorkerWritten ==
    ASSUME TInv, NEW w \in Worker, NEW v \in WorkerRow,
           worker' = [worker EXCEPT ![w] = v],
           UNCHANGED <<change, build, editor>>,
           job' \in [Build -> JobRow],
           \A b \in Build : job[b].state # "none" <=> job'[b].state # "none",
           store' \in [Build -> [Path -> Version]],
           lapses' \in 0 .. Lapses, crashes' \in 0 .. Crashes,
           v.pc # "idle" => v.build \in Build /\ job[v.build].state # "none",
           v.pc = "loaded" => v.put < Len(Paths)
    PROVE  TInv'
<1>1. /\ worker' \in [Worker -> WorkerRow] /\ worker'[w] = v
      /\ \A u \in Worker : u # w => worker'[u] = worker[u]
  BY Put DEF TInv, Tables
<1>2. Tables'
  BY <1>1 DEF TInv, Tables
<1>3. \A u \in Worker : worker'[u].pc # "idle" =>
          worker'[u].build \in Build /\ job'[worker'[u].build].state # "none"
  BY <1>1 DEF TInv, References
<1>4. \A u \in Worker : worker'[u].pc = "loaded" => worker'[u].put < Len(Paths)
  BY <1>1 DEF TInv, References
<1> QED BY <1>2, <1>3, <1>4 DEF TInv, References

LEMMA LoadTyped ==
    ASSUME TInv, NEW w \in Worker, NEW b \in Build, Load(w, b) PROVE TInv'
<1> DEFINE n == job[b].attempts + 1
           j == [state |-> "running", owner |-> w, attempts |-> n]
           v == [pc |-> "loaded", build |-> b, source |-> change[build[b].change].source,
                 put |-> 0, attempt |-> n]
<1>1. /\ job' = [job EXCEPT ![b] = j] /\ worker' = [worker EXCEPT ![w] = v]
      /\ UNCHANGED <<change, build, store, editor, crashes>>
  BY DEF Load
<1>2. job[b].state # "none" /\ job[b] \in JobRow
  BY DEF Load, Claimable, TInv, Tables
<1>3. change[build[b].change] \in ChangeRow
  BY <1>2 DEF TInv, Tables, References
<1>4. j \in JobRow /\ j.state = "running"
  BY <1>2 DEF JobRow
<1>5. v \in WorkerRow /\ v.pc = "loaded" /\ v.put < Len(Paths) /\ v.build = b
  BY <1>2, <1>3, Bounds DEF WorkerRow, Stages, ChangeRow, JobRow
<1>6. lapses' \in 0 .. Lapses
  BY DesignAssumption DEF DesignAssumption, Load, Claimable, Working, TInv, Tables
<1> HIDE DEF j, v
<1>7. job' \in [Build -> JobRow] /\ \A a \in Build : job[a].state # "none" <=> job'[a].state # "none"
  BY <1>1, <1>2, <1>4 DEF TInv, Tables
<1> QED BY <1>1, <1>2, <1>5, <1>6, <1>7, WorkerWritten DEF TInv, Tables

LEMMA BuildingTyped ==
    ASSUME TInv, NEW w \in Worker,
           BuildFails(w) \/ PutArtifact(w) \/ PutFails(w) \/ WorkerDies(w)
    PROVE  TInv'
<1>1. Tables /\ worker[w] \in WorkerRow
  BY DEF TInv, Tables
<1>2. worker[w].pc # "idle" =>
          worker[w].build \in Build /\ job[worker[w].build].state # "none"
  BY DEF TInv, References
<1>3. CASE BuildFails(w)
  <2> DEFINE v == [worker[w] EXCEPT !.pc = "failing"]
  <2>1. worker' = [worker EXCEPT ![w] = v] /\ worker[w].pc = "loaded"
        /\ UNCHANGED <<change, build, job, store, editor, lapses, crashes>>
    BY <1>3 DEF BuildFails
  <2>2. v \in WorkerRow /\ v.pc = "failing" /\ v.build = worker[w].build
    BY <1>1 DEF WorkerRow, Stages
  <2> QED BY <1>1, <1>2, <2>1, <2>2, WorkerWritten DEF Tables
<1>4. CASE PutArtifact(w)
  <2> DEFINE n == worker[w].put + 1
             pc == IF AllPut(n) THEN "stored" ELSE "loaded"
             v == [worker[w] EXCEPT !.put = n, !.pc = pc]
             row == [store[worker[w].build] EXCEPT ![Paths[n]] = worker[w].source]
  <2>1. /\ store' = [store EXCEPT ![worker[w].build] = row]
        /\ worker' = [worker EXCEPT ![w] = v]
        /\ worker[w].pc = "loaded" /\ worker[w].put < Len(Paths)
        /\ UNCHANGED <<change, build, job, editor, lapses, crashes>>
    BY <1>1, <1>4 DEF PutArtifact, TInv, References, AllPut, Tables
  <2>2. n \in 1 .. Len(Paths) /\ Paths[n] \in Path
    BY <1>1, <2>1, Bounds DEF WorkerRow
  <2>3. v \in WorkerRow /\ v.pc # "idle" /\ v.build = worker[w].build
        /\ (v.pc = "loaded" => v.put < Len(Paths))
    <3>1. pc \in {"stored", "loaded"} /\ (pc = "loaded" => n < Len(Paths)) /\ n \in 0 .. Len(Paths)
      BY <2>2, Bounds DEF AllPut
    <3> HIDE DEF pc, n
    <3> QED BY <1>1, <3>1 DEF WorkerRow, Stages
  <2>4. row \in [Path -> Version]
    BY <1>1, <1>2, <2>1, <2>2 DEF Tables, WorkerRow
  <2>5. store' \in [Build -> [Path -> Version]]
    BY <1>1, <1>2, <2>1, <2>4 DEF Tables
  <2> QED BY <1>1, <1>2, <2>1, <2>3, <2>5, WorkerWritten DEF Tables
<1>5. CASE PutFails(w)
  <2> DEFINE v == [worker[w] EXCEPT !.pc = "failing"]
             row == [p \in Path |-> IF \E i \in 1 .. worker[w].put : Paths[i] = p THEN 0
                                    ELSE store[worker[w].build][p]]
  <2>1. /\ store' = [store EXCEPT ![worker[w].build] = row]
        /\ worker' = [worker EXCEPT ![w] = v] /\ worker[w].pc = "loaded"
        /\ UNCHANGED <<change, build, job, editor, lapses, crashes>>
    BY <1>5 DEF PutFails
  <2>2. v \in WorkerRow /\ v.pc = "failing" /\ v.build = worker[w].build
    BY <1>1 DEF WorkerRow, Stages
  <2>3. row \in [Path -> Version]
    BY <1>1, <1>2, <2>1, Bounds DEF Tables
  <2>4. store' \in [Build -> [Path -> Version]]
    BY <1>1, <1>2, <2>1, <2>3 DEF Tables
  <2> QED BY <1>1, <1>2, <2>1, <2>2, <2>4, WorkerWritten DEF Tables
<1>6. CASE WorkerDies(w)
  <2>1. crashes' \in 0 .. Crashes
    BY <1>1, <1>6, DesignAssumption DEF DesignAssumption, WorkerDies, Tables
  <2>2. IdleWorker.pc = "idle" /\ IdleWorker \in WorkerRow
    BY Blank DEF IdleWorker
  <2> QED BY <1>1, <1>6, <2>1, <2>2, WorkerWritten DEF WorkerDies, GoHome, Tables
<1> QED BY <1>3, <1>4, <1>5, <1>6

(* What the end of a delivery writes: the rows of its build, or nothing.   *)
LEMMA FinishTyped ==
    ASSUME TInv, NEW w \in Worker, FinishSuccess(w) \/ FinishFailed(w)
    PROVE  TInv'
<1> DEFINE b == worker[w].build
           c == build[b].change
<1>1. Tables /\ worker[w].pc # "idle"
  BY DEF TInv, FinishSuccess, FinishFailed
<1>2. b \in Build /\ c \in Change /\ job[b].state # "none"
  BY <1>1 DEF TInv, References
<1>3. change[c] \in ChangeRow /\ build[b] \in BuildRow /\ job[b] \in JobRow
      /\ worker[w] \in WorkerRow
  BY <1>1, <1>2 DEF Tables
<1>4. worker' = [worker EXCEPT ![w] = IdleWorker] /\ UNCHANGED <<store, editor, lapses, crashes>>
  BY DEF FinishSuccess, FinishFailed, GoHome
<1>5. ASSUME NEW x \in ChangeRow, Live(x), NEW y \in BuildRow, y.change = c,
             NEW z \in JobRow, z.state # "none",
             change' = [change EXCEPT ![c] = x], build' = [build EXCEPT ![b] = y],
             job' = [job EXCEPT ![b] = z]
      PROVE  TInv'
  <2>1. /\ change' \in [Change -> ChangeRow] /\ \A d \in Change : Live(change'[d])
        /\ build' \in [Build -> BuildRow] /\ job' \in [Build -> JobRow]
    BY <1>1, <1>2, <1>5 DEF Tables
  <2>2. \A a \in Build : job'[a].state # "none" <=> job[a].state # "none"
    BY <1>1, <1>2, <1>5 DEF Tables
  <2>3. \A a \in Build : build'[a].change = build[a].change
    BY <1>1, <1>2, <1>5 DEF Tables
  <2>4. worker' \in [Worker -> WorkerRow] /\ IdleWorker.pc = "idle"
        /\ \A u \in Worker : worker'[u] = worker[u] \/ worker'[u] = IdleWorker
    BY <1>1, <1>4, Blank DEF Tables, IdleWorker
  <2>5. Tables'
    BY <1>1, <1>4, <2>1, <2>4 DEF Tables
  <2> QED BY <1>4, <2>2, <2>3, <2>4, <2>5 DEF TInv, References
<1>6. CASE UNCHANGED <<change, build, job>>
  BY <1>1, <1>2, <1>3, <1>4, <1>5, <1>6, Blank, WorkerWritten DEF Tables, IdleWorker
<1>7. CASE FinishSuccess(w) /\ MayRecord(w)
  <2> DEFINE x == [change[c] EXCEPT !.state = "ready", !.ready = b]
             y == [build[b] EXCEPT !.state = "ready", !.recorded = worker[w].source]
             z == [job[b] EXCEPT !.state = "done", !.owner = NoWorker]
  <2>1. /\ change' = [change EXCEPT ![c] = x] /\ build' = [build EXCEPT ![b] = y]
        /\ job' = [job EXCEPT ![b] = z]
    BY <1>7 DEF FinishSuccess, Done
  <2>2. x \in ChangeRow /\ Live(x)
    BY <1>2, <1>3, ChangeWritten DEF Live, ChangeRow
  <2>3. y \in BuildRow /\ y.change = c
    BY <1>3 DEF BuildRow, WorkerRow
  <2>4. z \in JobRow /\ z.state # "none"
    BY <1>3 DEF JobRow
  <2> QED BY <1>5, <2>1, <2>2, <2>3, <2>4
<1>8. CASE FinishFailed(w) /\ MayRecord(w) /\ worker[w].attempt >= MaxAttempts
  <2> DEFINE x == [change[c] EXCEPT !.state = "failed", !.ready = NoBuild]
             y == [build[b] EXCEPT !.state = "failed"]
             z == [job[b] EXCEPT !.state = "done", !.owner = NoWorker]
  <2>1. /\ change' = [change EXCEPT ![c] = x] /\ build' = [build EXCEPT ![b] = y]
        /\ job' = [job EXCEPT ![b] = z]
    BY <1>8 DEF FinishFailed, Done
  <2>2. x \in ChangeRow /\ Live(x)
    BY <1>3, ChangeWritten DEF Live, ChangeRow
  <2>3. y \in BuildRow /\ y.change = c
    BY <1>3 DEF BuildRow
  <2>4. z \in JobRow /\ z.state # "none"
    BY <1>3 DEF JobRow
  <2> QED BY <1>5, <2>1, <2>2, <2>3, <2>4
<1>9. CASE FinishFailed(w) /\ MayRecord(w) /\ ~(worker[w].attempt >= MaxAttempts)
  <2> DEFINE z == [job[b] EXCEPT !.state = "pending", !.owner = NoWorker]
  <2>1. job' = [job EXCEPT ![b] = z] /\ UNCHANGED <<change, build>>
    BY <1>9 DEF FinishFailed
  <2>2. z \in JobRow /\ z.state # "none"
    BY <1>3 DEF JobRow
  <2>3. job' \in [Build -> JobRow] /\ \A a \in Build : job[a].state # "none" <=> job'[a].state # "none"
    BY <1>1, <1>2, <2>1, <2>2 DEF Tables
  <2> QED BY <1>1, <1>4, <2>1, <2>3, Blank, WorkerWritten DEF Tables, IdleWorker
<1> QED BY <1>6, <1>7, <1>8, <1>9 DEF FinishSuccess, FinishFailed

(* What a request that publishes or rolls back writes.                     *)
LEMMA EditorWritten ==
    ASSUME TInv, NEW e \in Editor, NEW v \in EditorRow,
           v.pc # "idle" => v.change \in Change /\ v.build \in Build,
           editor' = [editor EXCEPT ![e] = v],
           UNCHANGED <<build, job, store, worker, lapses>>,
           change' \in [Change -> ChangeRow], \A c \in Change : Live(change'[c]),
           crashes' \in 0 .. Crashes
    PROVE  TInv'
<1>1. /\ editor' \in [Editor -> EditorRow] /\ editor'[e] = v
      /\ \A f \in Editor : f # e => editor'[f] = editor[f]
  BY Put DEF TInv, Tables
<1>2. Tables'
  BY <1>1 DEF TInv, Tables
<1> QED BY <1>1, <1>2 DEF TInv, References

LEMMA PublishingTyped ==
    ASSUME TInv, NEW e \in Editor,
           \/ \E c \in Change, rollback \in BOOLEAN : Activate(e, c, rollback)
           \/ EditorStep(e) \/ EditorGone(e)
    PROVE  TInv'
<1>1. Tables /\ editor[e] \in EditorRow
  BY DEF TInv, Tables
<1>2. editor[e].pc # "idle" => editor[e].change \in Change /\ editor[e].build \in Build
  BY DEF TInv, References
<1>3. ASSUME NEW c \in Change, NEW rollback \in BOOLEAN, Activate(e, c, rollback) PROVE TInv'
  <2> DEFINE v == [pc |-> "locked", change |-> c, build |-> Selected(c, rollback),
                   seen |-> NoChange]
  <2>1. Selected(c, rollback) \in Build
    BY <1>1, <1>3 DEF Activate, HasBuild, Selected, Tables, ChangeRow
  <2>2. v \in EditorRow /\ v.change \in Change /\ v.build \in Build
    BY <2>1 DEF EditorRow
  <2> QED BY <1>1, <1>3, <2>2, EditorWritten DEF Activate, Tables
<1>4. CASE FindPublished(e)
  <2>1. PICK d \in IF Published = {} THEN {NoChange} ELSE Published :
           editor' = [editor EXCEPT ![e].pc = "found", ![e].seen = d]
    BY <1>4 DEF FindPublished
  <2> DEFINE v == [editor[e] EXCEPT !.pc = "found", !.seen = d]
  <2>2. d \in Change \cup {NoChange}
    BY <2>1 DEF Published
  <2>3. v \in EditorRow /\ v.change = editor[e].change /\ v.build = editor[e].build
    BY <1>1, <2>2 DEF EditorRow
  <2>4. editor' = [editor EXCEPT ![e] = v] /\ editor[e].pc # "idle"
        /\ UNCHANGED <<change, build, job, store, worker, lapses, crashes>>
    BY <1>4, <2>1 DEF FindPublished
  <2> QED BY <1>1, <1>2, <2>3, <2>4, EditorWritten DEF Tables
<1>5. CASE Switch(e)
  <2>1. editor[e].change \in Change /\ editor[e].build \in Build
    BY <1>2, <1>5 DEF Switch
  <2>2. change' \in [Change -> ChangeRow] /\ \A d \in Change : Live(change'[d])
    <3>1. CASE UNCHANGED change
      BY <1>1, <3>1 DEF Tables
    <3>2. CASE UniquePublished(e)
      <4>1. ASSUME NEW d \in Change
            PROVE  /\ [change[d] EXCEPT !.state = "published", !.published = editor[e].build] \in ChangeRow
                   /\ [change[d] EXCEPT !.state = "ready"] \in ChangeRow
                   /\ change[d] \in ChangeRow
                   /\ Live([change[d] EXCEPT !.state = "published", !.published = editor[e].build])
                   /\ Live([change[d] EXCEPT !.state = "ready"])
                   /\ Live(change[d])
        <5>1. change[d] \in ChangeRow /\ Live(change[d])
          BY <1>1 DEF Tables
        <5> QED BY <2>1, <5>1, ChangeWritten DEF Live, ChangeRow
      <4> QED BY <1>5, <3>2, <4>1 DEF Switch
    <3> QED BY <1>5, <3>1, <3>2 DEF Switch
  <2>3. IdleEditor \in EditorRow /\ IdleEditor.pc = "idle"
    BY Blank DEF IdleEditor
  <2> QED BY <1>1, <1>5, <2>2, <2>3, EditorWritten DEF Switch, Tables
<1>6. CASE EditorGone(e)
  <2>1. IdleEditor \in EditorRow /\ IdleEditor.pc = "idle"
    BY Blank DEF IdleEditor
  <2>2. crashes' \in 0 .. Crashes
    BY <1>1, <1>6, DesignAssumption DEF DesignAssumption, EditorGone, Tables
  <2> QED BY <1>1, <1>6, <2>1, <2>2, EditorWritten DEF EditorGone, Tables
<1> QED BY <1>3, <1>4, <1>5, <1>6 DEF EditorStep

LEMMA TypeStep == TInv /\ [Next]_vars => TInv'
<1> SUFFICES ASSUME TInv, [Next]_vars PROVE TInv'
  OBVIOUS
<1>1. CASE Next
  BY <1>1, WritingTyped, LoadTyped, BuildingTyped, FinishTyped, PublishingTyped
     DEF Next, WorkerStep
<1>2. CASE UNCHANGED vars
  BY <1>2 DEF vars, TInv, Tables, References
<1> QED BY <1>1, <1>2

(* Changes, builds, their jobs, the store and whoever works on them keep   *)
(* to the rows and places the code knows, and what is published has a      *)
(* build, whatever overlaps, lapses or dies.                               *)
THEOREM TypeCorrect == Spec => []TypeOK
<1>1. TInv => TypeOK
  BY Types DEF TInv
<1> QED BY <1>1, TypeInit, TypeStep, PTL DEF Spec

-----------------------------------------------------------------------------
(* What is published.                                                      *)

(* What a change or a request that publishes it points at is a build of    *)
(* the change that is ready.                                               *)
ReadyOf(builds, c, b) == b # NoBuild => builds[b].state = "ready" /\ builds[b].change = c

ChangesReady == \A c \in Change :
    ReadyOf(build, c, change[c].ready) /\ ReadyOf(build, c, change[c].published)

EditorsReady == \A e \in Editor :
    editor[e].pc # "idle" => ReadyOf(build, editor[e].change, editor[e].build)

AtMostOne == \A c, d \in Published : c = d

PInv == TInv /\ ChangesReady /\ EditorsReady /\ AtMostOne

LEMMA OneIsOne == AtMostOne => Cardinality(Published) <= 1
<1> SUFFICES ASSUME AtMostOne PROVE Cardinality(Published) <= 1
  OBVIOUS
<1>1. CASE Published = {}
  BY <1>1, FS_EmptySet
<1>2. CASE Published # {}
  <2> PICK c \in Published : TRUE
    BY <1>2
  <2>1. Published = {c}
    BY DEF AtMostOne
  <2> QED BY <2>1, FS_Singleton
<1> QED BY <1>1, <1>2

(* A build that is ready stays as it is: nothing asks for it again, and a  *)
(* delivery that comes second records nothing.                             *)
LEMMA ReadyStays ==
    ASSUME TInv, [Next]_vars, NEW b \in Build, build[b].state = "ready"
    PROVE  build'[b] = build[b]
<1>0. build \in [Build -> BuildRow]
  BY DEF TInv, Tables
<1>1. ASSUME NEW c \in Change, NEW a \in Build, StartBuild(c, a) PROVE build'[b] = build[b]
  BY <1>0, <1>1 DEF StartBuild
<1>2. ASSUME NEW w \in Worker, FinishSuccess(w) PROVE build'[b] = build[b]
  <2>1. MayRecord(w) => worker[w].build # b
    BY DEF MayRecord, StillQueued
  <2> QED BY <1>0, <1>2, <2>1 DEF FinishSuccess
<1>3. ASSUME NEW w \in Worker, FinishFailed(w) PROVE build'[b] = build[b]
  <2>1. MayRecord(w) => worker[w].build # b
    BY DEF MayRecord, StillQueued
  <2> QED BY <1>0, <1>3, <2>1 DEF FinishFailed
<1>4. CASE UNCHANGED build
  BY <1>4
<1> QED BY <1>1, <1>2, <1>3, <1>4
        DEF Next, vars, WorkerStep, EditorStep, StartChange, EditFiles, Load, BuildFails,
            PutArtifact, PutFails, WorkerDies, Activate, FindPublished, Switch, EditorGone

LEMMA ReadyKept ==
    ASSUME TInv, [Next]_vars, NEW c, NEW b \in Build \cup {NoBuild}, ReadyOf(build, c, b)
    PROVE  ReadyOf(build', c, b)
BY ReadyStays DEF ReadyOf

(* A change keeps a pointer, drops it, or gets one to a ready build.       *)
LEMMA ChangesStep ==
    ASSUME PInv, [Next]_vars PROVE ChangesReady'
<1>0. TInv /\ Tables /\ change \in [Change -> ChangeRow] /\ build \in [Build -> BuildRow]
  BY DEF PInv, TInv, Tables
<1>1. \A c \in Change : /\ ReadyOf(build', c, change[c].ready)
                        /\ ReadyOf(build', c, change[c].published)
  BY <1>0, ReadyKept DEF PInv, ChangesReady, ChangeRow
<1>2. \A c \in Change : ReadyOf(build', c, NoBuild)
  BY DEF ReadyOf
<1>3. ASSUME \A c \in Change : /\ change'[c].ready \in {NoBuild, change[c].ready}
                               /\ change'[c].published \in {NoBuild, change[c].published}
      PROVE  ChangesReady'
  BY <1>1, <1>2, <1>3 DEF ChangesReady
<1>4. ASSUME NEW c \in Change, StartChange(c) \/ EditFiles(c) \/ \E b \in Build : StartBuild(c, b)
      PROVE  ChangesReady'
  <2>1. CASE StartChange(c)
    BY <1>0, <1>3, <2>1 DEF StartChange, NewChange
  <2>2. CASE EditFiles(c)
    <3>1. \A d \in Change : /\ change'[d].ready \in {NoBuild, change[d].ready}
                            /\ change'[d].published = change[d].published
      BY <1>0, <2>2 DEF EditFiles, ChangeRow
    <3> QED BY <1>3, <3>1
  <2>3. ASSUME NEW b \in Build, StartBuild(c, b) PROVE ChangesReady'
    <3>1. \A d \in Change : /\ change'[d].ready \in {NoBuild, change[d].ready}
                            /\ change'[d].published = change[d].published
      BY <1>0, <2>3 DEF StartBuild, ChangeRow
    <3> QED BY <1>3, <3>1
  <2> QED BY <1>4, <2>1, <2>2, <2>3
<1>5. ASSUME NEW w \in Worker, FinishSuccess(w) \/ FinishFailed(w) PROVE ChangesReady'
  <2> DEFINE b == worker[w].build
             c == build[b].change
  <2>1. b \in Build /\ c \in Change
    BY <1>0, <1>5 DEF FinishSuccess, FinishFailed, TInv, References
  <2>2. CASE FinishSuccess(w) /\ MayRecord(w)
    <3>1. /\ build'[b].state = "ready" /\ build'[b].change = c
          /\ change'[c].ready = b /\ change'[c].published = change[c].published
          /\ \A d \in Change : d # c => change'[d] = change[d]
      <4>1. /\ change' = [change EXCEPT ![c] = [change[c] EXCEPT !.state = "ready", !.ready = b]]
            /\ build' = [build EXCEPT ![b] = [build[b] EXCEPT !.state = "ready",
                                                              !.recorded = worker[w].source]]
        BY <2>2 DEF FinishSuccess
      <4>2. change[c] \in ChangeRow /\ build[b] \in BuildRow
        BY <1>0, <2>1
      <4>3. change'[c] = [change[c] EXCEPT !.state = "ready", !.ready = b]
            /\ build'[b] = [build[b] EXCEPT !.state = "ready", !.recorded = worker[w].source]
            /\ \A d \in Change : d # c => change'[d] = change[d]
        BY <1>0, <2>1, <4>1
      <4> QED BY <4>2, <4>3 DEF ChangeRow, BuildRow
    <3>2. ReadyOf(build', c, b)
      BY <3>1 DEF ReadyOf
    <3> HIDE DEF b, c
    <3> QED BY <1>1, <2>1, <3>1, <3>2 DEF ChangesReady
  <2>3. CASE FinishFailed(w) /\ MayRecord(w) /\ worker[w].attempt >= MaxAttempts
    <3>1. \A d \in Change : /\ change'[d].ready \in {NoBuild, change[d].ready}
                            /\ change'[d].published = change[d].published
      <4>1. change' = [change EXCEPT ![c] = [change[c] EXCEPT !.state = "failed", !.ready = NoBuild]]
        BY <2>3 DEF FinishFailed
      <4>2. change[c] \in ChangeRow
        BY <1>0, <2>1
      <4>3. change'[c] = [change[c] EXCEPT !.state = "failed", !.ready = NoBuild]
            /\ \A d \in Change : d # c => change'[d] = change[d]
        BY <1>0, <2>1, <4>1
      <4>4. change'[c].ready = NoBuild /\ change'[c].published = change[c].published
        BY <4>2, <4>3 DEF ChangeRow
      <4> QED BY <4>3, <4>4
    <3> QED BY <1>3, <3>1
  <2>4. CASE UNCHANGED change
    BY <1>3, <2>4
  <2> QED BY <1>5, <2>2, <2>3, <2>4 DEF FinishSuccess, FinishFailed
<1>6. ASSUME NEW e \in Editor, Switch(e) PROVE ChangesReady'
  <2>1. CASE UNCHANGED change
    BY <1>3, <2>1
  <2>2. CASE UniquePublished(e)
    <3>1. editor[e].pc # "idle" /\ editor[e].build \in Build
      BY <1>0, <1>6 DEF Switch, TInv, References
    <3>2. ReadyOf(build', editor[e].change, editor[e].build)
      BY <1>0, <3>1, ReadyKept DEF PInv, EditorsReady
    <3>3. \A d \in Change : /\ change'[d].ready = change[d].ready
                            /\ \/ change'[d].published = change[d].published
                               \/ d = editor[e].change /\ change'[d].published = editor[e].build
      <4> SUFFICES ASSUME NEW d \in Change
                   PROVE  /\ change'[d].ready = change[d].ready
                          /\ \/ change'[d].published = change[d].published
                             \/ d = editor[e].change /\ change'[d].published = editor[e].build
        OBVIOUS
      <4>1. change[d] \in ChangeRow
        BY <1>0
      <4>2. \/ /\ d = editor[e].change
               /\ change'[d] = [change[d] EXCEPT !.state = "published", !.published = editor[e].build]
            \/ change'[d] = [change[d] EXCEPT !.state = "ready"]
            \/ change'[d] = change[d]
        BY <1>6, <2>2 DEF Switch
      <4> QED BY <4>1, <4>2 DEF ChangeRow
    <3> QED BY <1>1, <3>2, <3>3 DEF ChangesReady
  <2> QED BY <1>6, <2>1, <2>2 DEF Switch
<1>7. CASE UNCHANGED change
  BY <1>3, <1>7
<1> QED BY <1>4, <1>5, <1>6, <1>7
        DEF Next, vars, WorkerStep, EditorStep, Load, BuildFails, PutArtifact, PutFails,
            WorkerDies, Activate, FindPublished, EditorGone

(* A request locks a change with a build of it, and keeps both until it is *)
(* done.                                                                   *)
LEMMA EditorsStep ==
    ASSUME PInv, [Next]_vars PROVE EditorsReady'
<1>0. TInv /\ Tables /\ editor \in [Editor -> EditorRow] /\ change \in [Change -> ChangeRow]
  BY DEF PInv, TInv, Tables
<1>1. \A e \in Editor : editor[e].pc # "idle" =>
          ReadyOf(build', editor[e].change, editor[e].build)
  BY <1>0, ReadyKept DEF PInv, EditorsReady, EditorRow
<1>2. ASSUME \A e \in Editor : editor'[e].pc # "idle" =>
                 /\ editor[e].pc # "idle" /\ editor'[e].change = editor[e].change
                 /\ editor'[e].build = editor[e].build
      PROVE  EditorsReady'
  BY <1>1, <1>2 DEF EditorsReady
<1>3. ASSUME NEW e \in Editor, NEW c \in Change, NEW rollback \in BOOLEAN,
             Activate(e, c, rollback)
      PROVE  EditorsReady'
  <2>1. Selected(c, rollback) \in Build \cup {NoBuild}
    BY <1>0 DEF Selected, ChangeRow
  <2>2. ReadyOf(build', c, Selected(c, rollback))
    BY <1>0, <2>1, ReadyKept DEF PInv, ChangesReady, Selected
  <2>3. /\ editor'[e].change = c /\ editor'[e].build = Selected(c, rollback)
        /\ \A f \in Editor : f # e => editor'[f] = editor[f]
    BY <1>0, <1>3 DEF Activate
  <2> QED BY <1>1, <2>2, <2>3 DEF EditorsReady
<1>4. ASSUME NEW e \in Editor, FindPublished(e) PROVE EditorsReady'
  <2>1. \A f \in Editor : /\ editor'[f].change = editor[f].change
                          /\ editor'[f].build = editor[f].build
                          /\ editor'[f].pc # "idle" => editor[f].pc # "idle"
    BY <1>0, <1>4 DEF FindPublished, EditorRow
  <2> QED BY <1>2, <2>1
<1>5. ASSUME NEW e \in Editor, Switch(e) \/ EditorGone(e) PROVE EditorsReady'
  <2>1. \A f \in Editor : editor'[f] = editor[f] \/ editor'[f].pc = "idle"
    <3>1. editor' = [editor EXCEPT ![e] = IdleEditor]
      BY <1>5 DEF Switch, EditorGone
    <3> QED BY <1>0, <3>1 DEF IdleEditor
  <2> QED BY <1>2, <2>1
<1>6. CASE UNCHANGED editor
  BY <1>2, <1>6
<1> QED BY <1>3, <1>4, <1>5, <1>6
        DEF Next, vars, WorkerStep, EditorStep, StartChange, EditFiles, StartBuild, Load,
            BuildFails, PutArtifact, PutFails, FinishSuccess, FinishFailed, WorkerDies

(* Only a switch publishes, and then nothing else is published.            *)
LEMMA OneStep ==
    ASSUME PInv, [Next]_vars PROVE AtMostOne'
<1>0. change \in [Change -> ChangeRow] /\ TInv /\ build \in [Build -> BuildRow]
  BY DEF PInv, TInv, Tables
<1>1. ASSUME Published' \subseteq Published PROVE AtMostOne'
  BY <1>1 DEF PInv, AtMostOne
<1>2. ASSUME \A c \in Change : change'[c].state \in {change[c].state, "writing", "building",
                                                      "ready", "failed"}
      PROVE  AtMostOne'
  BY <1>1, <1>2 DEF Published
<1>3. ASSUME NEW c \in Change, StartChange(c) \/ EditFiles(c) \/ \E b \in Build : StartBuild(c, b)
      PROVE  AtMostOne'
  <2>1. \A d \in Change : change'[d].state \in {change[d].state, "writing", "building"}
    <3>1. \/ \E v \in ChangeRow : change' = [change EXCEPT ![c] = v] /\ v.state = "writing"
          \/ \E v \in ChangeRow : change' = [change EXCEPT ![c] = v] /\ v.state = "building"
      <4>1. change[c] \in ChangeRow
        BY <1>0
      <4>2. CASE StartChange(c)
        <5>1. \A d \in Change : change[d].source \in Version
          BY <1>0 DEF ChangeRow
        <5>2. PICK v \in Version :
                change' = [change EXCEPT ![c] = [NewChange EXCEPT !.state = "writing", !.source = v]]
          BY <4>2, <5>1, Bounds DEF StartChange, Published
        <5>3. [NewChange EXCEPT !.state = "writing", !.source = v] \in ChangeRow
              /\ [NewChange EXCEPT !.state = "writing", !.source = v].state = "writing"
          BY <4>1, ChangeWritten DEF NewChange
        <5> QED BY <5>2, <5>3
      <4>3. CASE EditFiles(c)
        <5> DEFINE v == [change[c] EXCEPT !.state = "writing", !.ready = NoBuild,
                                          !.source = change[c].source + 1]
        <5>1. change' = [change EXCEPT ![c] = v] /\ change[c].source < MaxSource
          BY <4>3 DEF EditFiles
        <5>2. v \in ChangeRow /\ v.state = "writing"
          BY <4>1, <5>1, ChangeWritten DEF ChangeRow
        <5> QED BY <5>1, <5>2
      <4>4. ASSUME NEW b \in Build, StartBuild(c, b)
            PROVE  \E v \in ChangeRow : change' = [change EXCEPT ![c] = v] /\ v.state = "building"
        <5> DEFINE v == [change[c] EXCEPT !.state = "building", !.ready = NoBuild]
        <5>1. change' = [change EXCEPT ![c] = v]
          BY <4>4 DEF StartBuild
        <5>2. v \in ChangeRow /\ v.state = "building"
          BY <4>1, ChangeWritten DEF ChangeRow
        <5> QED BY <5>1, <5>2
      <4> QED BY <1>3, <4>2, <4>3, <4>4
    <3> QED BY <1>0, <3>1
  <2> QED BY <1>2, <2>1
<1>4. ASSUME NEW w \in Worker, FinishSuccess(w) \/ FinishFailed(w) PROVE AtMostOne'
  <2>1. build[worker[w].build].change \in Change
    BY <1>0, <1>4 DEF FinishSuccess, FinishFailed, TInv, References
  <2>2. \A d \in Change : change'[d].state \in {change[d].state, "ready", "failed"}
    <3> DEFINE c == build[worker[w].build].change
    <3>1. change[c] \in ChangeRow
      BY <1>0, <2>1
    <3>2. \/ UNCHANGED change
          \/ change' = [change EXCEPT ![c] = [change[c] EXCEPT !.state = "ready",
                                                               !.ready = worker[w].build]]
          \/ change' = [change EXCEPT ![c] = [change[c] EXCEPT !.state = "failed",
                                                               !.ready = NoBuild]]
      BY <1>4 DEF FinishSuccess, FinishFailed
    <3>3. /\ [change[c] EXCEPT !.state = "ready", !.ready = worker[w].build].state = "ready"
          /\ [change[c] EXCEPT !.state = "failed", !.ready = NoBuild].state = "failed"
      BY <3>1 DEF ChangeRow
    <3> HIDE DEF c
    <3> QED BY <1>0, <3>2, <3>3
  <2> QED BY <1>2, <2>2
<1>5. ASSUME NEW e \in Editor, Switch(e) PROVE AtMostOne'
  <2>1. CASE UNCHANGED change
    BY <1>2, <2>1
  <2>2. CASE UniquePublished(e)
    <3>1. \A d \in Change : change'[d].state = "published" => d = editor[e].change
      <4> SUFFICES ASSUME NEW d \in Change, d # editor[e].change
                   PROVE  change'[d].state # "published"
        OBVIOUS
      <4>1. CASE d \in Current(e)
        BY <1>0, <1>5, <2>2, <4>1 DEF Switch, ChangeRow
      <4>2. CASE d \notin Current(e)
        BY <1>0, <1>5, <2>2, <4>2 DEF Switch, UniquePublished, Published
      <4> QED BY <4>1, <4>2
    <3> QED BY <3>1 DEF AtMostOne, Published
  <2> QED BY <1>5, <2>1, <2>2 DEF Switch
<1>6. CASE UNCHANGED change
  BY <1>2, <1>6
<1> QED BY <1>3, <1>4, <1>5, <1>6
        DEF Next, vars, WorkerStep, EditorStep, Load, BuildFails, PutArtifact, PutFails,
            WorkerDies, Activate, FindPublished, EditorGone

LEMMA PublishedInit == Init => PInv
BY TypeInit DEF Init, PInv, ChangesReady, EditorsReady, ReadyOf, AtMostOne, Published,
                NewChange, IdleEditor

(* Publish and rollback requests that overlap, builds that end late or     *)
(* twice and processes that die never leave two published changes, or a    *)
(* pointer to a build that is not ready or of another change.              *)
THEOREM PublishedOnce == Spec => []OnePublishedReady
<1>1. PInv => OnePublishedReady
  BY OneIsOne DEF PInv, ChangesReady, ReadyOf, OnePublishedReady, BuildOf
<1>2. PInv /\ [Next]_vars => PInv'
  BY TypeStep, ChangesStep, EditorsStep, OneStep DEF PInv
<1> QED BY <1>1, <1>2, PublishedInit, PTL DEF Spec

-----------------------------------------------------------------------------
(* What a ready build serves, while leases outlast the builds they cover.  *)

(* A build is queued as long as its job is open, and who works on one has  *)
(* its claim: then nobody else can claim it, and nobody works on a build   *)
(* that has ended.                                                         *)
Claimed ==
    /\ \A b \in Build : job[b].state \in {"pending", "running"} <=> build[b].state = "queued"
    /\ \A b \in Build : job[b].state = "running" => job[b].owner \in Worker
    /\ \A w \in Worker : worker[w].pc # "idle" =>
           job[worker[w].build].state = "running" /\ job[worker[w].build].owner = w

(* What was put so far is in the store.                                    *)
PutSoFar ==
    \A w \in Worker :
        /\ worker[w].pc \in {"loaded", "stored"} =>
               \A i \in 1 .. worker[w].put : store[worker[w].build][Paths[i]] = worker[w].source
        /\ worker[w].pc = "stored" => worker[w].put = Len(Paths)

IInv == TInv /\ Claimed /\ PutSoFar /\ ReadyBuildsImmutable

LEMMA ImmutableInit == Init => IInv
BY TypeInit DEF Init, IInv, Claimed, PutSoFar, ReadyBuildsImmutable, NewJob, NewBuild, IdleWorker

LEMMA NoLapse == ASSUME Lapses = 0, TInv PROVE lapses = 0
BY DEF TInv, Tables

(* Two deliveries at work are at work on two builds.                       *)
LEMMA OthersApart ==
    ASSUME IInv, NEW u \in Worker, NEW w \in Worker, u # w,
           worker[u].pc # "idle", worker[w].pc # "idle"
    PROVE  worker[u].build # worker[w].build
BY DEF IInv, Claimed

LEMMA StartsImmutable ==
    ASSUME IInv, NEW c \in Change, NEW b \in Build, StartBuild(c, b) PROVE IInv'
<1>0. TInv /\ TInv' /\ Tables /\ Tables'
  BY WritingTyped DEF IInv, TInv
<1>1. /\ build'[b].state = "queued" /\ job'[b].state = "pending" /\ build[b].state = "none"
      /\ \A a \in Build : a # b => build'[a] = build[a] /\ job'[a] = job[a]
      /\ UNCHANGED <<store, worker>>
  <2>1. /\ build' = [build EXCEPT ![b] = [NewBuild EXCEPT !.state = "queued", !.change = c,
                                                        !.asked = change[c].source]]
        /\ job' = [job EXCEPT ![b] = [job[b] EXCEPT !.state = "pending"]]
        /\ build[b].state = "none" /\ UNCHANGED <<store, worker>>
    BY DEF StartBuild
  <2>2. job[b] \in JobRow
    BY <1>0 DEF Tables
  <2> QED BY <1>0, <2>1, <2>2 DEF Tables, NewBuild, JobRow
<1>2. \A w \in Worker : worker[w].pc # "idle" => worker[w].build \in Build /\ worker[w].build # b
  BY <1>1 DEF IInv, Claimed, TInv, References
<1>3. Claimed'
  BY <1>1, <1>2 DEF IInv, Claimed
<1>4. PutSoFar' /\ ReadyBuildsImmutable'
  BY <1>1 DEF IInv, PutSoFar, ReadyBuildsImmutable
<1> QED BY <1>0, <1>3, <1>4 DEF IInv

(* Nobody at work is robbed: a job can only be claimed while nobody works  *)
(* on its build.                                                           *)
LEMMA LoadImmutable ==
    ASSUME Lapses = 0, IInv, NEW w \in Worker, NEW b \in Build, Load(w, b) PROVE IInv'
<1>0. TInv /\ TInv' /\ Tables /\ Tables'
  BY LoadTyped DEF IInv, TInv
<1>1. /\ job'[b] = [state |-> "running", owner |-> w, attempts |-> job[b].attempts + 1]
      /\ worker'[w].pc = "loaded" /\ worker'[w].build = b /\ worker'[w].put = 0
      /\ \A a \in Build : a # b => job'[a] = job[a]
      /\ \A u \in Worker : u # w => worker'[u] = worker[u]
      /\ worker[w].pc = "idle" /\ UNCHANGED <<build, store>>
  BY <1>0 DEF Load, Tables
<1>2. job[b].state \in {"pending", "running"}
  BY DEF Load, Claimable
<1>3. \A u \in Worker : worker[u].pc # "idle" => worker[u].build # b
  <2> SUFFICES ASSUME NEW u \in Worker, worker[u].pc # "idle", worker[u].build = b PROVE FALSE
    OBVIOUS
  <2>1. job[b].state = "running" /\ job[b].owner = u
    BY DEF IInv, Claimed
  <2>2. lapses = 0
    BY <1>0, NoLapse
  <2> QED BY <2>1, <2>2 DEF Load, Claimable, Working
<1>4. \A u \in Worker : worker[u].pc # "idle" => worker[u].build \in Build
  BY <1>0 DEF TInv, References
<1>5. Claimed'
  BY <1>1, <1>2, <1>3, <1>4 DEF IInv, Claimed
<1>6. PutSoFar'
  BY <1>1 DEF IInv, PutSoFar
<1>7. ReadyBuildsImmutable'
  BY <1>1 DEF IInv, ReadyBuildsImmutable
<1> QED BY <1>0, <1>5, <1>6, <1>7 DEF IInv

(* Artifacts are put and removed under the paths of a build that is still  *)
(* queued, and of which nobody else puts any.                              *)
LEMMA BuildingImmutable ==
    ASSUME IInv, NEW w \in Worker,
           BuildFails(w) \/ PutArtifact(w) \/ PutFails(w) \/ WorkerDies(w)
    PROVE  IInv'
<1>0. TInv /\ TInv' /\ Tables /\ Tables'
  BY BuildingTyped DEF IInv, TInv
<1>1. /\ worker[w].pc # "idle" /\ worker[w].build \in Build /\ UNCHANGED <<build, job>>
      /\ worker[w] \in WorkerRow
  BY <1>0 DEF BuildFails, PutArtifact, PutFails, WorkerDies, TInv, References, Tables
<1>2. build[worker[w].build].state = "queued"
  BY <1>1 DEF IInv, Claimed
<1>3. /\ \A u \in Worker : u # w => worker'[u] = worker[u]
      /\ worker'[w].pc # "idle" => worker'[w].build = worker[w].build
  <2>1. \E v \in WorkerRow : /\ worker' = [worker EXCEPT ![w] = v]
                             /\ v.pc # "idle" => v.build = worker[w].build
    <3>1. CASE WorkerDies(w)
      BY <3>1, Blank DEF WorkerDies, GoHome, IdleWorker
    <3>2. CASE BuildFails(w) \/ PutFails(w)
      <4> DEFINE v == [worker[w] EXCEPT !.pc = "failing"]
      <4>1. worker' = [worker EXCEPT ![w] = v]
        BY <3>2 DEF BuildFails, PutFails
      <4>2. v \in WorkerRow /\ v.build = worker[w].build
        BY <1>1 DEF WorkerRow, Stages
      <4> QED BY <4>1, <4>2
    <3>3. CASE PutArtifact(w)
      <4>1. worker'[w] \in WorkerRow
        BY <1>0 DEF Tables
      <4>2. /\ worker' = [worker EXCEPT ![w] = worker'[w]]
            /\ worker'[w].build = worker[w].build
        BY <1>0, <1>1, <3>3 DEF PutArtifact, Tables, WorkerRow
      <4> QED BY <4>1, <4>2
    <3> QED BY <3>1, <3>2, <3>3
  <2> QED BY <1>0, <2>1 DEF Tables
<1>4. Claimed'
  BY <1>1, <1>3 DEF IInv, Claimed
<1>5. \A b \in Build : b # worker[w].build => store'[b] = store[b]
  BY <1>0, <1>1 DEF BuildFails, PutArtifact, PutFails, WorkerDies, Tables
<1>6. ReadyBuildsImmutable'
  BY <1>1, <1>2, <1>5 DEF IInv, ReadyBuildsImmutable
<1>7. ASSUME NEW u \in Worker, u # w
      PROVE  /\ worker'[u].pc \in {"loaded", "stored"} =>
                    \A i \in 1 .. worker'[u].put :
                        store'[worker'[u].build][Paths[i]] = worker'[u].source
             /\ worker'[u].pc = "stored" => worker'[u].put = Len(Paths)
  <2>1. worker[u].pc # "idle" => worker[u].build \in Build /\ worker[u].build # worker[w].build
    BY <1>0, <1>1, <1>7, OthersApart DEF TInv, References
  <2> QED BY <1>3, <1>5, <1>7, <2>1 DEF IInv, PutSoFar
<1>8. /\ worker'[w].pc \in {"loaded", "stored"} =>
             \A i \in 1 .. worker'[w].put :
                 store'[worker'[w].build][Paths[i]] = worker'[w].source
      /\ worker'[w].pc = "stored" => worker'[w].put = Len(Paths)
  <2>1. CASE BuildFails(w) \/ PutFails(w) \/ WorkerDies(w)
    <3>1. worker'[w].pc \in {"failing", "idle"}
      BY <1>0, <1>1, <2>1 DEF BuildFails, PutFails, WorkerDies, GoHome, IdleWorker, Tables, WorkerRow
    <3> QED BY <3>1
  <2>2. CASE PutArtifact(w)
    <3> DEFINE n == worker[w].put + 1
    <3>1. /\ worker[w].pc = "loaded" /\ n \in 1 .. Len(Paths)
          /\ store'[worker[w].build] = [store[worker[w].build] EXCEPT ![Paths[n]] = worker[w].source]
      BY <1>0, <1>1, <2>2, Bounds DEF PutArtifact, TInv, References, Tables, WorkerRow
    <3>2. /\ worker'[w].put = n /\ worker'[w].source = worker[w].source
          /\ worker'[w].build = worker[w].build
          /\ worker'[w].pc = IF AllPut(n) THEN "stored" ELSE "loaded"
      <4> DEFINE pc == IF AllPut(n) THEN "stored" ELSE "loaded"
      <4>1. worker' = [worker EXCEPT ![w] = [worker[w] EXCEPT !.put = n, !.pc = pc]]
        BY <2>2, <3>1 DEF PutArtifact
      <4> HIDE DEF n, pc
      <4>2. worker'[w] = [worker[w] EXCEPT !.put = n, !.pc = pc]
        BY <1>0, <4>1 DEF Tables
      <4>3. /\ worker'[w].put = n /\ worker'[w].source = worker[w].source
            /\ worker'[w].build = worker[w].build /\ worker'[w].pc = pc
        BY <1>1, <4>2 DEF WorkerRow
      <4> QED BY <4>3 DEF pc
    <3>3. \A i \in 1 .. worker[w].put : store[worker[w].build][Paths[i]] = worker[w].source
      BY <3>1 DEF IInv, PutSoFar
    <3>4. store[worker[w].build] \in [Path -> Version]
      BY <1>0, <1>1 DEF Tables
    <3>5. \A i \in 1 .. n : store'[worker[w].build][Paths[i]] = worker[w].source
      <4> SUFFICES ASSUME NEW i \in 1 .. n
                   PROVE  store'[worker[w].build][Paths[i]] = worker[w].source
        OBVIOUS
      <4>1. Paths[i] \in Path /\ Paths[n] \in Path /\ (i = n \/ i \in 1 .. worker[w].put)
        BY <1>1, <3>1, Bounds DEF WorkerRow
      <4> QED BY <3>1, <3>3, <3>4, <4>1
    <3> QED BY <3>2, <3>5 DEF AllPut
  <2> QED BY <2>1, <2>2
<1>9. PutSoFar'
  BY <1>7, <1>8 DEF PutSoFar
<1> QED BY <1>0, <1>4, <1>6, <1>9 DEF IInv

(* What becomes ready has all its artifacts.                               *)
LEMMA FinishImmutable ==
    ASSUME IInv, NEW w \in Worker, FinishSuccess(w) \/ FinishFailed(w) PROVE IInv'
<1> DEFINE b == worker[w].build
<1>0. TInv /\ TInv' /\ Tables /\ Tables'
  BY FinishTyped DEF IInv, TInv
<1>1. worker[w].pc # "idle" /\ b \in Build /\ UNCHANGED store
  BY <1>0 DEF FinishSuccess, FinishFailed, TInv, References
<1>2. MayRecord(w)
  BY <1>1 DEF IInv, Claimed, MayRecord, StillQueued, Owns
<1>3. worker'[w] = IdleWorker /\ \A u \in Worker : u # w => worker'[u] = worker[u]
  BY <1>0 DEF FinishSuccess, FinishFailed, GoHome, Tables
<1>4. build[b] \in BuildRow /\ job[b] \in JobRow
  BY <1>0, <1>1 DEF Tables
<1>5. /\ \A a \in Build : a # b => job'[a] = job[a] /\ build'[a] = build[a]
      /\ \/ /\ FinishSuccess(w)
            /\ build'[b].state = "ready" /\ build'[b].recorded = worker[w].source
            /\ job'[b].state = "done"
         \/ build'[b].state = "failed" /\ job'[b].state = "done"
         \/ build'[b] = build[b] /\ job'[b].state = "pending"
  <2>1. CASE FinishSuccess(w)
    <3>1. /\ build' = [build EXCEPT ![b] = [build[b] EXCEPT !.state = "ready",
                                                            !.recorded = worker[w].source]]
          /\ job' = [job EXCEPT ![b] = [job[b] EXCEPT !.state = "done", !.owner = NoWorker]]
      BY <1>2, <2>1 DEF FinishSuccess, Done
    <3> HIDE DEF b
    <3> QED BY <1>0, <1>1, <1>4, <2>1, <3>1 DEF Tables, BuildRow, JobRow
  <2>2. CASE FinishFailed(w) /\ worker[w].attempt >= MaxAttempts
    <3>1. /\ build' = [build EXCEPT ![b] = [build[b] EXCEPT !.state = "failed"]]
          /\ job' = [job EXCEPT ![b] = [job[b] EXCEPT !.state = "done", !.owner = NoWorker]]
      BY <1>2, <2>2 DEF FinishFailed, Done
    <3> HIDE DEF b
    <3> QED BY <1>0, <1>1, <1>4, <3>1 DEF Tables, BuildRow, JobRow
  <2>3. CASE FinishFailed(w) /\ ~(worker[w].attempt >= MaxAttempts)
    <3>1. /\ build' = build
          /\ job' = [job EXCEPT ![b] = [job[b] EXCEPT !.state = "pending", !.owner = NoWorker]]
      BY <1>2, <2>3 DEF FinishFailed
    <3> HIDE DEF b
    <3> QED BY <1>0, <1>1, <1>4, <3>1 DEF Tables, BuildRow, JobRow
  <2> QED BY <2>1, <2>2, <2>3
<1>6. build[b].state = "queued"
  BY <1>1 DEF IInv, Claimed
<1>7. \A u \in Worker : u # w /\ worker[u].pc # "idle" => worker[u].build \in Build /\ worker[u].build # b
  BY <1>0, <1>1, OthersApart DEF TInv, References
<1>8. Claimed'
  <2> HIDE DEF b
  <2>1. \A a \in Build : job'[a].state \in {"pending", "running"} <=> build'[a].state = "queued"
    BY <1>5, <1>6 DEF IInv, Claimed
  <2>2. \A a \in Build : job'[a].state = "running" => job'[a].owner \in Worker
    BY <1>5 DEF IInv, Claimed
  <2>3. \A u \in Worker : worker'[u].pc # "idle" =>
            job'[worker'[u].build].state = "running" /\ job'[worker'[u].build].owner = u
    BY <1>3, <1>5, <1>7 DEF IInv, Claimed, IdleWorker
  <2> QED BY <2>1, <2>2, <2>3 DEF Claimed
<1>9. PutSoFar'
  BY <1>1, <1>3 DEF IInv, PutSoFar, IdleWorker
<1>10. ReadyBuildsImmutable'
  <2>1. ASSUME FinishSuccess(w), NEW p \in Path PROVE store[b][p] = worker[w].source
    <3>1. PICK i \in 1 .. Len(Paths) : Paths[i] = p
      BY DesignAssumption DEF DesignAssumption
    <3>2. worker[w].pc = "stored" /\ worker[w].put = Len(Paths)
      BY <2>1 DEF FinishSuccess, IInv, PutSoFar
    <3> QED BY <3>1, <3>2 DEF IInv, PutSoFar
  <2> HIDE DEF b
  <2> QED BY <1>1, <1>5, <1>6, <2>1 DEF IInv, ReadyBuildsImmutable
<1> QED BY <1>0, <1>8, <1>9, <1>10 DEF IInv

LEMMA ImmutableStep == ASSUME Lapses = 0, IInv, [Next]_vars PROVE IInv'
<1>1. TInv'
  BY TypeStep DEF IInv
<1>2. CASE UNCHANGED <<build, job, store, worker>>
  BY <1>1, <1>2 DEF IInv, Claimed, PutSoFar, ReadyBuildsImmutable
<1> QED BY <1>2, StartsImmutable, LoadImmutable, BuildingImmutable, FinishImmutable
        DEF Next, vars, WorkerStep, EditorStep, StartChange, EditFiles, Activate,
            FindPublished, Switch, EditorGone

(* As long as no lease lapses under a delivery at work, what is served     *)
(* under a ready build's paths is what was recorded of it, whichever       *)
(* attempts fail, die or are repeated: the claim is all that keeps the     *)
(* store and the rows together, as artifacts are put under no lock.        *)
THEOREM ServedAsRecorded == ASSUME Lapses = 0 PROVE Spec => []ReadyBuildsImmutable
<1>1. IInv => ReadyBuildsImmutable
  BY DEF IInv
<1>2. IInv /\ [Next]_vars => IInv'
  BY ImmutableStep
<1> QED BY <1>1, <1>2, ImmutableInit, PTL DEF Spec
=============================================================================
