----------------------------- MODULE MediaProps -----------------------------
(***************************************************************************)
(* What the handling of files promises, and what it does not keep.         *)
(***************************************************************************)
EXTENDS Media

(* A committed row, of a file or of a variant, live or in the trash, has   *)
(* its bytes, whatever uploads, runners, cleanups and sweeps interleave,   *)
(* with two exceptions: a sweep listed the bytes and read the rows before  *)
(* the row was committed, while no variant job stood for it, or the job of *)
(* a variant was done again.                                               *)
RowsKeepBytes == Owned \ exposed \subseteq store

(* What makes it inductive.  The bytes of an upload are put before its row *)
(* and stay unless exposed; a cleanup removes keys of files that are gone; *)
(* a sweep removes exposed keys only.                                      *)
UploadHasBytes == \A f \in File : file[f] = "storing" => Source(f) \in store \cup exposed

CleanupOfGone ==
    /\ \A f \in Pending : \A k \in task[f].keys : file[k[1]] = "gone"
    /\ \A k \in cleaner.left : file[k[1]] = "gone"

SweepOfExposed ==
    /\ sweep.pc \in {"tasks", "jobs", "remove"} => sweep.owned \subseteq sweep.known
    /\ sweep.pc = "remove" => sweep.listed \ sweep.known \subseteq exposed

(* While the key of a variant is not exposed, one execution at most works  *)
(* on it, its row is not there yet, and what it has put stays.             *)
Undisturbed(r) ==
    LET f == runner[r].file IN
    /\ f \notin variant
    /\ \A q \in Runner \ {r} : runner[q].file # f
    /\ runner[r].pc \in {"check", "insert"} /\ file[f] # "gone" => Variant(f) \in store

RunnersUndisturbed ==
    \A r \in Runner : runner[r].pc # "idle" =>
        Variant(runner[r].file) \in exposed \/ Undisturbed(r)

(* The same without exceptions, as FEATURE_MATRIX.md says of the sweep.    *)
RowHasBytes == Owned \subseteq store

(* A runner that removes its candidate never removes the bytes of a row,   *)
(* as the comment on finalize_variant says of racing and repeated jobs.    *)
Removes(r, k) == /\ runner[r].pc \in {"discard", "undo"} /\ runner'[r].pc = "idle"
                 /\ k \in store \ store'

CandidatesOnly ==
    [][\A r \in Runner, k \in Key : Removes(r, k) => k \notin Owned]_vars

(* The bytes of a file that is gone, purged or never committed, and of its *)
(* variant are removed in the end, whoever left them: a cleanup, an upload *)
(* or a runner that stopped half way, or a runner that was late.  Only a   *)
(* dead variant job keeps its candidate for ever.                          *)
OrphansAreRemoved ==
    \A k \in Key : file[k[1]] = "gone" /\ k \in store
                       ~> k \notin store \/ job[k[1]].state = "dead"

(* The discovery of missing variants ends with every image that can be     *)
(* rendered having one.                                                    *)
VariantsConverge ==
    \A f \in File \ Broken : file[f] = "live" ~> f \in variant \/ file[f] # "live"
=============================================================================
