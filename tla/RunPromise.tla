----------------------------- MODULE RunPromise -----------------------------
(***************************************************************************)
(* What a durable workflow promises the domain code that enqueued it, when *)
(* operators may only cancel: an intent is opened once, and then either    *)
(* its mutation commits, exactly once, or it is stopped and never commits. *)
(***************************************************************************)
EXTENDS Naturals

CONSTANT Key
VARIABLES phase, effects

vars == <<phase, effects>>

Init ==
    /\ phase = [k \in Key |-> "absent"]
    /\ effects = [k \in Key |-> 0]

Move(k, from, to) ==
    /\ phase[k] = from
    /\ phase' = [phase EXCEPT ![k] = to]

Open(k)   == Move(k, "absent", "open") /\ UNCHANGED effects
Stop(k)   == Move(k, "open", "stopped") /\ UNCHANGED effects
Commit(k) ==
    /\ Move(k, "open", "done")
    /\ effects' = [effects EXCEPT ![k] = @ + 1]

Next == \E k \in Key : Open(k) \/ Commit(k) \/ Stop(k)

Spec == Init /\ [][Next]_vars
=============================================================================
