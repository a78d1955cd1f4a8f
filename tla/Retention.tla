----------------------------- MODULE Retention -----------------------------
(***************************************************************************)
(* The trash across kinds: things of every kind are trashed, restored and  *)
(* purged, and a daily job purges what has been in the trash for longer    *)
(* than the site keeps it, the oldest first and a batch at a time.  One    *)
(* transaction purges a whole batch: it takes one row lock after another   *)
(* and undoes everything if one deletion fails.                            *)
(***************************************************************************)
EXTENDS Integers, Sequences, FiniteSets

CONSTANTS
    Thing,          \* rows of any kind the trash knows, in the order of
                    \* their kinds and identifiers
    Busyable,       \* flows and products: work or held stock forbids the purge
    Referable,      \* files that lessons show, terms with a child: a
                    \* reference makes the deletion fail
    Batch,          \* MAX_TRASH_RETENTION_BATCH
    Kept,           \* trash retention in days
    LastDay,        \* bound of the calendar
    Trashings, Changes  \* bounds

RetentionAssumption ==
    /\ Thing \subseteq Nat /\ IsFiniteSet(Thing)
    /\ Busyable \subseteq Thing /\ Referable \subseteq Thing
    /\ {Batch, Kept} \subseteq Nat \ {0}
    /\ {LastDay, Trashings, Changes} \subseteq Nat

VARIABLES
    thing,     \* where it is, and deleted_at
    busy,      \* active runs or jobs of a flow, held stock of a product
    referred,  \* files that a lesson shows, parents of a term
    day,
    daily,     \* trash.retention jobs by day (bucket), and their continuations
    sweep,     \* the transaction of the job that is executed
    trashings, changes

vars == <<thing, busy, referred, day, daily, sweep, trashings, changes>>

Day  == 0 .. LastDay
Idle == [on |-> FALSE, day |-> 0, todo |-> <<>>, full |-> FALSE, purged |-> {}]

TypeOK ==
    /\ thing \in [Thing -> [phase : {"live", "trashed", "gone"}, since : Day]]
    /\ busy \subseteq Busyable /\ referred \subseteq Referable
    /\ day \in Day
    /\ daily \in [Day -> {"none", "pending", "completed", "failed"}]
    /\ sweep \in [on : BOOLEAN, day : Day, todo : Seq(Thing), full : BOOLEAN,
                  purged : SUBSET Thing]
    /\ trashings \in Nat /\ changes \in Nat

Out(p) == [phase |-> p, since |-> 0]

In(d)  == [phase |-> "trashed", since |-> d]

(* A site in use: some of it is in the trash.                              *)
Init ==
    /\ thing \in [Thing -> {Out("live"), In(0)}]
    /\ busy = {} /\ referred \in SUBSET Referable
    /\ day = 0
    /\ daily = [d \in Day |-> "none"]
    /\ sweep = Idle
    /\ trashings = Trashings /\ changes = Changes

Phase(i)  == thing[i].phase
Locked(i) == i \in sweep.purged

-----------------------------------------------------------------------------
(* People.                                                                 *)

Trash(i) ==
    /\ Phase(i) = "live" /\ trashings > 0
    /\ trashings' = trashings - 1
    /\ thing' = [thing EXCEPT ![i] = In(day)]
    /\ UNCHANGED <<busy, referred, day, daily, sweep, changes>>

Restore(i) ==
    /\ Phase(i) = "trashed" /\ ~Locked(i)
    /\ thing' = [thing EXCEPT ![i] = Out("live")]
    /\ UNCHANGED <<busy, referred, day, daily, sweep, trashings, changes>>

(* permanently_delete from the panel: refused while busy, and fails while  *)
(* referred to.                                                            *)
Purge(i) ==
    /\ Phase(i) = "trashed" /\ ~Locked(i)
    /\ i \notin busy \cup referred
    /\ thing' = [thing EXCEPT ![i] = Out("gone")]
    /\ UNCHANGED <<busy, referred, day, daily, sweep, trashings, changes>>

(* A run starts, of a flow that may have gone to the trash since its start *)
(* was read, or stock is held: the foreign key waits for the row's lock.   *)
Occupy(i) ==
    /\ i \in Busyable \ busy /\ Phase(i) # "gone" /\ ~Locked(i)
    /\ changes > 0 /\ changes' = changes - 1
    /\ busy' = busy \cup {i}
    /\ UNCHANGED <<thing, referred, day, daily, sweep, trashings>>

Leave(i) ==
    /\ i \in busy
    /\ busy' = busy \ {i}
    /\ UNCHANGED <<thing, referred, day, daily, sweep, trashings, changes>>

(* A lesson comes to show a file, which may be in the trash, or no longer; *)
(* a child of a trashed term is restored or moved.                         *)
Refer(i) ==
    /\ i \in Referable /\ Phase(i) # "gone" /\ ~Locked(i)
    /\ changes > 0 /\ changes' = changes - 1
    /\ referred' = IF i \in referred THEN referred \ {i} ELSE referred \cup {i}
    /\ UNCHANGED <<thing, busy, day, daily, sweep, trashings>>

Tick ==
    /\ day < LastDay
    /\ day' = day + 1
    /\ UNCHANGED <<thing, busy, referred, daily, sweep, trashings, changes>>

-----------------------------------------------------------------------------
(* The job.                                                                *)

(* enqueue_retention_job: one for each day.                                *)
Enqueue ==
    /\ daily[day] = "none"
    /\ daily' = [daily EXCEPT ![day] = "pending"]
    /\ UNCHANGED <<thing, busy, referred, day, sweep, trashings, changes>>

\* Mutant: the day the policy still keeps counts as over.
ExpiredEarly(i) == Phase(i) = "trashed" /\ thing[i].since <= day - Kept

(* deleted_at < now - days.                                                *)
Expired(i) == Phase(i) = "trashed" /\ thing[i].since < day - Kept

Before(i, j) == \/ thing[i].since < thing[j].since
                \/ thing[i].since = thing[j].since /\ i < j

AllExpired == {i \in Thing : Expired(i)}
Rank(i)    == Cardinality({j \in AllExpired : Before(j, i)})

(* Up to a batch of the expired, the oldest first.                         *)
Oldest ==
    LET all == Cardinality(AllExpired)
    IN [k \in 1 .. IF all < Batch THEN all ELSE Batch |->
           CHOOSE i \in AllExpired : Rank(i) = k - 1]

Start(d) ==
    /\ daily[d] = "pending" /\ ~sweep.on
    /\ sweep' = [on |-> TRUE, day |-> d, todo |-> Oldest, full |-> Len(Oldest) = Batch,
                 purged |-> {}]
    /\ UNCHANGED <<thing, busy, referred, day, daily, trashings, changes>>

First  == Head(sweep.todo)
Passed == [sweep EXCEPT !.todo = Tail(@)]

\* Mutant: what was restored is not looked at again.
StillTrashedUnchecked(i) == Phase(i) # "gone"

(* ensure_trashed, under the row's lock.                                   *)
StillTrashed(i) == Phase(i) = "trashed"

(* The next of the batch is deleted, or passed over.                       *)
PurgeNext ==
    /\ sweep.on /\ sweep.todo # <<>>
    /\ ~(StillTrashed(First) /\ First \in referred \ busy)
    /\ sweep' = IF StillTrashed(First) /\ First \notin busy
                THEN [Passed EXCEPT !.purged = @ \cup {First}] ELSE Passed
    /\ UNCHANGED <<thing, busy, referred, day, daily, trashings, changes>>

(* A reference keeps the row, and the transaction is undone: the job is    *)
(* tried again or has no attempt left.                                     *)
PurgeFails ==
    /\ sweep.on /\ sweep.todo # <<>>
    /\ StillTrashed(First) /\ First \in referred \ busy
    /\ sweep' = Idle
    /\ daily' \in {daily, [daily EXCEPT ![sweep.day] = "failed"]}
    /\ UNCHANGED <<thing, busy, referred, day, trashings, changes>>

(* The worker dies, and its transaction with it.                           *)
Die ==
    /\ sweep.on /\ changes > 0
    /\ changes' = changes - 1
    /\ sweep' = Idle
    /\ UNCHANGED <<thing, busy, referred, day, daily, trashings>>

(* After a full batch a continuation is enqueued.                          *)
Continued == IF sweep.full THEN "pending" ELSE "completed"

CommitBatch ==
    /\ sweep.on /\ sweep.todo = <<>>
    /\ thing' = [i \in Thing |-> IF Locked(i) THEN Out("gone") ELSE thing[i]]
    /\ daily' = [daily EXCEPT ![sweep.day] = Continued]
    /\ sweep' = Idle
    /\ UNCHANGED <<busy, referred, day, trashings, changes>>

-----------------------------------------------------------------------------
StartAny == \E d \in Day : Start(d)

Job == \/ Enqueue \/ PurgeNext \/ PurgeFails \/ CommitBatch
       \/ StartAny

Next ==
    \/ \E i \in Thing : Trash(i) \/ Restore(i) \/ Purge(i) \/ Occupy(i) \/ Leave(i) \/ Refer(i)
    \/ Tick \/ Job \/ Die

Spec == Init /\ [][Next]_vars

(* The maintenance tick asks for the day's pass, and Hatchet delivers it   *)
(* until it ends.                                                          *)
Fairness ==
    /\ WF_vars(Enqueue) /\ WF_vars(StartAny)
    /\ WF_vars(PurgeNext) /\ WF_vars(PurgeFails) /\ WF_vars(CommitBatch)

FairSpec == Spec /\ Fairness

-----------------------------------------------------------------------------
(* What the trash promises.                                                *)

SparesTheLive == \A i \in Thing : Phase(i)' = "gone" =>
    Phase(i) = "gone" \/ (Phase(i) = "trashed" /\ i \notin busy)

LeavesNoneExpired == \A d \in Day, i \in Thing \ Busyable :
    (daily[d] # "completed" /\ daily'[d] = "completed") =>
        ((Phase(i) = "trashed" /\ thing[i].since < d - Kept) => Phase(i)' = "gone")

(* Nothing in use is deleted for good by a batch under way, whatever came  *)
(* into use or was restored since the batch was chosen; and when the pass  *)
(* of a day ends, however many batches it took and whoever died, nothing   *)
(* is left of what had been in the trash too long that day, but what may   *)
(* be busy.                                                                *)
PassesPurge == [][SparesTheLive /\ LeavesNoneExpired]_vars

Stuck  == \E i \in Thing : Phase(i) = "trashed" /\ i \in referred
Jammed == Cardinality({i \in Thing : Expired(i) /\ i \in busy}) >= Batch

(* What has expired when the pass of the day is yet to be requested is     *)
(* purged or restored, however many batches that takes and whoever dies,   *)
(* unless it is busy; a referred thing, or a whole batch of busy ones, is  *)
(* in the way of everything else.                                          *)
ExpiredArePurged ==
    \A i \in Thing :
        Expired(i) /\ daily[day] = "none"
            ~> Phase(i) # "trashed" \/ i \in busy \/ Stuck \/ Jammed

(* The same whatever else is in the trash.                                 *)
NothingIsInTheWay ==
    \A i \in Thing :
        Expired(i) /\ daily[day] = "none"
            ~> Phase(i) # "trashed" \/ i \in busy \cup referred

(* A thing leaves the trash for good only after the days it is kept.       *)
PurgedInTime ==
    [][\A i \in Thing : i \in sweep.purged /\ Phase(i)' = "gone" =>
           Phase(i) = "gone" \/ Expired(i)]_vars
=============================================================================
