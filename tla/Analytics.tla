------------------------------ MODULE Analytics ------------------------------
(***************************************************************************)
(* Events of visitors, their daily roll-ups, and the retention of both.  A *)
(* batch locks one roll-up after the other in the order of its events; a   *)
(* pass of the retention, or a prune by hand, locks those it deletes.      *)
(***************************************************************************)
EXTENDS Integers, FiniteSets, Sequences

CONSTANTS Row,                \* a day, an event name and a path
          Days,               \* Days[r]: the day of the row
          Batches,            \* what visitors send: sequences of [row, value]
          Policies,           \* the windows that are or were in force
          Client, None,
          FirstDay, LastDay,  \* bounds of the clock
          Requests            \* bound on batches and prunes

(* What a roll-up says of its events.                                      *)
Tally == [count : Nat \ {0}, sum : Nat, min : Nat, max : Nat]

AnalyticsAssumption ==
    /\ FirstDay \in Int /\ LastDay \in Int /\ Requests \in Nat
    /\ None \notin Tally
    /\ Days \in [Row -> Int]
    /\ \A b \in Batches : b # <<>> /\ b \in Seq([row : Row, value : Nat])
    /\ Policies # {} /\ Policies \subseteq [raw : Nat \ {0}, aggregate : Nat \ {0}]

VARIABLES
    events,        \* analytics_events
    daily,         \* analytics_daily
    recorder,      \* a client's transaction
    date,          \* the clock, in days
    requestsLeft

vars == <<events, daily, recorder, date, requestsLeft>>

Event == [id : Nat \X Nat, row : Row, value : Nat, born : Int]

Idle == [phase |-> "idle", number |-> 0, began |-> FirstDay, left |-> <<>>, stored |-> {},
         rows |-> <<>>, todo |-> {}, drops |-> {}, days |-> 0]

TypeOK ==
    /\ IsFiniteSet(events) /\ events \subseteq Event
    /\ daily \in [Row -> {None} \cup Tally]
    /\ \A c \in Client :
        /\ recorder[c].phase \in {"idle", "recording", "pruning", "dropping"}
        /\ recorder[c].stored \subseteq Event
        /\ DOMAIN recorder[c].rows \subseteq Row
        /\ recorder[c].todo \cup recorder[c].drops \subseteq Row
    /\ date \in FirstDay .. LastDay
    /\ requestsLeft \in 0 .. Requests

Init ==
    /\ events = {}
    /\ daily = [r \in Row |-> None]
    /\ recorder = [c \in Client |-> Idle]
    /\ date = FirstDay
    /\ requestsLeft = Requests

-----------------------------------------------------------------------------
(* The roll-ups that a transaction has written or deleted are its own      *)
(* until it ends.                                                          *)
Holds(c)      == DOMAIN recorder[c].rows \cup recorder[c].drops

\* Mutant: a roll-up is read, and written back without its lock.
RowUnlocked(c, r) == TRUE

RowFree(c, r) == \A d \in Client \ {c} : r \notin Holds(d)

Begin(c, task) ==
    /\ recorder[c].phase = "idle" /\ requestsLeft > 0
    /\ recorder' = [recorder EXCEPT ![c] = task]
    /\ requestsLeft' = requestsLeft - 1
    /\ UNCHANGED <<events, daily, date>>

End(c) == recorder' = [recorder EXCEPT ![c] = Idle]

-----------------------------------------------------------------------------
(* record_batch.                                                           *)

BeginBatch(c, b) ==
    Begin(c, [Idle EXCEPT !.phase = "recording", !.number = requestsLeft, !.began = date,
                          !.left = b])

(* An event may lie a day ahead, and as far back as it likes.              *)
Accepted(e) == Days[e.row] <= date + 1

Upserted(a, v) ==
    IF a = None THEN [count |-> 1, sum |-> v, min |-> v, max |-> v]
    ELSE [count |-> a.count + 1, sum |-> a.sum + v,
          min |-> IF v < a.min THEN v ELSE a.min, max |-> IF v > a.max THEN v ELSE a.max]

\* The roll-ups with those that a transaction has written.
Over(rows, rollups) ==
    [r \in DOMAIN rows \cup DOMAIN rollups |-> IF r \in DOMAIN rows THEN rows[r] ELSE rollups[r]]

(* The next event is inserted, and its roll-up written once its row is     *)
(* free, over what the transaction itself has written or what has been     *)
(* committed by then.                                                      *)
RecordEvent(c) ==
    LET task == recorder[c]
        e    == Head(task.left)
        seen == IF e.row \in DOMAIN task.rows THEN task.rows[e.row] ELSE daily[e.row]
    IN  /\ task.phase = "recording" /\ task.left # <<>>
        /\ Accepted(e) /\ RowFree(c, e.row)
        /\ recorder' = [recorder EXCEPT ![c] =
               [task EXCEPT !.left = Tail(@),
                            !.rows = Over([r \in {e.row} |-> Upserted(seen, e.value)], @),
                            !.stored = @ \cup {[id |-> <<task.number, Len(task.left)>>,
                                                row |-> e.row, value |-> e.value,
                                                born |-> task.began]}]]
        /\ UNCHANGED <<events, daily, date, requestsLeft>>

CommitBatch(c) ==
    /\ recorder[c].phase = "recording" /\ recorder[c].left = <<>>
    /\ events' = events \cup recorder[c].stored
    /\ daily' = Over(recorder[c].rows, daily)
    /\ End(c)
    /\ UNCHANGED <<date, requestsLeft>>

-----------------------------------------------------------------------------
(* prune_inner, of a prune by hand or of the daily job, whose policy is    *)
(* read in the same transaction.  The clock is that of its begin.          *)

Prune(c, p) ==
    Begin(c, [Idle EXCEPT !.phase = "pruning", !.began = date, !.days = p.aggregate,
                          !.stored = {e \in events : e.born < date - p.raw}])

(* The second delete sees the roll-ups there are when it begins.           *)
ReadDaily(c) ==
    /\ recorder[c].phase = "pruning"
    /\ recorder' = [recorder EXCEPT ![c] =
           [@ EXCEPT !.phase = "dropping",
                     !.todo = {r \in Row : /\ daily[r] # None
                                           /\ Days[r] < recorder[c].began - recorder[c].days}]]
    /\ UNCHANGED <<events, daily, date, requestsLeft>>

(* It waits for the row; one that has been deleted meanwhile is passed by. *)
DropDaily(c, r) ==
    /\ recorder[c].phase = "dropping" /\ r \in recorder[c].todo
    /\ RowFree(c, r)
    /\ recorder' = [recorder EXCEPT ![c] =
           [recorder[c] EXCEPT !.todo = @ \ {r},
                               !.drops = IF daily[r] = None THEN @ ELSE @ \cup {r}]]
    /\ UNCHANGED <<events, daily, date, requestsLeft>>

CommitPrune(c) ==
    /\ recorder[c].phase = "dropping" /\ recorder[c].todo = {}
    /\ events' = events \ recorder[c].stored
    /\ daily' = [r \in Row |-> IF r \in recorder[c].drops THEN None ELSE daily[r]]
    /\ End(c)
    /\ UNCHANGED <<date, requestsLeft>>

(* An event is refused, two transactions wait for each other's rows, or    *)
(* the process ends: nothing of the transaction stays.                     *)
Abort(c) ==
    /\ recorder[c].phase # "idle"
    /\ End(c)
    /\ UNCHANGED <<events, daily, date, requestsLeft>>

Tick ==
    /\ date < LastDay
    /\ date' = date + 1
    /\ UNCHANGED <<events, daily, recorder, requestsLeft>>

Next ==
    \/ \E c \in Client :
        \/ \E b \in Batches : BeginBatch(c, b)
        \/ RecordEvent(c) \/ CommitBatch(c)
        \/ \E p \in Policies : Prune(c, p)
        \/ ReadDaily(c) \/ CommitPrune(c) \/ Abort(c)
        \/ \E r \in Row : DropDaily(c, r)
    \/ Tick

Spec == Init /\ [][Next]_vars

-----------------------------------------------------------------------------
Stored(r) == {e \in events : e.row = r}

\* The sum of the values of events: so many units there are of them together.
Units(E) == UNION {{e} \X (1 .. e.value) : e \in E}
Total(E) == Cardinality(Units(E))

\* No policy that is or was in force reaches the day, or an event.
InEveryWindow(r) == \A p \in Policies : date - Days[r] <= p.aggregate
NothingIsOld     == \A p \in Policies : date - FirstDay <= p.raw

Covers(r) ==
    Stored(r) # {} =>
        /\ daily[r] # None
        /\ daily[r].count >= Cardinality(Stored(r)) /\ daily[r].sum >= Total(Stored(r))
        /\ \A e \in Stored(r) : daily[r].min <= e.value /\ e.value <= daily[r].max

Exact(r) ==
    daily[r] # None =>
        /\ daily[r].count = Cardinality(Stored(r)) /\ daily[r].sum = Total(Stored(r))
        /\ \E e \in Stored(r) : e.value = daily[r].min
        /\ \E e \in Stored(r) : e.value = daily[r].max

(* However batches, prunes and days follow each other, the roll-up of a    *)
(* day that no window has passed counts every event still stored of it,    *)
(* and exactly these before the first of them may have been pruned.        *)
RollupsHold ==
    \A r \in Row : InEveryWindow(r) => Covers(r) /\ (NothingIsOld => Exact(r))

(* A day that was dropped stays so: an event may come later than that.     *)
DroppedStayDropped ==
    \A r \in Row : (\E p \in Policies : date - Days[r] > p.aggregate + 1) => daily[r] = None
=============================================================================
