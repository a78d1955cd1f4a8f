------------------------------ MODULE Content ------------------------------
(***************************************************************************)
(* Content entries: a current row, its numbered revisions, the paths it    *)
(* has left behind, and the job that publishes it when its schedule comes. *)
(* A request takes the clock when it arrives and commits once it has the   *)
(* entry's row lock, so requests, jobs and the trash may come in between.  *)
(* An archived entry is to all of this what a draft is: "draft" is both.   *)
(* Paths and schedules that an import writes are those of Portable.        *)
(***************************************************************************)
EXTENDS Integers, Sequences, FiniteSets

CONSTANTS
    Entry, Slug,
    Same,                 \* a field that an update leaves alone
    LastTime,             \* bound of the clock
    Requests, Operations  \* bounds of what people do, see Deed

Deed == {"request", "operation"}

ContentAssumption ==
    /\ Same \notin Slug /\ Slug # {}
    /\ LastTime \in Nat
    /\ Requests \in Nat /\ Operations \in Nat

VARIABLES
    entry,       \* content_entries
    revision,    \* content_revisions, by number
    former,      \* content_slug_history, oldest first
    misfit,      \* entries whose fields the declared content type refuses
    publishing,  \* content.publish_scheduled jobs, by entry and time
    waiting,     \* changes between their arrival and their commit
    now,
    left         \* what is left of the bounds

vars == <<entry, revision, former, misfit, publishing, waiting, now, left>>

Time        == 1 .. LastTime
Plain(s)    == [status |-> s, at |-> 0]
At(t)       == [status |-> "scheduled", at |-> t]
Publication == {Plain("draft"), Plain("published")} \cup {At(t) : t \in Time}
Snapshot    == [slug : Slug, publication : Publication]
Change      == [entry : Entry, slug : Slug \cup {Same},
                publication : Publication \cup {Plain(Same)}]
JobStatus   == {"none", "pending", "completed"}

TypeOK ==
    /\ entry \in [Entry -> [phase : {"none", "live", "trashed", "gone"}, revision : Nat,
                            slug : Slug, publication : Publication]]
    /\ revision \in [Entry -> Seq(Snapshot)]
    /\ former \in Seq(Entry \X Slug)
    /\ misfit \in [Entry -> BOOLEAN]
    /\ publishing \in [Entry -> [Time -> JobStatus]]
    /\ waiting \subseteq Change
    /\ now \in 0 .. LastTime
    /\ left \in [Deed -> Nat]

AnySlug == CHOOSE s \in Slug : TRUE

Init ==
    /\ entry = [e \in Entry |-> [phase |-> "none", revision |-> 0, slug |-> AnySlug,
                                 publication |-> Plain("draft")]]
    /\ revision = [e \in Entry |-> <<>>]
    /\ former = <<>>
    /\ misfit = [e \in Entry |-> FALSE]
    /\ publishing = [e \in Entry |-> [t \in Time |-> "none"]]
    /\ waiting = {}
    /\ now = 0
    /\ left = [request |-> Requests, operation |-> Operations]

Do(d) == left[d] > 0 /\ left' = [left EXCEPT ![d] = @ - 1]

Live(e)      == entry[e].phase = "live"
Free(e, s)   == \A f \in Entry \ {e} : Live(f) => entry[f].slug # s
Future(p)    == p.status = "scheduled" => p.at > now
ScheduledFor(e, t) == entry[e].publication = At(t)

-----------------------------------------------------------------------------
(* Writing an entry.                                                       *)

\* Mutant: the job's key is the entry's alone.
EnqueuedOnce(e, p) ==
    IF p.status = "scheduled" /\ \A t \in Time : publishing[e][t] = "none"
    THEN [publishing EXCEPT ![e][p.at] = "pending"] ELSE publishing

(* enqueue_scheduled_publish: the key is the entry and the time, and a     *)
(* second enqueue of a key changes nothing.                                *)
Enqueued(e, p) ==
    IF p.status = "scheduled" /\ publishing[e][p.at] = "none"
    THEN [publishing EXCEPT ![e][p.at] = "pending"] ELSE publishing

\* Mutant: a path is remembered only when the entry was published under it.
LeftBehindPublic(e, s) ==
    IF s = entry[e].slug \/ entry[e].publication.status # "published"
       \/ \E i \in DOMAIN former : former[i] = <<e, entry[e].slug>>
    THEN former ELSE Append(former, <<e, entry[e].slug>>)

(* record_slug_history: an entry leaves a path once.                       *)
LeftBehind(e, s) ==
    IF s = entry[e].slug \/ \E i \in DOMAIN former : former[i] = <<e, entry[e].slug>>
    THEN former ELSE Append(former, <<e, entry[e].slug>>)

Archived(e, s, p) == [slug |-> s, publication |-> p]

(* update_internal_with_source, after its checks.                          *)
Save(e, s, p) ==
    /\ entry' = [entry EXCEPT ![e] = [@ EXCEPT !.slug = s, !.publication = p,
                                               !.revision = entry[e].revision + 1]]
    /\ revision' = [revision EXCEPT ![e] = Append(@, Archived(e, s, p))]
    /\ former' = LeftBehind(e, s)

Create(e, s, p) ==
    /\ entry[e].phase = "none"
    /\ Free(e, s) /\ Future(p)
    /\ Do("request")
    /\ entry' = [entry EXCEPT ![e] = [phase |-> "live", revision |-> 1, slug |-> s,
                                      publication |-> p]]
    /\ revision' = [revision EXCEPT ![e] = <<[slug |-> s, publication |-> p]>>]
    /\ publishing' = Enqueued(e, p)
    /\ UNCHANGED <<former, misfit, waiting, now>>

(* update, publish, schedule or archive arrives; a schedule is compared    *)
(* with the clock of the arrival.                                          *)
Arrive(c) ==
    /\ Live(c.entry) /\ Future(c.publication)
    /\ Do("request")
    /\ waiting' = waiting \cup {c}
    /\ UNCHANGED <<entry, revision, former, misfit, publishing, now>>

(* restore_revision: what a revision says, as a draft.                     *)
ArriveRestore(e, n) ==
    Arrive([entry |-> e, slug |-> revision[e][n].slug, publication |-> Plain("draft")])

\* Mutant: an absent field is written as it is.
NewSlugRaw(c) == c.slug

NewSlug(c) == IF c.slug = Same THEN entry[c.entry].slug ELSE c.slug
NewPublication(c) ==
    IF c.publication.status = Same THEN entry[c.entry].publication ELSE c.publication

(* The row lock is granted, and the change commits with fields that its    *)
(* type accepts.                                                           *)
Commit(c) ==
    LET e == c.entry IN
    /\ Live(e) /\ Free(e, NewSlug(c))
    /\ Save(e, NewSlug(c), NewPublication(c))
    /\ misfit' = [misfit EXCEPT ![e] = FALSE]
    /\ publishing' = Enqueued(e, NewPublication(c))
    /\ waiting' = waiting \ {c}
    /\ UNCHANGED <<now, left>>

(* Not found, path taken, fields refused, or the connection is lost.       *)
Refuse(c) ==
    /\ waiting' = waiting \ {c}
    /\ UNCHANGED <<entry, revision, former, misfit, publishing, now, left>>

(* A content type is declared anew, or no longer.                          *)
DeclareType(refused) ==
    /\ Do("operation")
    /\ misfit' = [e \in Entry |-> e \in refused]
    /\ UNCHANGED <<entry, revision, former, publishing, waiting, now>>

-----------------------------------------------------------------------------
(* Scheduled publication, as Workflow delivers it.                         *)

\* Mutant: the job looks for a draft.
CurrentDraft(e, t) == Live(e) /\ entry[e].publication.status = "draft"

(* The job still describes the entry's schedule.                           *)
Current(e, t) == Live(e) /\ ScheduledFor(e, t)

PublishScheduled(e, t) ==
    /\ publishing[e][t] = "pending" /\ t <= now
    /\ Current(e, t) => ~misfit[e]
    /\ IF Current(e, t) THEN Save(e, entry[e].slug, Plain("published"))
                        ELSE UNCHANGED <<entry, revision, former>>
    /\ publishing' = [publishing EXCEPT ![e][t] = "completed"]
    /\ UNCHANGED <<misfit, waiting, now, left>>

Replay(e, t) ==
    /\ publishing[e][t] = "completed"
    /\ Do("operation")
    /\ publishing' = [publishing EXCEPT ![e][t] = "pending"]
    /\ UNCHANGED <<entry, revision, former, misfit, waiting, now>>

-----------------------------------------------------------------------------
(* The trash.                                                              *)

Trash(e) ==
    /\ Live(e)
    /\ Do("operation")
    /\ entry' = [entry EXCEPT ![e].phase = "trashed"]
    /\ UNCHANGED <<revision, former, misfit, publishing, waiting, now>>

Restore(e) ==
    /\ entry[e].phase = "trashed"
    /\ Free(e, entry[e].slug)
    /\ entry' = [entry EXCEPT ![e].phase = "live"]
    /\ UNCHANGED <<revision, former, misfit, publishing, waiting, now, left>>

(* What others have left behind, in the order in which they left it.       *)
OfOthers(e) == {i \in DOMAIN former : former[i][1] # e}
Rank(e, i)  == Cardinality({j \in OfOthers(e) : j < i})

FormerOfOthers(e) ==
    [k \in 1 .. Cardinality(OfOthers(e)) |->
        former[CHOOSE i \in OfOthers(e) : Rank(e, i) = k - 1]]

(* permanently_delete, by hand or by retention.                            *)
Purge(e) ==
    /\ entry[e].phase = "trashed"
    /\ entry' = [entry EXCEPT ![e].phase = "gone"]
    /\ revision' = [revision EXCEPT ![e] = <<>>]
    /\ former' = FormerOfOthers(e)
    /\ UNCHANGED <<misfit, publishing, waiting, now, left>>

Tick ==
    /\ now < LastTime
    /\ now' = now + 1
    /\ UNCHANGED <<entry, revision, former, misfit, publishing, waiting, left>>

-----------------------------------------------------------------------------
Next ==
    \/ \E e \in Entry, s \in Slug, p \in Publication : Create(e, s, p)
    \/ \E c \in Change : Arrive(c)
    \/ \E e \in Entry : \E n \in DOMAIN revision[e] : ArriveRestore(e, n)
    \/ \E c \in waiting : Commit(c) \/ Refuse(c)
    \/ \E refused \in SUBSET Entry : DeclareType(refused)
    \/ \E e \in Entry, t \in Time : PublishScheduled(e, t) \/ Replay(e, t)
    \/ \E e \in Entry : Trash(e) \/ Restore(e) \/ Purge(e)
    \/ Tick

Spec == Init /\ [][Next]_vars

(* Time passes and Hatchet delivers an unfinished job until it completes.  *)
Fairness ==
    /\ WF_vars(Tick)
    /\ \A e \in Entry, t \in Time : WF_vars(PublishScheduled(e, t))

FairSpec == Spec /\ Fairness

-----------------------------------------------------------------------------
(* What the entries of a site promise.                                     *)

(* The row of an entry is its last revision, and its number counts them:   *)
(* requests and jobs that wait for one row lose or skip none.              *)
RowIsLastRevision ==
    \A e \in Entry : entry[e].phase \in {"live", "trashed"} =>
        /\ entry[e].revision = Len(revision[e])
        /\ revision[e][Len(revision[e])] =
               [slug |-> entry[e].slug, publication |-> entry[e].publication]

Public(e)  == Live(e) /\ entry[e].publication.status = "published"
Had(e)     == {revision[e][n].slug : n \in DOMAIN revision[e]}

(* public_get: the entry under the path, or the last that left it.         *)
Leads(s, e) ==
    \/ Public(e) /\ entry[e].slug = s
    \/ /\ \A f \in Entry : Public(f) => entry[f].slug # s
       /\ \E i \in DOMAIN former :
             /\ former[i] = <<e, s>> /\ Public(e)
             /\ \A j \in i + 1 .. Len(former) : former[j][2] = s => ~Public(former[j][1])

(* Every path a public entry ever had leads to one public entry that has   *)
(* had it, whatever was renamed, restored, trashed or purged since.        *)
PathsLead ==
    \A e \in Entry : Public(e) => \A s \in Had(e) :
        \E f \in Entry : /\ Leads(s, f) /\ s \in Had(f)
                         /\ \A g \in Entry : Leads(s, g) => g = f

(* An entry scheduled for a time to come has a job for that time, however  *)
(* often it was rescheduled, edited, trashed and restored.                 *)
ScheduleHasJob ==
    \A e \in Entry, t \in Time :
        entry[e].phase \in {"live", "trashed"} /\ ScheduledFor(e, t) /\ t > now
            => publishing[e][t] = "pending"

(* An entry that is scheduled for a time to come is published, unless it   *)
(* is changed or trashed first or its type comes to refuse its fields.     *)
ScheduledComesOut ==
    \A e \in Entry, t \in Time :
        Live(e) /\ ScheduledFor(e, t) /\ t > now
            ~> ~Live(e) \/ ~ScheduledFor(e, t) \/ misfit[e]

(* The same for any scheduled entry.                                       *)
NoScheduleIsLost ==
    \A e \in Entry, t \in Time :
        Live(e) /\ ScheduledFor(e, t) ~> ~Live(e) \/ ~ScheduledFor(e, t) \/ misfit[e]
=============================================================================
