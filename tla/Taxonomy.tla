------------------------------- MODULE Taxonomy -------------------------------
(***************************************************************************)
(* The categories of mavi-taxonomy, each under another one or at the root, *)
(* and the terms assigned to entries.  A request checks what it was asked  *)
(* for with queries of its own, and writes later; nothing is locked in     *)
(* between.  A deletion has locked the rows it changed until it commits.   *)
(***************************************************************************)
EXTENDS Naturals

CONSTANTS Term,
          Slugs,       \* Slugs[t]: the slug of t
          Article,     \* entries that terms are assigned to
          Editor,      \* requests that overlap
          Root,        \* no parent
          Operations   \* bound on requests

TaxonomyAssumption == Root \notin Term

VARIABLES
    term,      \* rows: phase and parent
    assigned,  \* rows of content_term_assignments of an entry: a term, and who inserted it
    task,      \* requests that have checked and not written
    changed,   \* requests of task during which a move or a replacement committed
    operations \* requests left

vars == <<term, assigned, task, changed, operations>>

NoTask == [kind |-> "none", t |-> Root, parent |-> Root, a |-> Root, terms |-> {}, cleared |-> {}]

Init ==
    /\ term \in {f \in [Term -> [phase : {"live", "none"}, parent : {Root}]] :
                    \E t \in Term : f[t].phase = "none"}
    /\ \A t, u \in Term : t # u /\ Slugs[t] = Slugs[u] => "none" \in {term[t].phase, term[u].phase}
    /\ assigned = [a \in Article |-> {}]
    /\ task = [e \in Editor |-> NoTask]
    /\ changed = {}
    /\ operations = Operations

----------------------------------------------------------------------------
Live == {t \in Term : term[t].phase = "live"}
Rows == {t \in Term : term[t].phase # "none"}

\* The unique index of live terms.
SlugFree(t) == \A u \in Live \ {t} : Slugs[u] # Slugs[t]

Closed(S) == \A u \in S : term[u].parent \in S \cup {Root}

\* Everything above a term, in the trash or not, as the recursive query finds it: what is in
\* every set that has its parent, and with a term the term's parent.  A term of a cycle is
\* above itself.
Above(t) ==
    {u \in Term : \A S \in SUBSET Term : Closed(S) /\ term[t].parent \in S \cup {Root} => u \in S}

\* Mutant: only the parent itself is looked at.
MayBeDirectlyUnder(t, p) == p = Root \/ (p # t /\ p \in Live)

\* read_parent
MayBeUnder(t, p) == p = Root \/ (p # t /\ p \in Live /\ t \notin Above(p))

Begin(e)   == task[e].kind = "none" /\ operations > 0 /\ operations' = operations - 1
Check(e, r) == task' = [task EXCEPT ![e] = r] /\ changed' = changed \ {e}
\* What commits changes the ground of the others' checks.
Done(e, commits) ==
    /\ task' = [task EXCEPT ![e] = NoTask]
    /\ changed' = (changed \cup {d \in Editor : commits /\ task[d].kind # "none"}) \ {e}

----------------------------------------------------------------------------
Create(e, t, p) ==
    /\ Begin(e) /\ term[t].phase = "none" /\ \A d \in Editor : task[d].t # t
    /\ MayBeUnder(t, p)
    /\ Check(e, [NoTask EXCEPT !.kind = "create", !.t = t, !.parent = p])
    /\ UNCHANGED <<term, assigned>>

\* A request that names no parent checks the one the term has.
Update(e, t, p) ==
    /\ Begin(e) /\ t \in Live
    /\ MayBeUnder(t, p)
    /\ Check(e, [NoTask EXCEPT !.kind = "move", !.t = t, !.parent = p])
    /\ UNCHANGED <<term, assigned>>

\* The rows that deletions under way have changed.  Who writes one waits, and who writes a
\* term with the slug of one.
Held(e)    == UNION {{task[d].t} \cup task[d].terms : d \in {x \in Editor \ {e} : task[x].kind = "trash"}}
Free(e, t) == \A u \in Held(e) : u # t /\ Slugs[u] # Slugs[t]

\* The foreign key wants the parent's row only.
WriteTerm(e) ==
    LET r == task[e]
        was == term[r.t].phase
        fits == r.parent \in Rows \cup {Root} /\ IF r.kind = "create" THEN SlugFree(r.t) ELSE was = "live"
    IN  /\ r.kind \in {"create", "move"} /\ Free(e, r.t)
        /\ term' = IF fits THEN [term EXCEPT ![r.t] = [phase |-> "live", parent |-> r.parent]] ELSE term
        /\ Done(e, fits)
        /\ UNCHANGED <<assigned, operations>>

\* Into the trash: the term and the children that are there by now are changed and locked.
Children(t) == {u \in Live : term[u].parent = t}

Delete(e, t) ==
    /\ Begin(e) /\ t \in Live
    /\ ({t} \cup Children(t)) \cap Held(e) = {}
    /\ Check(e, [NoTask EXCEPT !.kind = "trash", !.t = t, !.terms = Children(t)])
    /\ UNCHANGED <<term, assigned>>

\* Its assignments go, and it commits: those children are at the root.
Unassign(e) ==
    LET r == task[e]
    IN  /\ r.kind = "trash"
        /\ term' = [u \in Term |-> IF u = r.t THEN [term[u] EXCEPT !.phase = "trash"]
                                   ELSE IF u \in r.terms THEN [term[u] EXCEPT !.parent = Root]
                                   ELSE term[u]]
        /\ assigned' = [a \in Article |-> {x \in assigned[a] : x[1] # r.t}]
        /\ Done(e, TRUE) /\ UNCHANGED operations

\* From the trash, under the parent it had, wherever that is.
Restore(e, t) ==
    /\ Begin(e) /\ term[t].phase = "trash" /\ Free(e, t) /\ SlugFree(t)
    /\ term' = [term EXCEPT ![t].phase = "live"]
    /\ Done(e, TRUE) /\ UNCHANGED assigned

\* For good, unless a row has it as its parent: the key cannot be set to null.
Purge(e, t) ==
    /\ Begin(e) /\ term[t].phase = "trash"
    /\ \A u \in Rows : term[u].parent # t
    /\ term' = [term EXCEPT ![t] = [phase |-> "none", parent |-> Root]]
    /\ assigned' = [a \in Article |-> {x \in assigned[a] : x[1] # t}]
    /\ Done(e, TRUE)

----------------------------------------------------------------------------
(* replace_for_content.                                                    *)

FindTerms(e, a, S) ==
    /\ Begin(e) /\ S \subseteq Live
    /\ Check(e, [NoTask EXCEPT !.kind = "replace", !.a = a, !.terms = S])
    /\ UNCHANGED <<term, assigned>>

\* What the delete statement sees.
Seen(a) == assigned[a]

ClearOut(e) ==
    /\ task[e].kind = "replace"
    /\ task' = [task EXCEPT ![e].kind = "insert", ![e].cleared = Seen(task[e].a)]
    /\ UNCHANGED <<term, assigned, changed, operations>>

\* One row for a term and an entry; each of them refers to a row that is there.
InsertAll(e) ==
    LET r == task[e]
        stay == assigned[r.a] \ r.cleared
        fits == r.terms \subseteq Rows /\ {x[1] : x \in stay} \cap r.terms = {}
    IN  /\ r.kind = "insert"
        /\ assigned' = IF fits THEN [assigned EXCEPT ![r.a] = stay \cup (r.terms \X {e})] ELSE assigned
        /\ Done(e, fits)
        /\ UNCHANGED <<term, operations>>

\* list_for_content: what a page shows.
Shown(a) == {x[1] : x \in assigned[a]} \cap Live

Next == \E e \in Editor :
    \/ \E t \in Term : \/ \E p \in Term \cup {Root} : Create(e, t, p) \/ Update(e, t, p)
                       \/ Delete(e, t) \/ Restore(e, t) \/ Purge(e, t)
    \/ \E a \in Article, S \in SUBSET Term : FindTerms(e, a, S)
    \/ WriteTerm(e) \/ Unassign(e) \/ ClearOut(e) \/ InsertAll(e)

Spec == Init /\ [][Next]_vars

----------------------------------------------------------------------------
TypeOK ==
    /\ term \in [Term -> [phase : {"none", "live", "trash"}, parent : Term \cup {Root}]]
    /\ assigned \in [Article -> SUBSET (Term \X Editor)]
    /\ \A e \in Editor : task[e].kind \in {"none", "create", "move", "trash", "replace", "insert"}
    /\ changed \subseteq Editor
    /\ operations \in 0 .. Operations

Cyclic(t) == t \in Above(t)

Wrote(e) == task[e].kind # "none" /\ task'[e].kind = "none"

\* A term comes to be above itself only when two moves overlap.
ClosesNoCycle == \A t \in Term : ~Cyclic(t) /\ Cyclic(t)' => \E e \in changed : Wrote(e)

\* A live term comes to be under one in the trash only by a restore or a race.
StaysAttached == \A t \in Live : term[t].parent \in Live \cup {Root} /\ term'[t].phase = "live"
    => term'[t].parent = Root \/ term'[term'[t].parent].phase = "live" \/ \E e \in changed : Wrote(e)

\* What was asked for is what the entry has, unless another request changed it meanwhile.
Replaces == \A e \in Editor \ changed :
    task[e].kind = "insert" /\ Wrote(e) => {x[1] : x \in assigned'[task[e].a]} = task[e].terms

\* Rows refer to rows.
Refers == /\ \A a \in Article : \A x \in assigned[a] : x[1] \in Rows
          /\ \A t \in Rows : term[t].parent \in Rows \cup {Root}

TreeStep == ClosesNoCycle /\ StaysAttached /\ Replaces /\ Refers'

(* The tree has no cycle and nothing hangs under the trash, and an entry   *)
(* has the terms that were asked for, as long as no other change commits   *)
(* between a request's checks and its write; whatever overlaps, no row     *)
(* refers to one that was purged.                                          *)
TreeHolds == [][TreeStep]_vars

(* The tree has no cycle.  Not so: two overlapping moves close one.        *)
NoCycles == \A t \in Term : ~Cyclic(t)

(* A replacement replaces.  Not so: two of them leave the union.           *)
NoUnion == [][\A e \in Editor : task[e].kind = "insert" /\ Wrote(e) /\ assigned' # assigned
                => {x[1] : x \in assigned'[task[e].a]} = task[e].terms]_vars
===============================================================================
