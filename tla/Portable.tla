------------------------------- MODULE Portable -------------------------------
(***************************************************************************)
(* mavi-portable: a bundle is read from one site by one query per section, *)
(* each of which sees what is committed by then, is checked, and is        *)
(* written into another site in one transaction.  People go on working on  *)
(* both sites.                                                             *)
(***************************************************************************)
EXTENDS Naturals, FiniteSets

CONSTANTS Place,         \* sites
          Item,          \* entries, by the id that a bundle carries along
          Node,          \* categories, likewise
          Tongue,        \* language tags
          Spoken,        \* Spoken[s]: the languages that a site starts with
          Speech,        \* Speech[i]: the language of an entry
          Nowhere,       \* no parent, no site
          LastRevision,  \* bound of revision numbers
          Works, Exports, Imports \* bounds of what people do

PortableAssumption ==
    /\ Spoken \in [Place -> SUBSET Tongue \ {{}}] /\ Speech \in [Item -> Tongue]
    /\ Nowhere \notin Node \cup Place
    /\ LastRevision \in Nat

VARIABLES
    item,     \* content_entries: phase, number of the current revision, schedule
    archive,  \* numbers of content_revisions
    publish,  \* entries with a job for the current schedule
    tree,     \* taxonomy_terms: phase and parent
    label,    \* content_term_assignments
    tongues,  \* site_languages
    reading,  \* an export between its queries
    bundle,   \* the last bundle handed out
    torn,     \* entries edited between the two queries that read them
    behind,   \* entries that an import set back, or took from a torn bundle
    bounds    \* what is left to do

site == <<item, archive, publish, tree, label, tongues>>
vars == <<item, archive, publish, tree, label, tongues, reading, bundle, torn, behind, bounds>>

Section  == {"languages", "terms", "entries", "revisions", "assignments", "checks"}
Empty    == [from |-> Nowhere, tongues |-> {}, nodes |-> {}, parent |-> [n \in Node |-> Nowhere],
             items |-> {}, revision |-> [i \in Item |-> 0], status |-> [i \in Item |-> "draft"],
             archive |-> [i \in Item |-> {}], labels |-> {}, torn |-> {}]
Idle     == [section |-> "languages", got |-> Empty]

TypeOK ==
    /\ item \in [Place -> [Item -> [phase : {"none", "live", "trash"}, revision : 0 .. LastRevision,
                                    status : {"draft", "scheduled"}]]]
    /\ archive \in [Place -> [Item -> SUBSET (1 .. LastRevision)]]
    /\ publish \in [Place -> SUBSET Item]
    /\ tree \in [Place -> [Node -> [phase : {"none", "live", "trash"}, parent : Node \cup {Nowhere}]]]
    /\ label \in [Place -> SUBSET (Item \X Node)]
    /\ tongues \in [Place -> SUBSET Tongue]
    /\ \A s \in Place : reading[s].section \in Section
    /\ bundle.from \in Place \cup {Nowhere}
    /\ torn \in [Place -> SUBSET Item] /\ behind \in [Place -> SUBSET Item]

Init ==
    /\ item = [s \in Place |-> [i \in Item |-> [phase |-> "none", revision |-> 0, status |-> "draft"]]]
    /\ archive = [s \in Place |-> [i \in Item |-> {}]]
    /\ publish = [s \in Place |-> {}]
    /\ tree = [s \in Place |-> [n \in Node |-> [phase |-> "none", parent |-> Nowhere]]]
    /\ label = [s \in Place |-> {}]
    /\ tongues = Spoken
    /\ reading = [s \in Place |-> Idle]
    /\ bundle = Empty
    /\ torn = [s \in Place |-> {}] /\ behind = [s \in Place |-> {}]
    /\ bounds = [works |-> Works, exports |-> Exports, imports |-> Imports]

----------------------------------------------------------------------------
(* People at work, one transaction each; the other modules have the detail *)

Do(what) == bounds[what] > 0 /\ bounds' = [bounds EXCEPT ![what] = @ - 1]
Work     == Do("works") /\ UNCHANGED <<reading, bundle, behind>>

LiveItems(s) == {i \in Item : item[s][i].phase = "live"}
LiveNodes(s) == {n \in Node : tree[s][n].phase = "live"}

\* create, update and schedule: the next number, which must be free, and the job of a schedule.
Edit(s, i, status) ==
    LET next == item[s][i].revision + 1
    IN  /\ Work
        /\ item[s][i].phase # "trash" /\ next <= LastRevision
        /\ next \notin archive[s][i]
        /\ item' = [item EXCEPT ![s][i] = [phase |-> "live", revision |-> next, status |-> status]]
        /\ archive' = [archive EXCEPT ![s][i] = @ \cup {next}]
        /\ publish' = [publish EXCEPT ![s] = IF status = "scheduled" THEN @ \cup {i} ELSE @ \ {i}]
        /\ torn' = [torn EXCEPT ![s] = IF reading[s].section = "revisions" THEN @ \cup {i} ELSE @]
        /\ UNCHANGED <<tree, label, tongues>>

TrashItem(s, i) ==
    /\ Work /\ i \in LiveItems(s)
    /\ item' = [item EXCEPT ![s][i].phase = "trash"]
    /\ UNCHANGED <<archive, publish, tree, label, tongues, torn>>

RestoreItem(s, i) ==
    /\ Work /\ item[s][i].phase = "trash"
    /\ item' = [item EXCEPT ![s][i].phase = "live"]
    /\ UNCHANGED <<archive, publish, tree, label, tongues, torn>>

Plant(s, n, p) ==
    /\ Work /\ tree[s][n].phase = "none" /\ p \in LiveNodes(s) \cup {Nowhere}
    /\ tree' = [tree EXCEPT ![s][n] = [phase |-> "live", parent |-> p]]
    /\ UNCHANGED <<item, archive, publish, label, tongues, torn>>

\* Children go to the root, and the category's entries lose it.
TrashNode(s, n) ==
    /\ Work /\ n \in LiveNodes(s)
    /\ tree' = [tree EXCEPT ![s] =
                   [m \in Node |-> IF m = n THEN [@[m] EXCEPT !.phase = "trash"]
                                   ELSE IF @[m].phase = "live" /\ @[m].parent = n
                                        THEN [@[m] EXCEPT !.parent = Nowhere] ELSE @[m]]]
    /\ label' = [label EXCEPT ![s] = {l \in @ : l[2] # n}]
    /\ UNCHANGED <<item, archive, publish, tongues, torn>>

\* Under the parent it had.
RestoreNode(s, n) ==
    /\ Work /\ tree[s][n].phase = "trash"
    /\ tree' = [tree EXCEPT ![s][n].phase = "live"]
    /\ UNCHANGED <<item, archive, publish, label, tongues, torn>>

Assign(s, i, n) ==
    /\ Work /\ i \in LiveItems(s) /\ n \in LiveNodes(s)
    /\ label' = [label EXCEPT ![s] = @ \cup {<<i, n>>}]
    /\ UNCHANGED <<item, archive, publish, tree, tongues, torn>>

\* delete_language, of any but the last, which is the default (Settings has that); nothing
\* asks whether entries are written in it.
DropTongue(s, t) ==
    /\ Work /\ t \in tongues[s] /\ tongues[s] # {t}
    /\ tongues' = [tongues EXCEPT ![s] = @ \ {t}]
    /\ UNCHANGED <<item, archive, publish, tree, label, torn>>

----------------------------------------------------------------------------
(* export: the site's languages, its terms, its entries, their revisions   *)
(* (and, by a like query, old paths), their assignments.                   *)

Following == [languages |-> "terms", terms |-> "entries", entries |-> "revisions",
          revisions |-> "assignments", assignments |-> "checks"]
Got(s, section, got) ==
    /\ reading[s].section = section
    /\ reading' = [reading EXCEPT ![s] = [section |-> Following[section], got |-> got]]

WithLanguages(s, b) == [b EXCEPT !.from = s, !.tongues = tongues[s]]

WithTerms(s, b) ==
    [b EXCEPT !.nodes = LiveNodes(s),
              !.parent = [n \in Node |-> IF n \in LiveNodes(s) THEN tree[s][n].parent ELSE Nowhere]]

WithEntries(s, b) ==
    [b EXCEPT !.items = LiveItems(s),
              !.revision = [i \in Item |-> IF i \in LiveItems(s) THEN item[s][i].revision ELSE 0],
              !.status = [i \in Item |-> IF i \in LiveItems(s) THEN item[s][i].status ELSE "draft"]]

\* Of the entries that are live by now.
WithRevisions(s, b) ==
    [b EXCEPT !.archive = [i \in Item |-> IF i \in LiveItems(s) THEN archive[s][i] ELSE {}],
              !.torn = torn[s] \cup behind[s]]

WithAssignments(s, b) ==
    [b EXCEPT !.labels = {l \in label[s] : l[1] \in LiveItems(s) /\ l[2] \in LiveNodes(s)}]

ReadLanguages(s) ==
    /\ Do("exports")
    /\ Got(s, "languages", WithLanguages(s, Empty))
    /\ UNCHANGED <<site, bundle, torn, behind>>

ReadTerms(s) ==
    /\ Got(s, "terms", WithTerms(s, reading[s].got))
    /\ UNCHANGED <<site, bundle, torn, behind, bounds>>

ReadEntries(s) ==
    /\ Got(s, "entries", WithEntries(s, reading[s].got))
    /\ torn' = [torn EXCEPT ![s] = {}]
    /\ UNCHANGED <<site, bundle, behind, bounds>>

ReadRevisions(s) ==
    /\ Got(s, "revisions", WithRevisions(s, reading[s].got))
    /\ UNCHANGED <<site, bundle, torn, behind, bounds>>

ReadAssignments(s) ==
    /\ Got(s, "assignments", WithAssignments(s, reading[s].got))
    /\ UNCHANGED <<site, bundle, torn, behind, bounds>>

----------------------------------------------------------------------------
(* The checks of a bundle.                                                 *)

\* The terms of the bundle above one of them.
Ancestors(b, n) ==
    LET up[k \in 0 .. Cardinality(Node)] ==
            IF k = 0 THEN {b.parent[n]}
            ELSE up[k - 1] \cup {b.parent[m] : m \in up[k - 1] \cap b.nodes}
    IN  up[Cardinality(Node)] \cap b.nodes

\* validate_terms
ValidTerms(b) == \A n \in b.nodes : n \notin Ancestors(b, n)

\* Mutant: what an entry is now need not be among its revisions.
EveryoneHasOne(b) == TRUE

CurrentRevisions(b) == \A i \in b.items : b.revision[i] \in b.archive[i]

\* validate_content
ValidContent(b) ==
    /\ \A i \in b.items : Speech[i] \in b.tongues
    /\ \A i \in Item : b.archive[i] # {} => i \in b.items
    /\ CurrentRevisions(b)

\* validate_assignments
ValidAssignments(b) == b.labels \subseteq b.items \X b.nodes

\* validate_for_site
Valid(b) == b.tongues # {} /\ ValidTerms(b) /\ ValidContent(b) /\ ValidAssignments(b)

\* The export answers with the bundle, or with what is wrong with it.
HandOut(s) ==
    /\ reading[s].section = "checks"
    /\ bundle' = IF Valid(reading[s].got) THEN reading[s].got ELSE bundle
    /\ reading' = [reading EXCEPT ![s] = Idle]
    /\ UNCHANGED <<site, torn, behind, bounds>>

----------------------------------------------------------------------------
(* import                                                                  *)

\* validate_external_parents
ExternalParents(s, b) ==
    \A n \in b.nodes : b.parent[n] \in b.nodes \cup LiveNodes(s) \cup {Nowhere}

\* ordered_terms: a term comes after its parent, which only a term of the bundle can.
Ordered(b) == \A n \in b.nodes : b.parent[n] \in b.nodes \cup {Nowhere}

\* ensure_create_only
Unknown(s, b) ==
    /\ b.tongues \cap tongues[s] = {}
    /\ \A n \in b.nodes : tree[s][n].phase = "none"
    /\ \A i \in b.items : item[s][i].phase = "none"

\* The rows of the bundle over those of the site; a row that is in the trash comes out of it.
TermsOver(s, b) ==
    [n \in Node |-> IF n \in b.nodes THEN [phase |-> "live", parent |-> b.parent[n]]
                                     ELSE tree[s][n]]

EntriesOver(s, b) ==
    [i \in Item |-> IF i \in b.items
                    THEN [phase |-> "live", revision |-> b.revision[i], status |-> b.status[i]]
                    ELSE item[s][i]]

RevisionsOver(s, b) == [i \in Item |-> archive[s][i] \cup b.archive[i]]

AssignmentsOver(s, b) == label[s] \cup b.labels

\* A dry run checks the bundle and writes nothing.  Otherwise all of it is written in one
\* transaction; neither strategy enqueues the job of a schedule.
Import(s, upsert) ==
    LET b == bundle
    IN  /\ Do("imports")
        /\ b.from \notin {s, Nowhere}
        /\ Valid(b) /\ ExternalParents(s, b) /\ Ordered(b)
        /\ upsert \/ Unknown(s, b)
        /\ tongues' = [tongues EXCEPT ![s] = @ \cup b.tongues]
        /\ tree' = [tree EXCEPT ![s] = TermsOver(s, b)]
        /\ item' = [item EXCEPT ![s] = EntriesOver(s, b)]
        /\ archive' = [archive EXCEPT ![s] = RevisionsOver(s, b)]
        /\ label' = [label EXCEPT ![s] = AssignmentsOver(s, b)]
        /\ publish' = [publish EXCEPT ![s] = {i \in @ : i \in b.items => b.status[i] = "scheduled"}]
        /\ behind' = [behind EXCEPT ![s] = @ \cup {i \in b.items :
                          i \in b.torn \/ item[s][i].revision > b.revision[i]}]
        /\ torn' = [torn EXCEPT ![s] = IF reading[s].section = "revisions" THEN @ \cup b.items ELSE @]
        /\ UNCHANGED <<reading, bundle>>

Next ==
    \E s \in Place :
        \/ \E i \in Item, status \in {"draft", "scheduled"} : Edit(s, i, status)
        \/ \E i \in Item : TrashItem(s, i) \/ RestoreItem(s, i)
        \/ \E n \in Node : TrashNode(s, n) \/ RestoreNode(s, n)
        \/ \E n \in Node, p \in Node \cup {Nowhere} : Plant(s, n, p)
        \/ \E i \in Item, n \in Node : Assign(s, i, n)
        \/ \E t \in Tongue : DropTongue(s, t)
        \/ ReadLanguages(s) \/ ReadTerms(s) \/ ReadEntries(s) \/ ReadRevisions(s)
        \/ ReadAssignments(s) \/ HandOut(s)
        \/ \E upsert \in BOOLEAN : Import(s, upsert)

Spec == Init /\ [][Next]_vars

----------------------------------------------------------------------------
(* What an import leaves behind holds together, whatever was done to the   *)
(* exporting site between the queries of the export: a live entry's        *)
(* current revision is archived, assignments are of entries and live terms *)
(* that the site has, and an entry whose next number is taken, so that it  *)
(* cannot be edited, was set back by an import or was edited while the     *)
(* bundle was read.                                                        *)
ImportsHold ==
    \A s \in Place :
        /\ \A i \in LiveItems(s) :
            /\ item[s][i].revision \in archive[s][i]
            /\ item[s][i].revision + 1 \in archive[s][i] => i \in behind[s]
        /\ \A l \in label[s] : item[s][l[1]].phase # "none" /\ l[2] \in LiveNodes(s)

(* A live entry can be edited.  TLC refutes it: an upsert of a bundle that *)
(* is older than the entry, or that was read while the entry was edited,   *)
(* leaves it at a number whose successor is archived, and every later      *)
(* update fails on the key of content_revisions.                           *)
EditsGoOn ==
    \A s \in Place : \A i \in LiveItems(s) : item[s][i].revision + 1 \notin archive[s][i]

(* A scheduled entry has the job that publishes it.  TLC refutes it: an    *)
(* import writes the schedule and enqueues nothing.                        *)
SchedulesHaveJobs ==
    \A s \in Place : \A i \in LiveItems(s) : item[s][i].status = "scheduled" => i \in publish[s]

(* A site that nobody is working on can be exported.  TLC refutes it: the  *)
(* language of an entry was deleted.                                       *)
SitesCanBeExported ==
    \A s \in Place : Valid(WithAssignments(s, WithRevisions(s, WithEntries(s,
                               WithTerms(s, WithLanguages(s, Empty))))))

(* A bundle that was handed out has its terms in an order in which they    *)
(* can be imported.  TLC refutes it: a category was restored from under a  *)
(* parent that is still in the trash.                                      *)
BundlesCanBeImported == Ordered(bundle)
=============================================================================
