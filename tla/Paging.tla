-------------------------------- MODULE Paging --------------------------------
(***************************************************************************)
(* The lists of the API.  Each is read a page at a time: a query returns   *)
(* the rows behind a cursor in a fixed order, one more than the page       *)
(* holds, and the cursor of the next page is the key of the page's last    *)
(* row.  Every page is a transaction of its own, so rows arrive, change,   *)
(* leave and come back between two pages.  A listing says what a function  *)
(* of the services orders its rows by and which of them it shows; the      *)
(* machine walks one listing from its first page to its last.              *)
(***************************************************************************)
EXTENDS Integers, Sequences, FiniteSets

CONSTANTS Row,        \* the ids of rows, numbers: the last column of each key
          Limit,      \* rows in a page
          LastTime,   \* bound on the clock
          LastPlace,  \* bound on positions and names
          Edits       \* bound on changes to rows of the table

PagingAssumption ==
    /\ Row \subseteq Nat /\ IsFiniteSet(Row) /\ Limit \in Nat \ {0}
    /\ {LastTime, LastPlace, Edits} \subseteq Nat

(***************************************************************************)
(* Listings.  key: "stamped" with the start of the transaction that made   *)
(* the row and never changed; "touched", stamped again by each change;     *)
(* "placed", a position that other requests change; "named", given by the  *)
(* caller, a text or a time.  down: the largest first.  mixed: the key     *)
(* descends, what tells equal keys apart ascends.  live: rows in the trash *)
(* are left out.  narrow: it may be narrowed by a column that changes.  under: each *)
(* page first looks the parent up.  text: the cursor holds a text, which   *)
(* may not fit into it.                                                    *)
(***************************************************************************)
Listing(key, down) == [key |-> key, down |-> down, mixed |-> FALSE, live |-> FALSE,
                       narrow |-> FALSE, under |-> FALSE, text |-> FALSE]

Newest == Listing("stamped", TRUE)
Oldest == Listing("stamped", FALSE)

Live(l)   == [l EXCEPT !.live = TRUE]
Narrow(l) == [l EXCEPT !.narrow = TRUE]
Under(l)  == [l EXCEPT !.under = TRUE]
Text(l)   == [l EXCEPT !.text = TRUE]
Mixed(l)  == [l EXCEPT !.mixed = TRUE]

\* mavi-secrets, mavi-settings, mavi-audit, mavi-feedback
Credentials == Oldest
Languages   == Oldest
AuditEvents == Newest
Reports     == Narrow(Newest)

\* mavi-shop
Products    == Live(Narrow(Newest))
Coupons     == Live(Newest)
Orders      == Narrow(Newest)

\* mavi-design
Changes     == Narrow(Newest)
Sources     == Under(Text(Listing("named", FALSE)))
Builds      == Under(Newest)

\* mavi-boards
Boards      == Live(Narrow(Newest))
BoardLists  == Live(Under(Listing("placed", FALSE)))
Cards       == Live(Narrow(Under(Listing("placed", FALSE))))
Comments    == Live(Under(Oldest))
Activity    == Under(Newest)

\* mavi-taxonomy, mavi-analytics
TermContent == Live(Under(Newest))
Terms       == Live(Narrow(Newest))
Events      == Listing("named", TRUE)
Daily       == Text(Mixed(Listing("named", TRUE)))

\* mavi-flows, mavi-forms
AllFlows    == Live(Narrow(Newest))
FlowRuns    == Narrow(Under(Newest))
Forms       == Live(Newest)
Submissions == Live(Narrow(Under(Newest)))
Exported    == Live(Under(Newest))

\* mavi-mail
MailLists   == Live(Newest)
Readers     == Live(Narrow(Under(Newest)))
Deliveries  == Narrow(Newest)
Templates   == Live(Newest)

\* mavi-courses
Courses     == Live(Narrow(Newest))
Lessons     == Newest
Students    == Live(Narrow(Newest))
Enrolments  == Under(Newest)
Learning    == Live(Newest)
Instructors == Under(Oldest)

\* mavi-media, mavi-identity
Files       == Live(Newest)
Variants    == Under(Oldest)
People      == Narrow(Newest)
Roles       == Newest
Keys        == Narrow(Newest)

\* mavi-content, mavi-application
Revisions   == Under(Newest)
Entries     == Live(Narrow(Newest))
Archive     == Live(Narrow(Newest))
Types       == Oldest
Trash       == Live(Listing("touched", TRUE))
Jobs        == Narrow(Newest)
Runs        == Listing("touched", TRUE)

Listings ==
    {Credentials, Languages, AuditEvents, Reports, Products, Coupons, Orders,
     Changes, Sources, Builds, Boards, BoardLists, Cards, Comments, Activity, TermContent,
     Terms, Events, Daily, AllFlows, FlowRuns, Forms, Submissions, Exported, MailLists,
     Readers, Deliveries, Templates, Courses, Lessons, Students, Enrolments, Learning,
     Instructors, Files, Variants, People, Roles, Keys, Revisions, Entries, Archive, Types,
     Trash, Jobs, Runs}

VARIABLES
    listing,  \* the listing that is read
    row,      \* the rows of its table, by id
    now,      \* the clock of the database
    parent,   \* the row the listing is under is there
    walk,     \* the reader who follows the cursors
    edits     \* changes left

vars == <<listing, row, now, parent, walk, edits>>

Nothing == [phase |-> "none", at |-> 0, long |-> FALSE]
NoKey   == <<>>

Init ==
    /\ listing \in Listings
    /\ row \in [Row -> {Nothing} \cup {[phase |-> "shown", at |-> t, long |-> FALSE] : t \in {0, 1}}]
    /\ now = 1
    /\ parent = TRUE
    /\ walk = [state |-> "none", after |-> NoKey, seen |-> <<>>, stayed |-> {}, moved |-> {}]
    /\ edits = Edits

----------------------------------------------------------------------------
(* The table.                                                              *)

Key(r) == <<row[r].at, r>>

\* Row comparison of PostgreSQL, and the order of the result.
Less(a, b) == a[1] < b[1] \/ (a[1] = b[1] /\ a[2] < b[2])
Before(l, a, b) ==
    IF l.mixed THEN a[1] > b[1] \/ (a[1] = b[1] /\ a[2] < b[2])
               ELSE IF l.down THEN Less(b, a) ELSE Less(a, b)

Shown == {r \in Row : row[r].phase = "shown"}

Tick == /\ now < LastTime
        /\ now' = now + 1
        /\ UNCHANGED <<listing, row, parent, walk, edits>>

\* now() is the start of the transaction: a row that commits later has it all the same.
Begin(r) ==
    /\ row[r] = Nothing /\ edits > 0
    /\ \E at \in IF listing.key \in {"stamped", "touched"} THEN {now} ELSE 0 .. LastPlace,
          long \in IF listing.text THEN BOOLEAN ELSE {FALSE} :
            row' = [row EXCEPT ![r] = [phase |-> "begun", at |-> at, long |-> long]]
    /\ edits' = edits - 1
    /\ UNCHANGED <<listing, now, parent, walk>>

Commit(r) ==
    /\ row[r].phase = "begun"
    /\ row' = [row EXCEPT ![r].phase = "shown"]
    /\ UNCHANGED <<listing, now, parent, walk, edits>>

\* A position is rewritten, or a run or the trash stamps the row again.
Change(r) ==
    /\ row[r].phase \in {"shown", "hidden"} /\ edits > 0
    /\ \E at \in CASE listing.key = "placed"  -> 0 .. LastPlace
                   [] listing.key = "touched" -> {now}
                   [] OTHER                   -> {} :
            row' = [row EXCEPT ![r].at = at]
    /\ walk' = [walk EXCEPT !.stayed = @ \ {r}, !.moved = @ \cup {r}]
    /\ edits' = edits - 1
    /\ UNCHANGED <<listing, now, parent>>

\* The row goes to the trash, or no longer is what the listing is narrowed to.
Leave(r) ==
    /\ row[r].phase = "shown" /\ edits > 0
    /\ listing.live \/ listing.narrow
    /\ row' = [row EXCEPT ![r].phase = "hidden"]
    /\ walk' = [walk EXCEPT !.stayed = @ \ {r}]
    /\ edits' = edits - 1
    /\ UNCHANGED <<listing, now, parent>>

Return(r) ==
    /\ row[r].phase = "hidden"
    /\ row' = [row EXCEPT ![r].phase = "shown"]
    /\ UNCHANGED <<listing, now, parent, walk, edits>>

\* What a listing is under may go, and everything under it with it.
ParentGoes ==
    /\ listing.under /\ parent /\ edits > 0
    /\ parent' = FALSE
    /\ edits' = edits - 1
    /\ UNCHANGED <<listing, row, now, walk>>

----------------------------------------------------------------------------
(* The walk.                                                               *)

Behind(after) == {r \in Shown : after = NoKey \/ Before(listing, after, Key(r))}
Rank(after, r) == Cardinality({q \in Behind(after) : Before(listing, Key(q), Key(r))})

\* One row more than the page holds, so that the end is known.
Fetched(after) ==
    LET all == Cardinality(Behind(after))
    IN  [k \in 1 .. IF all > Limit THEN Limit + 1 ELSE all |->
            CHOOSE r \in Behind(after) : Rank(after, r) = k - 1]

Items(fetched) == SubSeq(fetched, 1, IF Len(fetched) > Limit THEN Limit ELSE Len(fetched))

More(fetched) == Len(fetched) > Limit

\* Mutant: the cursor is the key of the row beyond the page.
BeyondCursor(fetched) == Key(fetched[Limit + 1])

\* The key of the page's last row; the row that was fetched beyond it begins the next page.
NextCursor(fetched) == Key(fetched[Limit])

\* The cursor holds the text of its key, and is refused when it is too long.
Fits(fetched) == ~row[fetched[Limit]].long

Page ==
    /\ walk.state \in {"none", "reading"}
    /\ IF ~parent
         THEN walk' = [walk EXCEPT !.state = "not_found"]
         ELSE LET fetched == Fetched(walk.after)
                  stayed  == IF walk.state = "none" THEN Shown ELSE walk.stayed
              IN  walk' = IF More(fetched) /\ ~Fits(fetched)
                          THEN [walk EXCEPT !.state = "refused"]
                          ELSE [state  |-> IF More(fetched) THEN "reading" ELSE "ended",
                                after  |-> IF More(fetched) THEN NextCursor(fetched) ELSE NoKey,
                                seen   |-> walk.seen \o Items(fetched),
                                stayed |-> stayed,
                                moved  |-> IF walk.state = "none" THEN {} ELSE walk.moved]
    /\ UNCHANGED <<listing, row, now, parent, edits>>

Next ==
    \/ Tick \/ ParentGoes \/ Page
    \/ \E r \in Row : Begin(r) \/ Commit(r) \/ Change(r) \/ Leave(r) \/ Return(r)

Spec == Init /\ [][Next]_vars

----------------------------------------------------------------------------
TypeOK ==
    /\ listing \in Listings
    /\ row \in [Row -> [phase : {"none", "begun", "shown", "hidden"},
                        at : 0 .. LastTime + LastPlace, long : BOOLEAN]]
    /\ now \in 0 .. LastTime
    /\ parent \in BOOLEAN
    /\ walk.state \in {"none", "reading", "ended", "not_found", "refused"}
    /\ walk.stayed \subseteq Row /\ walk.moved \subseteq Row
    /\ edits \in 0 .. Edits

\* A walk to the last page has every row that was in the listing all the time with the same key.
Complete == walk.state = "ended" => walk.stayed \subseteq {walk.seen[i] : i \in DOMAIN walk.seen}

\* No row is read twice but one whose key changed between two pages.
NoneTwice == \A i, j \in DOMAIN walk.seen : walk.seen[i] = walk.seen[j] => (i = j \/ walk.seen[i] \in walk.moved)

\* Rows come in the order of their keys, across pages too.
InOrder == \A i, j \in DOMAIN walk.seen :
              i < j /\ {walk.seen[i], walk.seen[j]} \cap walk.moved = {}
                  => Before(listing, Key(walk.seen[i]), Key(walk.seen[j]))

(* However rows come and go between its pages, a list read to its end has   *)
(* each row that stayed exactly once and in order, for every list of the   *)
(* API: the cursor of a page is where the next one begins.                 *)
WalksAreComplete == Complete /\ NoneTwice /\ InOrder

(* A list can be read to its end unless its parent goes.  Not so: the key  *)
(* of a text may be longer than a cursor may be.                           *)
WalksGoOn == walk.state # "refused"

(* What was committed before the walk ended is in it, where new rows come  *)
(* last.  Not so: a row is stamped when its transaction starts.            *)
NothingCommittedIsPassed ==
    walk.state = "ended" /\ listing = Comments /\ walk.moved = {} =>
        \A r \in Shown : Less(Key(r), <<now, 0>>) => r \in {walk.seen[i] : i \in DOMAIN walk.seen}
===============================================================================
