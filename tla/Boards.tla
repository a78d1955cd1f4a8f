-------------------------------- MODULE Boards --------------------------------
(***************************************************************************)
(* A board of mavi-boards: its lists, the cards in them and the requests   *)
(* that add, move and archive cards, each a transaction of several         *)
(* statements at READ COMMITTED.  A position is unique among the live      *)
(* cards of a list, by an index that each statement must satisfy.  Moves   *)
(* lock the board; every change inserts an activity row that refers to the *)
(* board and so waits for that lock; archiving a card rewrites the         *)
(* positions of its list without the lock.                                 *)
(***************************************************************************)
EXTENDS Integers, Sequences, FiniteSets, SequencesExt, FiniteSetsExt

CONSTANTS Card, List, Client, Person,
          NoCard, NoOne,
          Places,    \* Places[l]: the cards of list l at first, in order; without any, l is not there
          Requests   \* bound on requests

BoardsAssumption ==
    /\ Card \subseteq Nat \ {0} /\ IsFiniteSet(Card) /\ NoCard = 0
    /\ NoOne \notin Person \cup List
    /\ Places \in [List -> Seq(Card)]

VARIABLES
    board,    \* the board's row
    place,    \* lists: phase and position
    card,     \* cards
    desk,     \* requests under way, by client
    requests  \* requests left

vars == <<board, place, card, desk, requests>>

Idle == [pc |-> "idle", c |-> NoCard, from |-> NoOne, to |-> NoOne, before |-> NoCard,
         source |-> <<>>, target |-> <<>>, rest |-> <<>>, snap |-> <<>>, spot |-> 0,
         writes |-> <<>>]

Absent(c) == [phase |-> "none", trash |-> FALSE, list |-> NoOne, pos |-> 0,
              holder |-> NoOne, note |-> "none"]

ListAtFirst(c) == {l \in List : \E i \in DOMAIN Places[l] : Places[l][i] = c}

Init ==
    /\ board = [trash |-> FALSE, archived |-> FALSE, was |-> FALSE]
    /\ place = LET order == CHOOSE s \in SetToSeqs(List) : TRUE
               IN  [l \in List |-> [phase |-> IF Places[l] = <<>> THEN "none" ELSE "live",
                                    pos |-> CHOOSE i \in DOMAIN order : order[i] = l]]
    /\ card = [c \in Card |->
                 IF ListAtFirst(c) = {} THEN Absent(c)
                 ELSE LET l == CHOOSE k \in ListAtFirst(c) : TRUE
                          i == CHOOSE n \in DOMAIN Places[l] : Places[l][n] = c
                      IN  [Absent(c) EXCEPT !.phase = "live", !.list = l, !.pos = i - 1]]
    /\ desk = [w \in Client |-> Idle]
    /\ requests = Requests

----------------------------------------------------------------------------
(* What a statement sees and writes.                                       *)

IsLive(view, c) == view[c].phase = "live" /\ ~view[c].trash
LiveIn(view, l) == {c \in Card : IsLive(view, c) /\ view[c].list = l}

Precedes(view, a, b) == view[a].pos < view[b].pos \/ (view[a].pos = view[b].pos /\ a < b)

\* Mutant: a list is read from its last card.
OrderFromLast(view, S) == [c \in S |-> Cardinality({b \in S : Precedes(view, c, b)})]

\* Cards as a query orders them: the number of each, from zero.
Order(view, S) == [c \in S |-> Cardinality({b \in S : Precedes(view, b, c)})]

InOrder(view, l) == Order(view, LiveIn(view, l))

\* The last position of a list, or -1.
Positions(view, l) == {-1} \cup {view[c].pos : c \in LiveIn(view, l)}
Top(view, l)       == CHOOSE p \in Positions(view, l) : \A q \in Positions(view, l) : q <= p

\* The unique index of live cards on list and position.
Collides(view) == \E a, b \in Card :
    /\ a < b /\ view[a].list = view[b].list /\ view[a].pos = view[b].pos
    /\ IsLive(view, a) /\ IsLive(view, b)

\* Places every card of the list, in its order, behind the last one.
Shifted(view, seen, l) ==
    LET base == Top(seen, l) + Cardinality(LiveIn(seen, l)) + 1
        ids  == InOrder(seen, l)
    IN  [c \in Card |-> IF c \in DOMAIN ids THEN [view[c] EXCEPT !.pos = base + ids[c] + 1]
                        ELSE view[c]]

\* Gives the cards that are named their numbers, if they are in the list.
Numbered(view, l, ids) ==
    LET named == DOMAIN ids \cap LiveIn(view, l)
    IN  [c \in Card |-> IF c \in named THEN [view[c] EXCEPT !.pos = ids[c]] ELSE view[c]]

Rewritten(view, seen, l, ids) == Numbered(Shifted(view, seen, l), l, ids)

Changed(view)  == {c \in Card : view[c] # card[c]}
Pending(w)     == [c \in Card |-> IF c \in DOMAIN desk[w].writes THEN desk[w].writes[c] ELSE card[c]]
Holds(w, c)    == c \in DOMAIN desk[w].writes
Free(w, S)     == \A v \in Client \ {w}, c \in S : ~Holds(v, c)
Writes(view, S) == [c \in S |-> view[c]]

Mover      == {w \in Client : desk[w].pc \in {"ordering", "written"}}
BoardOpen  == ~board.trash /\ ~board.archived
\* Refers to the board's row: waits while a move has it locked.
Referring(w) == Mover \ {w} = {}

Take(w, r)  == desk' = [desk EXCEPT ![w] = r]
Done(w)     == Take(w, Idle)
Keep        == UNCHANGED <<board, place, requests>>
Begin(w)    == desk[w].pc = "idle" /\ requests > 0 /\ requests' = requests - 1

----------------------------------------------------------------------------
(* create_list, reorder_lists.                                             *)

LiveLists == {l \in List : place[l].phase = "live"}

CreateList(w, l) ==
    /\ Begin(w) /\ BoardOpen /\ Mover = {}
    /\ place[l].phase = "none"
    /\ place' = [place EXCEPT ![l] = [phase |-> "live",
                                     pos |-> Max({-1} \cup {place[k].pos : k \in LiveLists}) + 1]]
    /\ UNCHANGED <<board, card, desk>>

ReorderLists(w) ==
    /\ Begin(w) /\ BoardOpen /\ Mover = {}
    /\ \E order \in [LiveLists -> 0 .. Cardinality(LiveLists) - 1] :
          /\ \A l, k \in LiveLists : order[l] = order[k] => l = k
          /\ place' = [l \in List |-> IF l \in LiveLists THEN [place[l] EXCEPT !.pos = order[l]]
                                      ELSE place[l]]
    /\ UNCHANGED <<board, card, desk>>

----------------------------------------------------------------------------
(* create_card: the list and the board are looked up, then the last        *)
(* position, then the card is inserted.                                    *)

CreateCard(w, c, l) ==
    /\ Begin(w) /\ card[c].phase = "none" /\ \A v \in Client : desk[v].c # c
    /\ BoardOpen /\ place[l].phase = "live"
    /\ Take(w, [Idle EXCEPT !.pc = "creating", !.c = c, !.to = l])
    /\ UNCHANGED <<board, place, card>>

ChoosePosition(w) ==
    /\ desk[w].pc = "creating"
    /\ Take(w, [desk[w] EXCEPT !.pc = "placing", !.spot = Top(card, desk[w].to) + 1])
    /\ UNCHANGED card /\ Keep

InsertCard(w) ==
    LET r == desk[w]
        view == [card EXCEPT ![r.c] = [Absent(r.c) EXCEPT !.phase = "live", !.list = r.to,
                                                          !.pos = r.spot]]
    IN  /\ r.pc = "placing" /\ Referring(w)
        /\ card' = IF Collides(view) THEN card ELSE view
        /\ Done(w) /\ Keep

----------------------------------------------------------------------------
(* move_card.                                                              *)

MoveCard(w, c, l, before) ==
    /\ Begin(w) /\ BoardOpen
    /\ IsLive(card, c)
    /\ before # c
    /\ Take(w, [Idle EXCEPT !.pc = "moving", !.c = c, !.from = card[c].list, !.to = l,
                            !.before = before])
    /\ UNCHANGED <<board, place, card>>

\* The spot of the card that is named, or behind the last one.
Spot(ids, before) == IF before = NoCard THEN Cardinality(DOMAIN ids) ELSE ids[before]

\* The card's id put at a spot; if it is there already, its last mention wins.
Inserted(ids, c, spot) ==
    LET behind(n) == IF n >= spot THEN n + 1 ELSE n
    IN  [d \in DOMAIN ids \cup {c} |-> IF d # c THEN behind(ids[d])
                                      ELSE IF c \in DOMAIN ids /\ ids[c] >= spot THEN ids[c] + 1
                                      ELSE spot]

LockBoard(w) ==
    LET r == desk[w]
        source == Order(card, LiveIn(card, r.from) \ {r.c})
        there  == IF r.to = r.from THEN source ELSE InOrder(card, r.to)
    IN  /\ r.pc = "moving" /\ Mover = {}
        /\ IF place[r.to].phase # "live" \/ r.before \notin DOMAIN there \cup {NoCard}
             THEN Done(w)
             ELSE Take(w, [r EXCEPT !.pc = "ordering", !.source = source,
                                    !.target = Inserted(there, r.c, Spot(there, r.before))])
        /\ UNCHANGED card /\ Keep

\* What the statements of a move leave, one after the other; the third may collide.
MovedOut(r)  == Rewritten(card, card, r.from, r.source)
MovedOver(r) == [MovedOut(r) EXCEPT ![r.c].list = r.to]
MovedIn(r)   == Rewritten(MovedOver(r), MovedOver(r), r.to, r.target)

WriteMove(w) ==
    LET r == desk[w]
        rows == LiveIn(card, r.from) \cup LiveIn(card, r.to) \cup {r.c}
    IN  /\ r.pc = "ordering" /\ Free(w, rows)
        /\ IF Collides(MovedOver(r)) \/ Collides(MovedIn(r))
             THEN Done(w)
             ELSE Take(w, [r EXCEPT !.pc = "written", !.writes = Writes(MovedIn(r), rows)])
        /\ UNCHANGED card /\ Keep

\* The card is read again for the answer; if it was archived, the whole move is undone.
CommitMove(w) ==
    /\ desk[w].pc = "written"
    /\ card' = IF card[desk[w].c].phase = "live" THEN Pending(w) ELSE card
    /\ Done(w) /\ Keep

----------------------------------------------------------------------------
(* delete_card.                                                            *)

DeleteCard(w, c) ==
    /\ Begin(w) /\ IsLive(card, c)
    /\ Take(w, [Idle EXCEPT !.pc = "deleting", !.c = c, !.from = card[c].list])
    /\ UNCHANGED <<board, place, card>>

ArchiveCard(w) ==
    LET r == desk[w]
        gone == IF IsLive(card, r.c)
                THEN [card EXCEPT ![r.c].phase = "archived"] ELSE card
    IN  /\ r.pc = "deleting" /\ Free(w, {r.c})
        /\ Take(w, [r EXCEPT !.pc = "archived", !.rest = InOrder(gone, r.from),
                             !.writes = Writes(gone, Changed(gone))])
        /\ UNCHANGED card /\ Keep

\* The statement that moves the list's cards out of the way begins, and so sees what is committed.
LookAtList(w) ==
    /\ desk[w].pc = "archived"
    /\ Take(w, [desk[w] EXCEPT !.pc = "shifting", !.snap = Pending(w)])
    /\ UNCHANGED card /\ Keep

\* It writes the rows it saw, in whichever list they are once their locks are free.
Compacted(w) == LET r == desk[w] IN Rewritten(Pending(w), r.snap, r.from, r.rest)

Compact(w) ==
    LET r == desk[w]
        rows == LiveIn(r.snap, r.from)
    IN  /\ r.pc = "shifting" /\ Free(w, rows)
        /\ IF Collides(Shifted(Pending(w), r.snap, r.from)) \/ Collides(Compacted(w))
             THEN Done(w)
             ELSE Take(w, [r EXCEPT !.pc = "compacted",
                                    !.writes = Writes(Compacted(w), DOMAIN r.writes \cup rows)])
        /\ UNCHANGED card /\ Keep

CommitDelete(w) ==
    /\ desk[w].pc = "compacted" /\ Referring(w)
    /\ card' = Pending(w)
    /\ Done(w) /\ Keep

----------------------------------------------------------------------------
(* assign_card and the comments: a row's update, and its activity.         *)

Touchable(w, c) == Begin(w) /\ Referring(w) /\ Free(w, {c})

AssignCard(w, c, p) ==
    /\ Touchable(w, c) /\ IsLive(card, c)
    /\ card' = [card EXCEPT ![c].holder = p]
    /\ UNCHANGED <<board, place, desk>>

CreateComment(w, c) ==
    /\ Touchable(w, c) /\ IsLive(card, c)
    /\ card[c].note = "none"
    /\ card' = [card EXCEPT ![c].note = "live"]
    /\ UNCHANGED <<board, place, desk>>

\* By its author, also when the card is archived.
UpdateComment(w, c) ==
    /\ Touchable(w, c) /\ card[c].note \in {"live", "edited"}
    /\ card' = [card EXCEPT ![c].note = "edited"]
    /\ UNCHANGED <<board, place, desk>>

DeleteComment(w, c) ==
    /\ Touchable(w, c) /\ card[c].note \in {"live", "edited"}
    /\ card' = [card EXCEPT ![c].note = "deleted"]
    /\ UNCHANGED <<board, place, desk>>

----------------------------------------------------------------------------
(* update_board, delete_board, and its restore from the trash.             *)

Quiet == Mover = {} /\ \A w \in Client, c \in Card : ~Holds(w, c)

UpdateBoard(w) ==
    /\ Begin(w) /\ Mover = {} /\ ~board.trash
    /\ board' = [board EXCEPT !.archived = ~@]
    /\ UNCHANGED <<place, card, desk>>

DeleteBoard(w) ==
    /\ Begin(w) /\ Quiet /\ ~board.trash
    /\ board' = [trash |-> TRUE, archived |-> TRUE, was |-> board.archived]
    /\ place' = [l \in List |-> IF place[l].phase = "live" THEN [place[l] EXCEPT !.phase = "trash"]
                                ELSE place[l]]
    /\ card' = [c \in Card |-> [card[c] EXCEPT !.trash = @ \/ card[c].phase # "none"]]
    /\ UNCHANGED desk

Untrashed == [c \in Card |-> [card[c] EXCEPT !.trash = FALSE]]

RestoreBoard(w) ==
    /\ Begin(w) /\ Quiet /\ board.trash
    /\ ~Collides(Untrashed)
    /\ board' = [trash |-> FALSE, archived |-> board.was, was |-> FALSE]
    /\ place' = [l \in List |-> IF place[l].phase = "trash" THEN [place[l] EXCEPT !.phase = "live"]
                                ELSE place[l]]
    /\ card' = Untrashed
    /\ UNCHANGED desk

----------------------------------------------------------------------------
(* PostgreSQL ends a transaction of a cycle of waits.                      *)

Needs(w) == CASE desk[w].pc = "ordering" -> LiveIn(card, desk[w].from) \cup LiveIn(card, desk[w].to)
                                               \cup {desk[w].c}
              [] desk[w].pc = "deleting" -> {desk[w].c}
              [] desk[w].pc = "shifting" -> LiveIn(desk[w].snap, desk[w].from)
              [] OTHER -> {}

WaitsFor(w, v) ==
    /\ w # v
    /\ \/ \E c \in Needs(w) : Holds(v, c)
       \/ desk[w].pc \in {"compacted", "placing"} /\ v \in Mover
       \/ desk[w].pc = "moving" /\ v \in Mover

Victim(w) ==
    /\ \E v \in Client : WaitsFor(w, v) /\ WaitsFor(v, w)
    /\ Done(w)
    /\ UNCHANGED card /\ Keep

Next == \E w \in Client :
    \/ \E l \in List : CreateList(w, l)
    \/ ReorderLists(w) \/ UpdateBoard(w) \/ DeleteBoard(w) \/ RestoreBoard(w)
    \/ \E c \in Card : \/ \E l \in List : \/ CreateCard(w, c, l)
                                          \/ \E b \in Card \cup {NoCard} : MoveCard(w, c, l, b)
                       \/ DeleteCard(w, c)
                       \/ \E p \in Person \cup {NoOne} : AssignCard(w, c, p)
                       \/ CreateComment(w, c) \/ UpdateComment(w, c) \/ DeleteComment(w, c)
    \/ ChoosePosition(w) \/ InsertCard(w)
    \/ LockBoard(w) \/ WriteMove(w) \/ CommitMove(w)
    \/ ArchiveCard(w) \/ LookAtList(w) \/ Compact(w) \/ CommitDelete(w)
    \/ Victim(w)

Spec == Init /\ [][Next]_vars

----------------------------------------------------------------------------
TypeOK ==
    /\ board \in [trash : BOOLEAN, archived : BOOLEAN, was : BOOLEAN]
    /\ place \in [List -> [phase : {"none", "live", "trash"}, pos : Nat]]
    /\ card \in [Card -> [phase : {"none", "live", "archived"}, trash : BOOLEAN,
                          list : List \cup {NoOne}, pos : Nat, holder : Person \cup {NoOne},
                          note : {"none", "live", "edited", "deleted"}]]
    /\ \A w \in Client : desk[w].pc \in {"idle", "creating", "placing", "moving", "ordering",
                                         "written", "deleting", "archived", "shifting", "compacted"}

Ahead(view, a, b) == {a, b} \subseteq LiveIn(view, view[a].list) /\ view[a].pos < view[b].pos

\* A card that somebody moves with this step.
MovedNow == {desk[w].c : w \in {v \in Client : desk[v].pc = "written" /\ desk'[v] = Idle}}

\* An archive commits, and what it has written is no longer the list, in the order it read.
Overtaken == \E w \in Client :
    LET r    == desk[w]
        left == LiveIn(card, r.from) \cap LiveIn(card', r.from)
    IN  /\ r.pc = "compacted" /\ desk'[w] = Idle
        /\ Order(card, left) # r.rest \/ left # {c \in DOMAIN r.writes : IsLive(card', c)}

Passes(a, b) == Ahead(card, a, b) /\ Ahead(card', b, a)

KeepsOrder == \A a, b \in Card : Passes(a, b) => {a, b} \cap MovedNow # {} \/ Overtaken

Lands == \A w \in Client :
    LET r == desk[w]
    IN  r.pc = "written" /\ card' # card /\ desk'[w] = Idle
            /\ r.before # NoCard /\ card[r.c].list = r.from
        => /\ {r.c, r.before} \subseteq LiveIn(card', r.to)
           /\ Ahead(card', r.c, r.before)
           /\ \A b \in Card : ~(Ahead(card', r.c, b) /\ Ahead(card', b, r.before))

(* Cards keep their order in a list but for the one that is moved, which   *)
(* ends right before the card that was named, through moves, archives and  *)
(* additions that overlap and the numbering of a whole list by each.  Two  *)
(* races are left out: an archive whose list changed while it waited       *)
(* writes the order it had read, and positions of cards that have left the *)
(* list; and a move of a card that another move took to another list.      *)
MovesKeepOrder == [][KeepsOrder /\ Lands]_vars

(* The order without the race of the archive, which the code loses.        *)
OrderIsKept == [][\A a, b \in Card : Passes(a, b) => {a, b} \cap MovedNow # {}]_vars

(* A move of a live card that nobody else disturbs succeeds.  Not so: on   *)
(* its way into a longer list the card has a position that is taken.       *)
MovesSucceed ==
    [][\A w \in Client :
          desk[w].pc = "ordering" /\ card[desk[w].c].phase = "live"
              /\ card[desk[w].c].list = desk[w].from /\ (\A v \in Client \ {w} : desk[v] = Idle)
          => desk'[w] # Idle]_vars

(* What is in the trash can be restored.  Not so: a card added while the   *)
(* board went to the trash takes the place of the first.                   *)
TrashRestores == board.trash => ~Collides(Untrashed)
===============================================================================
