-------------------------------- MODULE Shop --------------------------------
(***************************************************************************)
(* Checkout, order transitions and stock holds.  Requests run concurrently *)
(* as READ COMMITTED transactions: they wait for one row lock at a time,   *)
(* read a row as it is when its lock is granted, and their writes appear   *)
(* at commit, when all their locks go.                                     *)
(***************************************************************************)
EXTENDS Integers, FiniteSets, Sequences, SequencesExt

CONSTANTS
    Product, Catalogue,   \* Catalogue: the products in id order
    Checkout,             \* checkout requests
    AttemptOf,            \* email and idempotency key of each
    Basket,               \* Basket[r][p]: pieces of p asked for, 0 for none
    Coupon, NoCoupon, CouponOf, MaxUses,
    Clerk,                \* transition requests in flight at once
    Sweeper,              \* passes of release_expired_holds in flight
    MaxStock, Stocks,     \* the column's bound; what an edit may set
    NoOne,
    Edits, Crashes        \* bounds

Txn == Checkout \cup Clerk \cup Sweeper
Rows == Product \cup Coupon \cup Checkout   \* an order is named by its request

ASSUME ShopAssumption ==
    /\ IsFiniteSet(Product) /\ IsFiniteSet(Checkout)
    /\ Basket \in [Checkout -> [Product -> Nat]]
    /\ CouponOf \in [Checkout -> Coupon \cup {NoCoupon}]
    /\ NoCoupon \notin Coupon /\ NoOne \notin Txn
    /\ Checkout \cap (Clerk \cup Sweeper) = {} /\ Clerk \cap Sweeper = {}
    /\ MaxUses \in [Coupon -> Nat \ {0}]
    /\ MaxStock \in Nat /\ Stocks \subseteq 0 .. MaxStock
    /\ Edits \in Nat /\ Crashes \in Nat

VARIABLES
    product,   \* stock_on_hand, on_sale and deleted_at is null
    usable,    \* coupons neither deleted nor expired
    order,     \* per checkout request: the order it wrote, and its holds
    lock,      \* who holds each row's FOR UPDATE lock
    buyer,     \* per checkout request: where it is, and the uses it read
    mover,     \* per transition or sweep: where it is, and on which orders
    supplied,  \* history: pieces ever put on the shelf, less those taken off
    edits, crashes

vars == <<product, usable, order, lock, buyer, mover, supplied, edits, crashes>>

OrderState == {"none", "waiting", "paid", "sent", "called_off", "given_back"}
HoldStatus == {"none", "held", "consumed", "released"}
BuyerPC    == {"idle", "items", "code", "codeLock", "write", "receipt",
               "refused", "failed"}
MoverPC    == {"idle", "lock", "holds"}

TypeOK ==
    /\ product \in [Product -> [stock : 0 .. MaxStock, sale : BOOLEAN,
                                live : BOOLEAN]]
    /\ usable \subseteq Coupon
    /\ order \in [Checkout -> [state : OrderState, hold : HoldStatus,
                               lapsed : BOOLEAN]]
    /\ lock \in [Rows -> Txn \cup {NoOne}]
    /\ buyer \in [Checkout -> [pc : BuyerPC, used : Nat]]
    /\ mover \in [Clerk \cup Sweeper ->
                    [pc : MoverPC, orders : SUBSET Checkout, to : OrderState,
                     left : Seq(Product)]]
    /\ supplied \in [Product -> Int]
    /\ edits \in 0 .. Edits /\ crashes \in 0 .. Crashes

NoOrder   == [state |-> "none", hold |-> "none", lapsed |-> FALSE]
IdleMover == [pc |-> "idle", orders |-> {}, to |-> "none", left |-> <<>>]

Init ==
    /\ product \in [Product -> [stock : Stocks, sale : {TRUE}, live : {TRUE}]]
    /\ usable = Coupon
    /\ order = [r \in Checkout |-> NoOrder]
    /\ lock = [x \in Rows |-> NoOne]
    /\ buyer = [r \in Checkout |-> [pc |-> "idle", used |-> 0]]
    /\ mover = [m \in Clerk \cup Sweeper |-> IdleMover]
    /\ supplied = [p \in Product |-> product[p].stock]
    /\ edits = Edits /\ crashes = Crashes

-----------------------------------------------------------------------------
Placed(r)     == order[r].state # "none"
Written(r)    == \E q \in Checkout : Placed(q) /\ AttemptOf[q] = AttemptOf[r]
Asked(r)      == {p \in Product : Basket[r][p] > 0}
Uses(c)       == Cardinality({r \in Checkout : Placed(r) /\ CouponOf[r] = c})

Free(x)       == lock[x] = NoOne
Take(X, t)    == lock' = [x \in Rows |-> IF x \in X THEN t ELSE lock[x]]

(* Mutant: a transaction that is given up stays open on its connection.    *)
UnlockedCouponsOnly(t) ==
    [x \in Rows |-> IF lock[x] = t /\ x \in Coupon THEN NoOne ELSE lock[x]]

Unlocked(t)   == [x \in Rows |-> IF lock[x] = t THEN NoOne ELSE lock[x]]
ReleaseAll(t) == lock' = Unlocked(t)

Goto(r, pc)   == buyer' = [buyer EXCEPT ![r].pc = pc]
Answer(r, pc) == Goto(r, pc) /\ ReleaseAll(r)

-----------------------------------------------------------------------------
(* checkout.                                                               *)

(* An order already written under the attempt is answered at once.         *)
Lookup(r) ==
    /\ buyer[r].pc = "idle"
    /\ Goto(r, IF Written(r) THEN "receipt" ELSE "items")
    /\ UNCHANGED <<product, usable, order, lock, mover, supplied, edits, crashes>>

(* normalize_items sorts by product id before anything is locked.          *)
NextItem(r, p) ==
    \E i \in DOMAIN Catalogue :
        /\ Catalogue[i] = p /\ p \in Asked(r) /\ lock[p] # r
        /\ \A j \in 1 .. i - 1 :
              Catalogue[j] \in Asked(r) => lock[Catalogue[j]] = r

LockItem(r, p) ==
    LET s == product[p] IN
    /\ buyer[r].pc = "items"
    /\ NextItem(r, p)
    /\ Free(p)
    /\ IF s.live /\ s.sale /\ s.stock >= Basket[r][p]
       THEN /\ Take({p}, r)
            /\ Goto(r, IF \E q \in Asked(r) \ {p} : lock[q] # r THEN "items"
                       ELSE IF CouponOf[r] = NoCoupon THEN "write" ELSE "code")
       ELSE Answer(r, "refused")
    /\ UNCHANGED <<product, usable, order, mover, supplied, edits, crashes>>

(* load_for_checkout counts the uses in the snapshot of its statement,     *)
(* which is taken before it waits for the coupon's row.                    *)
ReadCode(r) ==
    /\ buyer[r].pc = "code"
    /\ buyer' = [buyer EXCEPT ![r] = [pc |-> "codeLock",
                                      used |-> Uses(CouponOf[r])]]
    /\ UNCHANGED <<product, usable, order, lock, mover, supplied, edits, crashes>>

LockCode(r) ==
    LET c == CouponOf[r] IN
    /\ buyer[r].pc = "codeLock"
    /\ Free(c)
    /\ IF c \in usable /\ buyer[r].used < MaxUses[c]
       THEN Take({c}, r) /\ Goto(r, "write")
       ELSE Answer(r, "refused")
    /\ UNCHANGED <<product, usable, order, mover, supplied, edits, crashes>>

(* Mutant: the order is inserted without regard to the unique index.       *)
NewAttemptUnchecked(r) == TRUE

NewAttempt(r) == ~Written(r)

(* Mutant: the holds are written but the stock is not decremented.         *)
TakenFromNothing(r) == product

Taken(r) == [p \in Product |->
    [product[p] EXCEPT !.stock = @ - Basket[r][p]]]

(* From the counter row on, nothing is waited for: the request that comes  *)
(* second sees the first one's order and answers with it.  The update that *)
(* takes the stock asks once more that there is enough.                    *)
WriteOrder(r) ==
    /\ buyer[r].pc = "write"
    /\ IF NewAttempt(r) /\ \A p \in Product : product[p].stock >= Basket[r][p]
       THEN /\ order' = [order EXCEPT ![r] = [state |-> "waiting",
                                              hold |-> "held", lapsed |-> FALSE]]
            /\ product' = Taken(r)
       ELSE UNCHANGED <<order, product>>
    /\ Answer(r, IF Written(r) \/ order' # order THEN "receipt" ELSE "refused")
    /\ UNCHANGED <<usable, mover, supplied, edits, crashes>>

-----------------------------------------------------------------------------
(* transition_order, alone or inside release_expired_holds.                *)

AllowedMove(from, to) ==
    <<from, to>> \in {<<"waiting", "paid">>, <<"waiting", "called_off">>,
                      <<"paid", "sent">>, <<"paid", "given_back">>,
                      <<"sent", "given_back">>}

Settled(h, to) ==
    CASE to = "paid" /\ h = "held"                     -> "consumed"
      [] to = "called_off" /\ h = "held"               -> "released"
      [] to = "given_back" /\ h \in {"held", "consumed"} -> "released"
      [] OTHER                                         -> h

GivesBack(r, to) == Settled(order[r].hold, to) # order[r].hold /\ to # "paid"

(* The products whose rows the released holds update, in whatever order    *)
(* the update of the holds returned them.                                  *)
Returned(S, to) == UNION {Asked(r) : r \in {q \in S : GivesBack(q, to)}}

Begin(m, r, to) ==
    /\ mover[m].pc = "idle" /\ Placed(r)
    /\ mover' = [mover EXCEPT ![m] = [pc |-> "lock", orders |-> {r}, to |-> to,
                                      left |-> <<>>]]
    /\ UNCHANGED <<product, usable, order, lock, buyer, supplied, edits, crashes>>

(* Mutant: the state is read without the row lock.                         *)
MayReadUnlocked(m, r) == TRUE

MayRead(m, r) == Free(r)

(* The state is read, and the move validated, under the order's lock.      *)
LockOrder(m) ==
    LET r == CHOOSE q \in Checkout : q \in mover[m].orders
        to == mover[m].to IN
    /\ mover[m].pc = "lock"
    /\ MayRead(m, r)
    /\ IF AllowedMove(order[r].state, to)
       THEN /\ Take({r}, m)
            /\ \E s \in SetToSeqs(Returned({r}, to)) :
                  mover' = [mover EXCEPT ![m].pc = "holds", ![m].left = s]
       ELSE /\ mover' = [mover EXCEPT ![m] = IdleMover]
            /\ UNCHANGED lock
    /\ UNCHANGED <<product, usable, order, buyer, supplied, edits, crashes>>

Expired(r) == order[r].state = "waiting" /\ order[r].hold = "held" /\ order[r].lapsed

(* Skips the orders another transaction has locked.                        *)
Sweep(m) ==
    LET S == {r \in Checkout : Expired(r) /\ Free(r)} IN
    /\ mover[m].pc = "idle" /\ S # {}
    /\ Take(S, m)
    /\ \E s \in SetToSeqs(Returned(S, "called_off")) :
          mover' = [mover EXCEPT ![m] = [pc |-> "holds", orders |-> S,
                                         to |-> "called_off", left |-> s]]
    /\ UNCHANGED <<product, usable, order, buyer, supplied, edits, crashes>>

LockStock(m) ==
    LET p == Head(mover[m].left) IN
    /\ mover[m].pc = "holds" /\ mover[m].left # <<>>
    /\ Free(p)
    /\ Take({p}, m)
    /\ mover' = [mover EXCEPT ![m].left = Tail(@)]
    /\ UNCHANGED <<product, usable, order, buyer, supplied, edits, crashes>>

(* The stock rows of S with what its holds give back.                      *)
Restocked(S, to) == [p \in Product |->
    [product[p] EXCEPT !.stock = @ + FoldFunctionOnSet(+, 0,
        [r \in Checkout |-> IF GivesBack(r, to) THEN Basket[r][p] ELSE 0], S)]]

(* Mutant: the column has no upper bound.                                  *)
FitsUnbounded(S, to) == TRUE

Fits(S, to) == \A p \in Product : Restocked(S, to)[p].stock <= MaxStock

(* Stock above the column's bound breaks its check constraint: the whole   *)
(* transition is rolled back.                                              *)
CommitMove(m) ==
    LET S == mover[m].orders
        to == mover[m].to IN
    /\ mover[m].pc = "holds" /\ mover[m].left = <<>>
    /\ IF Fits(S, to)
       THEN /\ product' = Restocked(S, to)
            /\ order' = [r \in Checkout |->
                  IF r \in S THEN [order[r] EXCEPT !.state = to,
                                                   !.hold = Settled(@, to)]
                  ELSE order[r]]
       ELSE UNCHANGED <<product, order>>
    /\ ReleaseAll(m)
    /\ mover' = [mover EXCEPT ![m] = IdleMover]
    /\ UNCHANGED <<usable, buyer, supplied, edits, crashes>>

-----------------------------------------------------------------------------
(* Waiting, deadlock and lost connections.                                 *)

BuyerWants(r, x) ==
    \/ buyer[r].pc = "items" /\ x \in Product /\ NextItem(r, x)
    \/ buyer[r].pc = "codeLock" /\ x = CouponOf[r]

MoverWants(m, x) ==
    \/ mover[m].pc = "lock" /\ x \in mover[m].orders
    \/ mover[m].pc = "holds" /\ mover[m].left # <<>> /\ x = Head(mover[m].left)

WaitsFor(t, u) == \E x \in Rows :
    /\ lock[x] = u /\ u # t
    /\ \/ t \in Checkout /\ BuyerWants(t, x)
       \/ t \in Clerk \cup Sweeper /\ MoverWants(t, x)

(* t is on a wait cycle, not only behind one: a row has one holder and a    *)
(* transaction wants one row at a time.                                    *)
Deadlocked(t) == \E S \in SUBSET Txn :
    t \in S /\ \A u \in S : /\ \E v \in S : WaitsFor(u, v)
                            /\ \E v \in S : WaitsFor(v, u)

RollBackBuyer(r) ==
    /\ Answer(r, "failed")
    /\ UNCHANGED <<product, usable, order, mover, supplied, edits>>

RollBackMover(m) ==
    /\ mover' = [mover EXCEPT ![m] = IdleMover]
    /\ ReleaseAll(m)
    /\ UNCHANGED <<product, usable, order, buyer, supplied, edits>>

(* PostgreSQL aborts one transaction of a wait cycle.                      *)
Victim(t) ==
    /\ Deadlocked(t)
    /\ \/ t \in Checkout /\ RollBackBuyer(t)
       \/ t \in Clerk \cup Sweeper /\ RollBackMover(t)
    /\ UNCHANGED crashes

(* The process dies or its connection drops.                               *)
Crash(t) ==
    /\ crashes > 0 /\ crashes' = crashes - 1
    /\ \/ /\ t \in Checkout
          /\ buyer[t].pc \in {"items", "code", "codeLock", "write"}
          /\ RollBackBuyer(t)
       \/ /\ t \in Clerk \cup Sweeper
          /\ mover[t].pc # "idle"
          /\ RollBackMover(t)

-----------------------------------------------------------------------------
(* The panel, and time.                                                    *)

Edit == edits > 0 /\ edits' = edits - 1

SetProduct(p, s) ==
    /\ Edit /\ Free(p)
    /\ product' = [product EXCEPT ![p] = s]
    /\ supplied' = [supplied EXCEPT ![p] = @ + s.stock - product[p].stock]
    /\ UNCHANGED <<usable, order, lock, buyer, mover, crashes>>

(* update_product sets the stock it is given, not a difference.            *)
UpdateProduct(p) ==
    /\ product[p].live
    /\ \E n \in Stocks : SetProduct(p, [product[p] EXCEPT !.stock = n])

ToggleSale(p) ==
    product[p].live /\ SetProduct(p, [product[p] EXCEPT !.sale = ~@])

(* delete_product, and restoring it from the trash.                        *)
TrashProduct(p) == SetProduct(p, [product[p] EXCEPT !.live = ~@])

(* Deleted, or past expires_at.                                            *)
EndCoupon(c) ==
    /\ Edit /\ c \in usable
    /\ usable' = usable \ {c}
    /\ UNCHANGED <<product, order, lock, buyer, mover, supplied, crashes>>

HoldLapses(r) ==
    /\ order[r].state = "waiting" /\ ~order[r].lapsed
    /\ order' = [order EXCEPT ![r].lapsed = TRUE]
    /\ UNCHANGED <<product, usable, lock, buyer, mover, supplied, edits, crashes>>

-----------------------------------------------------------------------------
BuyerStep(r) ==
    \/ \E p \in Product : LockItem(r, p)
    \/ ReadCode(r) \/ LockCode(r) \/ WriteOrder(r)

MoverStep(m) == LockOrder(m) \/ LockStock(m) \/ CommitMove(m)

Next ==
    \/ \E r \in Checkout : Lookup(r) \/ BuyerStep(r) \/ HoldLapses(r)
    \/ \E m \in Clerk, r \in Checkout, to \in OrderState \ {"none"} : Begin(m, r, to)
    \/ \E m \in Sweeper : Sweep(m)
    \/ \E m \in Clerk \cup Sweeper : MoverStep(m)
    \/ \E t \in Txn : Victim(t) \/ Crash(t)
    \/ \E p \in Product : UpdateProduct(p) \/ ToggleSale(p) \/ TrashProduct(p)
    \/ \E c \in Coupon : EndCoupon(c)

Spec == Init /\ [][Next]_vars

(* A request that has begun runs on when the lock it waits for is free,    *)
(* row locks queue, PostgreSQL looks for deadlocks, and time passes.       *)
Fairness ==
    /\ \A r \in Checkout : SF_vars(BuyerStep(r)) /\ WF_vars(HoldLapses(r))
    /\ \A m \in Clerk \cup Sweeper : SF_vars(MoverStep(m))
    /\ WF_vars(\E t \in Txn : Victim(t))

FairSpec == Spec /\ Fairness

-----------------------------------------------------------------------------
(* What selling must do.                                                   *)

Out(r, p) == IF order[r].hold \in {"held", "consumed"} THEN Basket[r][p] ELSE 0

HoldFor(state) ==
    CASE state = "none"              -> "none"
      [] state = "waiting"           -> "held"
      [] state \in {"paid", "sent"} -> "consumed"
      [] OTHER                       -> "released"

(* No piece is lost or sold twice: what is on the shelf and what orders    *)
(* have taken is exactly what was ever put on the shelf, and an order has  *)
(* taken what its state says, held while it waits for money, consumed once *)
(* it is paid and back when it is called off or given back, whatever       *)
(* checkouts, payments, call-offs, sweeps, returns and rollbacks do.       *)
StockAccounted ==
    /\ \A p \in Product :
          product[p].stock
              + FoldFunction(+, 0, [r \in Checkout |-> Out(r, p)]) = supplied[p]
    /\ \A r \in Checkout : order[r].hold = HoldFor(order[r].state)

(* The same attempt twice is one order, however the requests overlap.      *)
OneOrderPerAttempt == \A q, r \in Checkout :
    (Placed(q) /\ Placed(r) /\ AttemptOf[q] = AttemptOf[r]) => q = r

(* Every checkout that began is answered, and every transition that began  *)
(* ends, although they lock the same rows in different orders.             *)
EveryRequestEnds ==
    /\ \A r \in Checkout :
          buyer[r].pc = "items" ~> buyer[r].pc \in {"receipt", "refused", "failed"}
    /\ \A m \in Clerk : mover[m].pc = "lock" ~> mover[m].pc = "idle"

(* A coupon is used at most max_uses times.                                *)
CouponWithinLimit == \A c \in Coupon : Uses(c) <= MaxUses[c]

(* A checkout is refused only if no order is written under its attempt.    *)
WrittenIsAnswered ==
    [][\A r \in Checkout :
        (buyer[r].pc # "refused" /\ buyer'[r].pc = "refused") => ~Written(r)]_vars

(* An order nobody pays for lets its stock go.                             *)
UnpaidLetsGo == \A r \in Checkout :
    order[r].state = "waiting" ~> order[r].state # "waiting"
=============================================================================
