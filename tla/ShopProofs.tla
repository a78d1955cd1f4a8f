----------------------------- MODULE ShopProofs -----------------------------
(***************************************************************************)
(* Proofs about Shop, for any finite catalogue and number of checkouts,    *)
(* and any number of clerks, sweeps, coupons, edits and crashes.           *)
(***************************************************************************)
EXTENDS Shop, FiniteSetTheorems, TLAPS

-----------------------------------------------------------------------------
(***************************************************************************)
(* What the sum of a function over a finite set is, whatever the order in  *)
(* which FoldFunctionOnSet takes the elements.  The proofs take a minimal  *)
(* counterexample, which the strict subsets of a finite set have since     *)
(* they are well founded.                                                  *)
(***************************************************************************)
Sum(f, S) == FoldFunctionOnSet(+, 0, f, S)

One(s) == CHOOSE x \in s : TRUE

Sums(f, S, it) ==
    it = [s \in SUBSET S |-> IF s = {} THEN 0 ELSE f[One(s)] + it[s \ {One(s)}]]

LEMMA SumIsSums == ASSUME NEW f, NEW S PROVE Sum(f, S) = (CHOOSE it : Sums(f, S, it))[S]
BY DEF Sum, FoldFunctionOnSet, MapThenFoldSet, Sums, One

LEMMA MinimalSet ==
    ASSUME NEW S, IsFiniteSet(S), NEW T, T \subseteq SUBSET S, T # {}
    PROVE  \E s \in T : \A t \in T : ~(t \subseteq s /\ t # s)
<1>1. IsWellFoundedOn(StrictSubsetOrdering(S), FiniteSubsetsOf(S))
  BY FS_StrictSubsetOrderingWellFounded
<1>2. T \subseteq FiniteSubsetsOf(S)
  BY FS_Subset DEF FiniteSubsetsOf
<1>3. \E s \in T : \A t \in T : ~ (<<t, s>> \in StrictSubsetOrdering(S))
  BY <1>1, <1>2, WFMin
<1> QED BY <1>3, <1>2 DEF StrictSubsetOrdering, FiniteSubsetsOf

LEMMA OneIsIn ==
    ASSUME NEW s, s # {}
    PROVE  One(s) \in s /\ s \ {One(s)} \subseteq s /\ s \ {One(s)} # s
BY DEF One

LEMMA SumsAgree ==
    ASSUME NEW f, NEW S, IsFiniteSet(S), NEW R \in SUBSET S, NEW a, NEW b,
           Sums(f, R, a), Sums(f, S, b)
    PROVE  \A s \in SUBSET R : a[s] = b[s]
<1> DEFINE Bad == {s \in SUBSET R : a[s] # b[s]}
<1> SUFFICES ASSUME Bad # {} PROVE FALSE
  OBVIOUS
<1>sub. Bad \subseteq SUBSET S
  OBVIOUS
<1>1. PICK s \in Bad : \A t \in Bad : ~(t \subseteq s /\ t # s)
  <2> HIDE DEF Bad
  <2> QED BY <1>sub, MinimalSet
<1>2. /\ a[s] = IF s = {} THEN 0 ELSE f[One(s)] + a[s \ {One(s)}]
      /\ b[s] = IF s = {} THEN 0 ELSE f[One(s)] + b[s \ {One(s)}]
  BY <1>1 DEF Sums
<1>3. s # {} => a[s \ {One(s)}] = b[s \ {One(s)}]
  BY <1>1, OneIsIn
<1> QED BY <1>1, <1>2, <1>3

(* Where the iterations exist, the sum unfolds as they do.                 *)
LEMMA SumUnfolds ==
    ASSUME NEW f, NEW S, IsFiniteSet(S), \A R \in SUBSET S : \E it : Sums(f, R, it)
    PROVE  \A s \in SUBSET S : Sum(f, s) = IF s = {} THEN 0
                                           ELSE f[One(s)] + Sum(f, s \ {One(s)})
<1> SUFFICES ASSUME NEW s \in SUBSET S
             PROVE  Sum(f, s) = IF s = {} THEN 0 ELSE f[One(s)] + Sum(f, s \ {One(s)})
  OBVIOUS
<1> DEFINE it(R) == CHOOSE a : Sums(f, R, a)
<1>1. \A R \in SUBSET S : Sums(f, R, it(R))
  OBVIOUS
<1>2. \A R \in SUBSET S : Sum(f, R) = it(R)[R]
  BY SumIsSums
<1> HIDE DEF it
<1>3. it(s)[s] = IF s = {} THEN 0 ELSE f[One(s)] + it(s)[s \ {One(s)}]
  BY <1>1 DEF Sums
<1>4. ASSUME s # {} PROVE it(s)[s \ {One(s)}] = it(s \ {One(s)})[s \ {One(s)}]
  <2>1. IsFiniteSet(s) /\ s \ {One(s)} \in SUBSET s /\ s \ {One(s)} \in SUBSET S
    BY FS_Subset
  <2> DEFINE R == s \ {One(s)}
  <2>2. Sums(f, R, it(R)) /\ Sums(f, s, it(s))
    BY <1>1, <2>1
  <2> HIDE DEF R
  <2>3. \A t \in SUBSET R : it(R)[t] = it(s)[t]
    BY <2>1, <2>2, SumsAgree DEF R
  <2> QED BY <2>3 DEF R
<1>5. s # {} => s \ {One(s)} \in SUBSET S
  OBVIOUS
<1> QED BY <1>2, <1>3, <1>4, <1>5

LEMMA SumsExist ==
    ASSUME NEW f, NEW S, IsFiniteSet(S)
    PROVE  \A R \in SUBSET S : \E it : Sums(f, R, it)
<1> DEFINE Bad == {R \in SUBSET S : ~ \E it : Sums(f, R, it)}
<1> SUFFICES ASSUME Bad # {} PROVE FALSE
  OBVIOUS
<1>sub. Bad \subseteq SUBSET S
  OBVIOUS
<1>1. PICK R \in Bad : \A t \in Bad : ~(t \subseteq R /\ t # R)
  <2> HIDE DEF Bad
  <2> QED BY <1>sub, MinimalSet
<1>2. \A t \in SUBSET R : t # R => \E it : Sums(f, t, it)
  BY <1>1
<1>3. \A s \in SUBSET R : s # R => Sum(f, s) = IF s = {} THEN 0
                                               ELSE f[One(s)] + Sum(f, s \ {One(s)})
  <2> SUFFICES ASSUME NEW s \in SUBSET R, s # R
               PROVE  Sum(f, s) = IF s = {} THEN 0 ELSE f[One(s)] + Sum(f, s \ {One(s)})
    OBVIOUS
  <2>1. IsFiniteSet(s)
    BY FS_Subset
  <2>2. \A t \in SUBSET s : \E it : Sums(f, t, it)
    BY <1>2
  <2> QED BY <2>1, <2>2, SumUnfolds
<1> DEFINE w == [s \in SUBSET R |->
                   IF s = R /\ R # {} THEN f[One(R)] + Sum(f, R \ {One(R)})
                   ELSE IF s = {} THEN 0 ELSE Sum(f, s)]
<1>4. ASSUME NEW s \in SUBSET R
      PROVE  w[s] = IF s = {} THEN 0 ELSE f[One(s)] + w[s \ {One(s)}]
  <2>1. CASE s = {}
    BY <2>1
  <2>2. CASE s # {}
    <3> DEFINE t == s \ {One(s)}
    <3>1. t \in SUBSET R /\ t # R /\ t # s
      BY <2>2, OneIsIn
    <3> HIDE DEF t
    <3>2. w[t] = Sum(f, t)
      BY <3>1, <1>3
    <3>3. w[s] = f[One(s)] + Sum(f, t)
      BY <2>2, <1>3 DEF t
    <3> QED BY <2>2, <3>2, <3>3 DEF t
  <2> QED BY <2>1, <2>2
<1>5. Sums(f, R, w)
  <2>1. w = [s \in SUBSET R |-> w[s]]
    OBVIOUS
  <2> HIDE DEF w
  <2> QED BY <1>4, <2>1 DEF Sums
<1> QED BY <1>1, <1>5

(* A sum is taken element by element ...                                   *)
LEMMA SumStep ==
    ASSUME NEW f, NEW S, IsFiniteSet(S)
    PROVE  Sum(f, S) = IF S = {} THEN 0 ELSE f[One(S)] + Sum(f, S \ {One(S)})
BY SumsExist, SumUnfolds

(* ... is a number of the kind of its terms ...                            *)
LEMMA SumType ==
    ASSUME NEW S, IsFiniteSet(S), NEW f, \A x \in S : f[x] \in Int
    PROVE  /\ Sum(f, S) \in Int
           /\ (\A x \in S : f[x] \in Nat) => Sum(f, S) \in Nat
<1>0. ASSUME NEW N \in {Nat, Int}, \A x \in S : f[x] \in N PROVE Sum(f, S) \in N
  <2> DEFINE Bad == {s \in SUBSET S : Sum(f, s) \notin N}
  <2> SUFFICES ASSUME Bad # {} PROVE FALSE
    OBVIOUS
  <2>sub. Bad \subseteq SUBSET S
    OBVIOUS
  <2>1. PICK s \in Bad : \A t \in Bad : ~(t \subseteq s /\ t # s)
    <3> HIDE DEF Bad
    <3> QED BY <2>sub, MinimalSet
  <2>2. Sum(f, s) = IF s = {} THEN 0 ELSE f[One(s)] + Sum(f, s \ {One(s)})
    BY SumStep, FS_Subset
  <2>3. s # {} => f[One(s)] \in N /\ Sum(f, s \ {One(s)}) \in N
    BY <1>0, <2>1, OneIsIn
  <2>4. 0 \in N /\ \A i, j \in N : i + j \in N
    OBVIOUS
  <2> QED BY <2>1, <2>2, <2>3, <2>4
<1> QED BY <1>0

(* ... and the same whichever element is taken first.                      *)
LEMMA SumPick ==
    ASSUME NEW S, IsFiniteSet(S), NEW f, \A x \in S : f[x] \in Int
    PROVE  \A x \in S : Sum(f, S) = f[x] + Sum(f, S \ {x})
<1> DEFINE Bad == {s \in SUBSET S : \E x \in s : Sum(f, s) # f[x] + Sum(f, s \ {x})}
<1> SUFFICES ASSUME Bad # {} PROVE FALSE
  OBVIOUS
<1>sub. Bad \subseteq SUBSET S
  OBVIOUS
<1>1. PICK s \in Bad : \A t \in Bad : ~(t \subseteq s /\ t # s)
  <2> HIDE DEF Bad
  <2> QED BY <1>sub, MinimalSet
<1>2. PICK x \in s : Sum(f, s) # f[x] + Sum(f, s \ {x})
  BY <1>1
<1> DEFINE y == One(s)
           r == s \ {x, y}
<1>3. y \in s /\ Sum(f, s) = f[y] + Sum(f, s \ {y})
  BY <1>2, SumStep, OneIsIn, FS_Subset
<1> HIDE DEF y
<1>4. x # y
  BY <1>2, <1>3
<1>5. /\ s \ {x} \in SUBSET S /\ y \in s \ {x} /\ (s \ {x}) \ {y} = r
      /\ s \ {y} \in SUBSET S /\ x \in s \ {y} /\ (s \ {y}) \ {x} = r
  BY <1>3, <1>4
<1>6. s \ {x} \notin Bad /\ s \ {y} \notin Bad
  BY <1>1, <1>2, <1>3
<1>7. Sum(f, s \ {x}) = f[y] + Sum(f, r) /\ Sum(f, s \ {y}) = f[x] + Sum(f, r)
  BY <1>5, <1>6
<1>8. f[x] \in Int /\ f[y] \in Int /\ Sum(f, r) \in Int
  <2>1. IsFiniteSet(r) /\ \A z \in r : f[z] \in Int
    BY FS_Subset
  <2> QED BY <1>3, <2>1, SumType
<1> QED BY <1>2, <1>3, <1>7, <1>8

(* Terms of a part of the set may be split off.                            *)
LEMMA SumSplit ==
    ASSUME NEW T, IsFiniteSet(T), NEW S \in SUBSET T, NEW f, NEW g, NEW h,
           \A x \in T : f[x] \in Int /\ g[x] \in Int /\ h[x] \in Int,
           \A x \in T : f[x] = IF x \in S THEN h[x] + g[x] ELSE h[x]
    PROVE  Sum(f, T) = Sum(h, T) + Sum(g, S)
<1> DEFINE Bad == {s \in SUBSET T : Sum(f, s) # Sum(h, s) + Sum(g, s \cap S)}
<1>0. T \cap S = S
  OBVIOUS
<1> SUFFICES ASSUME Bad # {} PROVE FALSE
  BY <1>0
<1>sub. Bad \subseteq SUBSET T
  OBVIOUS
<1>1. PICK s \in Bad : \A t \in Bad : ~(t \subseteq s /\ t # s)
  <2> HIDE DEF Bad
  <2> QED BY <1>sub, MinimalSet
<1>2. \A t \in SUBSET T : IsFiniteSet(t)
  BY FS_Subset
<1>3. s # {}
  <2>1. Sum(f, {}) = 0 /\ Sum(g, {}) = 0 /\ Sum(h, {}) = 0
    BY SumStep, FS_EmptySet
  <2> SUFFICES ASSUME s = {} PROVE FALSE
    OBVIOUS
  <2>2. s \cap S = {}
    OBVIOUS
  <2>3. 0 # 0 + 0
    BY <1>1, <2>1, <2>2
  <2> QED BY <2>3
<1>4. PICK x \in s : TRUE
  BY <1>3
<1> DEFINE t == s \ {x}
<1>5. /\ Sum(f, s) = f[x] + Sum(f, t) /\ Sum(h, s) = h[x] + Sum(h, t)
      /\ x \in S => Sum(g, s \cap S) = g[x] + Sum(g, t \cap S)
      /\ x \notin S => s \cap S = t \cap S
  <2>1. (s \cap S) \ {x} = t \cap S
    OBVIOUS
  <2>2. IsFiniteSet(s) /\ IsFiniteSet(s \cap S)
    BY <1>2
  <2> QED BY <2>1, <2>2, SumPick
<1>6. Sum(f, t) = Sum(h, t) + Sum(g, t \cap S)
  BY <1>1, <1>4
<1>7. /\ Sum(h, t) \in Int /\ Sum(g, t \cap S) \in Int
      /\ f[x] \in Int /\ g[x] \in Int /\ h[x] \in Int
  <2>1. IsFiniteSet(t) /\ IsFiniteSet(t \cap S) /\ t \subseteq T
    BY <1>2
  <2> QED BY <2>1, SumType
<1>8. f[x] = IF x \in S THEN h[x] + g[x] ELSE h[x]
  OBVIOUS
<1> HIDE DEF t
<1>9. Sum(f, s) = Sum(h, s) + Sum(g, s \cap S)
  <2>1. CASE x \in S
    <3>1. /\ Sum(f, s) = f[x] + Sum(f, t) /\ Sum(h, s) = h[x] + Sum(h, t)
          /\ Sum(g, s \cap S) = g[x] + Sum(g, t \cap S) /\ f[x] = h[x] + g[x]
      BY <1>5, <1>8, <2>1
    <3> QED BY <1>6, <1>7, <3>1
  <2>2. CASE x \notin S
    <3>1. /\ Sum(f, s) = f[x] + Sum(f, t) /\ Sum(h, s) = h[x] + Sum(h, t)
          /\ Sum(g, s \cap S) = Sum(g, t \cap S) /\ f[x] = h[x]
      BY <1>5, <1>8, <2>2
    <3> QED BY <1>6, <1>7, <3>1
  <2> QED BY <2>1, <2>2
<1> QED BY <1>1, <1>9

(* A sum of one term is the term.                                          *)
LEMMA SumOfOne ==
    ASSUME NEW f, NEW x, f[x] \in Int PROVE Sum(f, {x}) = f[x]
<1>1. IsFiniteSet({x}) /\ {x} \ {x} = {}
  BY FS_Singleton
<1>2. Sum(f, {}) = 0
  BY SumStep, FS_EmptySet
<1> QED BY <1>1, <1>2, SumPick

-----------------------------------------------------------------------------
(* Types.                                                                  *)

Mover      == Clerk \cup Sweeper
ProductRow == [stock : 0 .. MaxStock, sale : BOOLEAN, live : BOOLEAN]
OrderRow   == [state : OrderState, hold : HoldStatus, lapsed : BOOLEAN]
BuyerRow   == [pc : BuyerPC, used : Nat]
MoverRow   == [pc : MoverPC, orders : SUBSET Checkout, to : OrderState, left : Seq(Product)]

Tables ==
    /\ product \in [Product -> ProductRow]
    /\ usable \subseteq Coupon
    /\ order \in [Checkout -> OrderRow]
    /\ lock \in [Rows -> Txn \cup {NoOne}]
    /\ buyer \in [Checkout -> BuyerRow]
    /\ mover \in [Mover -> MoverRow]
    /\ supplied \in [Product -> Int]
    /\ edits \in 0 .. Edits /\ crashes \in 0 .. Crashes

LEMMA Types == (TypeOK <=> Tables) /\ (TypeOK' <=> Tables')
BY DEF TypeOK, Tables, Mover, ProductRow, OrderRow, BuyerRow, MoverRow

(* One row of a table is written.                                          *)
LEMMA Put ==
    ASSUME NEW S, NEW T, NEW f \in [S -> T], NEW x \in S, NEW v \in T
    PROVE  /\ [f EXCEPT ![x] = v] \in [S -> T]
           /\ [f EXCEPT ![x] = v][x] = v
           /\ \A y \in S : y # x => [f EXCEPT ![x] = v][y] = f[y]
OBVIOUS

(* What a transition does depends on its orders being locked: from the     *)
(* time it has read their states until it commits nobody else writes them. *)
MovesHold == \A m \in Mover :
    /\ mover[m].pc = "lock" => \E r \in Checkout : mover[m].orders = {r}
    /\ mover[m].pc = "holds" => \A r \in mover[m].orders :
           lock[r] = m /\ AllowedMove(order[r].state, mover[m].to)

(* A checkout that has not come to its end has no order, and what an order *)
(* has taken follows its state.                                            *)
Asking == {"idle", "items", "code", "codeLock", "write"}
NoneYet == \A r \in Checkout : buyer[r].pc \in Asking => order[r].state = "none"
HoldsFollow == \A r \in Checkout : order[r].hold = HoldFor(order[r].state)

TInv == Tables /\ MovesHold /\ NoneYet /\ HoldsFollow

LEMMA Blank == NoOrder \in OrderRow /\ IdleMover \in MoverRow
BY DEF NoOrder, IdleMover, OrderRow, MoverRow, OrderState, HoldStatus, MoverPC

LEMMA TypeInit == Init => TInv
<1> SUFFICES ASSUME Init PROVE TInv
  OBVIOUS
<1>1. product \in [Product -> ProductRow]
  BY ShopAssumption DEF Init, ShopAssumption, ProductRow
<1>2. supplied \in [Product -> Int]
  BY <1>1 DEF Init, ProductRow
<1>3. Tables
  BY <1>1, <1>2, Blank, ShopAssumption DEF Init, ShopAssumption, Tables, Mover, BuyerRow, BuyerPC
<1> QED BY <1>3 DEF Init, TInv, MovesHold, NoneYet, HoldsFollow, Mover, IdleMover, NoOrder, HoldFor

-----------------------------------------------------------------------------
(* Locks.                                                                  *)

(* t touches no lock of another.                                           *)
OwnLocks(t) == \A x \in Rows :
    lock[x] # t /\ lock[x] # NoOne => lock'[x] = lock[x]

LEMMA Locking ==
    ASSUME Tables, NEW t \in Txn
    PROVE  /\ \A X \in SUBSET Rows : (\A x \in X : Free(x)) /\ Take(X, t) =>
                  /\ lock' \in [Rows -> Txn \cup {NoOne}] /\ OwnLocks(t)
                  /\ \A x \in X : lock'[x] = t
                  /\ \A x \in Rows : lock[x] = t => lock'[x] = t
           /\ ReleaseAll(t) => lock' \in [Rows -> Txn \cup {NoOne}] /\ OwnLocks(t)
           /\ UNCHANGED lock => lock' \in [Rows -> Txn \cup {NoOne}] /\ OwnLocks(t)
BY DEF Tables, Free, Take, ReleaseAll, Unlocked, OwnLocks

-----------------------------------------------------------------------------
(* Buyers.                                                                 *)

(* Where a checkout goes, and what it remembers, before it writes.         *)
AskStep(r) == Lookup(r) \/ (\E p \in Product : LockItem(r, p)) \/ ReadCode(r) \/ LockCode(r)

LEMMA BuyerGoes ==
    ASSUME Tables, NEW r \in Checkout, NEW pc \in BuyerPC, Goto(r, pc)
    PROVE  /\ buyer' \in [Checkout -> BuyerRow] /\ buyer'[r].pc = pc
           /\ \A q \in Checkout : q # r => buyer'[q] = buyer[q]
<1> DEFINE v == [buyer[r] EXCEPT !.pc = pc]
<1>1. buyer' = [buyer EXCEPT ![r] = v]
  BY DEF Goto
<1>2. v \in BuyerRow /\ v.pc = pc
  BY DEF Tables, BuyerRow
<1> HIDE DEF v
<1> QED BY <1>1, <1>2, Put DEF Tables

LEMMA AskWrites ==
    ASSUME TInv, NEW r \in Checkout, AskStep(r)
    PROVE  /\ Tables' /\ OwnLocks(r)
           /\ UNCHANGED <<product, order, mover, supplied>>
           /\ buyer[r].pc \in Asking
           /\ \A q \in Checkout : q # r => buyer'[q] = buyer[q]
<1>0. Tables /\ r \in Txn /\ Checkout \subseteq Rows /\ Product \subseteq Rows
  BY DEF TInv, Txn, Rows
<1>1. UNCHANGED <<product, usable, order, mover, supplied, edits, crashes>> /\ buyer[r].pc \in Asking
  BY DEF AskStep, Lookup, LockItem, ReadCode, LockCode, Asking
<1>2. lock' \in [Rows -> Txn \cup {NoOne}] /\ OwnLocks(r)
  <2>1. CASE Lookup(r) \/ ReadCode(r)
    BY <1>0, <2>1, Locking DEF Lookup, ReadCode
  <2>2. ASSUME NEW x \in Rows, Free(x), Take({x}, r) \/ ReleaseAll(r)
        PROVE  lock' \in [Rows -> Txn \cup {NoOne}] /\ OwnLocks(r)
    BY <1>0, <2>2, Locking
  <2>3. CASE \E p \in Product : LockItem(r, p)
    BY <1>0, <2>2, <2>3 DEF LockItem, Answer
  <2>4. CASE LockCode(r)
    <3>1. CouponOf[r] \in Rows \/ CouponOf[r] = NoCoupon
      BY ShopAssumption DEF ShopAssumption, Rows
    <3>2. Free(CouponOf[r]) /\ ((CouponOf[r] \in usable /\ Take({CouponOf[r]}, r)) \/ ReleaseAll(r))
      BY <2>4 DEF LockCode, Answer
    <3>3. usable \subseteq Rows
      BY <1>0 DEF Tables, Rows
    <3> QED BY <1>0, <2>2, <3>2, <3>3, Locking
  <2> QED BY <2>1, <2>3, <2>4 DEF AskStep
<1>3. buyer' \in [Checkout -> BuyerRow] /\ \A q \in Checkout : q # r => buyer'[q] = buyer[q]
  <2>1. CASE ReadCode(r)
    <3>1. Uses(CouponOf[r]) \in Nat
      BY FS_Subset, FS_CardinalityType, ShopAssumption DEF ShopAssumption, Uses
    <3>2. [pc |-> "codeLock", used |-> Uses(CouponOf[r])] \in BuyerRow
      BY <3>1 DEF BuyerRow, BuyerPC
    <3> HIDE DEF Uses
    <3> QED BY <1>0, <2>1, <3>2, Put DEF ReadCode, Tables
  <2>2. CASE ~ReadCode(r)
    <3>1. \E pc \in BuyerPC : Goto(r, pc)
      BY <2>2 DEF AskStep, Lookup, LockItem, LockCode, Answer, BuyerPC
    <3> QED BY <1>0, <3>1, BuyerGoes
  <2> QED BY <2>1, <2>2
<1> QED BY <1>0, <1>1, <1>2, <1>3 DEF Tables

LEMMA WriteWrites ==
    ASSUME TInv, NEW r \in Checkout, WriteOrder(r)
    PROVE  /\ Tables' /\ OwnLocks(r)
           /\ UNCHANGED <<mover, supplied>>
           /\ order[r].state = "none" /\ buyer'[r].pc \notin Asking
           /\ \A q \in Checkout : q # r => buyer'[q] = buyer[q] /\ order'[q] = order[q]
           /\ \/ UNCHANGED <<order, product>>
              \/ /\ ~Written(r)
                 /\ order'[r].state = "waiting" /\ order'[r].hold = "held"
                 /\ \A p \in Product : product'[p].stock = product[p].stock - Basket[r][p]
<1>0. Tables /\ r \in Txn /\ order[r].state = "none"
  BY DEF TInv, Txn, NoneYet, WriteOrder, Asking
<1>1. UNCHANGED <<usable, mover, supplied, edits, crashes>>
  BY DEF WriteOrder
<1>2. lock' \in [Rows -> Txn \cup {NoOne}] /\ OwnLocks(r)
  BY <1>0, Locking DEF WriteOrder, Answer
<1>3. /\ buyer' \in [Checkout -> BuyerRow] /\ buyer'[r].pc \in {"receipt", "refused"}
      /\ \A q \in Checkout : q # r => buyer'[q] = buyer[q]
  <2>1. \E pc \in {"receipt", "refused"} : Goto(r, pc)
    BY DEF WriteOrder, Answer
  <2> QED BY <1>0, <2>1, BuyerGoes DEF BuyerPC
<1>4. CASE UNCHANGED <<order, product>>
  BY <1>0, <1>1, <1>2, <1>3, <1>4 DEF Tables, Asking
<1>5. CASE ~ UNCHANGED <<order, product>>
  <2>1. /\ ~Written(r) /\ \A p \in Product : product[p].stock >= Basket[r][p]
        /\ order' = [order EXCEPT ![r] = [state |-> "waiting", hold |-> "held", lapsed |-> FALSE]]
        /\ product' = Taken(r)
    BY <1>5 DEF WriteOrder, NewAttempt
  <2>2. [state |-> "waiting", hold |-> "held", lapsed |-> FALSE] \in OrderRow
    BY DEF OrderRow, OrderState, HoldStatus
  <2>3. /\ order' \in [Checkout -> OrderRow]
        /\ order'[r].state = "waiting" /\ order'[r].hold = "held"
        /\ \A q \in Checkout : q # r => order'[q] = order[q]
    BY <1>0, <2>1, <2>2, Put DEF Tables
  <2>4. ASSUME NEW p \in Product
        PROVE  product'[p] \in ProductRow /\ product'[p].stock = product[p].stock - Basket[r][p]
    <3> DEFINE n == product[p].stock - Basket[r][p]
    <3>1. product[p] \in ProductRow /\ Basket[r][p] \in Nat /\ MaxStock \in Nat
      BY <1>0, ShopAssumption DEF Tables, ShopAssumption
    <3>2. n \in 0 .. MaxStock
      BY <2>1, <3>1 DEF ProductRow
    <3> HIDE DEF n
    <3>3. product'[p] = [product[p] EXCEPT !.stock = n]
      BY <2>1 DEF Taken, n
    <3>4. product'[p] \in ProductRow /\ product'[p].stock = n
      BY <3>1, <3>2, <3>3 DEF ProductRow
    <3> QED BY <3>4 DEF n
  <2>5. product' \in [Product -> ProductRow]
    BY <2>1, <2>4 DEF Taken
  <2>6. Tables'
    BY <1>0, <1>1, <1>2, <1>3, <2>3, <2>5 DEF Tables
  <2> QED BY <1>0, <1>1, <1>2, <1>3, <2>1, <2>3, <2>4, <2>6 DEF Asking
<1> QED BY <1>4, <1>5

-----------------------------------------------------------------------------
(* Transitions and sweeps.                                                 *)

LEMMA ReturnsASequence ==
    ASSUME NEW S \in SUBSET Checkout, NEW to, NEW s \in SetToSeqs(Returned(S, to))
    PROVE  s \in Seq(Product)
<1>1. Returned(S, to) \subseteq Product
  BY DEF Returned, Asked
<1>2. Cardinality(Returned(S, to)) \in Nat
  BY <1>1, FS_Subset, FS_CardinalityType, ShopAssumption DEF ShopAssumption
<1>3. s \in [1 .. Cardinality(Returned(S, to)) -> Returned(S, to)]
  BY DEF SetToSeqs
<1> HIDE DEF Returned
<1> QED BY <1>1, <1>2, <1>3

(* Until it commits, a transition changes nothing but its own row and the  *)
(* locks it takes.                                                         *)
PrepareStep(m) ==
    \/ \E r \in Checkout, to \in OrderState \ {"none"} : Begin(m, r, to)
    \/ Sweep(m) \/ LockOrder(m) \/ LockStock(m)

LEMMA PrepareWrites ==
    ASSUME TInv, NEW m \in Mover, PrepareStep(m)
    PROVE  /\ Tables' /\ OwnLocks(m)
           /\ UNCHANGED <<product, order, buyer, supplied>>
           /\ \A k \in Mover : k # m => mover'[k] = mover[k]
           /\ mover'[m].pc = "lock" => \E r \in Checkout : mover'[m].orders = {r}
           /\ mover'[m].pc = "holds" => \A r \in mover'[m].orders :
                  lock'[r] = m /\ AllowedMove(order[r].state, mover'[m].to)
<1>0. Tables /\ m \in Txn /\ Checkout \subseteq Rows /\ Product \subseteq Rows /\ mover[m] \in MoverRow
  BY DEF TInv, Tables, Txn, Rows, Mover
<1>1. UNCHANGED <<product, usable, order, buyer, supplied, edits, crashes>>
  BY DEF PrepareStep, Begin, Sweep, LockOrder, LockStock
<1>2. ASSUME NEW v \in MoverRow, mover' = [mover EXCEPT ![m] = v]
      PROVE  /\ mover' \in [Mover -> MoverRow] /\ mover'[m] = v
             /\ \A k \in Mover : k # m => mover'[k] = mover[k]
  BY <1>0, <1>2, Put DEF Tables
<1> DEFINE Good ==
       /\ mover' \in [Mover -> MoverRow] /\ \A k \in Mover : k # m => mover'[k] = mover[k]
       /\ mover'[m].pc = "lock" => \E r \in Checkout : mover'[m].orders = {r}
       /\ mover'[m].pc = "holds" => \A r \in mover'[m].orders :
              lock'[r] = m /\ AllowedMove(order[r].state, mover'[m].to)
       /\ lock' \in [Rows -> Txn \cup {NoOne}] /\ OwnLocks(m)
<1>3. ASSUME NEW r \in Checkout, NEW to \in OrderState \ {"none"}, Begin(m, r, to)
      PROVE  Good
  <2> DEFINE v == [pc |-> "lock", orders |-> {r}, to |-> to, left |-> <<>>]
  <2>1. v \in MoverRow
    BY DEF MoverRow, MoverPC
  <2>2. mover' = [mover EXCEPT ![m] = v] /\ UNCHANGED lock
    BY <1>3 DEF Begin
  <2>3. /\ mover' \in [Mover -> MoverRow] /\ mover'[m] = v
        /\ \A k \in Mover : k # m => mover'[k] = mover[k]
    BY <1>2, <2>1, <2>2
  <2> QED BY <1>0, <2>2, <2>3, Locking
<1>4. ASSUME Sweep(m) PROVE Good
  <2> DEFINE S == {r \in Checkout : Expired(r) /\ Free(r)}
  <2>1. Take(S, m) /\ \A x \in S : Free(x)
    BY <1>4 DEF Sweep
  <2>2. lock' \in [Rows -> Txn \cup {NoOne}] /\ OwnLocks(m) /\ \A x \in S : lock'[x] = m
    BY <1>0, <2>1, Locking
  <2>3. PICK s \in SetToSeqs(Returned(S, "called_off")) :
           mover' = [mover EXCEPT ![m] = [pc |-> "holds", orders |-> S,
                                          to |-> "called_off", left |-> s]]
    BY <1>4 DEF Sweep
  <2>4. \A r \in S : AllowedMove(order[r].state, "called_off")
    BY DEF Expired, AllowedMove
  <2>5. S \in SUBSET Checkout
    OBVIOUS
  <2> HIDE DEF S
  <2> DEFINE v == [pc |-> "holds", orders |-> S, to |-> "called_off", left |-> s]
  <2>6. v \in MoverRow
    BY <2>3, <2>5, ReturnsASequence DEF MoverRow, MoverPC, OrderState
  <2>7. /\ mover' \in [Mover -> MoverRow] /\ mover'[m] = v
        /\ \A k \in Mover : k # m => mover'[k] = mover[k]
    BY <1>2, <2>2, <2>3, <2>4, <2>6
  <2> QED BY <2>2, <2>3, <2>4, <2>6, <2>7
<1>5. ASSUME LockOrder(m) PROVE Good
  <2> DEFINE r == CHOOSE q \in Checkout : q \in mover[m].orders
             to == mover[m].to
  <2>1. r \in Checkout /\ mover[m].orders = {r}
    BY <1>5 DEF LockOrder, TInv, MovesHold
  <2>2. CASE AllowedMove(order[r].state, to)
    <3>1. Free(r) /\ Take({r}, m)
      BY <1>5, <2>2 DEF LockOrder, MayRead
    <3>2. PICK s \in SetToSeqs(Returned({r}, to)) :
             mover' = [mover EXCEPT ![m].pc = "holds", ![m].left = s]
      BY <1>5, <2>2 DEF LockOrder
    <3> DEFINE v == [mover[m] EXCEPT !.pc = "holds", !.left = s]
    <3>3. s \in Seq(Product)
      BY <2>1, <3>2, ReturnsASequence
    <3>4. mover' = [mover EXCEPT ![m] = v]
      BY <1>0, <3>2 DEF Tables
    <3>5. v \in MoverRow /\ v.pc = "holds" /\ v.orders = {r} /\ v.to = to
      BY <1>0, <2>1, <3>3 DEF MoverRow, MoverPC
    <3> HIDE DEF v, r
    <3>6. lock' \in [Rows -> Txn \cup {NoOne}] /\ OwnLocks(m) /\ lock'[r] = m
      BY <1>0, <2>1, <3>1, Locking
    <3>7. /\ mover' \in [Mover -> MoverRow] /\ mover'[m] = v
          /\ \A k \in Mover : k # m => mover'[k] = mover[k]
      BY <1>2, <2>2, <3>4, <3>5, <3>6
    <3> QED BY <2>2, <3>4, <3>5, <3>6, <3>7
  <2>3. CASE ~AllowedMove(order[r].state, to)
    <3>1. mover' = [mover EXCEPT ![m] = IdleMover] /\ UNCHANGED lock
      BY <1>5, <2>3 DEF LockOrder
    <3>2. /\ mover' \in [Mover -> MoverRow] /\ mover'[m] = IdleMover
          /\ \A k \in Mover : k # m => mover'[k] = mover[k]
      BY <1>2, <3>1, Blank
    <3> QED BY <1>0, <3>1, <3>2, Locking DEF IdleMover
  <2> QED BY <2>2, <2>3
<1>6. ASSUME LockStock(m) PROVE Good
  <2> DEFINE p == Head(mover[m].left)
             v == [mover[m] EXCEPT !.left = Tail(@)]
  <2>1. /\ mover[m].pc = "holds" /\ mover[m].left # <<>> /\ mover[m].left \in Seq(Product)
        /\ Free(p) /\ Take({p}, m) /\ mover' = [mover EXCEPT ![m] = v]
    BY <1>0, <1>6 DEF LockStock, MoverRow
  <2>2. p \in Product /\ Tail(mover[m].left) \in Seq(Product)
    BY <2>1
  <2>3. v \in MoverRow /\ v.pc = "holds" /\ v.orders = mover[m].orders /\ v.to = mover[m].to
    BY <1>0, <2>1, <2>2 DEF MoverRow
  <2>4. \A r \in mover[m].orders : r \in Rows /\ lock[r] = m /\ AllowedMove(order[r].state, mover[m].to)
    BY <1>0, <2>1 DEF TInv, MovesHold, MoverRow
  <2> HIDE DEF p, v
  <2>5. /\ lock' \in [Rows -> Txn \cup {NoOne}] /\ OwnLocks(m)
        /\ \A x \in Rows : lock[x] = m => lock'[x] = m
    BY <1>0, <2>1, <2>2, Locking
  <2>6. /\ mover' \in [Mover -> MoverRow] /\ mover'[m] = v
        /\ \A k \in Mover : k # m => mover'[k] = mover[k]
    BY <1>2, <2>1, <2>3, <2>4, <2>5
  <2> QED BY <2>1, <2>3, <2>4, <2>5, <2>6
<1>7. Good
  <2> HIDE DEF Good
  <2> QED BY <1>3, <1>4, <1>5, <1>6 DEF PrepareStep
<1>8. Tables'
  BY <1>0, <1>1, <1>7 DEF Tables
<1> QED BY <1>1, <1>7, <1>8

(* What the holds of each order give back of p.                            *)
Back(p, to) == [r \in Checkout |-> IF GivesBack(r, to) THEN Basket[r][p] ELSE 0]

LEMMA BackType ==
    ASSUME NEW S \in SUBSET Checkout, NEW p \in Product, NEW to
    PROVE  Sum(Back(p, to), S) \in Nat
<1>1. IsFiniteSet(S) /\ \A r \in S : Back(p, to)[r] \in Nat /\ Back(p, to)[r] \in Int
  BY FS_Subset, ShopAssumption DEF ShopAssumption, Back
<1> QED BY <1>1, SumType

LEMMA CommitWrites ==
    ASSUME TInv, NEW m \in Mover, CommitMove(m)
    PROVE  /\ Tables' /\ OwnLocks(m)
           /\ UNCHANGED <<buyer, supplied>>
           /\ mover'[m] = IdleMover /\ \A k \in Mover : k # m => mover'[k] = mover[k]
           /\ mover[m].orders \in SUBSET Checkout
           /\ \A r \in mover[m].orders : lock[r] = m /\ AllowedMove(order[r].state, mover[m].to)
           /\ \/ UNCHANGED <<order, product>>
              \/ /\ \A r \in mover[m].orders :
                        /\ order'[r].state = mover[m].to
                        /\ order'[r].hold = Settled(order[r].hold, mover[m].to)
                 /\ \A r \in Checkout \ mover[m].orders : order'[r] = order[r]
                 /\ \A p \in Product : product'[p].stock = product[p].stock
                                           + Sum(Back(p, mover[m].to), mover[m].orders)
<1> DEFINE S == mover[m].orders
           to == mover[m].to
<1>0. Tables /\ m \in Txn /\ mover[m] \in MoverRow /\ mover[m].pc = "holds"
  BY DEF TInv, Tables, Txn, Mover, CommitMove
<1>1. /\ S \in SUBSET Checkout /\ to \in OrderState
      /\ \A r \in S : lock[r] = m /\ AllowedMove(order[r].state, to)
  BY <1>0 DEF TInv, MovesHold, MoverRow
<1>2. /\ UNCHANGED <<usable, buyer, supplied, edits, crashes>>
      /\ lock' \in [Rows -> Txn \cup {NoOne}] /\ OwnLocks(m)
  BY <1>0, Locking DEF CommitMove
<1>3. /\ mover' \in [Mover -> MoverRow] /\ mover'[m] = IdleMover
      /\ \A k \in Mover : k # m => mover'[k] = mover[k]
  BY <1>0, Blank, Put DEF CommitMove, Tables
<1>4. CASE UNCHANGED <<order, product>>
  BY <1>0, <1>1, <1>2, <1>3, <1>4 DEF Tables
<1>5. CASE ~ UNCHANGED <<order, product>>
  <2>1. /\ Fits(S, to) /\ product' = Restocked(S, to)
        /\ order' = [r \in Checkout |->
              IF r \in S THEN [order[r] EXCEPT !.state = to, !.hold = Settled(@, to)]
              ELSE order[r]]
    BY <1>5 DEF CommitMove
  <2> HIDE DEF S, to
  <2>2. /\ order' \in [Checkout -> OrderRow]
        /\ \A r \in S : order'[r].state = to /\ order'[r].hold = Settled(order[r].hold, to)
        /\ \A r \in Checkout \ S : order'[r] = order[r]
    <3>1. \A r \in Checkout : order[r] \in OrderRow /\ Settled(order[r].hold, to) \in HoldStatus
      BY <1>0 DEF Tables, OrderRow, Settled, HoldStatus
    <3> QED BY <1>1, <2>1, <3>1 DEF OrderRow
  <2>3. ASSUME NEW p \in Product
        PROVE  /\ product'[p] \in ProductRow
               /\ product'[p].stock = product[p].stock + Sum(Back(p, to), S)
    <3> DEFINE n == product[p].stock + Sum(Back(p, to), S)
    <3>1. product'[p] = [product[p] EXCEPT !.stock = n] /\ Restocked(S, to)[p] = product'[p]
      BY <2>1 DEF Restocked, Back, Sum
    <3>2. Sum(Back(p, to), S) \in Nat /\ MaxStock \in Nat /\ product[p] \in ProductRow
      BY <1>0, <1>1, BackType, ShopAssumption DEF ShopAssumption, Tables
    <3>3. n \in Nat
      BY <3>2 DEF ProductRow
    <3> HIDE DEF n
    <3>4. product'[p].stock = n
      BY <3>1, <3>2 DEF ProductRow
    <3>5. n <= MaxStock
      BY <2>1, <3>1, <3>4 DEF Fits
    <3>6. product'[p] \in ProductRow
      BY <3>1, <3>2, <3>3, <3>5 DEF ProductRow
    <3> QED BY <3>4, <3>6 DEF n
  <2>4. product' \in [Product -> ProductRow]
    BY <2>1, <2>3 DEF Restocked
  <2>5. Tables'
    BY <1>0, <1>2, <1>3, <2>2, <2>4 DEF Tables
  <2> QED BY <1>1, <1>2, <1>3, <2>2, <2>3, <2>5 DEF S, to
<1> QED BY <1>4, <1>5

-----------------------------------------------------------------------------
(* What is given up, and what the panel and the clock do.                  *)

GiveUp(t) == Victim(t) \/ Crash(t)

LEMMA GiveUpWrites ==
    ASSUME TInv, NEW t \in Txn, GiveUp(t)
    PROVE  /\ Tables' /\ OwnLocks(t)
           /\ UNCHANGED <<product, order, supplied>>
           /\ \A q \in Checkout : buyer'[q] = buyer[q] \/ buyer'[q].pc \notin Asking
           /\ \A k \in Mover : \/ k # t /\ mover'[k] = mover[k]
                               \/ mover'[k] = IdleMover
<1>0. Tables /\ Txn = Checkout \cup Mover /\ Checkout \cap Mover = {}
  BY ShopAssumption DEF TInv, Txn, Mover, ShopAssumption
<1>1. UNCHANGED <<product, usable, order, supplied, edits>> /\ ReleaseAll(t)
  BY DEF GiveUp, Victim, Crash, RollBackBuyer, RollBackMover, Answer
<1>2. crashes' \in 0 .. Crashes
  BY <1>0, ShopAssumption DEF GiveUp, Victim, Crash, Tables, ShopAssumption
<1>3. lock' \in [Rows -> Txn \cup {NoOne}] /\ OwnLocks(t)
  BY <1>0, <1>1, Locking
<1>4. CASE t \in Checkout /\ RollBackBuyer(t)
  <2>1. Goto(t, "failed") /\ UNCHANGED mover
    BY <1>4 DEF RollBackBuyer, Answer
  <2>2. /\ buyer' \in [Checkout -> BuyerRow] /\ buyer'[t].pc = "failed"
        /\ \A q \in Checkout : q # t => buyer'[q] = buyer[q]
    BY <1>0, <1>4, <2>1, BuyerGoes DEF BuyerPC
  <2>3. Tables'
    BY <1>0, <1>1, <1>2, <1>3, <2>1, <2>2 DEF Tables
  <2> QED BY <1>0, <1>1, <1>3, <1>4, <2>1, <2>2, <2>3 DEF Asking
<1>5. CASE t \in Mover /\ RollBackMover(t)
  <2>1. mover' = [mover EXCEPT ![t] = IdleMover] /\ UNCHANGED buyer
    BY <1>5 DEF RollBackMover
  <2>2. /\ mover' \in [Mover -> MoverRow] /\ mover'[t] = IdleMover
        /\ \A k \in Mover : k # t => mover'[k] = mover[k]
    BY <1>0, <1>5, <2>1, Blank, Put DEF Tables
  <2>3. Tables'
    BY <1>0, <1>1, <1>2, <1>3, <2>1, <2>2 DEF Tables
  <2> QED BY <1>1, <1>3, <2>1, <2>2, <2>3
<1> QED BY <1>0, <1>4, <1>5 DEF GiveUp, Victim, Crash, Mover

PanelStep ==
    \/ \E p \in Product : UpdateProduct(p) \/ ToggleSale(p) \/ TrashProduct(p)
    \/ \E c \in Coupon : EndCoupon(c)
    \/ \E r \in Checkout : HoldLapses(r)

LEMMA PanelWrites ==
    ASSUME TInv, PanelStep
    PROVE  /\ Tables'
           /\ UNCHANGED <<lock, buyer, mover>>
           /\ \A q \in Checkout : /\ order'[q].state = order[q].state
                                  /\ order'[q].hold = order[q].hold
           /\ \A p \in Product : product'[p].stock - supplied'[p] = product[p].stock - supplied[p]
<1>0. Tables
  BY DEF TInv
<1>1. ASSUME NEW p \in Product, NEW s \in ProductRow, SetProduct(p, s)
      PROVE  /\ Tables'
             /\ UNCHANGED <<order, lock, buyer, mover>>
             /\ \A q \in Product : product'[q].stock - supplied'[q] = product[q].stock - supplied[q]
  <2> DEFINE n == supplied[p] + s.stock - product[p].stock
  <2>1. /\ product' = [product EXCEPT ![p] = s] /\ supplied' = [supplied EXCEPT ![p] = n]
        /\ edits > 0 /\ edits' = edits - 1
        /\ UNCHANGED <<usable, order, lock, buyer, mover, crashes>>
    BY <1>0, <1>1 DEF SetProduct, Edit, Tables
  <2>2. product[p].stock \in Int /\ s.stock \in Int /\ supplied[p] \in Int
    BY <1>0, ShopAssumption DEF Tables, ProductRow, ShopAssumption
  <2>3. n \in Int
    BY <2>2
  <2> HIDE DEF n
  <2>4. /\ product' \in [Product -> ProductRow] /\ product'[p] = s
        /\ \A q \in Product : q # p => product'[q] = product[q]
        /\ supplied' \in [Product -> Int] /\ supplied'[p] = n
        /\ \A q \in Product : q # p => supplied'[q] = supplied[q]
    BY <1>0, <2>1, <2>3, Put DEF Tables
  <2>5. edits' \in 0 .. Edits
    BY <1>0, <2>1, ShopAssumption DEF Tables, ShopAssumption
  <2>6. Tables'
    BY <1>0, <2>1, <2>4, <2>5 DEF Tables
  <2>7. s.stock - n = product[p].stock - supplied[p]
    BY <2>2 DEF n
  <2> QED BY <2>1, <2>4, <2>6, <2>7
<1>2. ASSUME NEW p \in Product, UpdateProduct(p) \/ ToggleSale(p) \/ TrashProduct(p)
      PROVE  \E s \in ProductRow : SetProduct(p, s)
  <2>1. product[p] \in ProductRow /\ Stocks \subseteq 0 .. MaxStock
    BY <1>0, ShopAssumption DEF Tables, ShopAssumption
  <2>2. /\ \A n \in Stocks : [product[p] EXCEPT !.stock = n] \in ProductRow
        /\ [product[p] EXCEPT !.sale = ~@] \in ProductRow
        /\ [product[p] EXCEPT !.live = ~@] \in ProductRow
    BY <2>1 DEF ProductRow
  <2> QED BY <1>2, <2>2 DEF UpdateProduct, ToggleSale, TrashProduct
<1>3. CASE \E p \in Product : UpdateProduct(p) \/ ToggleSale(p) \/ TrashProduct(p)
  BY <1>1, <1>2, <1>3
<1>4. CASE \E c \in Coupon : EndCoupon(c)
  <2>1. edits' \in 0 .. Edits
    BY <1>0, <1>4, ShopAssumption DEF EndCoupon, Edit, Tables, ShopAssumption
  <2> QED BY <1>0, <1>4, <2>1 DEF EndCoupon, Tables
<1>5. ASSUME NEW r \in Checkout, HoldLapses(r)
      PROVE  /\ Tables' /\ UNCHANGED <<product, supplied, lock, buyer, mover>>
             /\ \A q \in Checkout : /\ order'[q].state = order[q].state
                                    /\ order'[q].hold = order[q].hold
  <2> DEFINE v == [order[r] EXCEPT !.lapsed = TRUE]
  <2>1. order' = [order EXCEPT ![r] = v]
        /\ UNCHANGED <<product, usable, lock, buyer, mover, supplied, edits, crashes>>
    BY <1>5 DEF HoldLapses
  <2>2. v \in OrderRow /\ v.state = order[r].state /\ v.hold = order[r].hold
    BY <1>0 DEF Tables, OrderRow
  <2> HIDE DEF v
  <2>3. /\ order' \in [Checkout -> OrderRow] /\ order'[r] = v
        /\ \A q \in Checkout : q # r => order'[q] = order[q]
    BY <1>0, <2>1, <2>2, Put DEF Tables
  <2> QED BY <1>0, <2>1, <2>2, <2>3 DEF Tables
<1> QED BY <1>3, <1>4, <1>5 DEF PanelStep

-----------------------------------------------------------------------------
LEMMA StepIsOneOf ==
    ASSUME Next
    PROVE  \/ \E r \in Checkout : AskStep(r) \/ WriteOrder(r)
           \/ \E m \in Mover : PrepareStep(m) \/ CommitMove(m)
           \/ \E t \in Txn : GiveUp(t)
           \/ PanelStep
BY DEF Next, BuyerStep, MoverStep, Mover, AskStep, PrepareStep, GiveUp, PanelStep

(* Moves of others go on as before: their locks stay, and nobody writes an *)
(* order that another has locked.                                          *)
LEMMA OthersHold ==
    ASSUME TInv, NEW t, OwnLocks(t), NEW m \in Mover, m # t, mover'[m] = mover[m],
           \A r \in Checkout : lock[r] = m /\ order[r].state # "none"
                                   => order'[r].state = order[r].state
    PROVE  /\ mover'[m].pc = "lock" => \E r \in Checkout : mover'[m].orders = {r}
           /\ mover'[m].pc = "holds" => \A r \in mover'[m].orders :
                  lock'[r] = m /\ AllowedMove(order'[r].state, mover'[m].to)
<1>1. mover[m] \in MoverRow /\ m # NoOne
  BY ShopAssumption DEF TInv, Tables, Mover, Txn, ShopAssumption
<1>2. ASSUME mover[m].pc = "holds", NEW r \in mover[m].orders
      PROVE  lock'[r] = m /\ AllowedMove(order'[r].state, mover[m].to)
  <2>1. r \in Checkout /\ lock[r] = m /\ AllowedMove(order[r].state, mover[m].to)
    BY <1>1, <1>2 DEF TInv, MovesHold, MoverRow
  <2>2. lock'[r] = m
    BY <1>1, <2>1 DEF OwnLocks, Rows
  <2>3. order[r].state # "none"
    BY <2>1 DEF AllowedMove
  <2> QED BY <2>1, <2>2, <2>3
<1> QED BY <1>2 DEF TInv, MovesHold

LEMMA TypeStep == TInv /\ [Next]_vars => TInv'
<1> SUFFICES ASSUME TInv, [Next]_vars PROVE TInv'
  OBVIOUS
<1>0. Checkout \cap Mover = {} /\ Mover \subseteq Txn /\ Checkout \subseteq Rows
  BY ShopAssumption DEF ShopAssumption, Mover, Txn, Rows
<1>1. ASSUME NEW r \in Checkout, AskStep(r) PROVE TInv'
  <2>1. /\ Tables' /\ OwnLocks(r) /\ UNCHANGED <<order, mover>>
        /\ buyer[r].pc \in Asking
        /\ \A q \in Checkout : q # r => buyer'[q] = buyer[q]
    BY <1>1, AskWrites
  <2>2. MovesHold'
    BY <1>0, <2>1, OthersHold DEF MovesHold
  <2>3. NoneYet' /\ HoldsFollow'
    BY <2>1 DEF TInv, NoneYet, HoldsFollow
  <2> QED BY <2>1, <2>2, <2>3 DEF TInv
<1>2. ASSUME NEW r \in Checkout, WriteOrder(r) PROVE TInv'
  <2>1. /\ Tables' /\ OwnLocks(r) /\ UNCHANGED mover
        /\ order[r].state = "none" /\ buyer'[r].pc \notin Asking
        /\ \A q \in Checkout : q # r => buyer'[q] = buyer[q] /\ order'[q] = order[q]
    BY <1>2, WriteWrites
  <2>4. \/ order' = order
        \/ order'[r].state = "waiting" /\ order'[r].hold = "held"
    BY <1>2, WriteWrites
  <2>2. MovesHold'
    BY <1>0, <2>1, OthersHold DEF MovesHold
  <2>3. NoneYet' /\ HoldsFollow'
    BY <2>1, <2>4 DEF TInv, NoneYet, HoldsFollow, HoldFor
  <2> QED BY <2>1, <2>2, <2>3 DEF TInv
<1>3. ASSUME NEW m \in Mover, PrepareStep(m) PROVE TInv'
  <2>1. /\ Tables' /\ OwnLocks(m) /\ UNCHANGED <<order, buyer>>
        /\ \A k \in Mover : k # m => mover'[k] = mover[k]
        /\ mover'[m].pc = "lock" => \E r \in Checkout : mover'[m].orders = {r}
        /\ mover'[m].pc = "holds" => \A r \in mover'[m].orders :
               lock'[r] = m /\ AllowedMove(order[r].state, mover'[m].to)
    BY <1>3, PrepareWrites
  <2>2. MovesHold'
    BY <2>1, OthersHold DEF MovesHold
  <2>3. NoneYet' /\ HoldsFollow'
    BY <2>1 DEF TInv, NoneYet, HoldsFollow
  <2> QED BY <2>1, <2>2, <2>3 DEF TInv
<1>4. ASSUME NEW m \in Mover, CommitMove(m) PROVE TInv'
  <2> DEFINE S == mover[m].orders
  <2>1. /\ Tables' /\ OwnLocks(m) /\ UNCHANGED buyer
        /\ mover'[m] = IdleMover /\ \A k \in Mover : k # m => mover'[k] = mover[k]
        /\ S \in SUBSET Checkout
        /\ \A r \in S : lock[r] = m /\ AllowedMove(order[r].state, mover[m].to)
        /\ \/ UNCHANGED order
           \/ /\ \A r \in S : /\ order'[r].state = mover[m].to
                              /\ order'[r].hold = Settled(order[r].hold, mover[m].to)
              /\ \A r \in Checkout \ S : order'[r] = order[r]
    BY <1>4, CommitWrites
  <2>2. \A k \in Mover, r \in Checkout : k # m /\ lock[r] = k => order'[r] = order[r]
    BY <2>1
  <2>3. \A k \in Mover : k # m =>
            /\ mover'[k].pc = "lock" => \E r \in Checkout : mover'[k].orders = {r}
            /\ mover'[k].pc = "holds" => \A r \in mover'[k].orders :
                   lock'[r] = k /\ AllowedMove(order'[r].state, mover'[k].to)
    BY <2>1, <2>2, OthersHold
  <2>4. MovesHold'
    BY <2>1, <2>3 DEF MovesHold, IdleMover
  <2>5. \A r \in S : order[r].state # "none" /\ order[r].hold = HoldFor(order[r].state)
    BY <2>1 DEF AllowedMove, TInv, HoldsFollow
  <2>6. NoneYet'
    BY <2>1, <2>5 DEF TInv, NoneYet
  <2>7. \A r \in S : Settled(order[r].hold, mover[m].to) = HoldFor(mover[m].to)
    BY <2>1, <2>5 DEF AllowedMove, Settled, HoldFor
  <2>8. HoldsFollow'
    BY <2>1, <2>7 DEF TInv, HoldsFollow
  <2> QED BY <2>1, <2>4, <2>6, <2>8 DEF TInv
<1>5. ASSUME NEW t \in Txn, GiveUp(t) PROVE TInv'
  <2>1. /\ Tables' /\ OwnLocks(t) /\ UNCHANGED order
        /\ \A q \in Checkout : buyer'[q] = buyer[q] \/ buyer'[q].pc \notin Asking
        /\ \A k \in Mover : (k # t /\ mover'[k] = mover[k]) \/ mover'[k] = IdleMover
    BY <1>5, GiveUpWrites
  <2>2. MovesHold'
    BY <2>1, OthersHold DEF MovesHold, IdleMover
  <2>3. NoneYet' /\ HoldsFollow'
    BY <2>1 DEF TInv, NoneYet, HoldsFollow
  <2> QED BY <2>1, <2>2, <2>3 DEF TInv
<1>6. CASE PanelStep
  <2>1. /\ Tables' /\ UNCHANGED <<lock, buyer, mover>>
        /\ \A q \in Checkout : /\ order'[q].state = order[q].state
                               /\ order'[q].hold = order[q].hold
    BY <1>6, PanelWrites
  <2>2. \A m \in Mover : mover[m].orders \subseteq Checkout
    BY DEF TInv, Tables, MoverRow
  <2>3. MovesHold'
    BY <2>1, <2>2 DEF TInv, MovesHold
  <2>4. NoneYet' /\ HoldsFollow'
    BY <2>1 DEF TInv, NoneYet, HoldsFollow
  <2> QED BY <2>1, <2>3, <2>4 DEF TInv
<1>7. CASE UNCHANGED vars
  BY <1>7 DEF vars, TInv, Tables, MovesHold, NoneYet, HoldsFollow
<1> QED BY <1>1, <1>2, <1>3, <1>4, <1>5, <1>6, <1>7, StepIsOneOf

(* Every row keeps to its columns' ranges, the stock to its check          *)
(* constraint, whatever is bought, given back and set.                     *)
THEOREM TypeCorrect == Spec => []TypeOK
<1>1. TInv => TypeOK
  BY Types DEF TInv
<1> QED BY <1>1, TypeInit, TypeStep, PTL DEF Spec

-----------------------------------------------------------------------------
(* One order of an attempt.                                                *)

(* Orders are made by WriteOrder, and never unmade.                        *)
LEMMA PlacedChanges ==
    ASSUME TInv, Next
    PROVE  \/ \A q \in Checkout : Placed(q)' <=> Placed(q)
           \/ \E r \in Checkout : /\ ~Written(r)
                                  /\ \A q \in Checkout : q # r => (Placed(q)' <=> Placed(q))
<1>1. ASSUME NEW m \in Mover, CommitMove(m)
      PROVE  \A q \in Checkout : Placed(q)' <=> Placed(q)
  <2>1. \A r \in mover[m].orders : order[r].state # "none" /\ mover[m].to # "none"
    BY <1>1, CommitWrites DEF AllowedMove
  <2> QED BY <1>1, <2>1, CommitWrites DEF Placed
<1>2. ASSUME NEW r \in Checkout, WriteOrder(r)
      PROVE  \/ \A q \in Checkout : Placed(q)' <=> Placed(q)
             \/ /\ ~Written(r)
                /\ \A q \in Checkout : q # r => (Placed(q)' <=> Placed(q))
  BY <1>2, WriteWrites DEF Placed
<1>3. CASE PanelStep
  BY <1>3, PanelWrites DEF Placed
<1>4. ASSUME UNCHANGED order PROVE \A q \in Checkout : Placed(q)' <=> Placed(q)
  BY <1>4 DEF Placed
<1> QED BY <1>1, <1>2, <1>3, <1>4, StepIsOneOf, AskWrites, PrepareWrites, GiveUpWrites

(* The same attempt twice is one order, however the requests overlap.      *)
THEOREM OneOrder == Spec => []OneOrderPerAttempt
<1>1. Init => OneOrderPerAttempt
  BY DEF Init, OneOrderPerAttempt, Placed, NoOrder
<1>2. TInv /\ OneOrderPerAttempt /\ [Next]_vars => OneOrderPerAttempt'
  <2> SUFFICES ASSUME TInv, OneOrderPerAttempt, [Next]_vars PROVE OneOrderPerAttempt'
    OBVIOUS
  <2>1. CASE Next
    <3>1. CASE \A q \in Checkout : Placed(q)' <=> Placed(q)
      BY <3>1 DEF OneOrderPerAttempt
    <3>2. ASSUME NEW r \in Checkout, ~Written(r),
                 \A q \in Checkout : q # r => (Placed(q)' <=> Placed(q))
          PROVE  OneOrderPerAttempt'
      <4>1. \A q \in Checkout : Placed(q) => AttemptOf[q] # AttemptOf[r]
        BY <3>2 DEF Written
      <4> QED BY <3>2, <4>1 DEF OneOrderPerAttempt
    <3> QED BY <2>1, <3>1, <3>2, PlacedChanges
  <2>2. CASE UNCHANGED vars
    BY <2>2 DEF vars, OneOrderPerAttempt, Placed
  <2> QED BY <2>1, <2>2
<1> QED BY <1>1, <1>2, TypeInit, TypeStep, PTL DEF Spec

-----------------------------------------------------------------------------
(* Stock is accounted for.                                                 *)

Gone(p) == [r \in Checkout |-> Out(r, p)]

OnShelf == \A p \in Product : product[p].stock + Sum(Gone(p), Checkout) = supplied[p]

LEMMA AccountIs == (StockAccounted <=> OnShelf /\ HoldsFollow)
<1>1. \A p \in Product : FoldFunction(+, 0, [r \in Checkout |-> Out(r, p)]) = Sum(Gone(p), Checkout)
  BY DEF FoldFunction, Sum, Gone
<1> QED BY <1>1 DEF StockAccounted, OnShelf, HoldsFollow

LEMMA GoneType ==
    ASSUME NEW p \in Product
    PROVE  \A r \in Checkout : Gone(p)[r] \in Int /\ Gone(p)'[r] \in Int /\ Basket[r][p] \in Int
BY ShopAssumption DEF ShopAssumption, Gone, Out

LEMMA GoneStays ==
    ASSUME \A q \in Checkout : order'[q].hold = order[q].hold
    PROVE  \A p \in Product : Gone(p)' = Gone(p)
BY DEF Gone, Out

(* A checkout takes from the shelf what its hold says.                     *)
LEMMA WriteAccounts ==
    ASSUME TInv, OnShelf, NEW r \in Checkout, WriteOrder(r)
    PROVE  OnShelf'
<1>1. /\ UNCHANGED supplied
      /\ order[r].hold = "none"
      /\ \A q \in Checkout : q # r => order'[q] = order[q]
      /\ \/ UNCHANGED <<order, product>>
         \/ /\ order'[r].hold = "held"
            /\ \A p \in Product : product'[p].stock = product[p].stock - Basket[r][p]
  BY WriteWrites DEF TInv, HoldsFollow, HoldFor
<1>2. CASE UNCHANGED <<order, product>>
  BY <1>1, <1>2 DEF OnShelf, Gone, Out
<1>3. CASE ~ UNCHANGED <<order, product>>
  <2> SUFFICES ASSUME NEW p \in Product
               PROVE  product'[p].stock + Sum(Gone(p)', Checkout) = supplied[p]
    BY <1>1 DEF OnShelf
  <2> DEFINE B == [q \in Checkout |-> Basket[q][p]]
  <2>1. \A q \in Checkout : Gone(p)'[q] = IF q \in {r} THEN Gone(p)[q] + B[q] ELSE Gone(p)[q]
    BY <1>1, <1>3, GoneType DEF Gone, Out
  <2>2. Sum(Gone(p)', Checkout) = Sum(Gone(p), Checkout) + Sum(B, {r})
    <3>1. \A q \in Checkout : Gone(p)'[q] \in Int /\ B[q] \in Int /\ Gone(p)[q] \in Int
      BY GoneType
    <3>2. {r} \in SUBSET Checkout /\ IsFiniteSet(Checkout)
      BY ShopAssumption DEF ShopAssumption
    <3> HIDE DEF B
    <3> QED BY <2>1, <3>1, <3>2, SumSplit
  <2>3. Sum(B, {r}) = Basket[r][p] /\ Basket[r][p] \in Int
    BY GoneType, SumOfOne
  <2>4. Sum(Gone(p), Checkout) \in Int /\ product[p].stock \in Int
    BY GoneType, SumType, ShopAssumption DEF ShopAssumption, TInv, Tables, ProductRow
  <2>5. product'[p].stock = product[p].stock - Basket[r][p]
    BY <1>1, <1>3
  <2>6. product[p].stock + Sum(Gone(p), Checkout) = supplied[p]
    BY DEF OnShelf
  <2> HIDE DEF B
  <2> QED BY <2>2, <2>3, <2>4, <2>5, <2>6
<1> QED BY <1>2, <1>3

(* A transition puts back on the shelf what the holds it releases had taken.*)
LEMMA CommitAccounts ==
    ASSUME TInv, OnShelf, NEW m \in Mover, CommitMove(m)
    PROVE  OnShelf'
<1> DEFINE S == mover[m].orders
           to == mover[m].to
<1>1. /\ UNCHANGED supplied
      /\ S \in SUBSET Checkout
      /\ \A r \in S : AllowedMove(order[r].state, to) /\ order[r].hold = HoldFor(order[r].state)
      /\ \/ UNCHANGED <<order, product>>
         \/ /\ \A r \in S : order'[r].hold = Settled(order[r].hold, to)
            /\ \A r \in Checkout \ S : order'[r] = order[r]
            /\ \A p \in Product : product'[p].stock = product[p].stock + Sum(Back(p, to), S)
  BY CommitWrites DEF TInv, HoldsFollow
<1>2. CASE UNCHANGED <<order, product>>
  BY <1>1, <1>2 DEF OnShelf, Gone, Out
<1>3. CASE ~ UNCHANGED <<order, product>>
  <2> SUFFICES ASSUME NEW p \in Product
               PROVE  product'[p].stock + Sum(Gone(p)', Checkout) = supplied[p]
    BY <1>1 DEF OnShelf
  <2> HIDE DEF S, to
  <2>1. \A r \in Checkout : Gone(p)[r] = IF r \in S THEN Gone(p)'[r] + Back(p, to)[r] ELSE Gone(p)'[r]
    <3>1. ASSUME NEW r \in Checkout, r \in S
          PROVE  Out(r, p) = Out(r, p)' + (IF GivesBack(r, to) THEN Basket[r][p] ELSE 0)
      <4>1. /\ order'[r].hold = Settled(order[r].hold, to) /\ Basket[r][p] \in Int
            /\ AllowedMove(order[r].state, to) /\ order[r].hold = HoldFor(order[r].state)
        BY <1>1, <1>3, <3>1, GoneType
      <4> QED BY <4>1 DEF Out, GivesBack, Settled, HoldFor, AllowedMove
    <3>2. ASSUME NEW r \in Checkout, r \notin S PROVE Out(r, p) = Out(r, p)'
      BY <1>1, <1>3, <3>2 DEF Out
    <3> QED BY <3>1, <3>2 DEF Gone, Back
  <2>2. \A r \in Checkout : Gone(p)[r] \in Int /\ Gone(p)'[r] \in Int /\ Back(p, to)[r] \in Int
    BY GoneType DEF Back
  <2>3. IsFiniteSet(Checkout)
    BY ShopAssumption DEF ShopAssumption
  <2>4. Sum(Gone(p), Checkout) = Sum(Gone(p)', Checkout) + Sum(Back(p, to), S)
    BY <1>1, <2>1, <2>2, <2>3, SumSplit
  <2>5. /\ Sum(Gone(p)', Checkout) \in Int /\ Sum(Back(p, to), S) \in Int
        /\ product[p].stock \in Int
    BY <1>1, <2>2, <2>3, SumType, BackType, ShopAssumption
    DEF ShopAssumption, TInv, Tables, ProductRow
  <2>6. product'[p].stock = product[p].stock + Sum(Back(p, to), S)
    BY <1>1, <1>3
  <2>7. product[p].stock + Sum(Gone(p), Checkout) = supplied[p]
    BY DEF OnShelf
  <2> QED BY <2>4, <2>5, <2>6, <2>7
<1> QED BY <1>2, <1>3

LEMMA AccountStep == TInv /\ OnShelf /\ [Next]_vars => OnShelf'
<1> SUFFICES ASSUME TInv, OnShelf, [Next]_vars PROVE OnShelf'
  OBVIOUS
<1>1. ASSUME UNCHANGED <<product, order, supplied>> PROVE OnShelf'
  <2>1. \A p \in Product : Gone(p)' = Gone(p)
    BY <1>1, GoneStays
  <2> QED BY <1>1, <2>1 DEF OnShelf
<1>2. CASE PanelStep
  <2>1. Tables /\ Tables'
    BY <1>2, PanelWrites DEF TInv
  <2>2. /\ \A p \in Product : Gone(p)' = Gone(p)
        /\ \A p \in Product : product'[p].stock - supplied'[p] = product[p].stock - supplied[p]
    BY <1>2, PanelWrites, GoneStays
  <2> SUFFICES ASSUME NEW p \in Product
               PROVE  product'[p].stock + Sum(Gone(p)', Checkout) = supplied'[p]
    BY DEF OnShelf
  <2>3. /\ product[p].stock \in Int /\ product'[p].stock \in Int
        /\ supplied[p] \in Int /\ supplied'[p] \in Int /\ Sum(Gone(p), Checkout) \in Int
    BY <2>1, GoneType, SumType, ShopAssumption DEF Tables, ProductRow, ShopAssumption
  <2>4. product[p].stock + Sum(Gone(p), Checkout) = supplied[p]
    BY DEF OnShelf
  <2>5. Gone(p)' = Gone(p) /\ product'[p].stock - supplied'[p] = product[p].stock - supplied[p]
    BY <2>2
  <2> QED BY <2>3, <2>4, <2>5
<1>3. CASE UNCHANGED vars
  BY <1>1, <1>3 DEF vars
<1> QED BY <1>1, <1>2, <1>3, StepIsOneOf, AskWrites, WriteAccounts, PrepareWrites,
           CommitAccounts, GiveUpWrites

LEMMA AccountInit == Init => OnShelf
<1> SUFFICES ASSUME Init, NEW p \in Product
             PROVE  product[p].stock + Sum(Gone(p), Checkout) = supplied[p]
  BY DEF OnShelf
<1>1. \A r \in Checkout : Gone(p)[r] = 0
  BY DEF Init, Gone, Out, NoOrder
<1>2. Sum(Gone(p), Checkout) = 0
  <2>1. IsFiniteSet(Checkout)
    BY ShopAssumption DEF ShopAssumption
  <2>2. Sum(Gone(p), Checkout) = Sum(Gone(p), Checkout) + Sum(Gone(p), Checkout)
    BY <1>1, <2>1, SumSplit
  <2>3. Sum(Gone(p), Checkout) \in Int
    BY <1>1, <2>1, SumType
  <2>4. \A i \in Int : i = i + i => i = 0
    OBVIOUS
  <2> QED BY <2>2, <2>3, <2>4
<1>3. product[p].stock \in Int /\ supplied[p] = product[p].stock
  BY TypeInit DEF Init, TInv, Tables, ProductRow
<1> QED BY <1>2, <1>3

(* What is on the shelf and what orders have taken is what was supplied,   *)
(* and an order has taken what its state says.                             *)
THEOREM StockIsAccounted == Spec => []StockAccounted
<1>1. TInv /\ OnShelf => StockAccounted
  BY AccountIs DEF TInv
<1> QED BY <1>1, TypeInit, TypeStep, AccountInit, AccountStep, PTL DEF Spec
=============================================================================
