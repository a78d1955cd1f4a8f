------------------------------- MODULE MCShop -------------------------------
(***************************************************************************)
(* Small instances of Shop for TLC: requests r1 .. r3 over products p1, p2.*)
(***************************************************************************)
EXTENDS Shop, TLC

CONSTANTS r1, r2, r3, p1, p2, a1, a2, a3, c1

MCCatalogue == <<p1, p2>>

Wants(x, y) == (p1 :> x) @@ (p2 :> y)

(* One attempt made twice for the last piece, and a second buyer.          *)
RetriedAttempt == (r1 :> a1) @@ (r2 :> a1) @@ (r3 :> a2)
RetriedBasket  == (r1 :> Wants(1, 1)) @@ (r2 :> Wants(1, 1)) @@ (r3 :> Wants(0, 2))

(* Three buyers with baskets that overlap in different orders.             *)
BuyersAttempt == (r1 :> a1) @@ (r2 :> a2) @@ (r3 :> a3)
BuyersBasket  == (r1 :> Wants(1, 1)) @@ (r2 :> Wants(1, 1)) @@ (r3 :> Wants(0, 1))

(* Two buyers with one coupon and nothing else in common.                  *)
PairAttempt == (r1 :> a1) @@ (r2 :> a2)
PairBasket  == (r1 :> Wants(1, 0)) @@ (r2 :> Wants(0, 1))

(* Two buyers of both products.                                            *)
BothBasket  == (r1 :> Wants(1, 1)) @@ (r2 :> Wants(2, 1))

MCCouponOf == [r \in Checkout |-> c1]
NoCouponOf == [r \in Checkout |-> NoCoupon]
MCMaxUses  == [c \in Coupon |-> 1]

EditStocks == {0, 2}
TwoPieces  == {2}
ThreePieces == {3}
OnePiece   == {1}
=============================================================================
