SPECIFICATION FairSpec
CONSTANTS
    r1 = r1
    r2 = r2
    r3 = r3
    p1 = p1
    p2 = p2
    a1 = a1
    a2 = a2
    a3 = a3
    c1 = c1
    Product = {p1, p2}
    Catalogue <- MCCatalogue
    Checkout = {r1, r2}
    AttemptOf <- PairAttempt
    Basket <- BothBasket
    Coupon = {c1}
    NoCoupon = NoCoupon
    CouponOf <- MCCouponOf
    MaxUses <- MCMaxUses
    Clerk = {m1}
    Sweeper = {s1}
    MaxStock = 3
    Stocks <- ThreePieces
    NoOne = NoOne
    Edits = 1
    Crashes = 1
CHECK_DEADLOCK FALSE
PROPERTY EveryRequestEnds
