SPECIFICATION Spec
CONSTANTS
    r1 = r1
    r2 = r2
    r3 = r3
    p1 = p1
    p2 = p2
    a1 = a1
    a2 = a2
    a3 = a3
    c1 = c1
    Product = {p1, p2}
    Catalogue <- MCCatalogue
    Checkout = {r1, r2, r3}
    AttemptOf <- RetriedAttempt
    Basket <- RetriedBasket
    Coupon = {c1}
    NoCoupon = NoCoupon
    CouponOf <- NoCouponOf
    MaxUses <- MCMaxUses
    Clerk = {m1}
    Sweeper = {s1}
    MaxStock = 3
    Stocks <- EditStocks
    NoOne = NoOne
    Edits = 1
    Crashes = 0
CHECK_DEADLOCK FALSE
INVARIANTS TypeOK StockAccounted OneOrderPerAttempt
