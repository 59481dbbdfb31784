SPECIFICATION MCSpec
CONSTANTS
    A = A
    B = B
    C = C
    u1 = u1
    u2 = u2
    p1 = p1
    Pages = {"units"}
    NoKey = NoKey
    NoBranch = NoBranch
    Branches = {A, B, C}
    Units = {u1, u2}
    Products = {p1}
    Amounts = {1, 2}
    ReceiptIds = {r1, r2}
    ReceiptKeys = {q1}
    MaxPriceVersion = 1
    TransferIds = {t1, t2}
    TransferKeys = {k1, k2}
    Requests <- ShopRequests
    SaleIds = {s1, s2}
    SaleKeys = {c1}
    Carts <- ShopCarts
SYMMETRY Symmetry
CHECK_DEADLOCK FALSE
PROPERTIES PricedOnShelf
