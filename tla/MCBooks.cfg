SPECIFICATION MCSpec
CONSTANTS
    A = A
    u1 = u1
    i1 = i1
    r1 = r1
    q1 = q1
    q2 = q2
    k1 = k1
    a1 = a1
    c2 = c2
    g1 = g1
    g2 = g2
    Pages = {"return", "refund", "supplier", "learning", "counter", "day", "spend"}
    MaxCounts = 2
    NoKey = NoKey
    NoJob = NoJob
    Branches = {A}
    ShopBranch = A
    Units = {u1}
    Products = {p1}
    Amounts = {1}
    ReceiptIds = {}
    ReceiptKeys = {}
    SaleIds = {i1}
    SaleKeys = {}
    Carts <- BookCarts
    MaxDay = 2
    Prices = {2}
    Discounts = {0, 1}
    Windows = {0, 1, 2}
    Accounts = {a1}
    ReturnIds = {r1, r2}
    Charges = {2}
    MaxCharges = 2
    MaxReturnVersion = 3
    PayoutIds = {o1, o2}
    PurchaseIds = {q1, q2}
    Deliveries <- BookDeliveries
    UnitCosts = {1}
    Jobs <- BookJobs
    Workers = {w1, w2}
    MaxAttempts = 2
    MaxCrashes = 1
    SettlementIds = {t1, t2}
    PayAmounts = {1, 2}
    PayAccounts = {}
    CorrectionIds = {c1, c2}
    ExpenseIds = {e1}
    ExpenseAmounts = {1}
    ExpenseAccounts = {a1}
    ItemCost = 1
    CountAmounts = {0, 1}
    Clerks = {l1}
    Signers = {g1, g2}
    MaxDebtRows = 2
CHECK_DEADLOCK FALSE
INVARIANTS BooksTypeOK ReversalMatches CustodyMatches OneRefund CorrectedOnce ChannelsAgree ReturnLeavesAdjustments ChargedOnce LearnedOnce
PROPERTIES SignedOnce JobsEnd
