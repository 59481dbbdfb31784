SPECIFICATION MCSpec
CONSTANTS
    A = A
    u1 = u1
    u2 = u2
    c1 = c1
    Books = {"money"}
    NoKey = NoKey
    NoLoanKey = NoLoanKey
    Branches = {A}
    Units = {u1, u2}
    Products = {}
    Amounts = {}
    ReceiptIds = {}
    ReceiptKeys = {}
    SaleIds = {s1}
    SaleKeys = {}
    Carts <- DealCarts
    MaxConnVersion = 4
    ConsignmentIds = {c1, c2}
    Offers = {1, 2}
    Payments = {1, 2}
    PaymentKeys = {k1}
    MaxDecisions = 6
    MaxRows = 4
    LoanIds = {l1}
    LoanOffers = {1, 2}
    Instalments = {1, 2}
    LoanKeys = {}
    MaxLoanDecisions = 2
    MaxLoanRows = 4
CHECK_DEADLOCK FALSE
INVARIANT ChargedAsAgreed
