SPECIFICATION MCSpec
CONSTANTS
    A = A
    u1 = u1
    u2 = u2
    h1 = h1
    h2 = h2
    p1 = p1
    s2 = s2
    ca1 = ca1
    ar2 = ar2
    Pages = {"access", "door", "admin", "seats", "codes", "files", "mapping", "prices", "desk", "goals", "catalog", "rollups", "roles", "duty"}
    Users = {u1, u2}
    SessionIds = {s1, s2}
    DeviceIds = {d1}
    NoUser = NoUser
    NoDevice = NoDevice
    MaxRotations = 2
    MaxEdits = 2
    RegKeys = {r1}
    IntentIds = {i1, i2}
    VerificationIds = {v1, v2}
    NoVerification = NoVerification
    NoIntent = NoIntent
    MaxTries = 1
    Owners = {}
    Months = {1, 2}
    Days = {1}
    Grace = 1
    SeatCounts = {1}
    BaseSeats = 1
    MaxNow = 3
    MaxVersions = 2
    MaxPlans = 2
    ChallengeIds = {c1, c2}
    CodeKeys = {k1}
    SendKeys = {x1}
    NoSendKey = NoSendKey
    MaxAttempts = 2
    MaxGuesses = 3
    Branches = {A}
    Units = {h1, h2}
    Products = {p1}
    Amounts = {1}
    ReceiptIds = {e1}
    ReceiptKeys = {}
    NoKey = NoKey
    Files <- OfficeFiles
    BatchIds = {b1, b2}
    ImportKeys = {y1}
    NoImportKey = NoImportKey
    Shop = A
    Tacs = {t1}
    TacProducts = {m1, m2}
    NoTacProduct = NoTacProduct
    MappingIds = {n1, n2, n3}
    MaxDropped = 1
    VariantPrices = {vp}
    PhonePrices = {pp}
    ShelfPrices = {sp}
    PriceTags = {10, 20}
    NoPrice = NoPrice
    DefaultPrice = 20
    PaidFor = 15
    PriceUsers = {manager, owner}
    PriceOwners = {owner, partner}
    MaxChanges = 6
    SettingValues = {1, 2}
    Channels = {ch1, ch2}
    Labels = {l1, l2}
    NoLabel = NoLabel
    GoalIds = {g1, g2}
    GoalKeys = {gk}
    NoGoalKey = NoGoalKey
    MaxDeskVersion = 2
    Articles = {ar1, ar2}
    Categories = {ca1, ca2}
    NoCategory = NoCategory
    Barcodes = {bc}
    NoBarcode = NoBarcode
    Filings = {f1, f2}
    Deliveries = {dl}
    MaxFiled = 3
    RollupJobs = {j1, j2, j3}
    Goods = {q1}
    MaxBusiness = 2
    MaxStops = 1
    Places = {A, B}
    NoPlace = NoPlace
    MaxTenures = 3
    MaxPayments = 1
    MaxAdmitted = 2
CHECK_DEADLOCK FALSE
INVARIANTS OfficeTypeOK CodeAcceptedOnce OpenedOnce SessionsFollowAccount ImportedOnce PriceHistoryChains VersionsIdentify AuthorityFollowsPost TrackingFollows QuietMeansCurrent
PROPERTIES ExtensionBuilds MappingComesBack
