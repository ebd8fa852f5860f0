SPECIFICATION AllSpec
CONSTANTS
    Orders = {1}
    Events = {x1}
    Workers = {w1, w2}
    Requests = {r1, r2}
    Operations = {"initiate", "add_item", "offer", "accept", "cancel", "remove",
                  "wakalah", "sign_wakalah", "murabaha", "sign_murabaha"}
    Nobody = Nobody
    LIMIT = 1
    PRICE = 1
    MAX_ACTIVE = 5
    MIGRATED = TRUE
    MaxContracts = 1
    MaxOverrides = 1
    Given = {g1, g2}
    Fresh = {f1}
    Posts = {r1, r2}
    RefundWorkers = {o1}
    Amounts = {2}
    NoCaller = NoCaller
    PAID = 3
    TOTAL = 3
    DLQ_MAX_RETRIES = 1
    MaxRequests = 1
    MaxFaults = 1
    Jobs = {r1, r2}
    Scrapers = {w1, w2}
    Sweepers = {b1}
    Refreshers = {d1}
    Askers = {e1}
    NoScrape = NoScrape
    MAX_ATTEMPTS = 2
    MaxTroubles = 1
    Hooks = {r1, r2}
    Gateways = {w1, w2}
    Parts = {i1}
    MaxCalls = 2
    MaxDropped = 1
    IDENTITY_BINS <- BootIdentityBins
    ALT_BINS <- BootAltBins
    MAX_RAW = 900
    CUTOFF <- BootCutoff
    BASE_LIMIT <- BootLimit
    BASE_DOWN <- BootDown
    PROHIBITED = {"weapons"}
    MULTIPLIER <- BootMultiplier
    BUMP_BELOW = 70
    BUMP = 5
    MAX_DOWN = 60
    CAPS <- BootCaps
    MIN_REPAID = 3
    MAX_SUGGESTED = 45
    MIN_COVERAGE = 50
    DECLINE_BELOW = 600
    MAXIMUM_LIMIT = 30000
    Forms = {r1, r2}
    Assessors = {z1}
    Admins = {n1}
    Keys = {k1}
    NoKey = NoKey
    NoHolder = NoHolder
    Users <- SomeUsers
    Wishes <- SomeWishes
    Overrides = {30000}
    MaxStarts = 2
    MaxLapses = 2
    Charges = {t1}
    Updates = {t2}
    Receivers = {r1, r2}
    HookTasks = {m1}
    Nothing = Nothing
    ISSUER = "stripe"
    HOOK_RETRIES = 1
    MaxHookFaults = 1
SYMMETRY Symmetry
INVARIANTS AllTypeOK EventOnce AcceptOnce WakalahFirst
    ReturnedOncePerReference OnePayload DeliveredExecutes AppliedOnce
    ChargedOnce
PROPERTIES PortfolioKept
CHECK_DEADLOCK FALSE
