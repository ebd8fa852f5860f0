SPECIFICATION CardsSpec
CONSTANTS
    Payments = {p1, p2}
    AsyncPayments = {p2}
    Tasks = {t1, t2}
    DLQ_MAX_RETRIES = 1
    OUTBOX_RETRIES = 2
    MaxFaults = 1
    MayCrash = TRUE
    Processes = {process1, process2}
    Script = Script
    Versions = {1, 2}
    MaxCards = 2
    MaxKeys = 3
    Payers = {c1, c2}
    PayKeys = {s1}
    RetryKeys = {s2}
    NoPayer = NoPayer
    GATEWAY_PRIORITY <- GatewayOrder
    ASYNC_GATEWAYS = {"safepay"}
    GATEWAY_FAILURE_THRESHOLD = 1
    MaxAsked = 2
    MaxStrikes = 1
INVARIANTS CardsTypeOK  OncePerKey CardsReadable RollForward
PROPERTIES SuccessGetsCard
CHECK_DEADLOCK FALSE
