SPECIFICATION Spec
CONSTANTS
    Payments = {p1, p2}
    AsyncPayments = {}
    Tasks = {t1}
    DLQ_MAX_RETRIES = 1
    OUTBOX_RETRIES = 2
    MaxFaults = 0
    MayCrash = FALSE
INVARIANTS PaidOnce
CHECK_DEADLOCK FALSE
