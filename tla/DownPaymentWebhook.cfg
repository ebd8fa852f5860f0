SPECIFICATION LiveSpec
CONSTANTS
    Payments = {p1}
    AsyncPayments = {p1}
    Tasks = {t1, t2}
    DLQ_MAX_RETRIES = 1
    OUTBOX_RETRIES = 2
    MaxFaults = 0
    MayCrash = FALSE
PROPERTIES WebhookGetsCard
CHECK_DEADLOCK FALSE
