SPECIFICATION FairSpec
CONSTANTS
    Events = {e1}
    NoEvent = NoEvent
    Refusable = {}
    Publishers = {w1}
    Listeners = {l1}
    OUTBOX_RETRIES = 1
    LISTENER_RETRIES = 1
    DLQ_MAX_RETRIES = 1
    MaxStream = 2
    MaxFaults = 1
PROPERTIES StreamedReachesLedger
