SPECIFICATION LedgerSpec
CONSTANTS
    Events = {e1}
    NoEvent = NoEvent
    Refusable = {e1}
    Publishers = {w1}
    Listeners = {l1, l2}
    OUTBOX_RETRIES = 2
    LISTENER_RETRIES = 1
    DLQ_MAX_RETRIES = 1
    MaxStream = 4
    MaxFaults = 3
    Clerks = {c1}
    Postings <- Sales
    Manuals <- ManualEntries
    Month <- TwoMonths
    Closed = {12}
    CHART <- SaleAccounts
    TextIds = TRUE
    NoClerk = NoClerk
    MaxEntries = 2
    MaxSnapshots = 2
INVARIANTS LedgerTypeOK PublishedRowStreamed BalanceIsExact
PROPERTIES PostedOnce NoEntryAbandoned CopiesSettle
