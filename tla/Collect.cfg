SPECIFICATION OfficeSpec
CONSTANTS
    i1 = i1
    Installments <- MCInstallments
    PayCalls = {p1, p2}
    SweepCalls = {s1}
    Jobs = {j1}
    Target <- MCTarget
    None = None
    MAX_INSTALLMENT_RETRIES = 2
    DLQ_MAX_RETRIES = 1
    Operators = {o1, o2}
    Nobody = Nobody
    Clients = {k1, k2}
    Sweeps = {w1, w2}
    MaxItems = 1
    MaxAlerts = 1
    ware = ware
    Words = {ware, word}
    AddressWords = {word}
    Denied = FALSE
    Texts <- SomeTexts
    Checkers = {c1}
    Keepers = {k1, k2}
    MaxVersion = 1
    MaxRows = 1
INVARIANTS OfficeTypeOK  NegativeIsCurrent
PROPERTIES RequestsEnd
CHECK_DEADLOCK FALSE
