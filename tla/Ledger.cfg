SPECIFICATION LedgerSpec
CONSTANTS
    Installments = {i1, i2}
    Billers = {c1, c2}
    Sweeps = {s1, s2}
    Admins = {a1}
    Reversers = {v1}
    AutoRefs = {p1, p2}
    References = {q1}
    NoOne = NoOne
    NISAB = 1
    MaxClosings = 1
    MaxFaults = 1
    BillingRuns = {l1, l2}
    Dues = {u1, u2}
    Refused = {u2}
    NoBiller = NoBiller
    MaxStops = 1
INVARIANTS LedgerTypeOK SweepsDisburseOnce
PROPERTIES FeeOnce MarkedIsPaid DueDisbursed OverdueAsked
