SPECIFICATION Spec
CONSTANTS
    Installments = {i1}
    Billers = {c1}
    Sweeps = {s1}
    Admins = {a1}
    Reversers = {}
    AutoRefs = {p1}
    References = {q1}
    NoOne = NoOne
    NISAB = 1
    MaxClosings = 0
    MaxFaults = 0
INVARIANTS DisbursedOnce
