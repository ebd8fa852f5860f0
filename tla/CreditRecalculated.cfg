SPECIFICATION Spec
CONSTANTS
    Orders = {1, 2}
    Events = {x1, x2}
    Workers = {w1}
    Requests = {r1}
    Operations = {"initiate", "accept", "wakalah", "sign_wakalah",
                  "murabaha", "sign_murabaha"}
    Nobody = Nobody
    LIMIT = 2
    PRICE = 1
    MAX_ACTIVE = 5
    MIGRATED = TRUE
    MaxContracts = 1
    MaxOverrides = 0
SYMMETRY Symmetry
INVARIANTS CreditKept
