SPECIFICATION Spec
CONSTANTS
    Execs = {x1}
    Tasks = {t1, t2}
    Listeners = {r1}
    Verifiers = {v1}
    NoOne = NoOne
    MaxInterventions = 2
    Channels = {sms, push}
    Creators = {c1}
    Senders = {s1, s2}
    Nil = Nil
    MAX_DISPATCH_RETRIES = 2
    MaxQueued = 1
    MaxMishaps = 1
    DLQ_MAX_RETRIES = 1
    Calls = {c2, c3}
    Officers = {o1}
    Docs = {d1}
    NoOfficer = NoOfficer
    MAX_KYC_ATTEMPTS = 2
    PRODUCTION = FALSE
    MaxRows = 2
    MaxEntries = 2
    MaxTouches = 1
    Desks = {e1, e2}
    Deciders = {a1, a2}
    NoDecider = NoDecider
    Limits = {1, 3}
    CREDIT_LIMIT_APPROVAL_THRESHOLD_PKR = 2
    MaxRaises = 1
    MaxClosures = 2
    Txns <- SomeTxns
    Settlements <- SomeSettlements
    Files <- SomeFiles
    NoLines = NoLines
    Nothing = Nothing
    TOLERANCE = 1
    Importers = {i1}
    MaxImports = 1
    MaxReports = 1
INVARIANTS ApprovedHasDocuments MatchedAgrees TypeOK OneBuyer ConfirmedMeansPaid SentOnce
PROPERTIES RunningEnds RetryEnds
CHECK_DEADLOCK FALSE
