SPECIFICATION Spec
CONSTANTS
    MIN_WINDOW_SIZE = 1
    MAX_WINDOW_SIZE = 1
    Second = 1
    Listeners = {t1, t2}
    PolicyThreads = {t1}
    Instances = {1, 2}
    Messages <- MCTwoPolicies
    Classes <- MCClasses
    Profiles = {1}
    Params <- MCParams
    InitialParams <- MCInitialParams
    DefaultParams <- MCDefaultParams
    MaxReports = 2
    MaxRequests = 2
    Nobody = Nobody
    NoClass = NoClass
    NoMessage = NoMessage
INVARIANTS
    ReportsAddUp
    NegativeOnlyIfDeleted
