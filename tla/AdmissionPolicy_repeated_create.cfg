SPECIFICATION Spec
CONSTANTS
    MIN_WINDOW_SIZE = 1
    MAX_WINDOW_SIZE = 1
    Second = 1
    Listeners = {t1, t2}
    PolicyThreads = {t1, t2}
    Instances = {1}
    Messages <- MCOnePolicy
    Classes <- MCClasses
    Profiles = {1}
    Params <- MCParams
    InitialParams <- MCInitialParams
    DefaultParams <- MCDefaultParams
    MaxReports = 0
    MaxRequests = 1
    Nobody = Nobody
    NoClass = NoClass
    NoMessage = NoMessage
INVARIANTS
    RepeatedCreateOk
