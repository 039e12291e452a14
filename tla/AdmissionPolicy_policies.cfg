SPECIFICATION Spec
CONSTANTS
    MIN_WINDOW_SIZE = 1
    MAX_WINDOW_SIZE = 2
    Second = 1
    Listeners = {t1, t2}
    PolicyThreads = {t1}
    Instances = {1, 2}
    Messages <- MCMessages
    Classes <- MCClasses
    Profiles = {1, 3}
    Params <- MCParams
    InitialParams <- MCInitialParams
    DefaultParams <- MCDefaultParams
    MaxReports = 0
    MaxRequests = 4
    Nobody = Nobody
    NoClass = NoClass
    NoMessage = NoMessage
INVARIANTS
    TypeOK
    TableMatchesPolicies
    ReplyTellsTruth
    CountersAgree
    DecisionStands
