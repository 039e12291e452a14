SPECIFICATION Spec
CONSTANTS
    Callers = {c1, c2}
    Responders = {r1}
    Nodes = {n1, n2}
    FunctionIds = {0}
    TimeOut = 1
    NumRetries = 1
    NoFunction = NoFunction
    NoThread = NoThread
    NoMessage = NoMessage
SYMMETRY Symmetry
INVARIANTS
    TypeOK
    EntryOwned
    NoSpuriousStatus
    StatusMatchesTable
PROPERTIES
    AnswerOnce
    OnlyEarlyAnswersStrand
    ImplementsService
