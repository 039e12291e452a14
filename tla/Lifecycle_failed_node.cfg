SPECIFICATION LifeSpec
CONSTANTS
    Main = main
    Callers = {main}
    Responders = {r1}
    Nodes = {n1}
    FunctionIds = {0}
    FunctionId = 0
    MaxAttempts = 1
    MaxWait = 2
    TimeOut = 1
    NumRetries = 1
    NoFunction = NoFunction
    NoThread = NoThread
    NoMessage = NoMessage
    NoNode = NoNode
INVARIANTS
    FailedMeansUnsubscribed
