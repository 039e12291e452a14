SPECIFICATION ConfigSpec
CONSTANTS
    MAX_SLEEP = 3
    MAX_THREADS = 2
    DefaultInterval = 2
    INT_MAX = 7
    Numbers <- MCNumbers
    Lists <- MCLists
    Words <- MCWords
    MaxSet = 2
    Options <- MCOptions
    Unset = Unset
INVARIANTS
    ConfigTypeOK
    CommandLineWins
    IntervalInRange
    RunsAsTold
