SPECIFICATION Spec
CONSTANTS
    N = 3
    SpendLeaf = {2}
    MaxSpends = 1
    MiningReuse = TRUE
    MiningActivation = 1
    SpendActivation = 1
    CheckLevel = 4
    CheckDepth = 2
    Stops = {"clean", "torn"}
    Commands = {"invalidate", "reconsider"}
    MaxEvents = 2
INVARIANTS
    NoStaleMarks
    MarksComplete
    NoSpendReuse
    FailedOnlyByReuse
PROPERTIES
    NoReuseAtArrival
    SettlesOnMostWork
CHECK_DEADLOCK FALSE
