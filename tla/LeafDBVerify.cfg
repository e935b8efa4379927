SPECIFICATION Spec
CONSTANTS
    N = 2
    SpendLeaf = {1, 4}
    MaxSpends = 1
    MiningReuse = FALSE
    MiningActivation = 1
    SpendActivation = 1
    CheckLevel = 3
    CheckDepth = 6
    Stops = {"clean"}
    Commands = {}
    MaxEvents = 2
INVARIANTS
    MarksComplete
CHECK_DEADLOCK FALSE
