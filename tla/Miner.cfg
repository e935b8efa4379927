SPECIFICATION Spec
CONSTANTS
    Threads = {t1, t2}
    Roots = {1, 2, 3}
    Targets = {1, 2}
    MaxLeaves = 2
    MinSeeds = 2
    MaxSeeds = 2
    MaxTrees = 2
    Budgets = {2}
    NoTree = NoTree
SYMMETRY Symmetry
INVARIANTS
    NoLeafTwice
    LedgerCovers
    BlocksVerify
