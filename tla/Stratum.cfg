SPECIFICATION Spec
CONSTANTS
    Workers = {w1, w2}
    SharesPerBlock = 2
    PoolAddress = FALSE
    MaxShares = 4
    MaxHeight = 2
    MaxAbandoned = 1
INVARIANTS
    MiningExclusive
PROPERTIES
    WinnerGetsFreshWork
    MiningEnds
