SPECIFICATION Spec
CONSTANTS
    d1 = d1
    d2 = d2
    miner = miner
    wallet = wallet
    other = other
    Datadirs = {d1, d2}
    Threads = {miner, wallet, other}
    DirOf <- MCDirOf
    Roots = {r1}
    Msgs = {m1, m2}
    Blacklisted = {}
    MaxLeaves = 3
    MaxMint = 3
    Free = Free
    NoFile = NoFile
INVARIANTS
    NoLeafReuse
    LedgerInv
PROPERTIES
    LedgerOnlyAdvances
    ImplementsOneTimeLeaves
CHECK_DEADLOCK FALSE
