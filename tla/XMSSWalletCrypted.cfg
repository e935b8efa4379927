SPECIFICATION Spec
CONSTANTS
    n1 = n1
    n2 = n2
    n3 = n3
    m1 = m1
    Natives = {n1, n2}
    MineTrees = {}
    Blacklisted = {}
    MaxLeaves = 2
    MaxTx = 2
    MaxInputs = 2
    MayEncrypt = TRUE
    LegacyImports = FALSE
    NoKey = NoKey
    NoFile = NoFile
    NoBlob = NoBlob
    NoTx = NoTx
SYMMETRY Symmetry
INVARIANTS
    ReleasedKeysRetired
    AutoSpendSignsOnce
PROPERTY KeysLostOnlyByUnlock
CHECK_DEADLOCK FALSE
