SPECIFICATION Spec
CONSTANTS
    n1 = n1
    n2 = n2
    n3 = n3
    m1 = m1
    Natives = {n1, n2}
    MineTrees = {m1}
    Blacklisted = {}
    MaxLeaves = 2
    MaxTx = 2
    MaxInputs = 2
    MayEncrypt = FALSE
    LegacyImports = FALSE
    NoKey = NoKey
    NoFile = NoFile
    NoBlob = NoBlob
    NoTx = NoTx
SYMMETRY Symmetry
INVARIANTS
    NoLeafReuse
    SentSignaturesVerify
    RetiredOnlyIfUsed
    AddressKeysSurvive
CHECK_DEADLOCK FALSE
