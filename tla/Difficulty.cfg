SPECIFICATION Spec
CONSTANTS
    Width = 16
    DigitBits = 4
    PowLimit = 3264
    T = 4
    Scale = 10
    MinShift = 3
    CeilingShift = 4
    HardenHeight = 3
    TieredHeight = 5
    RaiseHeight = 6
    NoRetargeting = FALSE
    AllowMin = FALSE
    Gaps <- AllGaps
    MaxHeight = 7
INVARIANTS
    TransitionsPermitted
    OwnTimestampInert
    FollowsBlockTimes
PROPERTIES
    RecoversFromStall
