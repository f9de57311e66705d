SPECIFICATION Spec
CONSTANTS
    b1 = b1
    b2 = b2
    Builders <- MCBuilders
    Readers = {r1}
    Inputs <- MCInputs
    OutputOf <- MCOutputOf
    Before <- MCBefore
    PathOrder <- MCPathOrder
    Flip <- MCFlip
    Torn <- MCTorn
    DataOf <- MCDataOf
    MaxFaults = 1
    Default = Default
    None = None
    IdentCap = 2
    CodeCap = 1
    NameCap = 2
    AirwayCap = 1
    kMaxHeaderPrefix = 27
INVARIANTS
    PathsHoldWholeBuilds
    FailedBuildLeavesNoTrace
    ReadsAreOneBuild
    BuiltCacheOpens
    DecodedIsIndexable
    ScanListsEveryCycle
CHECK_DEADLOCK FALSE
