CONSTANTS
    DistanceTo <- MCDistanceTo
    BearingTo <- MCBearingTo
    Across <- MCAcross
    TooLong <- MCTooLong
    kMaxAirwayId = 7
    kFixHintToleranceNm = 5
    kSpliceProxyK = 2
    ToUpper <- MCToUpper
    Prefixed <- MCPrefixed
    kProcedurePreferNm = 15
    kDctFallbackCount = 2
    Slashed <- MCSlashed
    StartsWith <- MCStartsWith
    GreatCircle <- MCGreatCircle
    Hash01 <- MCHash01
    kMoraGreatCirclePiece = 50
    kMaxRules = 2
    kMaxForcedPoints = 3
    Worlds <- MCWorlds
    Requests <- MCRequests
    Filings <- MCFilings
    Positions <- MCPositions
SPECIFICATION Spec
INVARIANTS
    PlanPricesWhatItFiles
    RoutesAddUp
    RoutesObeyRequest
    FiledStringParsesBack
    NearestIsFullScan
CHECK_DEADLOCK FALSE
