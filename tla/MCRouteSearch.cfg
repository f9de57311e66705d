SPECIFICATION Spec
CONSTANTS
    Vertex <- MCVertex
    Chord <- MCChord
    BearingTo <- MCBearingTo
    Networks <- MCNetworks
    Questions <- MCQuestions
    kMaxStitchedPicks = 6
    kMaxForcedPoints = 2
INVARIANTS
    AnswerIsTrue
    ShortestFound
    DistinctTrueRoutes
    KCheapest
    RoutesAreForced
    BestCombinations
    NoRouteIsTrue
PROPERTIES
    EveryQuestionAnswered
