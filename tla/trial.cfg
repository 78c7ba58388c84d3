SPECIFICATION Spec
CONSTANTS
    Positions <- MCPositions
    ReadLimit <- MCReadLimit
    MaxCalls = 2
    MaxFaults = 1
    MaxQueue = 1
    MaxCancels = 2
INVARIANTS
    ResultIsWholeTurn
    GivenUpTurnIsInterrupted
    InvestigationIsBounded
    NothingOutlivesTrial
PROPERTIES
    JailGoesLast
    OpenTrialCloses
CHECK_DEADLOCK FALSE
