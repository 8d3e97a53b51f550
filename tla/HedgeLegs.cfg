SPECIFICATION Spec
CONSTANTS
    NLegs = 2
    Sizes <- MCSizes
    MaxOps = 2
    MaxReads = 2
    MaxFaults = 1
    MaxCrashes = 1
INVARIANTS TypeOK LeftBehindIsFailed LoopLetsGo
PROPERTIES ActiveIsAnswered FailedHedgeUndone ClosedIsFlatAsSeen RequestsEnd
