SPECIFICATION Spec
CONSTANTS
    NLegs = 2
    Sizes <- MCSizes
    MaxOps = 1
    MaxReads = 0
    MaxFaults = 0
    MaxCrashes = 0
PROPERTIES ClosedIsFlat
