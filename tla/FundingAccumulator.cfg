SPECIFICATION Spec
CONSTANTS
    Pollers = {p1, p2}
    Entries = 2
    Hedged <- MCHedged
    Window = 2
    MaxOps = 2
    MaxFaults = 2
    MaxCrashes = 1
INVARIANTS TypeOK CountedOncePerRun
PROPERTIES FundingArrives
