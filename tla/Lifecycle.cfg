SPECIFICATION Spec
CONSTANTS
    Tasks = {t1, t2}
    Funds = 2
    MaxOps = 2
    MaxCrashes = 2
    MaxOverlaps = 1
INVARIANTS TypeOK HubMirrorsRow
PROPERTIES ActivatedOnDeposit ClosedIsWithdrawn TableIsOrderly Settles
