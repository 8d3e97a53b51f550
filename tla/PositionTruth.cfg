SPECIFICATION Spec
CONSTANTS
  Targets <- MCTargets
  MinSize = 2
  Tol = 1
  MaxAttempts = 2
  MaxFires = 2
  MaxFaults = 1
INVARIANTS TypeOK ShortNeverUnderread NoOverHedge OneOrderPerDecision
PROPERTIES TruthConverges
CHECK_DEADLOCK FALSE
