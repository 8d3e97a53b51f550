SPECIFICATION SpecAll
CONSTANTS
  Bounds <- MCBounds
  PerSide = 2
  StartGap = 2
  StartShort = 2
  MaxEvents = 1
  MaxStops = 1
INVARIANTS ClosedLeavesNoStop
CHECK_DEADLOCK FALSE
