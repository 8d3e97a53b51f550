SPECIFICATION SpecAll
CONSTANTS
  Bounds <- MCBounds
  PerSide = 2
  StartGap = 2
  StartShort = 2
  MaxEvents = 1
  MaxStops = 2
INVARIANTS TeardownTypeOK RowedStopsGone TableIsClean
CHECK_DEADLOCK FALSE
