SPECIFICATION Spec
CONSTANTS
  Bounds <- MCBounds
  PerSide = 2
  StartGap = 2
  StartShort = 2
  MaxEvents = 2
INVARIANTS FillsAreReal KeptBounded
PROPERTIES TrackingConverges
CHECK_DEADLOCK FALSE
