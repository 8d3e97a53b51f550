SPECIFICATION Spec
CONSTANTS
  Noon = Noon
  Picks = {Noon}
  Legs = 2
  Worst = 2
  NoAlert = NoAlert
  NoView = NoView
  NoCache = NoCache
  MaxOps = 2
  MaxEvents = 3
INVARIANTS TypeOK
PROPERTIES AlertsArrive ViewSettles
CHECK_DEADLOCK FALSE
