SPECIFICATION MCSpec
CONSTANTS
  Vaults = {single, cross, other}
  Cross = {cross}
  NoVault = NoVault
  NoModel = NoModel
  Loop = Loop
  Dashboard = Dashboard
  Refreshers <- MCRefreshers
  MaxSelects = 3
  MaxFaults = 2
INVARIANTS ModelOfReaders LegsFollow
PROPERTIES ReadersSettle
CHECK_DEADLOCK FALSE
