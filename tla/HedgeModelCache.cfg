SPECIFICATION MCSpec
CONSTANTS
  First = First
  Second = Second
  Vaults <- MCVaults
  Cross = {}
  NoVault = NoVault
  NoModel = NoModel
  Nothing = Nothing
  Loop = Loop
  Refreshers = {Loop}
  Slots = {s1, s2}
  MaxSelects = 1
  MaxFaults = 1
  MaxMoves = 1
INVARIANTS CacheTypeOK CacheOfReaders
PROPERTIES CatchesUp
