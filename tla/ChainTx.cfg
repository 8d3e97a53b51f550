SPECIFICATION Spec
CONSTANTS
  Swap = Swap
  Deposit = Deposit
  Calls <- MCCalls
  Checked = {Deposit}
  Tries = 4
  MaxFee = 3
  MaxFaults = 2
  MaxCrashes = 2
INVARIANTS TypeOK FailedIsUndone
PROPERTIES OnceSpec RowsSettle
CHECK_DEADLOCK FALSE
