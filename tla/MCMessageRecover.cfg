SPECIFICATION FairSpec
CONSTANTS
  msg1 = msg1
  msg2 = msg2
  hi = hi
  bye = bye
  Messages = {msg1}
  Text <- MCText
  Jobs = {j1}
  Manuals = {}
  Sweeps = {sweep}
  Reconciler = reconciler
  Nobody = Nobody
  MaxWires = 2
  Attempts = 1
  MaxResends = 1
  MaxStuckResends = 1
  MaxCrashes = 1
PROPERTIES
  NoSilentDuplicate
  KeepsContract
  PendingSettles
CHECK_DEADLOCK FALSE
