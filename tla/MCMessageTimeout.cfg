SPECIFICATION Spec
CONSTANTS
  msg1 = msg1
  msg2 = msg2
  hi = hi
  bye = bye
  Messages = {msg1}
  Text <- MCText
  Jobs = {j1}
  Manuals = {}
  Sweeps = {sweep}
  Reconciler = reconciler
  Nobody = Nobody
  MaxWires = 1
  Attempts = 2
  MaxResends = 1
  MaxStuckResends = 1
  MaxCrashes = 0
INVARIANT TimeoutsNotResent
CHECK_DEADLOCK FALSE
