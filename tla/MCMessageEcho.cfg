SPECIFICATION Spec
CONSTANTS
  msg1 = msg1
  msg2 = msg2
  hi = hi
  bye = bye
  Messages = {msg1}
  Text <- MCText
  Jobs = {j1}
  Manuals = {}
  Sweeps = {}
  Reconciler = reconciler
  Nobody = Nobody
  MaxWires = 2
  Attempts = 2
  MaxResends = 1
  MaxStuckResends = 1
  MaxCrashes = 0
PROPERTY EchoStopsRetries
CHECK_DEADLOCK FALSE
