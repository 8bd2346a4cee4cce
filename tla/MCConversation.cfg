SPECIFICATION ConversationSpec
CONSTANTS
  msg1 = msg1
  msg2 = msg2
  hi = hi
  bye = bye
  Messages = {msg1, msg2}
  Text <- MCText
  Jobs = {j1, j2}
  Manuals = {man}
  Sweeps = {}
  Reconciler = reconciler
  Nobody = Nobody
  MaxWires = 1
  Attempts = 2
  MaxResends = 1
  MaxStuckResends = 1
  MaxCrashes = 0
  Stages = {s1, s2}
  None = None
  Clicks = {c1, c2}
  MaxMessages = 2
  MsgsParaDisparar = 2
  RecusasMax = 2
  Workers = 2
  Tries = 2
  MaxEdits = 1
  MaxRefusals = 3
  MaxFailures = 1
INVARIANTS TypeOK ShownReachedGateway NewsReachesTheCard RefusedStaysAway
CONSTRAINT ByHandOrBeside
PROPERTIES NoSilentDuplicate ManualInputWins
CHECK_DEADLOCK FALSE
