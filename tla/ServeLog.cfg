SPECIFICATION FairSpec
CONSTANTS
  c1 = c1
  s0 = s0
  s1 = s1
  Conns = {c1}
  Conn = c1
  Sids = {s0, s1}
  BadSids = {}
  NoSid = NoSid
  Capacity = 2
  MaxBytes = 2
  Leftover <- MCLeftover
  MaxFaults = 1
  MaxPauses = 1
  MaxEvents = 2
INVARIANTS LossesCounted FlushDrains VanishOnlyDeleted NoFrameLeftBehind
PROPERTIES NewestLogsKept StopEnds
CHECK_DEADLOCK FALSE
