SPECIFICATION Spec
CONSTANTS
  Sessions = {s1}
  Turns = {t1, t2}
  Restores = {r1}
  Replies <- MCReplies
  ClientModes = {"plan"}
  MaxTurnRequests = 2
  MaxFaults = 1
  NoTurn = NoTurn
  NoSession = NoSession
  NoMode = NoMode
INVARIANTS TypeOK SlotHolderRuns DiskMatchesMemory CycleOnDisk ClientKnowsMode
PROPERTIES HistoryOnlyGrows SlotPromise
SYMMETRY Symmetry
CHECK_DEADLOCK FALSE
