SPECIFICATION Spec
CONSTANTS
  Sessions = {s1}
  Turns = {t1, t2}
  Restores = {r1}
  Replies <- MCReplies
  ClientModes = {"plan"}
  MaxTurnRequests = 2
  MaxFaults = 1
  NoTurn = NoTurn
  NoSession = NoSession
  NoMode = NoMode
INVARIANT SavedCycleResumes
CHECK_DEADLOCK FALSE
