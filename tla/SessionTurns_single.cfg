SPECIFICATION Spec
CONSTANTS
  Sessions = {s1}
  Turns = {t1, t2}
  Restores = {r1}
  Replies <- MCReplies
  ClientModes = {"plan"}
  MaxTurnRequests = 2
  MaxFaults = 0
  NoTurn = NoTurn
  NoSession = NoSession
  NoMode = NoMode
INVARIANT SingleActiveTurn
CHECK_DEADLOCK FALSE
