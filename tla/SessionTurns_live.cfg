SPECIFICATION FairSpec
CONSTANTS
  Sessions = {s1}
  Turns = {t1, t2}
  Restores = {r1}
  Replies <- MCReplies
  ClientModes = {}
  MaxTurnRequests = 2
  MaxFaults = 1
  NoTurn = NoTurn
  NoSession = NoSession
  NoMode = NoMode
PROPERTY CancelledTurnEnds
CHECK_DEADLOCK FALSE
