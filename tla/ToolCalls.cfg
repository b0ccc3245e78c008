SPECIFICATION FairSpec
CONSTANTS
  Sessions = {s1}
  ClientModes = {"ask", "acceptEdits", "plan", "yolo"}
  User = User
  Clients <- MCClients
  NoText = {Nobody}
INVARIANTS BuiltinsGranted PlanTurnTouchesNothing TerminalsReleased
PROPERTIES CancelledCallEnds DiffsAreExact
