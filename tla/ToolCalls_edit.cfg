SPECIFICATION Spec
CONSTANTS
  Sessions = {s1}
  ClientModes = {"ask", "plan", "yolo"}
  User = User
  Clients <- MCClients
  NoText = {Nobody}
PROPERTY EditsOneSpan
