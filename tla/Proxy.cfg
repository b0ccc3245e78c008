SPECIFICATION FairSpec
CONSTANTS
  c1 = c1
  s1 = s1
  s2 = s2
  Conns = {c1}
  Conn = c1
  Sids = {s1, s2}
  BadSids = {}
  NoSid = NoSid
  Clients <- MCClients
  AgentMsgs <- MCAgentMsgs
  Complaint <- MCComplaint
  MaxAgent = 2
  MaxFailures = 1
  Statuses <- MCStatuses
  MaxPendingLine = 1
INVARIANTS NothingCutOff LinesKept MappingFirst NewSessionsFound CrashShows
PROPERTIES AgentExitEnds
CHECK_DEADLOCK FALSE
