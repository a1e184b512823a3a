SPECIFICATION ServersSpec
CONSTANTS
  s1 = s1
  s2 = s2
  s3 = s3
  root = root
  health = health
  Calls = {s1, s2, s3}
  Paths = {root, health}
  Handlers <- MCHandlers
  Base = 8080
  Nobody = Nobody
  Other = Other
  a1 = a1
  a2 = a2
  c1 = c1
  c2 = c2
  Agents = {a1, a2}
  Clients = {c1, c2}
  AgentOf <- MCAgentOf
  BadKeys = {a2}
  Buffer = 2
  MaxChecks = 4
INVARIANTS OwnAddress StopCleansUp DowntimeIsTold
PROPERTY StopsEnd
CHECK_DEADLOCK FALSE
