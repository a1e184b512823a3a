SPECIFICATION Safety
CONSTANTS
  t1 = t1
  t2 = t2
  p1 = p1
  Tunnels = {t1, t2}
  Services = {t1}
  Pods = {p1}
  PodOf <- MCPodOf
  Ports = {8080, 8081}
  Requested <- MCRequestedAny
  Nobody = Nobody
  Other = Other
  MaxCalls = 1
CHECK_DEADLOCK FALSE
INVARIANT SelectionsDiffer
