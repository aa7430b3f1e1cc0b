SPECIFICATION ServicesSpec
CONSTANTS
  r1 = r1  q1 = q1  q2 = q2  h1 = h1  h2 = h2  a1 = a1  a2 = a2  k1 = k1  k2 = k2
  c1 = c1  c2 = c2  x1 = x1  group = group  single = single  v1 = v1  v2 = v2
  None = None
  Routine = {r1}
  Schedule <- TwoSchedules
  Period = 2
  MaxSaves = 1
  MaxQueue = 1
  Req = {q1, q2}
  Addr = {a1, a2}
  Cert = {k1, k2}
  Conn = {c1, c2}
  Call = {group, single}
  Srv = {v1, v2}
  Host = {h1, h2}
  Hosts <- GroupOnBoth
  Shape <- GroupIsListed
  Limit = 1
  Run = {x1}
  MaxConcurrent = 1
  TEST_CONCURRENCY_CAP = 1
  MaxAddr = 1
  RdpHost = {h1}
  BaseDelay = 1
  Factor = 2
  MaxDelay = 3
  MaxRetries = 3
  MaxCalls = 2
PROPERTY MissedRunIsCaughtUp
CHECK_DEADLOCK FALSE
