SPECIFICATION ServicesSpec
CONSTANTS
  r1 = r1  q1 = q1  q2 = q2  h1 = h1  h2 = h2  a1 = a1  a2 = a2  k1 = k1  k2 = k2
  c1 = c1  c2 = c2  x1 = x1  group = group  single = single  v1 = v1  v2 = v2
  None = None
  Routine = {r1}
  Schedule <- AllSchedules
  Period = 3
  MaxSaves = 3
  MaxQueue = 2
  Req = {q1, q2}
  Addr = {a1, a2}
  Cert = {k1, k2}
  Conn = {c1, c2}
  Call = {group}
  Srv = {v1}
  Host = {h1, h2}
  Hosts <- GroupOnBoth
  Shape <- GroupIsListed
  Limit = 1
  Run = {x1}
  MaxConcurrent = 1
  TEST_CONCURRENCY_CAP = 1
  MaxAddr = 1
  RdpHost = {h1}
  BaseDelay = 1
  Factor = 2
  MaxDelay = 3
  MaxRetries = 3
  MaxCalls = 2
PROPERTY StopRejectsCalls
CHECK_DEADLOCK FALSE
