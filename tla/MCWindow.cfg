SPECIFICATION WindowSpec
CONSTANTS
  None = None  Top = Top
  MaxConnects = 4
  Hasty = FALSE
  Tab = {a, b, c, p}
  Pinned = {p}
  Reopen = TRUE
  StripTab = {a, b, p}
  Single = {p}
  StripHost = {h1}
  StripDir = {d1}
  MaxDirs = 2
  Dir = {d1, d2}  Name = {n1, n2}  Start = d1
  MaxOpens = 2
  MaxLists = 2
  MaxActions = 1
  TransferId = {t1, t2}
  MaxEvents = 2
  Group = {g1, g2}  Host = {h1, h2}
  MaxGroupCalls = 2
  MaxVersion = 2
  MaxMsgs = 2
  MaxOut = 4
  Cap = 2
  MaxShells = 3
  JobHost = {h1}  JobGroup = {g1}  Below <- OnlyItself  Script = {c}
  MaxCalls = 3
  Ws = {g1}
  MaxPatches = 2
  Bad = Bad  Absent = Absent
  Prompt = {t1}  Routine = {t2}
  MaxBody = 2
  MaxQueue = 2
  Rfb = {t1, t2}
  Element = {t1, t2}
  Tunnel = {t1, t2}
  MaxActs = 3
INVARIANTS WindowTypeOK  TabsShowWhatTheyHold PanesAreRight ListsShowMain NothingUnasked
PROPERTY ClosedTabEnds
CHECK_DEADLOCK FALSE
