CONSTANTS
  None = None
  Inst = {i1}
  Owner = {w1}
  Saved = {fixed}
  Tab = {tab}
  OwnerOf <- OneWindow
  Port = {p1}
  Dynamic = {}
  Conn = {n1}
SPECIFICATION Spec
INVARIANT ClosedClientStopsTunnel
