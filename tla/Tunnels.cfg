CONSTANTS
  None = None
  Inst = {i1, i2}
  Owner = {w1, w2}
  Saved = {fixed, socks}
  Tab = {tab}
  OwnerOf <- OneWindow
  Port = {p1, p2}
  Dynamic = {socks}
  Conn = {n1}
SPECIFICATION Spec
INVARIANTS TypeOK OwnClientEnded MapHoldsRunning
SYMMETRY Alike
