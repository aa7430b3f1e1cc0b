CONSTANTS
  s1 = s1  s2 = s2  w1 = w1
  viaHop = viaHop  direct = direct  jump = jump  a = a  b = b
  k1 = k1  k2 = k2  k3 = k3
  NoCall = NoCall  NoKey = NoKey
  Sid = {s1, s2}
  Owner = {w1}
  Host = {viaHop, direct}
  Endpoint = {jump, a, b}
  Key = {k1, k2, k3}
  KeyType <- MCKeyType
  Route <- MCRoute
  MaxLegs = 2
  Calls <- MCCalls
SPECIFICATION Spec
SYMMETRY SidSymmetry
INVARIANTS TypeOK BorrowedIsLive NoOrphanedClient EndToldOnce VerifiedByTrustOrUser
  
PROPERTIES NeverRevived
