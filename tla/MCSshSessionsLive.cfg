CONSTANTS
  s1 = s1  s2 = s2  w1 = w1
  viaHop = viaHop  direct = direct  jump = jump  a = a  b = b
  k1 = k1  k2 = k2  k3 = k3
  NoCall = NoCall  NoKey = NoKey
  Sid = {s1, s2}
  Owner = {w1}
  Host = {viaHop}
  Endpoint = {jump, a}
  Key = {k1}
  KeyType <- OneKeyType
  Route <- HopRoute
  MaxLegs = 2
  Calls <- HopTerminal
SPECIFICATION FairSpec
PROPERTY ConnectsSettle
