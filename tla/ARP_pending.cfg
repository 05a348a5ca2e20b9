CONSTANTS
  h1 = h1
  h2 = h2
  gw = gw
  p1 = p1
  p2 = p2
  Packet = {p1, p2}
  Traffic <- MCTraffic
  Host = {h1, h2}
  Learned = {h2}
  Self = self
  AllRouters = allRouters
  NoAddr = noAddr
  Nowhere = nowhere
  Hop = {gw}
  Via <- MCVia
  TTL_INIT = 40
  PENDING_TIMEOUT = 1
  MaxRounds = 1
SPECIFICATION Spec
INVARIANTS TypeOK AccountedOnce InOrder NoneStranded
PROPERTIES NoneWaitsForever
CHECK_DEADLOCK FALSE
