\* Two sessions of the library, and each kind against foreign peers.
SPECIFICATION Spec
CONSTANTS
  None = None
  c0 = c0
  k0 = k0
  c = c
  c1 = c1
  k = k
  k1 = k1
  k2 = k2
  Clients = {c0, c, c1}
  Conns = {k0, k, k1, k2}
  Worlds <- MCWorlds
  MaxTx = 1
  Headroom = 1
  MaxMessage = 1
  MaxEmptyRun = 1
  Policy = "disconnect"
  AutoPing = {c1}
  MaxConnections = 1
  ForeignFrames <- MCForeign
  Codes = {"reserved"}
  MaxSends <- MCMaxSends
  Pingers = {k0}
  WireCap = 1
CHECK_DEADLOCK FALSE
INVARIANTS TypeOK OneClose Conserved DeadlinesMatch NothingLeaks Interoperable ClosedIsTold
