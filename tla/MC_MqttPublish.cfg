\* A persistent session: QoS 1 publications against every failure.
SPECIFICATION SysSpec
CONSTANTS
  Messages = {m1, m2}
  Events = {}
  Topics = {}
  Inbound = {}
  Oversized = {}
  OversizedPolicy = "drop"
  CleanSession = FALSE
  HasFactory = TRUE
  StartsWithSocket = FALSE
  KeepAlive = FALSE
  MaxTx = 2
  Headroom = 1
  PreConnectCap = 1
  MaxPacketId = 4
  RetryMax = 1
  BackoffSteps = 1
  SendResults = {"none", "part", "all"}
  WireCap = 1
  MaxCalls = 1
  None = None
INVARIANTS
  OneTransport
  ToldTheTruth
  ConnectFirst
  NoSilentLoss
PROPERTIES
  DialOnlyWhenWanted
  ImplementsAtLeastOnce
