\* Self-heal and delivery under fairness.
SPECIFICATION FairSpec
CONSTANTS
  Messages = {m1}
  Events = {}
  Topics = {}
  Inbound = {i1}
  Oversized = {i1}
  OversizedPolicy = "disconnect"
  CleanSession = FALSE
  HasFactory = TRUE
  StartsWithSocket = FALSE
  KeepAlive = FALSE
  MaxTx = 2
  Headroom = 1
  PreConnectCap = 1
  MaxPacketId = 4
  RetryMax = 1
  BackoffSteps = 1
  SendResults = {"all"}
  WireCap = 2
  MaxCalls = 1
  None = None
PROPERTIES
  WantedComesBack
  PublicationsSettle
