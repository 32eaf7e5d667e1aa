\* Replayed subscriptions fill the queue before the waiting publications.
SPECIFICATION SysSpec
CONSTANTS
  Messages = {m1}
  Events = {}
  Topics = {t1}
  Inbound = {}
  Oversized = {}
  OversizedPolicy = "drop"
  CleanSession = TRUE
  HasFactory = TRUE
  StartsWithSocket = FALSE
  KeepAlive = FALSE
  MaxTx = 1
  Headroom = 1
  PreConnectCap = 1
  MaxPacketId = 3
  RetryMax = 1
  BackoffSteps = 1
  SendResults = {"all"}
  WireCap = 2
  MaxCalls = 1
  None = None
INVARIANT NoSilentLoss
