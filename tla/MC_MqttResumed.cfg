\* A resumed persistent session never learns of a new subscription.
SPECIFICATION SysSpec
CONSTANTS
  Messages = {}
  Events = {}
  Topics = {t1}
  Inbound = {}
  Oversized = {}
  OversizedPolicy = "drop"
  CleanSession = FALSE
  HasFactory = TRUE
  StartsWithSocket = FALSE
  KeepAlive = FALSE
  MaxTx = 2
  Headroom = 1
  PreConnectCap = 1
  MaxPacketId = 2
  RetryMax = 1
  BackoffSteps = 1
  SendResults = {"all"}
  WireCap = 2
  MaxCalls = 1
  None = None
INVARIANT SubscriptionsHonoured
