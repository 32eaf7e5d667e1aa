\* A QoS 0 publication with a callback leaves the send deadline armed.
SPECIFICATION SysSpec
CONSTANTS
  Messages = {}
  Events = {e1}
  Topics = {}
  Inbound = {}
  Oversized = {}
  OversizedPolicy = "drop"
  CleanSession = TRUE
  HasFactory = TRUE
  StartsWithSocket = TRUE
  KeepAlive = FALSE
  MaxTx = 2
  Headroom = 1
  PreConnectCap = 1
  MaxPacketId = 2
  RetryMax = 1
  BackoffSteps = 1
  SendResults = {"all"}
  WireCap = 2
  MaxCalls = 0
  None = None
INVARIANT SendDeadlineHasWork
