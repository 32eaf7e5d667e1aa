\* A clean session: subscriptions, PUBACK batches, pings and QoS 0 callbacks.
SPECIFICATION SysSpec
CONSTANTS
  Messages = {}
  Events = {e1}
  Topics = {t1}
  Inbound = {i1}
  Oversized = {}
  OversizedPolicy = "drop"
  CleanSession = TRUE
  HasFactory = TRUE
  StartsWithSocket = TRUE
  KeepAlive = TRUE
  MaxTx = 2
  Headroom = 1
  PreConnectCap = 1
  MaxPacketId = 2
  RetryMax = 1
  BackoffSteps = 1
  SendResults = {"part", "all"}
  WireCap = 1
  MaxCalls = 2
  None = None
INVARIANTS
  TypeOK
  OneBatchInFront
  WithinHardCap
  Qos0CallbackAfterSend
  PingMatchesPending
  SubscriptionsHonoured
