SPECIFICATION Spec
CHECK_DEADLOCK FALSE
CONSTANTS
  None = None
  Links = {1, 2, 3, 4}
  WireCap = 1
  MaxRequests = 2
  Requests <- MCRequests
  Policies = {"drop_silent", "drop_with_event", "disconnect"}
  MaxBody = 1
  StreamBuffer = 1
  Replies <- MCReplies
  MaxSource = 2
  MaxRequestBody = 1
  MaxConnections = 1
  Worlds = {"pair", "foreign server", "foreign clients"}
  MaxAsks <- MCMaxAsks
  MaxDials = 2
  ForeignReplies <- MCForeignReplies
  ForeignAsks <- MCForeignAsks
INVARIANTS TypeOK IdleIsClean Faithful HandlerHears NothingLeaks
PROPERTY ImplementsExchange
VIEW MCView
