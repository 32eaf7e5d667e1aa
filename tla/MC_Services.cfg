\* The key-value store on every backend, the wifi service over both kinds of
\* radio, the NTP client on a network that delays and repeats, two buttons.
SPECIFICATION MCSpec
CHECK_DEADLOCK FALSE
CONSTANTS
  Worlds = {"kv", "wifi", "ntp", "buttons"}
  Keys = {a, b}
  Values = {x, y}
  Absent = Absent
  Backends = {"nvm", "littlefs", "nvs", "memory"}
  Capacity = 1
  None = None
  Blank = Blank
  Torn = Torn
  Unset = Unset
  Budgets = {Unset, 1, 3}
  BackoffStart = 1
  BackoffMax = 3
  FirstJoinTime = 2
  JoinTime = 1
  MaxFailures = 4
  Nothing = Nothing
  MaxQueries = 3
  DrainLimit = 2
  InboxDepth = 3
  NoBytes = NoBytes
  KeyCount = 2
  Settle = 1
  RingDepth = 3
  MaxLag = 2
  MaxEdges = 3
INVARIANTS CleanIsSaved RetriesAsConfigured AnswersAfterAsking NoBounce
PROPERTIES ImplementsAtomicStore WifiReconnects QueriesEnd LevelsAgree
