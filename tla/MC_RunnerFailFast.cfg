\* on_handler_error re-raises, as the README suggests to fail fast.
SPECIFICATION Spec
CONSTANTS
  None = None
  blink = blink
  sensor = sensor
  svc = svc
  peer = peer
  Tasks = {blink, sensor, svc, peer}
  Apps = {{sensor}}
  Options <- MCOptions
  NewPeriods <- MCNewPeriods
  Sockets = {s1}
  Descriptors = {d1}
  Interests <- MCInterests
  Deadlines = {None, 0}
  OnError = "reraise"
  MaxLate = 2
  MaxErrors = 2
  MaxDisturbed = 1
PROPERTY FailFast
