\* A periodic task beside a faulting task or service.
SPECIFICATION FairSpec
CONSTANTS
  None = None
  blink = blink
  sensor = sensor
  svc = svc
  peer = peer
  Tasks = {blink, sensor, svc, peer}
  Apps = {{blink, sensor}, {blink, svc}}
  Options <- MCOptions
  NewPeriods <- MCNewPeriods
  Sockets = {s1}
  Descriptors = {d1}
  Interests <- MCInterests
  Deadlines = {None, 0}
  OnError = "none"
  MaxLate = 2
  MaxErrors = 2
  MaxDisturbed = 1
PROPERTY PeriodicServed
