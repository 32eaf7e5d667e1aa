\* Three applications: schedules, shared sockets, and both.
SPECIFICATION Spec
CONSTANTS
  None = None
  blink = blink
  sensor = sensor
  svc = svc
  peer = peer
  Tasks = {blink, sensor, svc, peer}
  Apps = {{blink, sensor}, {svc, peer}, {blink, svc}}
  Options <- MCOptions
  NewPeriods <- MCNewPeriods
  Sockets = {s1, s2}
  Descriptors = {d1}
  Interests <- MCInterests
  Deadlines = {None, 0}
  OnError = "remove"
  MaxLate = 2
  MaxErrors = 2
  MaxDisturbed = 1
INVARIANTS TypeOK StaysAligned NoBurst PollSetMatches
