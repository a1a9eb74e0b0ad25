CONSTANTS
  c1 = c1
  c2 = c2
  r1 = r1
  r2 = r2
  Clients = {c1, c2}
  Requests = {r1, r2}
  Uses <- Rough
  MaxConnects = 2
  RequestCap = 20
  TimerCap = 10
  NoReq = NoReq
  NoQueue = NoQueue

SPECIFICATION Spec
CHECK_DEADLOCK FALSE

INVARIANT RunsIndefinitely
