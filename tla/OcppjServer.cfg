CONSTANTS
  c1 = c1
  c2 = c2
  r1 = r1
  r2 = r2
  Clients = {c1, c2}
  Requests = {r1, r2}
  Uses <- Orderly
  MaxConnects = 2
  RequestCap = 2
  TimerCap = 1
  NoReq = NoReq
  NoQueue = NoQueue

SPECIFICATION Spec
CHECK_DEADLOCK FALSE

INVARIANTS Sequential OwnAnswer
PROPERTIES CalledBack
