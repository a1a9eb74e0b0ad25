CONSTANTS
  r1 = r1
  r2 = r2
  Requests = {r1, r2}
  Uses <- Orderly
  OutCap = 2
  NoReq = NoReq
  Answer = Answer

SPECIFICATION Spec
CHECK_DEADLOCK FALSE

INVARIANTS Sequential OwnAnswerInOrder
PROPERTIES CalledBack
