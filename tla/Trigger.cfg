CONSTANTS
  reset = reset
  setVariables = setVariables
  Actions <- mcActions
  SetVariables <- setVariables
  NItem = 2
  Sockets <- mcTwoSockets
  NTrigger = 2
  NCall = 3
SPECIFICATION FairSpec
CHECK_DEADLOCK FALSE
INVARIANTS MatchedOnce AcceptedIsStored
PROPERTY CallsHandled
