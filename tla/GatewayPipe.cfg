SPECIFICATION Spec
CONSTANTS
    Traffic <- MCTraffic
    MessageIdBufferLen = 2
    CSMSMessageQueueLen = 2
    CSMSCallQueueLen = 1
    CSMSCallResponseBufferLen = 2
INVARIANTS TypeOK AnswersInOrder ResultCarriesItsRequest
PROPERTIES StationCallForwarded BufferedCallSent
CHECK_DEADLOCK FALSE
