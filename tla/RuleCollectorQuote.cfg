CONSTANTS
  NObject = 1
  First = 1
  repeat_cnt = 0
  RETRY_MAX_CNT = 3
SPECIFICATION Spec
INVARIANT RetryQuotesPrevious
