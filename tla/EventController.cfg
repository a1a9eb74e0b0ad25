CONSTANTS
  NExec = 2
  NSock = 2
  MaxRetry = 2
  Commands <- mcCommands
  SetStart <- mcFirstSet
  Answers <- mcAnswers
SPECIFICATION FairSpec
INVARIANTS AnswerIsAwaited SentAtMostOnce
PROPERTIES ErrorOnRecentRow ImplementsLog  ErrorHandled
