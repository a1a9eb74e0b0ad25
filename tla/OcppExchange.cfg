SPECIFICATION Spec
INVARIANTS AnsweredOnce NoPanic ResponseIsHandlers PlainCallSucceeds ErrorTellsCause
CHECK_DEADLOCK FALSE
