CONSTANTS
  c1 = c1
  c2 = c2
  Api <- TheApi
  Functions <- EveryFunction
  Calls <- OneCall
  Unsupported <- NoInterface
SPECIFICATION Spec
INVARIANTS TypeOK RefusedLeavesNothing SentFreesOnce HandlerOutlivesCall FailureIsReported
CHECK_DEADLOCK FALSE
