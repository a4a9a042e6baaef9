CONSTANTS
  c1 = c1
  c2 = c2
  Api <- TheApi
  Functions <- Typical
  Calls <- TwoCalls
  Unsupported <- NoPhonebook
SPECIFICATION Spec
PROPERTIES PromiseSpec
CHECK_DEADLOCK FALSE
