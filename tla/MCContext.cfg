CONSTANTS
  ModemCount = 2
  Servers <- Servers3
  Unsupported <- Ims
  Unread <- Message
  MaxRetries = 1
  MaxSteps = 3
SPECIFICATION Spec
INVARIANTS TypeOK ProxiesBalanced CleanShutdown AliveMeansReadable
PROPERTIES FailedOpenFreesAll OpenReturns EventuallyReadable
