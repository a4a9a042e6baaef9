CONSTANTS
  s1 = s1
  s2 = s2
  a1 = a1
  a2 = a2
  NoAgent = NoAgent
  Slots <- OneSlot
  Agents <- OneAgent
  DefaultAgent <- OneDefault
  Methods <- AllMethods
  HeapWords <- AnyWord
  FollowsIndication = TRUE
  MaxRequests = 2
  MaxInbox = 3
SPECIFICATION Spec
PROPERTIES AnswersWhatIsShown
CHECK_DEADLOCK FALSE
