CONSTANTS
  s1 = s1
  s2 = s2
  a1 = a1
  a2 = a2
  NoAgent = NoAgent
  Slots <- OneSlot
  Agents <- OneAgent
  DefaultAgent <- OneDefault
  Methods <- TwoMethods
  HeapWords <- AnyWord
  FollowsIndication = TRUE
  MaxRequests = 2
  MaxInbox = 2
SPECIFICATION Spec
INVARIANTS IndicatedIsHeld
CHECK_DEADLOCK FALSE
