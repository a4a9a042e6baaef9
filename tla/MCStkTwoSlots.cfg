CONSTANTS
  s1 = s1
  s2 = s2
  a1 = a1
  a2 = a2
  NoAgent = NoAgent
  Slots <- TwoSlots
  Agents <- TwoAgents
  DefaultAgent <- TwoDefaults
  Methods <- TwoMethods
  HeapWords <- AnyWord
  FollowsIndication = FALSE
  MaxRequests = 2
  MaxInbox = 2
SPECIFICATION Spec
INVARIANTS TypeOK AtMostOneReply HeldIsPending
PROPERTIES DialogueSpec
CHECK_DEADLOCK FALSE
