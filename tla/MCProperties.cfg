SPECIFICATION Spec
CONSTANTS
    ModemCount = 2
    InterfaceOf <- MCInterfaceOf
    PropertyValues <- MCPropertyValues
    Getters <- MCGetters
    Setters <- MCSetters
    Groups <- MCGroups
    Unread <- SkippedInterfaces
    Faults = {"refusal", "send", "memory"}
INVARIANT TypeOK
INVARIANT ReadsSettle
INVARIANT SettingIsInForce
INVARIANT FoundThroughout
INVARIANT FoundOnAnySlot
PROPERTY NeverGoesBack
PROPERTY SettingTakesHold
CHECK_DEADLOCK FALSE
