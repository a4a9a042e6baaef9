SPECIFICATION Spec
CONSTANTS
    ModemCount = 2
    InterfaceOf <- MCInterfaceOf
    PropertyValues <- MCPropertyValues
    Getters <- MCGetters
    Setters <- MCSetters
    Groups <- JustEmergencyLists
    Unread <- SkippedInterfaces
    Faults = {"refusal", "send", "memory"}
INVARIANT DeniedIsInNoList
CHECK_DEADLOCK FALSE
