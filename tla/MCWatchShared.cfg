SPECIFICATION Spec
CONSTANTS
    Indications <- MCIndications
    Messages <- SharedMessages
    Registrations = {r1, r2}
    Slots <- BothSlots
    Faults = {}
    LogsOverMiwear = FALSE
    MaxSignals = 2
INVARIANT RegistrationLasts
PROPERTY UnregisteredIsSilent
PROPERTY PromiseSpec
CHECK_DEADLOCK FALSE
