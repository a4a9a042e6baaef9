SPECIFICATION Spec
CONSTANTS
    Indications <- MCIndications
    Messages <- AllMessages
    Registrations = {r1}
    Slots <- OneSlot
    Faults = {"malformed", "nomem"}
    LogsOverMiwear = TRUE
    MaxSignals = 2
INVARIANT TypeOK
INVARIANT HandlersFreedOnce
CHECK_DEADLOCK FALSE
