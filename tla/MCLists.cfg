SPECIFICATION Spec
CONSTANTS
    Decoders <- MCDecoders
    Messages <- MCMessages
    Faults = {"reply", "memory"}
INVARIANT TypeOK
INVARIANT TellsTheList
INVARIANT BlocksAreThere
INVARIANT AllFreed
CHECK_DEADLOCK FALSE
