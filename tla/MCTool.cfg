SPECIFICATION Spec
CONSTANTS
    Commands <- MCCommands
    MaxLines = 2
    Faults = {"open", "thread"}
INVARIANT TypeOK
INVARIANT ServedWhileReading
INVARIANT ExitIsHeard
INVARIANT CleanEnd
PROPERTY QuitEnds
CHECK_DEADLOCK FALSE
