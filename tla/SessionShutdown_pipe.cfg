SPECIFICATION Spec
CONSTANTS
    ConnKind = "pipe"
    ReaderCloses = TRUE
    Commands <- MCCommands
PROPERTY CloseEndsSession
CHECK_DEADLOCK FALSE
