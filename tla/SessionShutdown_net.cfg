SPECIFICATION Spec
CONSTANTS
    ConnKind = "net"
    ReaderCloses = TRUE
    Commands <- MCCommands
PROPERTY CloseEndsSession
CHECK_DEADLOCK FALSE
