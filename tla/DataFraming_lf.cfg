SPECIFICATION Spec
CONSTANTS
    LineChars = {".", "a", "LF"}
    MaxLines = 2
    MaxLineLen = 3
    MayTruncate = FALSE
    MaxLineLength = 0
    MaxMessageSize = 0
INVARIANT RoundTrip
CHECK_DEADLOCK FALSE
