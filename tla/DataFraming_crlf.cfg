SPECIFICATION Spec
CONSTANTS
    LineChars = {".", "a", "CR"}
    MaxLines = 2
    MaxLineLen = 3
    MayTruncate = TRUE
    MaxLineLength = 5
    MaxMessageSize = 9
INVARIANTS
    RoundTrip
    LimitsSound
CHECK_DEADLOCK FALSE
