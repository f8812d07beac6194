SPECIFICATION Spec
CONSTANTS
    Bytes = {"x", "y"}
    SmallBufferSize = 2
    MaxRecipients = 1
    MaxWrites = 3
    MaxWriters = 2
    MaxEnvelopes = 2
    MaxTxns = 3
    Caller = "any"
PROPERTY EnvelopeDataImmutable
CHECK_DEADLOCK FALSE
