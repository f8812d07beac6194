SPECIFICATION Spec
CONSTANTS
    ConnKind = "net"
    TLSPolicies = {"Optional"}
    HasTLSProvider = TRUE
    Extensions = {"SIZE", "STARTTLS", "VRFY", "HELP"}
    MaxErrors = 2
    MaxRecipients = 1
    MaxTransactions = 1
    MaxMessageSize = 2
    MaxLineLength = 2
    ReadDeadline = TRUE
    SenderMayReject = TRUE
    MailboxMayReject = TRUE
    HookVetoes = TRUE
    CommitMayFail = TRUE
    BodyLines <- MCBodyLines
    ErrCap = 3
PROPERTY
    CancelledNothingStored
CHECK_DEADLOCK FALSE
