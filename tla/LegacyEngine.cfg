SPECIFICATION Spec
CONSTANTS
    ConnKind = "net"
    TLSPolicy = "Optional"
    HasTLSProvider = TRUE
    Extensions = {"SIZE", "STARTTLS", "VRFY", "HELP"}
    MaxErrors = 2
    MaxRecipients = 1
    MaxTransactions = 1
    MaxMessageSize = 2
    MaxLineLength = 2
    SenderMayReject = TRUE
    MailboxMayReject = TRUE
    HookVetoes = TRUE
    StoreMayFail = TRUE
    BodyLines <- MCBodyLines
    ErrCap = 3
INVARIANTS
    TypeOK
    ErrorBudgetEnforced
PROPERTIES
    AcceptedMeansStored
    PeerLossEndsSession
    ImplementsMailTransaction
CHECK_DEADLOCK FALSE
