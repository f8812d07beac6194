SPECIFICATION Spec
CONSTANTS
    ConnKind = "net"
    TLSPolicies = {"Disabled", "Optional", "Required"}
    HasTLSProvider = TRUE
    Extensions = {"SIZE", "STARTTLS", "VRFY", "HELP"}
    MaxErrors = 2
    MaxRecipients = 2
    MaxTransactions = 2
    MaxMessageSize = 2
    MaxLineLength = 2
    ReadDeadline = TRUE
    SenderMayReject = TRUE
    MailboxMayReject = TRUE
    HookVetoes = TRUE
    CommitMayFail = TRUE
    BodyLines <- MCBodyLines
    ErrCap = 3
INVARIANTS
    TypeOK
    StoredWithinLimits
    TransactionLimit
    ErrorBudgetEnforced
    TLSRequiredHonoured
    PlaintextNotReadOverTLS
    SessionInfoStateCurrent
PROPERTIES
    AcceptedMeansStored
    PeerGoneEndsSession
    CancellationEndsSession
    DataStreamEnds
    ImplementsMailTransaction
CHECK_DEADLOCK FALSE
