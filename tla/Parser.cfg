SPECIFICATION Spec
CONSTANTS
    Kinds = {"hostname", "from", "command", "reply", "size"}
    AddressChars = {"a", "@", ".", "-", "_"}
    PathChars = {"P", "<", ">", "@", "a", ":"}
    HostChars = {"a", "-", ".", "[", "]", " "}
    MaxAddressLen = 5
    MaxPathLen = 6
    MaxHostLen = 4
    LabelLimit = 2
    HostnameLimit = 3
    CommandChars = {"R", "F", "T", "u", " ", "CR", "LF"}
    MaxCommandLen = 5
    MaxCommandLength = 8
    ReplyCodes = {250}
    EnhancedCodes <- MCEnhancedCodes
    ReplyChars = {"a", " ", "."}
    MaxReplyLines = 2
    MaxReplyTextLen = 2
    SizeChars = {" ", "K", "k", "=", "+", "3", "7", "x"}
    MaxSizeArgLen = 6
    MaxMessageSize = 7
    Int64Max = 99
INVARIANTS
    HostnameRule
    MailPathRule
    CommandRule
    ReplyRoundTrip
    SizeRule
CHECK_DEADLOCK FALSE
