\* One call of start(): it ends, so the system stops.
CHECK_DEADLOCK FALSE
SPECIFICATION Spec
CONSTANTS
    MaxFd = 13
    UserFds = {3, 4}
    EarlierFds = {5}
    Faults = {"pipe"}
    NoWord = NoWord
    Characters <- AllCharacters
    Blank = "blank"
    Backslash = "backslash"
    Quote = "quote"
    DashC <- MinusC
    SlashC <- MinusSlashC
    Cases <- Streams
INVARIANTS
    UserTargetsStayOpen
