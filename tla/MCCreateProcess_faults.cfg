\* One call of start(): it ends, so the system stops.
CHECK_DEADLOCK FALSE
SPECIFICATION FairSpec
CONSTANTS
    MaxFd = 13
    UserFds = {3, 4}
    EarlierFds = {5}
    Faults = {"pipe", "fork", "chdir", "fcntl", "malloc", "kill", "waitpid",
              "SetHandleInformation", "CreateProcess"}
    NoWord = NoWord
    Characters <- AllCharacters
    Blank = "blank"
    Backslash = "backslash"
    Quote = "quote"
    DashC <- MinusC
    SlashC <- MinusSlashC
    Cases <- AllCases
INVARIANTS
    ParentEndsPrivate ChildWiring ParentHoldsItsEnds NoLeak
    TargetsSurviveFork FailureIsReaped FailuresReachTheCaller
    SearchFindsTheFirst ArgvAsAsked EnvironmentAsAsked
PROPERTIES
    SpawnReturns
