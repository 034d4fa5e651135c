SPECIFICATION FairSpec
CONSTANTS
    f1 = f1  f2 = f2  a = a  b = b  z = z  h1 = h1
    main = main  c1 = c1  c2 = c2
    NoOne = NoOne  NoFile = NoFile  Zero = Zero
    Files = {f1}
    Plans <- ReadOnly
    Platforms = {"posix"}
    Callers = {c1, c2}
    Fibers = {c1, c2}
    Hogs = {h1}
    PoolSize = 1
    Payloads <- OneLetter
    Sizes = {1}
    Limits = {"finite", "none"}
    Stored <- OldFile
    MaxLen = 1
    Others = {"close", "share"}
    Faults = {}
INVARIANTS
    RequestsDrained
PROPERTIES
    TimedCallsReturn
