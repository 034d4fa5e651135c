SPECIFICATION Spec
CONSTANTS
    f1 = f1  f2 = f2  a = a  b = b  z = z  h1 = h1
    main = main  c1 = c1  c2 = c2
    NoOne = NoOne  NoFile = NoFile  Zero = Zero
    Files = {f1, f2}
    Plans <- AllPlans
    Platforms = {"posix", "win32"}
    Callers = {main, c1}
    Fibers = {c1}
    Hogs = {}
    PoolSize = 1
    Payloads <- TwoUnits
    Sizes = {0, 2}
    Limits = {"finite", "none"}
    Stored <- OldFile
    MaxLen = 3
    Others = {"stop"}
    Faults = {"io_error", "short_write", "submit_fail"}
INVARIANTS
    TypeOK RequestsDrained RequestsHitTheirFile ReadsAreSequential AppendsAreKept
    WritesAreSequential FlushedIsDurable
