SPECIFICATION FairSpec
CONSTANTS
    p1 = p1  p2 = p2  p3 = p3  main = main  f1 = f1  f2 = f2
    NoProc = NoProc  NoOne = NoOne  NoCode = NoCode
    Procs = {p1, p2}
    Daemons = {}
    Callers = {main, f1}
    Fibers = {f1}
    PoolSize = 1
    Ops = {"wait", "try_wait", "wait_poll", "wait_with", "has_exited", "poll", "destroy"}
    Faults = {"submit_fail", "throw"}
    Statuses = {3}
    Signals = {}
INVARIANTS
    ExitCodeFaithful NeverWaitsForReapedPid StatusNeverLost FibersCollectOnlyTheGone
PROPERTIES
    KeepsPromise AnswersWaits
