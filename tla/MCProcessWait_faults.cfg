SPECIFICATION Spec
CONSTANTS
    p1 = p1  p2 = p2  p3 = p3  main = main  f1 = f1  f2 = f2
    NoProc = NoProc  NoOne = NoOne  NoCode = NoCode
    Procs = {p1}
    Daemons = {}
    Callers = {main, f1}
    Fibers = {f1}
    PoolSize = 1
    Ops = {"wait", "try_wait", "wait_poll", "wait_with", "has_exited", "poll", "poll_once",
           "stop", "destroy", "wait_timeout_ms"}
    Faults = {"submit_fail", "throw", "external_reap", "pid_reuse"}
    Statuses = {3}
    Signals = {9}
INVARIANTS
    TypeOK ExitCodeRightOrZero ExitedOnlyIfGone WorkJoinedBeforeFree
PROPERTIES
    CodeNeverChanges
