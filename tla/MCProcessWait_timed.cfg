SPECIFICATION Spec
CONSTANTS
    p1 = p1  p2 = p2  p3 = p3  main = main  f1 = f1  f2 = f2
    NoProc = NoProc  NoOne = NoOne  NoCode = NoCode
    Procs = {p1}
    Daemons = {}
    Callers = {main}
    Fibers = {}
    PoolSize = 1
    Ops = {"wait_poll", "wait_timeout_ms"}
    Faults = {}
    Statuses = {3}
    Signals = {9}
INVARIANTS
    ExitCodeFaithful
