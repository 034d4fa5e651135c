SPECIFICATION KillSpec
CONSTANTS
    p1 = p1  main = main  f1 = f1  f2 = f2
    NoProc = NoProc  NoOne = NoOne  NoCode = NoCode
    Procs = {p1}
    Daemons = {}
    Callers = {main, f1}
    Fibers = {f1}
    PoolSize = 1
    Ops = {"wait"}
    Faults = {"pid_reuse"}
    KillFaults = {}
    Statuses = {3}
    Signals = {9, 15}
INVARIANTS
    TreeKillSparesOthers
