SPECIFICATION CommFairSpec
CONSTANTS
    p1 = p1  p2 = p2  main = main  f1 = f1  f2 = f2
    NoProc = NoProc  NoOne = NoOne  NoCode = NoCode
    Procs = {p1, p2}
    Daemons = {p2}
    Callers = {f1, f2}
    Fibers = {f1, f2}
    PoolSize = 3
    Ops = {"communicate", "wait", "poll"}
    Faults = {}
    Statuses = {3}
    Signals = {}
    Piped <- BothPiped
    Filters = {}
    Holders = {}
    Failing = {}
    Capacity = 1
    MaxOutput = 2
PROPERTIES
    CommunicateReturns
