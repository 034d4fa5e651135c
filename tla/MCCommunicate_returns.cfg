\* A wait for a child that blocks on a full pipe nobody drains never ends.
CHECK_DEADLOCK FALSE
SPECIFICATION CommFairSpec
CONSTANTS
    p1 = p1  p2 = p2  main = main  f1 = f1  f2 = f2
    NoProc = NoProc  NoOne = NoOne  NoCode = NoCode
    Procs = {p1}
    Daemons = {}
    Callers = {main, f1}
    Fibers = {f1}
    PoolSize = 3
    Ops = {"communicate", "begin_communicate", "wait", "wait_poll", "destroy", "poll"}
    Faults = {"submit_fail"}
    Statuses = {3}
    Signals = {}
    Piped <- BothPiped
    Filters = {p1}
    Holders = {p1}
    Failing <- FailingOut
    Capacity = 1
    MaxOutput = 2
INVARIANTS
    CommTypeOK OutputComplete WorkJoinedBeforeFree ExitCodeFaithful NeverWaitsForReapedPid
PROPERTIES
    CommunicateReturns
