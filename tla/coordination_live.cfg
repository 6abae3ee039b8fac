\* Two commands, fair scheduling, a running clock; commands may be killed.
SPECIFICATION FairSpec
CONSTANTS
    Cli = {c1, c2}
    Observer = observer
    Nobody = nobody
    Pid = {p1, p2, p3}
    NoPid = nopid
    Env = {"clock", "cold", "interrupt", "kill", "operator", "query"}
    Uid = {}
    None = none
    PauseTicks = 2
    DeadlineTicks = 1
    RemovalTicks = 1
    MaxGeneration = 0
    MaxScans = 1
PROPERTIES ObserverAlwaysReturns CommandEnds
