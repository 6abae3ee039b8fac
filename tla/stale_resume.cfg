\* Two commands, one after the other.
SPECIFICATION Spec
CONSTANTS
    Cli = {c1, c2}
    Observer = observer
    Nobody = nobody
    Pid = {p1, p2, p3}
    NoPid = nopid
    Env = {}
    Uid = {}
    None = none
    PauseTicks = 2
    DeadlineTicks = 1
    RemovalTicks = 1
    MaxGeneration = 0
    MaxScans = 1
INVARIANT PauseRequestHonoured
