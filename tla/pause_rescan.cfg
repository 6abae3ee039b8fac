\* A card held on the reader across one command.
SPECIFICATION Spec
CONSTANTS
    Cli = {c1}
    Observer = observer
    Nobody = nobody
    Pid = {p1, p2}
    NoPid = nopid
    Env = {}
    Uid = {u1}
    None = none
    PauseTicks = 2
    DeadlineTicks = 1
    RemovalTicks = 1
    MaxGeneration = 2
    MaxScans = 2
INVARIANT OneScanPerStay
