\* One command that may outlast its pause.
SPECIFICATION Spec
CONSTANTS
    Cli = {c1}
    Observer = observer
    Nobody = nobody
    Pid = {p1, p2}
    NoPid = nopid
    Env = {"clock"}
    Uid = {}
    None = none
    PauseTicks = 2
    DeadlineTicks = 1
    RemovalTicks = 1
    MaxGeneration = 0
    MaxScans = 1
INVARIANT ObserverYields
