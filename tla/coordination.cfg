\* Two commands against the observer, and everything that can go wrong.
SPECIFICATION Spec
CONSTANTS
    Cli = {c1, c2}
    Observer = observer
    Nobody = nobody
    Pid = {p1, p2, p3}
    NoPid = nopid
    Env = {"clock", "cold", "crash", "hardware", "interrupt", "kill", "operator", "query"}
    Uid = {u1}
    None = none
    PauseTicks = 3
    DeadlineTicks = 2
    RemovalTicks = 1
    MaxGeneration = 1
    MaxScans = 1
SYMMETRY Symmetry
INVARIANTS TypeOK SingleReaderOwner LockDiscipline PauseHasAnEnd
    LoneWindowUndisturbed
PROPERTY LeaseImplemented
