\* Four revisions and two jobs, stopped anywhere.
SPECIFICATION Spec
CONSTANTS
    Commit = {r1, r2, r3, r4}
    NoCommit = none
    Job = {j1, j2}
    Nobody = nobody
    Limit = 2
SYMMETRY Symmetry
INVARIANTS TypeOK LinksResolve
PROPERTIES PruneIsThorough LinksKept
