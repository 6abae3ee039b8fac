\* Two revisions, one deployment after the other.
SPECIFICATION Spec
CONSTANTS
    Commit = {r1, r2}
    NoCommit = none
    Job = {j1}
    Nobody = nobody
    Limit = 2
INVARIANT SkipIsHealthy
