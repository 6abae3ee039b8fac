\* Two threads that run the scanner, one that stops it, one that takes its health.
SPECIFICATION FairSpec
CONSTANTS
    Uid = {u1, u2}
    None = none
    RemovalTicks = 1
    Runner = {r1, r2}
    Nobody = nobody
    Fault = {"retry", "fatal", "close", "callback", "interrupt"}
    RetryInitial = 1
    RetryMax = 3
    Freshness = 1
    MaxGeneration = 2
INVARIANTS TypeOK SoleRunner ReaderReleased OneScanPerStay
PROPERTIES TransitionsOnce HealthyIsTrue StopIsHonoured Recovers
