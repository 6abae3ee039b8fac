\* Two cards, a hysteresis of three ticks, fair polling, a clock that may fall one tick behind.
SPECIFICATION FairSpec
CONSTANTS
    Uid = {u1, u2}
    None = none
    RemovalTicks = 3
    MaxGeneration = 4
    MaxSkew = 1
INVARIANTS TypeOK OneScanPerStay EventsAlternate
PROPERTY ChangesAreSeen
