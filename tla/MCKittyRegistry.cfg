SPECIFICATION MCSpec
CONSTANTS
    Pages = {p1, p2, p3}
    Prints = {"small", "large"}
    NoPrint = NoPrint
    DecodedBytes <- SmallLarge
    MaxCachedPages = 2
    GhosttyBudget = 2
    MaxCumulative = 3
SYMMETRY PageSymmetry
INVARIANTS
    TypeOK
    LruMirrorsPages
    TransmittedBytesExact
    NoLiveDeleteQueued
    EpochIntervals
PROPERTIES
    EvictedAreQueued
    EvictionPolicy
