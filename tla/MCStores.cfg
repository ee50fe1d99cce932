SPECIFICATION StoresSpec
CONSTANTS
    v1 = v1
    v2 = v2
    Viewers = {v1, v2}
    Bitmaps <- Colours
    Bytes <- ColourBytes
    CacheBudget = 1
    EditWhileOpening = FALSE
    MaxVersions = 2
    MaxOpens = 2
    MaxStores = 1
    HlPages <- TwoPages
    InitialPdfs <- SomePdfs
    MaxYanks = 2
    MaxFailures = 1
    MaxRefused = 1
    MaxRestarts = 1
SYMMETRY Symmetry
INVARIANTS
    HitIsRight
    SweepReachesBudget
    SweepTakesOldest
    NothingHalfWritten
    SavedIsStore
    ForeignKept
PROPERTY
    DeleteTakesOneYank
CHECK_DEADLOCK FALSE
