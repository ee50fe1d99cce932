SPECIFICATION Spec
CONSTANTS
    NumPages = 4
    PageHeight = 3
    Gap = 0
    Viewport = 6
    CellHeight = 2
    Bad = {}
    CacheDir = TRUE
    Revisions = {0, 1}
    PageBytes = 1
    MaxCachedPages = 3
    GhosttyBudget = 100
    PageCacheSlots = 3
    Margin = 1
    BurstMin = 2
    None = None
    Strides = {1}
    Targets = {}
    Editable = {}
    Toggles = {"refresh"}
    SharpBad = {}
    PrefetchDepth = 2
    MaxWarms = 2
    MaxInputs = 2
    MaxFaults = 1
    MaxLostWrites = 0
PROPERTIES
    ForcedReachTerminal
