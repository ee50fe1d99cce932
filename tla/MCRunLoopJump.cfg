SPECIFICATION Spec
CONSTANTS
    NumPages = 5
    PageHeight = 4
    Gap = 0
    Viewport = 4
    CellHeight = 2
    Bad = {3}
    CacheDir = TRUE
    Revisions = {0, 1}
    PageBytes = 1
    MaxCachedPages = 2
    GhosttyBudget = 6
    PageCacheSlots = 2
    Margin = 1
    BurstMin = 2
    None = None
    Strides = {3}
    Targets = {0, 4}
    Editable = {}
    Toggles = {"popup", "search", "refresh"}
    SharpBad = {1}
    PrefetchDepth = 2
    MaxWarms = 2
    MaxInputs = 3
    MaxFaults = 1
    MaxLostWrites = 1
INVARIANTS
    NoOrphanImages
PROPERTIES
    RefinesRegistry
