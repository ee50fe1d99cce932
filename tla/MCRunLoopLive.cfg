SPECIFICATION Spec
CONSTANTS
    NumPages = 4
    PageHeight = 3
    Gap = 0
    Viewport = 6
    CellHeight = 2
    Bad = {3}
    CacheDir = TRUE
    Revisions = {0, 1}
    PageBytes = 1
    MaxCachedPages = 3
    GhosttyBudget = 100
    PageCacheSlots = 3
    Margin = 1
    BurstMin = 2
    None = None
    Strides = {1}
    Targets = {3}
    Editable = {}
    Toggles = {"dark", "search", "refresh"}
    SharpBad = {}
    PrefetchDepth = 2
    MaxWarms = 2
    MaxInputs = 2
    MaxFaults = 0
    MaxLostWrites = 0
PROPERTIES
    Converges
    EventuallySharp
    KeepsPolling
