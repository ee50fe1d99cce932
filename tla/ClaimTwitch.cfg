SPECIFICATION MCSpec
CONSTANTS
    KeyLayouts <- TwoSizes
    CellPx = 2
    FracScale = 4
    MaxJumps = 2
    MarkNames = {"m"}
    Sections = {0, 2}
    References = {3}
    Outline <- SmallOutline
    WheelRows = 1
    AlphabetSize = 2
    PageWidth = 4
    PageHeight = 4
    Blanks = {"_"}
    Stops = {"."}
    NoChar = "none"
    Areas = {3, 4}
    Steps = {6}
    Columns = 2
    PanelColumn = 1
    PageTexts <- SmallTexts
    PageLinks <- SmallLinks
    QueryHits <- SmallQueries
    FarMargin = 1
    DragSlop = 1
    DigitValue <- SmallDigits
    Letters = {"a", "b"}
    MaxTyped = 1
    MaxModeJumps = 0
INVARIANT ClickIsNoHighlight
