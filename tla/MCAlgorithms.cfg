SPECIFICATION MCSpec
CONSTANTS
    MaxPages = 4
    MaxHeight = 2
    MaxGap = 1
    FramePages = 5
    Half = 4
    Layouts <- SmallLayouts
    Tops <- SmallTops
    Viewports = {0, 1, 3}
    PageWidth = 8
    PageHeight = 18
    Blanks = {"_", "-"}
    Stops = {"."}
    NoChar = "none"
    TextPages <- SmallPages
    AlphabetSize = 3
    MaxLinks = 11
    Chars <- Alphabet
    Width <- Utf8
    Lower <- LowerCase
    Newline = "nl"
    Documents <- SmallDocuments
    Queries <- SomeQueries
    MaxSessions = 2
    MaxLost = 1
    Zooms <- SmallZooms
    ScrollsTried = {0, 2, 5, 6, 8, 12, 16}
    AreaRows = 3
    AreaCols = 5
    CellPixels = 3
    DiacriticCap = 5
    EscapeWidth = 5
    LabelLength = 1
INVARIANTS
    ResultMatches
    Bracket
    IdsDistinct
    DeferralsRight
    ShownIsTaken
    MotionsAgree
    HintsChoosable
    FilterIsExact
    FileIsWholeDocument
    GridShowsFrame
PROPERTIES
    Terminates
    EventuallyComplete
CHECK_DEADLOCK FALSE
