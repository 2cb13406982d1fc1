SPECIFICATION DrawLiveSpec
CONSTANTS
    Pages = 3
    Width = 24
    Texts <- MCTexts
    Pictures <- MCPictures
    Points <- MCPoints
    Columns <- MCColumns
    Bitmaps <- MCBitmaps
    MaxCalls = 2
INVARIANTS
    DrawTypeOK
    PanelFollows
    ScrollShifts
    ClearsRange
    WrapTurns
    BitmapDrawn
    LineDrawn
    TextEnlarged
PROPERTY ScrollEnds
\* The calls of a behaviour are bounded.
CHECK_DEADLOCK FALSE
