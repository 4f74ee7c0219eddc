CONSTANTS
    Extent = 16
    MaxZoom = 1
    TileWidth <- MCTileWidth
    Buffer = 0
    Attempts = 1
    None = None
    streets = streets
    aerial = aerial
    states = states
    Layer <- MCLayer
    Base <- MCBase
    SingleTile <- MCSingleTile
    MinZoom <- MCMinZoom
    Lon <- MCLon
    Sizes <- MCSizes
    Pages <- MCPages
    Duration = 2
    MaxMoves = 2
    MaxFailures = 2
SPECIFICATION FairSpec
INVARIANTS
    TypeOK
    LoadingCounted
    PictureFits
    CoversView
    MovesEnd
    StaysRestricted
PROPERTIES
    ViewKept
    LoadingEnds
    PanEnds
