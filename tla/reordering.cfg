SPECIFICATION Spec
CONSTANTS
    m_size = 5
    MaxPhraseLength = 3
    MaxMarks = 1
    MaxWalls = 1
    MaxLimit = 3
    DistortionLimits <- MCDistortionLimits
    PunctuationSets <- MCPunctuationSets
    XmlWallSets <- MCXmlWallSets
    ZoneLists <- MCZoneLists
INVARIANTS
    NoDeadEnd
    WindowWithinLimit
    WallsRespected
    LocalWallsRespected
    ZoneNotLeft
    IdIdentifiesBitmap
