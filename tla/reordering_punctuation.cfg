SPECIFICATION Spec
CONSTANTS
    m_size = 4
    MaxPhraseLength = 3
    MaxMarks = 1
    MaxWalls = 0
    MaxLimit = 4
    DistortionLimits <- MCDistortionLimits
    PunctuationSets <- MCPunctuationSets
    XmlWallSets <- MCXmlWallSets
    ZoneLists <- NoZones
INVARIANT PunctuationRespected
