SPECIFICATION Spec
CONSTANTS
    m_size = 4
    MaxPhraseLength = 4
    ArcFactor = 1
    StartScore = 100
    Setups <- MCSetups
INVARIANTS
    BestIsOptimal
    AlwaysAnAnswer
    PredecessorsStay
    NBestIsExact
