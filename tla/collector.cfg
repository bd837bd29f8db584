SPECIFICATION Spec
CONSTANTS
    NumTasks = 4
    Collectors = {c1, c2}
    Tasks <- MCTasks
    Ids <- MCIds
    SourceId <- MCSourceId
    NoTask = NoTask
    FreedKeyIntact = TRUE
INVARIANTS
    OutputInOrder
    NoTextLost
    
PROPERTY ImplementsOrderedOutput
