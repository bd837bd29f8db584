SPECIFICATION Spec
CONSTANTS
    Setups <- MCSetups
    Collectors <- MCCollectors
    Workers = {w1, w2}
    NumTasks = 3
    QueueLimit = 1
    NoTask = NoTask
    FreedKeyIntact = TRUE
INVARIANT PrintedUpToFirstGap

    
    
