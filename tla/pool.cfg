SPECIFICATION Spec
CONSTANTS
    Workers = {w1, w2, w3}
    NumTasks = 4
    QueueLimits = {0, 1, 2}
    NoTask = NoTask
INVARIANTS
    TypeOK
    StartedInOrder
    RunOnce
    StopTrueCompletes
    NoThreadSurvivesStop
    NoLostWakeup
PROPERTY Termination
