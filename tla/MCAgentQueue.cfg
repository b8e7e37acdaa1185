SPECIFICATION FairSpec
CONSTANTS
    Tasks = {1, 2}
    Runners = {r1}
    MaxPauses = 1
    MaxClicks = 1
    Watched = {1}
    MaxFaults = 1
CHECK_DEADLOCK FALSE
INVARIANTS
    ResultOnce
    RunningIsWorkedOn
PROPERTIES
    FirstResultIsFinal
    WatcherIsTold
    QueuedIsAnswered
