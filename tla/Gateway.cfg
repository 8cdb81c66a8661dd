SPECIFICATION FairSpec
CONSTANTS
    Fronts = {"stdio", "headless"}
    Stop = stop
    MaxSaid = 3
    MaxAsked = 2
    MaxStarts = 1
    MaxInterrupts = 2
INVARIANTS TypeOK NothingSaidIsLost
PROPERTIES QuitCloses
CHECK_DEADLOCK FALSE
