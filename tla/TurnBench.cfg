SPECIFICATION FairSpec
CONSTANTS
    Agents = {a1, a2}
    Roster = {a1}
    Surfaces = {FALSE}
    Attention = FALSE
    MaxSteps = 4
    MaxRetries = 1
    Route = {"P1_EXPLORE", "P5_SUBMIT", "COMPLETED"}
    SlowModel = TRUE
    Faulty = FALSE
    MaxTurns = 1
    MaxPokes = 0
PROPERTIES EveryTurnEnds
CHECK_DEADLOCK FALSE
