SPECIFICATION FairSpec
CONSTANTS
    Agents = {a1, a2}
    Roster = {a1, a2}
    Surfaces = {TRUE, FALSE}
    Attention = TRUE
    MaxSteps = 5
    MaxRetries = 1
    Route = {"P1_EXPLORE", "P2_SPLIT", "P5_SUBMIT", "COMPLETED"}
    SlowModel = TRUE
    Faulty = TRUE
    MaxTurns = 1
    MaxPokes = 1
INVARIANTS TypeOK OverrunIsBounded
PROPERTIES EveryTurnEnds EveryMessageIsRead TurnEndsForItsReason
CHECK_DEADLOCK FALSE
