SPECIFICATION FairSpec
CONSTANTS
    a1 = a1
    a2 = a2
    a3 = a3
    Agents = {a1, a2, a3}
    Human = human
    Nobody = nobody
    InitialRoster = {a1, a2}
    RosterMax = 2
    HumanPhases = {"P3_EXECUTE"}
    FirstMode = "full"
    Persist = FALSE
    Plans <- TwoPlans
    HumanThreads = {"P3_EXECUTE"}
    Prompts = {TRUE}
    Faulty = FALSE
PROPERTIES RosterSettledBeforeHuman EventuallyCompletes
CHECK_DEADLOCK FALSE
