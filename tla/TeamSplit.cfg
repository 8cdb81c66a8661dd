SPECIFICATION Spec
CONSTANTS
    a1 = a1
    a2 = a2
    a3 = a3
    Agents = {a1, a2}
    Human = human
    Nobody = nobody
    InitialRoster = {a1}
    RosterMax = 2
    HumanPhases = {}
    FirstMode = "full"
    Persist = TRUE
    Plans <- PairPlans
    HumanThreads = {}
    Prompts = {TRUE, FALSE}
    Faulty = TRUE
INVARIANTS TypeOK RosterIsEverywhere GatesFollowPhase SomebodyStillOwes
PROPERTIES ImplementsAgreedPhases
CHECK_DEADLOCK FALSE
