SPECIFICATION FairSpec
CONSTANTS
    a1 = a1
    a2 = a2
    Calls <- SomeCalls
    Policies <- SomePolicies
    Nothing = nothing
    MaxTokens = 2
    MaxQueue = 2
    MaxAnswers = 3
    MaxCrashes = 1
INVARIANTS TypeOK NoRequestIsForgotten OneOpenRequestPerCall
PROPERTIES ImplementsConsent AnswerReachesAgent
CHECK_DEADLOCK FALSE
