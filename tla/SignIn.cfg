SPECIFICATION FairSignInSpec
CONSTANTS
    b1 = b1
    b2 = b2
    s1 = s1
    s2 = s2
    Backends = {b1, b2}
    Sessions = {s1, s2}
    Portals <- TwoPortals
    Layouts <- TwoBackends
    MaxAttempts = 2
    ExpiresIn = 1
    Interval = 2
    PollCap = 1
    MaxPoll = 1
    MaxIssued = 3
    MaxCalls = 3
    MaxCuts = 1
INVARIANTS SignInTypeOK RefreshTokensWorkOnce ExpiryAloneEndsNoCall
PROPERTIES CallsEnd
CHECK_DEADLOCK FALSE
