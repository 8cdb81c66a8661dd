SPECIFICATION Spec
CONSTANTS
    Kinds <- SomeKinds
    Policies <- SomePolicies
    SoftLimit = 4
    KeepTailChars = 3
    KeepTailMessages = 2
    MaxRetries = 1
    None = none
    MaxMessages = 1
    MaxReplies = 2
    MaxCalls = 1
    MaxSaves = 0
    MaxCuts = 1
PROPERTIES InterruptedAgentGoesOn
CHECK_DEADLOCK FALSE
