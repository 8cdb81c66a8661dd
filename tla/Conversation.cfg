SPECIFICATION Spec
CONSTANTS
    Kinds <- SomeKinds
    Policies <- SomePolicies
    SoftLimit = 4
    KeepTailChars = 3
    KeepTailMessages = 2
    MaxRetries = 1
    None = none
    MaxMessages = 2
    MaxReplies = 2
    MaxCalls = 2
    MaxSaves = 1
    MaxCuts = 1
INVARIANTS TypeOK RefusedOnlyAfterACut AddressedIsRead
CHECK_DEADLOCK FALSE
