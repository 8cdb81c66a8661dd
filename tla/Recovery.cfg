SPECIFICATION Spec
CONSTANTS
    Agents = {a1, a2}
    Human = human
    Attention = TRUE
    LlmSummary = TRUE
    Audiences <- Everybody
    MaxMessages = 2
    MaxSaves = 2
    MaxCrashes = 2
SYMMETRY AgentSymmetry
INVARIANTS TypeOK ResumeIsFaithful LogIsNumbered
CHECK_DEADLOCK FALSE
