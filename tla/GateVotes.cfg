SPECIFICATION Spec
CONSTANTS
    Agents = {a1, a2, a3}
    Human = human
    Nobody = nobody
    RequireProposal = TRUE
    AwaitHuman = TRUE
    Persist = TRUE
    MaxDrafts = 2
    MaxRejects = 1
    MaxRosterChanges = 1
    MaxRounds = 1
SYMMETRY AgentSymmetry
INVARIANTS TypeOK VotesAreForTheCurrentDraft NeverStuckUnanimous
PROPERTIES OpensOnUnanimity VotesLostOnlyWithTheirDraft ImplementsVote
CHECK_DEADLOCK FALSE
