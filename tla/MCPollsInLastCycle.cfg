SPECIFICATION Spec
CONSTANTS
    Targets = {"memory", "OAMDMA", "register"}
    PageSize = 1
    Program <- Implemented
    OverflowChecks = FALSE
INVARIANT PollsInLastCycle
