SPECIFICATION TreeSpec
CONSTANTS
    c1 = c1
    c2 = c2
    lookup = lookup
    expert = expert
    planner = planner
    CallId = {c1, c2}
    ToolName = {lookup, expert, planner}
    Registered = {lookup, expert, planner}
    ParallelSafe = {lookup, expert}
    Delegating = {expert, planner}
    RequestTokens = 1
    MessageTokens = 1
    RootPlans <- MCRootPlans
    TreeResponses <- MCResponses
    MaxDepth = 2
    MaxParallel = 2
INVARIANT
    TreeLedgerHonest
