SPECIFICATION Spec
CONSTANTS
    c1 = c1
    c2 = c2
    c3 = c3
    lookup = lookup
    child_agent = child_agent
    odd = odd
    CallId = {c1, c2, c3}
    ToolName = {lookup, child_agent, odd}
    Registered = {lookup, child_agent}
    ParallelSafe = {lookup, child_agent}
    Delegating = {child_agent}
    RequestTokens = 1
    MessageTokens = 1
    Plans <- MCPlans
    Histories <- MCHistories
    Responses <- MCResponses
    TokenBounds = {2}
    ToolAttempts <- MCToolAttempts
    MaxParallel = 2
INVARIANTS
    ChildrenStop
