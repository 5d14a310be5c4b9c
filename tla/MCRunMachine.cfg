SPECIFICATION Spec
CONSTANTS
    c1 = c1
    c2 = c2
    lookup = lookup
    child = child
    odd = odd
    CallId = {c1, c2}
    ToolName = {lookup, child, odd}
    Registered = {lookup, child}
    ParallelSafe = {lookup, child}
    Delegating = {child}
    RequestTokens = 1
    MessageTokens = 1
    Plans <- MCPlans
    Responses <- MCResponses
    TokenBounds = {3}
    Durations = {1}
    MaxElapsed = 1
INVARIANTS
    TypeOK
    ModelCallBudget
    TokenBudget
    SnapshotsResume
    CompletedIsResolved
    OutcomesInOrder
PROPERTIES
    TerminalIsFinal
    DelegationLeavesShare
