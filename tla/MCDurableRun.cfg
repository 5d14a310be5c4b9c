SPECIFICATION LiveSpec
CONSTANTS
    c1 = c1
    c2 = c2
    lookup = lookup
    child_agent = child_agent
    odd = odd
    CallId = {c1, c2}
    ToolName = {lookup, child_agent, odd}
    Registered = {lookup, child_agent}
    ParallelSafe = {lookup}
    Delegating = {child_agent}
    RequestTokens = 1
    MessageTokens = 1
    Plans <- MCPlans
    Histories <- MCHistories
    Configs <- MCConfigs
    Responses <- MCResponses
INVARIANTS
    TypeOK
    RedeliveryIsOptIn
PROPERTIES
    ObservationsAdvance
    ImplementsContract
    RunCloses
