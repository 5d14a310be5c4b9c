SPECIFICATION Spec
CONSTANTS
    c1 = c1
    lookup = lookup
    child_agent = child_agent
    tools = tools
    schema = schema
    input = input
    output = output
    CallId = {c1}
    ToolName = {lookup, child_agent}
    Registered = {lookup, child_agent}
    ParallelSafe = {}
    Delegating = {child_agent}
    RequestTokens = 2
    MessageTokens = 1
    Feature = {tools, schema}
    Field = {input, output}
    Routes <- MCRoutes
    Needs <- MCNeeds
    Plans <- MCPlans
    OutputReserve = 1
    Reports <- MCReports
    Responses <- MCResponses
    ChildLedgers <- MCChildLedgers
    MaxRounds = 2
INVARIANTS
    TypeOK
    OutputShownOnce
    CallsAdmitted
    LedgerTrue
