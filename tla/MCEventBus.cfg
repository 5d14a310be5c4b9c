SPECIFICATION LiveSpec
CONSTANTS
    run = run
    child_run = child_run
    first = first
    second = second
    Emitter = {run, child_run}
    Root = run
    Receiver = {first, second}
    Attached = first
    Capacity = 2
    MaxEvents <- MCMaxEvents
    Delta <- MCDelta
INVARIANTS
    TypeOK
    NeverReordered
    NeverDropped
PROPERTIES
    BusCloses
