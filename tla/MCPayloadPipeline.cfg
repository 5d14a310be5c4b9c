SPECIFICATION Spec
CONSTANTS
    k1 = k1
    k2 = k2
    w1 = w1
    w2 = w2
    small = small
    other = other
    large = large
    Absent = Absent
    Garbage = Garbage
    Key <- MCKey
    Writer <- MCWriter
    Payload <- MCPayload
    SizeOf <- MCSizeOf
    Pipelines <- MCPipelines
    Batches <- MCBatches
    Bytes <- MCBytes
    MaxBatches = 2
SYMMETRY Symmetry
INVARIANTS
    TypeOK
    DecodeIsExact
PROPERTIES
    ImplementsObjectStore
CHECK_DEADLOCK FALSE
