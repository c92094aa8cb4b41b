CONSTANTS
    x1 = x1
    q1 = q1
    q2 = q2
    q3 = q3
    q4 = q4
    o1 = o1
    o2 = o2
    o3 = o3
    c1 = c1
    NIL = NIL
    Exchanges = {x1}
    Queues = {q1, q2, q3, q4}
    Owners = {o1, o2, o3}
    Consumers = {c1}
    Declarations <- MCDeclarations
    Retentions <- MCRetentions
    LeaseMillis = 1
    MaxMessages = 2
    MaxStreams = 3
    MaxOffset = 2
    MaxTime = 2
    MaxBatch = 2
SPECIFICATION MCSpec
SYMMETRY Symmetry
INVARIANTS QueuesInv RedeliveredExact
PROPERTIES ReferencesStable SettledNotDelivered RetentionKeepsDeliveries OffsetsMonotone
CHECK_DEADLOCK FALSE
