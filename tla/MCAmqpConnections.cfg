CONSTANTS
    q1 = q1
    o1 = o1
    o2 = o2
    o3 = o3
    o4 = o4
    t1 = t1
    t2 = t2
    NIL = NIL
    Exchanges = {}
    Queues = {q1}
    Owners = {o1, o2, o3, o4}
    Consumers = {1, 2, 3}
    Channels = {1, 2, 3, 4}
    ConsumerTags = {t1, t2}
    Starts <- FromFirst
    Limits = {0, 1, 2}
    Declarations <- OneQueue
    Retentions <- NoPolicy
    LeaseMillis = 1
    MaxMessages = 2
    MaxStreams = 2
    MaxOffset = 2
    MaxTime = 1
    MaxBatch = 2
    MaxTags <- MCMaxTags
SPECIFICATION MCSpec
SYMMETRY Symmetry
INVARIANT HeldByChannel
PROPERTIES PrefetchRespected SettlesOnlyNamed
CHECK_DEADLOCK FALSE
