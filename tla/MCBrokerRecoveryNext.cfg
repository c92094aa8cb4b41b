CONSTANTS
    q1 = q1
    o1 = o1
    o2 = o2
    t1 = t1
    NIL = NIL
    Exchanges = {}
    Queues = {q1}
    Owners = {o1, o2}
    Consumers = {1}
    Channels = {1}
    ConsumerTags = {t1}
    Starts <- FromNext
    Limits <- NoLimit
    Declarations <- MCDeclarations
    Retentions <- NoPolicy
    LeaseMillis = 2
    MaxMessages = 3
    MaxStreams = 1
    MaxOffset = 3
    MaxTime = 1
    MaxBatch = 2
    MaxTags <- MCMaxTags
    Topics = {1}
    Groups = {g1}
    Members = {1, 2}
    Protocols = {1}
    Subscriptions <- OneSubscription
    Proposals = {}
    SessionTimeouts = {1}
    PartitionCounts = {1}
    Unreadable = Unreadable
    MaxGeneration = 2
SPECIFICATION MCSpec
PROPERTY StreamDelivered
CHECK_DEADLOCK FALSE
