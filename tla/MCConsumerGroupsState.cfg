SPECIFICATION MCSpec
CONSTANTS
    Topics = {1}
    Groups = {g1}
    Members = {1, 2}
    Protocols = {1, 2}
    Subscriptions <- MCSubscriptions
    Proposals <- MCProposals
    SessionTimeouts = {1, 2}
    PartitionCounts = {1}
    Unreadable = Unreadable
    NIL = NIL
    MaxGeneration = 3
    MaxOffset = 1
    MaxTime = 2
    MaxWords = 4
    MaxLag = 3
INVARIANT GroupStateValid
