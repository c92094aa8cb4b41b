SPECIFICATION EmbeddingSpec
CONSTANTS
    Owners = {1}
    MaxEvents = 2
    NIL = NIL
PROPERTIES EveryOwnerCaughtUp
CHECK_DEADLOCK FALSE
