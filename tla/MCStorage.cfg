SPECIFICATION MCSpec
CONSTANTS
    Keys <- MCKeys
    Values = {v1}
    Absent = Absent
    Untouched = Untouched
    None = None
    MaxOps = 4
    NIL = NIL
    Contents = {c1, c2}
    Readers = {r1, r2}
    MaxSegments = 2
    MaxCrashes = 1
    Owners = {1, 2}
    MaxEvents = 3
INVARIANTS DiskPlusRootsIsRam PrefixesAntichain AbsorbAllMatchesLoop ReadsFindLive BytesKeptExactly VectorsMatchSource
PROPERTIES OwnersCaughtUp
CHECK_DEADLOCK FALSE
