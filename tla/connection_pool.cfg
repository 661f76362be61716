SPECIFICATION Spec
CONSTANTS
    Calls = {c1, c2, u1, u2}
    Chunked = {u1, u2}
    MaxSize = 2
    MaxPools = 2
INVARIANTS
    TypeOK
    PlacesAccounted
PROPERTIES
    WaitersServed
CHECK_DEADLOCK FALSE
