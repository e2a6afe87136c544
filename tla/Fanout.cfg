\* Two cursors, a ring of two items, and a backlog that may expire.
CONSTANTS
    Cursors = {c1, c2}
    Capacity = 2
    WaitModulus = 16
    MaxItems = 6
    AppendSizes = {2}
    ReadSizes = {1, 2}
    MaxAppends = 2
SPECIFICATION FairSpec
CHECK_DEADLOCK FALSE
INVARIANTS
    WaitExact
    NoSilentGap
PROPERTIES
    ReadersWoken
