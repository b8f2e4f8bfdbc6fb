SPECIFICATION Spec
CONSTANTS
    Values <- MCValues
    Type = "MIN_HEAP"
    InitCapacity = 1
    Junk <- MCJunk
    MaxSize = 6
PROPERTY ImplementsQueue
INVARIANT TypeOK
INVARIANT HeapOrder
