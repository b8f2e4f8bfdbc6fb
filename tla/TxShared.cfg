SPECIFICATION Spec
CONSTANTS
    c1 = c1
    c2 = c2
    c3 = c3
    c4 = c4
    c5 = c5
    long = long
    even = even
    short = short
    empty = empty
    absent = absent
    Clients = {c1, c2}
    Files <- MCFiles
    Present <- MCPresent
    Size <- MCSize
    Payload = 2
    Wants <- WantsShared
    Garbage <- GarbageAny
    MaxFds = 2
    Copies <- Duplicates
    Reordering = FALSE
    Exclusive = FALSE
    Faults = {"abort", "recv"}
CHECK_DEADLOCK FALSE
INVARIANT ReadOrder
CONSTRAINT FewInFlight
