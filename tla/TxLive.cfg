SPECIFICATION FairSpec
CONSTANTS
    c1 = c1
    c2 = c2
    c3 = c3
    c4 = c4
    c5 = c5
    long = long
    even = even
    short = short
    empty = empty
    absent = absent
    Clients = {c1, c2, c3, c4, c5}
    Files <- MCFiles
    Present <- MCPresent
    Size <- MCSize
    Payload = 2
    Wants <- WantsAll
    Garbage <- GarbageAny
    MaxFds = 5
    Copies <- Reliable
    Reordering = FALSE
    Exclusive = TRUE
    Faults = {}
CHECK_DEADLOCK FALSE
PROPERTY AllServed
PROPERTY AllEnd
PROPERTY ServerAvailable
PROPERTY ExitOnlyWhenOver
