SPECIFICATION FairSpec
CONSTANTS
    IntHalf = 4
    Messages <- MCMessages
    Faults <- MCFaults
    MaxEvents = 4
    MaxCalls = 2
INVARIANT TypeOK
INVARIANT RepliesCount
INVARIANT RepliesGrow
PROPERTY CallsAnswered
CHECK_DEADLOCK FALSE
