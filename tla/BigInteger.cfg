SPECIFICATION Spec
CONSTANTS
    NR_DIGITS = 6
    Ints <- MCInts
    StackLimit = 5
INVARIANT TypeOK
INVARIANT SumExact
INVARIANT ProductExact
INVARIANT EndsUnlessSameLead
CHECK_DEADLOCK FALSE
