SPECIFICATION ProcessSpec
CONSTANTS
    Dumps = {"crash", "contexts", "amd64", "apart", "overlap", "inside", "ashmem", "lists", "twice", "asked", "stack", "benign", "windows"}
    Cells <- MCCells
    AddrSpace = 16
    MaxItems = 6
    MaxBytes = 3
    MaxReads = 2
    NULL = NULL
    MaxProcess = 2
    EnableExploitability = TRUE
CHECK_DEADLOCK FALSE
INVARIANT TypeOK
INVARIANT SameAnswers
INVARIANT OwnData
INVARIANT ModulesHaveTheirAddresses
INVARIANT AccessInside
INVARIANT StacksFollowTheList
INVARIANT RequestingThreadIsTheWantedOne
INVARIANT CrashedThreadHasExceptionContext
INVARIANT CopyKeepsModules
INVARIANT TraceHasEveryStack
PROPERTY FailureIsFinal
