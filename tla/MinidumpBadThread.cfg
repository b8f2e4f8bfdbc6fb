SPECIFICATION RfSpec
CONSTANTS
    Dumps = {"onebad"}
    Cells <- MCCells
    AddrSpace = 16
    MaxItems = 6
    MaxBytes = 3
    MaxReads = 2
    NULL = NULL
    MaxProcess = 1
    EnableExploitability = FALSE
CHECK_DEADLOCK FALSE
INVARIANT OneBadThreadIsNotAll
