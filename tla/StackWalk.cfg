SPECIFICATION Spec
CONSTANTS
    AddrSpace = 65536
    Half = 16
    CanonicalEnd = 200
    SearchWords = 6
    MaxGap = 40
    MaxErrors = 3
    NULL = NULL
    SymbolFiles <- MCSymbolFiles
    Scenes <- MCScenes
    MaxWalks = 2
CHECK_DEADLOCK FALSE
INVARIANT TypeOK
INVARIANT ChainRecovered
INVARIANT WalkGetsOn
INVARIANT ScansFindCode
INVARIANT SymbolsKnown
INVARIANT NamesAreRight
