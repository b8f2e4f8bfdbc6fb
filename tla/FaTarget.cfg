SPECIFICATION Spec
CONSTANTS
    h1 = h1
    self = self
    Hosts <- MCHosts
    Self = self
    Tids <- MCTids
    MaxDatagrams = 2
    MayFail = TRUE
INVARIANT TargetIsTheAsker
CHECK_DEADLOCK FALSE
