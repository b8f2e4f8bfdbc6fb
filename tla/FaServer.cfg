SPECIFICATION FairSpec
CONSTANTS
    h1 = h1
    self = self
    Hosts <- MCHosts
    Self = self
    Tids <- MCTids
    MaxDatagrams = 2
    MayFail = TRUE
INVARIANT TypeOK
INVARIANT AnnouncementsInOrder
PROPERTY AllRead
CHECK_DEADLOCK FALSE
