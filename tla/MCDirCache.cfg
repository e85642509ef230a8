\* A file that is there all the time, and listings of its directory.
SPECIFICATION Spec
CONSTANTS
    c1 = c1
    c2 = c2
    l1 = l1
    l2 = l2
    Clients = {c1, c2}
    Listings = {l1, l2}
    Base <- MCBase
    Dirs <- MCDirs
    DotNames <- MCDotNames
    Lower <- MCLower
    NameEntries = 2
    DirEntries = 4
    BatchSize = 2
    MaxMtime = 1
    Setups <- MCStaySetups
PROPERTIES SureDoesNotExist
CHECK_DEADLOCK FALSE
