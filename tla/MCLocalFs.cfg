\* Calls of two clients on disks with links, with names in any case, and for macOS with two listings.
SPECIFICATION Spec
CONSTANTS
    c1 = c1
    c2 = c2
    l1 = l1
    l2 = l2
    Clients = {c1, c2}
    Listings = {l1, l2}
    Base <- MCBase
    Dirs <- MCDirs
    DotNames <- MCDotNames
    Lower <- MCLower
    NameEntries = 2
    DirEntries = 2
    BatchSize = 2
    MaxMtime = 2
    Setups <- MCSetups
SYMMETRY MCSymmetry
INVARIANTS CachedDirKnowsItsFiles ListingIsComplete FindsAnySpelling
PROPERTIES OutsideUntouched FailureAloneChangesOnlyDestination
CHECK_DEADLOCK FALSE
