\* Two locks of two principals, on related and unrelated paths, with and without a timeout.
SPECIFICATION Spec
CONSTANTS
    Names <- MCNames
    Paths <- MCPaths
    t1 = t1
    t2 = t2
    Tokens = {t1, t2}
    Principals = {"alice", "bob"}
    Timeouts = {1}
    Never = Never
    MaxTime = 1
    Deleted <- MCMembers
INVARIANTS TypeOK NoIncompatibleLocks RefusesExactlyConflicts CheckIsExact DiscoverIsExact HolderFindsLock
PROPERTIES EndedStaysEnded ImplementsLockTable
CHECK_DEADLOCK FALSE
