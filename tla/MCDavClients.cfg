\* alice and bob on the same resources, bob with locks that may time out, and calls that fail.
SPECIFICATION Spec
CONSTANTS
    Names <- MCNames
    Paths <- MCPaths
    c1 = c1
    c2 = c2
    t1 = t1
    Conns = {c1, c2}
    Contents = {c1, c2}
    Dir = Dir
    Tokens = {t1}
    Principals = {"alice", "bob"}
    Timeouts = {1}
    Never = Never
    NoToken = NoToken
    Workload <- MCClients
    Concurrent = TRUE
    Faults <- MCAnyFault
    Drops = FALSE
    MaxTime = 1
INVARIANTS TypeOK FailedLockLeavesNothing
PROPERTIES LocksRespected LocksEndOnlyByRight SourceSurvives FreshChangesNothingOld
CHECK_DEADLOCK FALSE
