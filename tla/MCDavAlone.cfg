\* One connection: requests of every kind, one at a time, in any sequence.
SPECIFICATION Spec
CONSTANTS
    Names <- MCNames
    Paths <- MCPaths
    c1 = c1
    c2 = c2
    t1 = t1
    Conns = {c1}
    Contents = {c1}
    Dir = Dir
    Tokens = {t1}
    Principals = {"alice"}
    Timeouts = {}
    Never = Never
    NoToken = NoToken
    Workload <- MCAlone
    Concurrent = FALSE
    Faults <- MCOtherFaults
    Drops = FALSE
    MaxTime = 0
INVARIANTS NoStrayLocks
PROPERTIES CopyIsComplete
CHECK_DEADLOCK FALSE
