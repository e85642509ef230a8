\* delete() of the root, with a lock on it.
SPECIFICATION Spec
CONSTANTS
    Names <- MCNames
    Paths <- MCPaths
    t1 = t1
    t2 = t2
    Tokens = {t1, t2}
    Principals = {"alice"}
    Timeouts = {1}
    Never = Never
    MaxTime = 1
    Deleted <- MCPaths
INVARIANTS DeleteEndsAllBelow
CHECK_DEADLOCK FALSE
