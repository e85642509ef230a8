\* Two clients whose requests must all be answered, one of which locks, while connections are lost.
SPECIFICATION Spec
CONSTANTS
    Names <- MCNames
    Paths <- MCPaths
    c1 = c1
    c2 = c2
    t1 = t1
    Conns = {c1, c2}
    Contents = {c1, c2}
    Dir = Dir
    Tokens = {t1}
    Principals = {"alice"}
    Timeouts = {}
    Never = Never
    NoToken = NoToken
    Workload <- MCEnds
    Concurrent = TRUE
    Faults <- MCAnyFault
    Drops = TRUE
    MaxTime = 0
PROPERTIES EveryRequestEnds
CHECK_DEADLOCK FALSE
