\* A creation that fails removes what another request has created.
SPECIFICATION Spec
CONSTANTS
    c1 = c1
    c2 = c2
    Conns = {c1, c2}
    Faulty = {c1}
    Workload <- MCWorkload
    Valid <- MCValid
    MaxResource = 2
    MaxPos = 3
    Stored <- MCStored
    NoCount = NoCount
    NoBytes = NoBytes
    NoFile = NoFile

CHECK_DEADLOCK FALSE
PROPERTIES CleanupRemovesOwn
