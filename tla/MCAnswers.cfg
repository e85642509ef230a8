SPECIFICATION Spec
CHECK_DEADLOCK FALSE
CONSTANTS
    Streams = {"body", "reports"}
    GetRequests <- MCGetRequests
    IndexEntries <- MCEntries
    Lengths = {0, 1, 3, 5}
    MaxU64 = 15
    ReadBufSize = 2
    ZeroBuf = 2
    MaxChanges = 2
    ReqPath = "/a"
    Paths = {"/a", "/a/b"}
    Statuses = {"204", "423"}
    MaxStatuses = 3
    Nodes <- MCNodes
    Collections <- MCCollections
    FindRequests <- MCFindRequests
    MaxMoves = 2
    DotNames = {".h", ".dav-calendar"}
    Markers = {".dav-calendar"}
    Links <- MCLinks
INVARIANTS
    DeliversInOrder
    BodyIsAsPromised
    PartsAreWhole
    TellsWhatHappened
    ListsWhatIsThere
PROPERTY AnswerEnds
