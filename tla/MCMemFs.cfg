\* Two handles on files that are written, moved, copied over and removed.
SPECIFICATION Spec
CONSTANTS
    Names <- MCNames
    Paths <- MCPaths
    Contents <- MCContents
    Dir = Dir
    h1 = h1
    h2 = h2
    Handles = {h1, h2}
    Closed = Closed
    Gone = Gone
    Buffers <- MCBuffers
    MaxLen = 2
    MaxPos = 2
    Renames <- MCRenames
    Mkcols <- MCMkcols
    MaxNodes = 3
SYMMETRY MCSymmetry
INVARIANTS ArenaIsTree AnswersAgree
PROPERTIES ImplementsFileStore
CHECK_DEADLOCK FALSE
