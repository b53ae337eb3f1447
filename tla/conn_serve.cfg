SPECIFICATION Spec
CONSTANTS
    Clients = {c1, c2}
    Fds = {1, 2}
    Messages <- ServeMessages
    StartTree <- SmallTree
    Samples <- ParseSamples
    Pauses <- CutPoints
    FS_BLOCKSIZE = 2
    FS_MAXUSERNAME = 1
    FS_MAXPATHNAME = 4
    FS_MAXFILENAME = 1
    FS_MAXFILEBLOCKS = 11
    UInt32 = 16
    ULong = 64
    NUL = NUL
    None = None
    Thrown = Thrown
SYMMETRY Symmetric
INVARIANTS
    TypeOK
    DescriptorsOwned
    Intended
    AnswersTrue
    ParserInverts
CHECK_DEADLOCK FALSE
