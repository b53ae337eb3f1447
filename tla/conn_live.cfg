SPECIFICATION FairSpec
CONSTANTS
    Clients = {c1, c2}
    Fds = {1}
    Messages <- DataMessages
    StartTree <- SmallTree
    Samples = {}
    Pauses <- Anywhere
    FS_BLOCKSIZE = 2
    FS_MAXUSERNAME = 1
    FS_MAXPATHNAME = 4
    FS_MAXFILENAME = 1
    FS_MAXFILEBLOCKS = 11
    UInt32 = 16
    ULong = 64
    NUL = NUL
    None = None
    Thrown = Thrown
PROPERTIES
    Served
CHECK_DEADLOCK FALSE
