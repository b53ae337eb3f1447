SPECIFICATION CrashSpec
CONSTANTS
    u1 = u1
    u2 = u2
    Threads = {t1, t2}
    Users = {u1, u2}
    Names = {"d", "f", "g"}
    Data = {"v1", "v2"}
    RootOwner = RootOwner
    None = None
    Requests <- CrashRequests
    Images <- CrashImages
    FS_DISKSIZE = 8
    FS_DIRENTRIES = 1
    FS_MAXFILEBLOCKS = 2
    MaxRequests = 3
    MaxDepth = 2
SYMMETRY Symmetric
INVARIANTS TypeOK NamesUnique RestartSafe BlocksAccounted
PROPERTY ImplementsAtomic
