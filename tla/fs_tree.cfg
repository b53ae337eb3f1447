SPECIFICATION Spec
CONSTANTS
    u1 = u1
    u2 = u2
    Threads = {t1, t2, t3}
    Users = {u1, u2}
    Names = {"d", "f"}
    Data = {"v1", "v2"}
    RootOwner = RootOwner
    None = None
    Requests <- TreeRequests
    Images <- TreeImages
    FS_DISKSIZE = 8
    FS_DIRENTRIES = 2
    FS_MAXFILEBLOCKS = 2
    MaxRequests = 4
    MaxDepth = 2
SYMMETRY Symmetric
INVARIANTS CopiesCurrent WritersAlone
PROPERTY ImplementsAtomic
