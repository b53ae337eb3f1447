SPECIFICATION Spec
CONSTANTS
    u1 = u1
    u2 = u2
    Threads = {t1, t2, t3}
    Users = {u1, u2}
    Names = {"d", "f"}
    Data = {"v1", "v2"}
    RootOwner = RootOwner
    None = None
    Requests <- DataRequests
    Images <- DataImages
    FS_DISKSIZE = 8
    FS_DIRENTRIES = 2
    FS_MAXFILEBLOCKS = 2
    MaxRequests = 3
    MaxDepth = 2
SYMMETRY Symmetric
INVARIANTS NoOneLeftOnErasedLock LocksExclude
PROPERTY ImplementsAtomic
