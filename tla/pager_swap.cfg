SPECIFICATION Spec
CONSTANTS
    Pids = {p1, p2, p3}
    page_table_size = 2
    Frames = {r1, r2}
    NullPage = r0
    SwapBlocks = {s1, s2, s3}
    Files = {}
    Blocks = {}
    Values = {zero, x}
    Zero = zero
    Garbage = x
    f1 = f1
    f2 = f2
    FileName <- NamedByLast
    MaxTwins = 1
    NamesKnown = TRUE
    Ok = Ok
    Fail = Fail
    None = None
    Expired = Expired
SYMMETRY Symmetric
INVARIANTS
    TypeOK
    AssertsHold
    FramesAccounted
    SwapAccounted
    CleanOnDisk
PROPERTIES
    FaultsResolve
    ImplementsMemory
