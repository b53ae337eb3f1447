SPECIFICATION Spec
CONSTANTS
    Pids = {p1, p2}
    page_table_size = 3
    Frames = {r1}
    NullPage = r0
    SwapBlocks = {s1}
    Files = {f1, f2}
    Blocks = {b1}
    Values = {zero, x}
    Zero = zero
    Garbage = x
    f1 = f1
    f2 = f2
    FileName <- NamedByLast
    MaxTwins = 2
    NamesKnown = FALSE
    Ok = Ok
    Fail = Fail
    None = None
    Expired = Expired
SYMMETRY Symmetric
INVARIANT AssertsHold
