SPECIFICATION Spec
CONSTANTS
    BootCPU = c1
    Main = main
    Ready = Ready
    None = None
    CPUs = {c1, c2, c3}
    Threads = {main, t1, t2}
    Mutexes = {}
    CVs = {}
    LateBoot = FALSE
SYMMETRY Symmetric
INVARIANTS
    WorkConserving
CHECK_DEADLOCK FALSE
