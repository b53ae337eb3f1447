SPECIFICATION FairSpec
CONSTANTS
    BootCPU = c1
    Main = main
    Ready = Ready
    None = None
    CPUs = {c1, c2}
    Threads = {main, t1, t2}
    Mutexes = {m1}
    CVs = {v1}
    LateBoot = TRUE
INVARIANTS
    TypeOK
    MutualExclusion
    GuardHeld
    NoContextTwice
    NoContextLost
    StacksFreedOnce
    MutexNotLost
    JoinersReleased
PROPERTIES ImplementsMonitor ReadyRuns
CHECK_DEADLOCK FALSE
