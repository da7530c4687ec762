SPECIFICATION FairSpec
CONSTANTS
    q = q
    c = c
    p = p
    e = e
    r1 = r1
    q1 = q1
    q2 = q2
    c1 = c1
    p1 = p1
    Segments <- MCSegments
    Nodes <- MCNodes
    Marked <- NestedSequential
    Rank <- MCRank
    Tests <- MCTests
    OwnTests <- MCOwnTests
    Threads = {t1, t2, t3}
    NoThread = NoThread
    NoJob = NoJob
    DepNodes <- MCDepNodes
    SkipCreating = FALSE
INVARIANTS
    SequentialExclusion
    LockNeverWaits
    CountsMatch
    EveryTestInOnePlace
    DepsBuiltOnce
    FailedPickMissedNothing
PROPERTIES
    AllReportedAndJoined
    ImplementsSchedule
