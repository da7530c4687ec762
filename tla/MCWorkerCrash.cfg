SPECIFICATION FairSpec
CONSTANTS
    q = q
    p = p
    r1 = r1
    q1 = q1
    q2 = q2
    p1 = p1
    dep = dep
    Segments <- MCSegments
    Nodes <- MCNodes
    Marked <- MCSequential
    Rank <- MCRank
    Tests <- MCTests
    OwnTests <- MCOwnTests
    Threads = {t1, t2}
    NoThread = NoThread
    NoTest = NoTest
    Ignored <- MCIgnored
    Shipped <- MCShipped
    MaxCalls = 1
    MaxCrashes = 1
CHECK_DEADLOCK FALSE
INVARIANTS
    FramesInStep
    ResultsAreEarned
    CommandedTestIsLeft
PROPERTIES
    LostTestAborts
    EndsOnceConnected
    AllReported
    ImplementsSchedule
