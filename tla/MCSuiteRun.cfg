SPECIFICATION FairSpec
CONSTANTS
    t1 = t1
    t2 = t2
    Tests <- MCTests
    MaxThreads = 2
    Arguments <- MCArguments
    FlakyRun = 2
    MaxPieces = 2
    InstallMayFail = TRUE
INVARIANTS
    InstalledOrNot
    OwnerLinesKept
    AttributedInWindow
    LogKeptUpToDate
PROPERTIES
    MainExits
