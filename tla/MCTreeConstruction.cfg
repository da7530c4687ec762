SPECIFICATION Spec
CONSTANTS
    crate = crate
    api = api
    api_v2 = api_v2
    db = db
    postgres = postgres
    sqlite = sqlite
    env = env
    local = local
    Segments <- MCSegments
    LongerNames <- MCLongerNames
    Modules <- MCModules
    Cases <- MCCases
    Functions <- MCFunctions
    Seeds = {0, 1}
    NoSeed = NoSeed
    MaxProps = 2
    CommandLines <- MCCommandLines
    SuiteTag = SuiteTag
    NoTimeout = NoTimeout
    NoDep = NoDep
    NoLock = NoLock
INVARIANTS
    TreeIsSuiteTree
    LocksHandedDown
    SameInEachWorker
    EveryCaseOnce
