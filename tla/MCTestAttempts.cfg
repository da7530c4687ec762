SPECIFICATION Spec
CONSTANTS
    t1 = t1
    t2 = t2
    Tests <- MCTests
    Declared <- MCDeclared
    MaxTasks = 3
    MaxPanics = 2
    Migrates = TRUE
INVARIANTS
    DetachedPanicsCharged
    JudgedByOwnPanic
    VerdictByAttempts
