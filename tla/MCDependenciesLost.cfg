SPECIFICATION Spec
CONSTANTS
    MaxDep = 3
    Home <- AllInRoot
INVARIANT
    UsedDepsAvailable
