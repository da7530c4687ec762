SPECIFICATION Spec
CONSTANTS
    MaxDep = 3
    Home <- LastIsInner
INVARIANTS
    OwnersBuiltInParent
    InputsAvailable
    NoneLost
    NoneRefused
