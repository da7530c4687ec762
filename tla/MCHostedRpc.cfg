SPECIFICATION FairSpec
CONSTANTS
    w1 = w1
    w2 = w2
    b1 = b1
    b2 = b2
    d1 = d1
    Workers = {w1, w2}
    Inside = {b1, b2}
    Outside = {d1}
    Home <- MCHome
    Nobody = Nobody
    NumTests <- MCNumTests
    MaxCalls <- MCMaxCalls
INVARIANTS
    OwnerExclusive
    PoisonedOwnerIdle
    AnswersMatch
    InStepUnderContract
    ViewsShareOwner
PROPERTIES
    RunEnds
