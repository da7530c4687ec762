SPECIFICATION FairSpec
CONSTANTS
    NumTests = 4
    Captured <- MCCaptured
    MaxLines <- MCMaxLines
    MaxLate = 1
    EndsLines = TRUE
    MayCrash = TRUE
INVARIANTS
    OwnOutputOnly
    CapturedNotShown
PROPERTIES
    DrainEnds
