\* Without the marker the parent sleeps and looks again for ever, which is a stuttering step.
CHECK_DEADLOCK FALSE
SPECIFICATION FairSpec
CONSTANTS
    NumTests = 4
    Captured <- MCCaptured
    MaxLines <- MCMaxLines
    MaxLate = 0
    EndsLines = FALSE
    MayCrash = FALSE
PROPERTIES
    DrainEnds
