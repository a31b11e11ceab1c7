CONSTANTS
    PCs = {0, 4}
    Program <- MCProgram
    MaxCode = 3
    RSBSize = 2
    RunCycles = 3
    UnpatchEnabled = FALSE
    ResetRSBOnClear = TRUE
    Null = Null
    NoLoc = NoLoc
SPECIFICATION Spec
INVARIANTS
    TypeOK
    PatchComplete
    EnterAtRightLocation
    RSBSound
PROPERTIES
    HaltStopsRun
