\* Unpatch as a block invalidation: is an unpatched block ever entered again?
CONSTANTS
    PCs = {0, 4}
    Program <- MCProgram
    MaxCode = 3
    RSBSize = 2
    RunCycles = 3
    UnpatchEnabled = TRUE
    ResetRSBOnClear = TRUE
    Null = Null
    NoLoc = NoLoc
SPECIFICATION Spec
INVARIANT UnpatchedNotEntered
