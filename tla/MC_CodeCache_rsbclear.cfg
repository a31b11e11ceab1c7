\* A cache clear that leaves the JitState RSB as it is: does control still enter the right block?
CONSTANTS
    PCs = {0, 4}
    Program <- MCProgram
    MaxCode = 3
    RSBSize = 2
    RunCycles = 3
    UnpatchEnabled = FALSE
    ResetRSBOnClear = FALSE
    Null = Null
    NoLoc = NoLoc
SPECIFICATION Spec
INVARIANT EnterAtRightLocation
