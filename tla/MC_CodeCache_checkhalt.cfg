\* A halt request met by CheckHalt in a block that has not written the PC:
\* is the JitState left at the guest's location?
CONSTANTS
    PCs = {0, 4}
    Program <- MCProgramLoop
    MaxCode = 2
    RSBSize = 2
    RunCycles = 3
    UnpatchEnabled = FALSE
    ResetRSBOnClear = TRUE
    Null = Null
    NoLoc = NoLoc
SPECIFICATION Spec
INVARIANT EnterAtRightLocation
