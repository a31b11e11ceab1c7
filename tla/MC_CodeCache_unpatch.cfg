\* The host also invalidates single blocks (Unpatch) and clears the cache
\* without emptying the RSB: patch sites must still never reach a block
\* other than the one registered for their target.
CONSTANTS
    PCs = {0, 4}
    Program <- MCProgram
    MaxCode = 3
    RSBSize = 2
    RunCycles = 3
    UnpatchEnabled = TRUE
    ResetRSBOnClear = FALSE
    Null = Null
    NoLoc = NoLoc
SPECIFICATION Spec
INVARIANT SiteTargetsCurrent
