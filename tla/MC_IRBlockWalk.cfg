CONSTANTS
    Opcodes <- MCOpcodes
    Conds <- MCConds
    Terms <- MCTerms
    Locs = {l1}
    MaxInsts = 4
    MaxCycles = 2
    ImmBits = 3
    None = None
    NoArg = NoArg
    End = End
SPECIFICATION Spec
PROPERTY WalkSpec
