CONSTANTS
    Opcodes <- MCOpcodes
    Conds <- MCConds
    Terms <- MCTerms
    Locs = {l1}
    MaxInsts = 1
    MaxCycles = 6
    ImmBits = 3
    None = None
    NoArg = NoArg
    End = End
SPECIFICATION Spec
\* Counts up to 6 pass EmitAddCycles' ASSERT (< 2^3 - 1); 4..6 set the
\* immediate's sign bit.
INVARIANT CyclesSubtracted
