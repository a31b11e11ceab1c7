CONSTANTS
    W = 6
    Table <- MCTable
SPECIFICATION Spec
\* Decoding one instruction ends with its handler called or reported undefined.
CHECK_DEADLOCK FALSE
INVARIANT DecodesAsTable
