\* Every instruction that the switches tell apart, alone, in pairs and in blocks.
CONSTANTS
    Vector <- MCVector
    Locals <- MCLocals
    Bodies <- MCBodies
    Files <- MCFiles
    RELOC_PAD = 5

SPECIFICATION Spec

INVARIANT WrittenAsMeasuredButLocals
INVARIANT DecodeRestores
INVARIANT OperandsPlaced
INVARIANT FilesDecoded
