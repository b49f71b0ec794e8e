\* Loads of vectors.
CONSTANTS
    Vector <- MCVector
    Locals <- MCLocals
    Bodies <- SimdBodies
    Files <- NoFiles
    RELOC_PAD = 5

SPECIFICATION Spec

INVARIANT LengthIsReal
