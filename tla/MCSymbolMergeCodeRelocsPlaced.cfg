\* A datum defined by the object whose other definition of a function is dropped.
CONSTANTS
    FuncNames = {"f", "w"}
    DataNames = {"d"}
    ImportNames = {"g"}
    NumObjects = 2
    Statuses = {"absent", "undef", "weak"}
    Operands <- MCOperands
    Relocs <- MCRelocs
    CtorNames = {"f"}
    None = None
    Undefined = Undefined

SPECIFICATION Spec

INVARIANT CodeRelocsPlaced
