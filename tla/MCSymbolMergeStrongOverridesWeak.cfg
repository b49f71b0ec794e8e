\* A weak definition followed by a strong one.
CONSTANTS
    FuncNames = {"f", "w"}
    DataNames = {"d"}
    ImportNames = {"g"}
    NumObjects = 2
    Statuses = {"absent", "undef", "weak", "strong"}
    Operands <- MCOperands
    Relocs <- MCRelocs
    CtorNames = {"f"}
    None = None
    Undefined = Undefined

SPECIFICATION Spec

INVARIANT StrongOverridesWeak
