\* Two objects that say anything of two functions, a datum and an imported global.
CONSTANTS
    FuncNames = {"f", "w"}
    DataNames = {"d"}
    ImportNames = {"g"}
    NumObjects = 2
    Statuses = {"absent", "undef", "strong", "local"}
    Operands <- MCOperands
    Relocs <- MCRelocs
    CtorNames = {"f"}
    None = None
    Undefined = Undefined

SPECIFICATION Spec

INVARIANT TableAgrees
INVARIANT UndefinedIsUnresolved
INVARIANT ImageIsTableButKnown
INVARIANT OperandsBoundButKnown
INVARIANT RelocsBound
INVARIANT RelocsOnceButKnown
INVARIANT CtorsExact

PROPERTY ImplementsResolution
