\* Every kind of function.
CONSTANTS
    Kinds = {"argument", "nested", "frame", "table", "builtin", "float"}
    Functions <- MCFunctions
SPECIFICATION Spec
INVARIANT MeaningKeptButKnown
INVARIANT FindsProducer
INVARIANT ValidButKnown
INVARIANT RemovedWhenUnused
PROPERTY Advances
CHECK_DEADLOCK FALSE
