\* Three imports and two definitions of functions; two new values of a vector in
\* a call.
CONSTANTS
    Imports = {"i1", "i2", "i3"}
    Definitions = {"d1", "d2"}
    ValuesOf <- MCValuesOf
    MaxNew = 2

SPECIFICATION OrderSpec

INVARIANT ImportsFirst
INVARIANT OneIndexEach
