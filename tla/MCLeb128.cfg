\* Groups of 3 bits, Numbers of 8 and BigInts of 10: as with 7, 32 and 64, a
\* Number ends inside a group, and one bit of a BigInt is left for the last.
CONSTANTS
    GroupBits = 3
    NumberBits = 8
    BigBits = 10
    MaxNumber = 127
    Paddings = {0, 3}
    MaxForeign = 5
    ForeignSlices = {0, 3, 4, 7}

SPECIFICATION Spec

INVARIANT LengthPredicted
INVARIANT RoundTrip
INVARIANT BigAcceptedIsDenoted
