\* Three segments of two sizes and three alignments, over .rodata, .data, one
\* custom section and .bss.
CONSTANTS
    NumSegments = 3
    NumSections = 4
    Alignments <- MCAlignments
    Sizes <- MCSizes

SPECIFICATION FairSpec

INVARIANT ImageDisjoint
INVARIANT ImageAligned
INVARIANT SectionsTile
INVARIANT ClassOrderKept

PROPERTY EverythingLaid
