--------------------------- MODULE SegmentLayout ---------------------------
(***************************************************************************)
(* The memory image of the linked module: packDataSegments gives every     *)
(* data segment an offset in its data section, then performLinking lays    *)
(* the packed sections out one after the other and merges each one into a  *)
(* single passive data segment.                                            *)
(*                                                                         *)
(* Segments are numbered by their place in the linker's _dataSegments, so  *)
(* the head of an alignment class (arr.shift()) is its least number.       *)
(* Sections are numbered in output order: .rodata, .data, the custom       *)
(* sections, .bss.  Sections are packed independently of each other, so    *)
(* packing them in that order too changes nothing.                         *)
(*                                                                         *)
(* Some names are longer than elsewhere (LayoutInit, LayoutNext), as the   *)
(* proofs extend SymbolMerge too.                                          *)
(***************************************************************************)
EXTENDS Integers, FiniteSets

CONSTANTS
    NumSegments,   \* how many segments the linker holds
    NumSections,   \* .rodata, .data, .bss and the custom sections
    Alignments,    \* the alignments above one: 2^_alignment
    Sizes          \* the sizes a segment may have

\* Alignments are powers of two, so of any two the smaller divides the larger.
ASSUME LayoutAssumption ==
    /\ NumSegments \in Nat
    /\ NumSections \in Nat /\ NumSections >= 3
    /\ Alignments \subseteq Nat \ {0}
    /\ \A a, b \in Alignments : a <= b => b % a = 0
    /\ Sizes \subseteq Nat

VARIABLES
    align,         \* segment -> its alignment, 0 when none is asked (input)
    size,          \* segment -> its size (input)
    section,       \* segment -> the section it belongs to (input)
    phase,         \* "pack", then "lay", then "done"
    cur,           \* the section being packed or laid
    packed,        \* the segments that have an offset
    rloc,          \* segment -> offset in its section
    packedSize,    \* section -> _packedSize
    secSize,       \* section -> _size: the packed size and the padding after it
    padding,       \* section -> _paddingTotal
    off,           \* the offset in the memory image reached by the layout
    laid,          \* the sections laid so far
    last,          \* lastDataSection, 0 before the first
    relocStart     \* section -> _reloc_start

input == <<align, size, section>>
packVars == <<packed, rloc, packedSize>>
layVars == <<off, laid, last, relocStart>>
layoutVars == <<input, phase, cur, packVars, secSize, padding, layVars>>

Segments == 1..NumSegments
Sections == 1..NumSections
Bss == NumSections

\* .rodata, .data and .bss are left out when they are empty; a custom section is
\* always in the output.
BuiltinSections == {1, 2, Bss}
SegmentsOf(s) == {i \in Segments : section[i] = s}
InOutput(s) == s \notin BuiltinSections \/ SegmentsOf(s) # {}

\* Mutant: max_align is never raised.
IsMaxAlignZero(s, m) == m = 0

\* max_align of a section, stated by what it is rather than by its loop
IsMaxAlign(s, m) ==
    /\ m \in {align[i] : i \in SegmentsOf(s)} \cup {0}
    /\ \A i \in SegmentsOf(s) : align[i] <= m

\* How far x is from the next multiple of a; an alignment of 0 asks for nothing.
PadTo(x, a) == IF a = 0 \/ x % a = 0 THEN 0 ELSE a - (x % a)

LayoutInit ==
    /\ align \in [Segments -> Alignments \cup {0}]
    /\ size \in [Segments -> Sizes]
    /\ section \in [Segments -> Sections]
    /\ phase = "pack"
    /\ cur = 1
    /\ packed = {}
    /\ rloc = [i \in Segments |-> 0]
    /\ packedSize = [s \in Sections |-> 0]
    /\ secSize = [s \in Sections |-> 0]
    /\ padding = [s \in Sections |-> 0]
    /\ off = 0
    /\ laid = {}
    /\ last = 0
    /\ relocStart = [s \in Sections |-> 0]

-----------------------------------------------------------------------------
(* packDataSegments *)

Waiting == SegmentsOf(cur) \ packed
AlignedWaiting == {i \in Waiting : align[i] # 0}
Fits(i) == packedSize[cur] % align[i] = 0
\* Mutant: arr.pop() instead of arr.shift().
TailOfClass(i) == \A j \in AlignedWaiting : align[j] = align[i] => j <= i

HeadOfClass(i) == \A j \in AlignedWaiting : align[j] = align[i] => i <= j

\* Mutant: the padding is not added to the offset.
PlaceAfterNoPad(i, pad) ==
    /\ packed' = packed \cup {i}
    /\ rloc' = [rloc EXCEPT ![i] = packedSize[cur] + pad]
    /\ packedSize' = [packedSize EXCEPT ![cur] = @ + size[i]]
    /\ padding' = [padding EXCEPT ![cur] = @ + pad]
    /\ UNCHANGED <<input, phase, cur, secSize, layVars>>

\* dataSegment._rloc = offset; offset += size
PlaceAfter(i, pad) ==
    /\ packed' = packed \cup {i}
    /\ rloc' = [rloc EXCEPT ![i] = packedSize[cur] + pad]
    /\ packedSize' = [packedSize EXCEPT ![cur] = @ + pad + size[i]]
    /\ padding' = [padding EXCEPT ![cur] = @ + pad]
    /\ UNCHANGED <<input, phase, cur, secSize, layVars>>

\* Of the classes whose alignment divides the offset, the largest goes first.
PackFitting(i) ==
    /\ phase = "pack"
    /\ i \in AlignedWaiting
    /\ Fits(i)
    /\ \A j \in AlignedWaiting : Fits(j) => align[j] <= align[i]
    /\ HeadOfClass(i)
    /\ PlaceAfter(i, 0)

\* When no class fits, the smallest alignment is padded for.
PackPadded(i) ==
    /\ phase = "pack"
    /\ i \in AlignedWaiting
    /\ \A j \in AlignedWaiting : ~Fits(j) /\ align[i] <= align[j]
    /\ HeadOfClass(i)
    /\ PlaceAfter(i, PadTo(packedSize[cur], align[i]))

\* The segments that ask for no alignment come last, in their order.
PackUnaligned(i) ==
    /\ phase = "pack"
    /\ AlignedWaiting = {}
    /\ i \in Waiting
    /\ \A j \in Waiting : i <= j
    /\ PlaceAfter(i, 0)

FinishSection ==
    /\ phase = "pack"
    /\ Waiting = {}
    /\ secSize' = [secSize EXCEPT ![cur] = packedSize[cur]]
    /\ IF cur = NumSections
       THEN phase' = "lay" /\ cur' = 1
       ELSE phase' = phase /\ cur' = cur + 1
    /\ UNCHANGED <<input, packVars, padding, layVars>>

-----------------------------------------------------------------------------
(* The layout loop over outputSegments *)

\* Mutant: the loop stops one section short.
NextSectionShort ==
    IF cur >= NumSections - 1
    THEN phase' = "done" /\ cur' = cur
    ELSE phase' = phase /\ cur' = cur + 1

NextSection ==
    IF cur = NumSections
    THEN phase' = "done" /\ cur' = cur
    ELSE phase' = phase /\ cur' = cur + 1

\* Mutant: the padding is counted and _size left as it was.
PadLastUnsized(pad) ==
    /\ secSize' = secSize
    /\ padding' = IF last = 0 THEN padding ELSE [padding EXCEPT ![last] = @ + pad]

\* lastDataSection._size += pad
PadLast(pad) ==
    IF last = 0
    THEN UNCHANGED <<secSize, padding>>
    ELSE /\ secSize' = [secSize EXCEPT ![last] = @ + pad]
         /\ padding' = [padding EXCEPT ![last] = @ + pad]

\* The first section is not padded; a later one pads the section before it.
LaySection ==
    /\ phase = "lay"
    /\ InOutput(cur)
    /\ \E m \in Alignments \cup {0} :
         /\ IsMaxAlign(cur, m)
         /\ LET pad == IF last = 0 THEN 0 ELSE PadTo(off, m)
            IN  /\ PadLast(pad)
                /\ relocStart' = [relocStart EXCEPT ![cur] = off + pad]
                /\ off' = off + pad + packedSize[cur]
    /\ laid' = laid \cup {cur}
    /\ last' = cur
    /\ NextSection
    /\ UNCHANGED <<input, packVars>>

SkipSection ==
    /\ phase = "lay"
    /\ ~InOutput(cur)
    /\ NextSection
    /\ UNCHANGED <<input, packVars, secSize, padding, layVars>>

PackSegment ==
    \E i \in Segments : PackFitting(i) \/ PackPadded(i) \/ PackUnaligned(i)

Done == phase = "done" /\ UNCHANGED layoutVars

LayoutNext == PackSegment \/ FinishSection \/ LaySection \/ SkipSection \/ Done

LayoutSpec == LayoutInit /\ [][LayoutNext]_layoutVars

\* The loops of the linker run to their end: nothing else holds the thread.
FairSpec == LayoutSpec /\ WF_layoutVars(LayoutNext)

-----------------------------------------------------------------------------
(* What the memory image is *)

\* dataSegment._reloc once its section is laid
Reloc(i) == relocStart[section[i]] + rloc[i]
LaidSegments == {i \in Segments : section[i] \in laid}

\* What __start_ and __stop_ of a custom section resolve to: the two ends of the
\* merged data segment, whose size is _size.
SectionStart(s) == relocStart[s]
SectionStop(s) == relocStart[s] + secSize[s]

LayoutTypeOK ==
    /\ align \in [Segments -> Alignments \cup {0}]
    /\ size \in [Segments -> Sizes]
    /\ section \in [Segments -> Sections]
    /\ phase \in {"pack", "lay", "done"}
    /\ cur \in Sections
    /\ packed \in SUBSET Segments
    /\ rloc \in [Segments -> Nat]
    /\ packedSize \in [Sections -> Nat]
    /\ secSize \in [Sections -> Nat]
    /\ padding \in [Sections -> Nat]
    /\ off \in Nat
    /\ laid \in SUBSET Sections
    /\ last \in laid \cup {0}
    /\ relocStart \in [Sections -> Nat]

Apart(x, xlen, y, ylen) == x + xlen <= y \/ y + ylen <= x

\* No two segments share a byte of the memory image, whatever the sections
\* packed and laid so far (the offsets given by packDataSegments and the layout
\* loop of performLinking).
ImageDisjoint ==
    \A i, j \in LaidSegments :
        i # j => Apart(Reloc(i), size[i], Reloc(j), size[j])

\* Every segment of the memory image lies at a multiple of its alignment: the
\* offset in the section and the padding between sections add up to it.
ImageAligned ==
    \A i \in LaidSegments : align[i] # 0 => Reloc(i) % align[i] = 0

\* The merged data segment, allocated with _size bytes, holds every segment
\* copied into it by u8_memcpy.
CopyFits ==
    \A i \in LaidSegments :
        /\ i \in packed
        /\ rloc[i] + size[i] <= secSize[section[i]]

\* Two symbols of a section enclose its segments, and the section ends where the
\* next one of the output starts: passive segments copied at _reloc_start with
\* _size bytes each never run into each other.
SectionsTile ==
    \A s \in laid :
        /\ \A i \in SegmentsOf(s) :
              SectionStart(s) <= Reloc(i) /\ Reloc(i) + size[i] <= SectionStop(s)
        /\ \A t \in laid :
              /\ s < t => SectionStop(s) <= SectionStart(t)
              /\ (s < t /\ ~\E u \in laid : s < u /\ u < t)
                    => SectionStop(s) = SectionStart(t)

\* Two segments of one section and one alignment keep the order in which they
\* were linked, whatever is packed between them.
ClassOrderKept ==
    \A i, j \in packed :
        (i < j /\ section[i] = section[j] /\ align[i] = align[j])
            => rloc[i] + size[i] <= rloc[j]

\* Every segment ends up in the memory image (FairSpec: the loops terminate).
EverythingLaid == <>(phase = "done" /\ LaidSegments = Segments)
=============================================================================
