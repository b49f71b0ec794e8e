------------------------------- MODULE Leb128 --------------------------------
(***************************************************************************)
(* The LEB128 fields of ByteArray.js.  A field goes through three loops:   *)
(* lengthULEB128 or lengthSLEB128 predicts its width (sections allocate    *)
(* their buffer from the sum of these), writeULEB128 or writeSLEB128       *)
(* writes it, one group of bits a byte and padded to padTo bytes if it is  *)
(* relocatable, and readULEB128 or readSLEB128 reads it back.  A step is   *)
(* one iteration of a loop.  A field of a file that another tool wrote is  *)
(* only read: its bytes may be anything.                                   *)
(*                                                                         *)
(* Each function has two versions, one for BigInt, which has as many bits  *)
(* as it needs, and one for Number, whose shifts first wrap to             *)
(* NumberBits.  The code has groups of 7 bits, Numbers of 32 and BigInts   *)
(* of 64 bits; here these are parameters.                                  *)
(***************************************************************************)
EXTENDS Integers, Sequences

CONSTANTS
    GroupBits,       \* bits of a value in one byte: 7
    NumberBits,      \* width of the operands of >> and |: 32
    BigBits,         \* width of a 64-bit integer: 64
    MaxNumber,       \* bound: largest unsigned Number that is written
    Paddings,        \* the values of padTo: 0 for none, RELOC_PAD
    MaxForeign,      \* bound: bytes of a field that another tool wrote
    ForeignSlices    \* the groups in such a field

\* 2 to the power of n, as a function that can be reasoned about.
Pow2[n \in Nat] == IF n = 0 THEN 1 ELSE 2 * Pow2[n - 1]
Base == Pow2[GroupBits]

ASSUME WidthAssumption ==
    /\ GroupBits \in Nat \ {0} /\ NumberBits \in Nat \ {0} /\ BigBits \in Nat \ {0}
    /\ MaxNumber \in 0 .. Pow2[NumberBits] - 1
    /\ Paddings \subseteq Nat /\ MaxForeign \in Nat
    /\ ForeignSlices \subseteq 0 .. Base - 1

\* A padded field is just wide enough for a Number: 5 groups of 7 bits for 32.
ASSUME PaddingAssumption ==
    /\ NumberBits <= BigBits
    /\ \A p \in Paddings \ {0} : GroupBits * (p - 1) < NumberBits /\ NumberBits <= GroupBits * p

\* One bit of a BigInt is left for its last group: 9 groups of 7 bits and 1 for 64.
ASSUME BigAssumption == (BigBits - 1) % GroupBits = 0

VARIABLES
    field,      \* what is written: signed, big, padTo and the value; or foreign
    phase,      \* measure, write, pad, read; then done or failed
    value,      \* the value in the loop: what is left of it, or what was read
    count,      \* the iterations of the loop
    predicted,  \* what the length function returned
    bytes       \* the bytes written

vars == <<field, phase, value, count, predicted, bytes>>

Byte == [slice : 0 .. Base - 1, more : BOOLEAN]
Signed(bits) == -(Pow2[bits - 1]) .. Pow2[bits - 1] - 1

ValuesOf(signed, big) ==
    CASE signed -> Signed(IF big THEN BigBits ELSE NumberBits)
      [] ~signed /\ big -> 0 .. Pow2[BigBits] - 1
      [] ~signed /\ ~big -> 0 .. MaxNumber

FieldsOf(signed, big) ==
    [signed : {signed}, big : {big}, padTo : Paddings, value : ValuesOf(signed, big), foreign : {FALSE}]

Fields == UNION {FieldsOf(signed, big) : signed, big \in BOOLEAN}

ForeignFields == [signed : BOOLEAN, big : BOOLEAN, padTo : {0}, value : {0}, foreign : {TRUE}]
ForeignBytes ==
    UNION {[1 .. n -> [slice : ForeignSlices, more : BOOLEAN]] : n \in 1 .. MaxForeign}

Init ==
    /\ count = 0 /\ predicted = 0
    /\ \/ /\ field \in Fields
          /\ phase = "measure" /\ value = field.value /\ bytes = <<>>
       \/ /\ field \in ForeignFields /\ value = 0
          /\ phase = "read" /\ bytes \in ForeignBytes

-----------------------------------------------------------------------------
(* The arithmetic of the loops *)

\* BigInt.asIntN
AsIntN(bits, v) ==
    LET low == v % Pow2[bits] IN IF low >= Pow2[bits - 1] THEN low - Pow2[bits] ELSE low

\* value >>= 7: of a Number the low 32 bits, as a signed integer
Shifted(v) == (IF field.big THEN v ELSE AsIntN(NumberBits, v)) \div Base

\* An unsigned value that the shift made negative becomes 0.
ShiftedUnsigned(v) == IF Shifted(v) < 0 THEN 0 ELSE Shifted(v)

Slice(v) == v % Base
HighBit(slice) == slice >= Pow2[GroupBits - 1]

\* Mutant: ends when the rest is the sign, whatever the last group says.
NoMoreSignIgnored(v) == Shifted(v) \in {0, -1}

\* The rest is only the sign that the last group already says.
NoMore(v) == \/ Shifted(v) = 0 /\ ~HighBit(Slice(v))
             \/ Shifted(v) = -1 /\ HighBit(Slice(v))

IsLast(v) == IF field.signed THEN NoMore(v) ELSE ShiftedUnsigned(v) = 0
Rest(v) == IF field.signed THEN Shifted(v) ELSE ShiftedUnsigned(v)

-----------------------------------------------------------------------------
(* lengthULEB128 and lengthSLEB128 *)

Padded(n) == IF n < field.padTo THEN field.padTo ELSE n

Measure ==
    /\ phase = "measure"
    /\ IF IsLast(value)
       THEN /\ predicted' = Padded(count + 1)
            /\ phase' = "write"
            /\ value' = field.value
            /\ count' = 0
       ELSE /\ value' = Rest(value)
            /\ count' = count + 1
            /\ UNCHANGED <<predicted, phase>>
    /\ UNCHANGED <<field, bytes>>

-----------------------------------------------------------------------------
(* writeULEB128 and writeSLEB128 *)

\* One group; the bit for more bytes is also set where padding will follow.
Write ==
    /\ phase = "write"
    /\ bytes' = Append(bytes, [slice |-> Slice(value),
                               more |-> ~IsLast(value) \/ count + 1 < field.padTo])
    /\ value' = Rest(value)
    /\ count' = count + 1
    /\ phase' = IF IsLast(value) THEN "pad" ELSE "write"
    /\ UNCHANGED <<field, predicted>>

\* Mutant: one byte of padding too many.
PaddingOneMore ==
    [i \in 1 .. Padded(count) - count + 1 |->
        [slice |-> 0, more |-> count + i < field.padTo + 1]]

\* Padding repeats the sign; its last byte ends the field.
PadSlice == IF field.signed /\ value < 0 THEN Base - 1 ELSE 0
Padding ==
    [i \in 1 .. Padded(count) - count |->
        [slice |-> PadSlice, more |-> count + i < field.padTo]]

Pad ==
    /\ phase = "pad"
    /\ bytes' = bytes \o Padding
    /\ phase' = "read"
    /\ value' = 0
    /\ count' = 0
    /\ UNCHANGED <<field, predicted>>

-----------------------------------------------------------------------------
(* readULEB128 and readSLEB128 *)

shift == GroupBits * count
Bits == IF field.big THEN BigBits ELSE NumberBits

\* Mutant: the bits of the group in which the width ends are not looked at.
TooBigBeyond(slice) == shift >= Bits /\ slice # (IF value < 0 THEN Base - 1 ELSE 0)

\* A signed value: a group beyond the width may only repeat the sign.
TooBig(slice) ==
    \/ shift >= Bits /\ slice # (IF value < 0 THEN Base - 1 ELSE 0)
    \/ shift = Bits - 1 /\ slice \notin {0, Base - 1}

\* a | b of two numbers of NumberBits bits
Bit(v, k) == (v \div Pow2[k]) % 2
BitOr(a, b) ==
    LET low[k \in 0 .. NumberBits] ==
            IF k = 0 THEN 0
            ELSE low[k - 1] + (IF Bit(a, k - 1) = 1 \/ Bit(b, k - 1) = 1 THEN Pow2[k - 1] ELSE 0)
    IN  low[NumberBits]

\* value |= slice << shift, in 32 bits or in as many as it takes
OrShifted(v, slice) ==
    IF field.big THEN v + slice * Pow2[shift]
    ELSE AsIntN(NumberBits, BitOr(v % Pow2[NumberBits], (slice * Pow2[shift % NumberBits]) % Pow2[NumberBits]))

SignExtended(v, slice) ==
    LET next == shift + GroupBits IN
        AsIntN(Bits, IF next < Bits /\ HighBit(slice) THEN v - Pow2[next] ELSE v)

\* An element past the end of a Uint8Array is undefined, which & takes for 0.
ByteAt(i) == IF i <= Len(bytes) THEN bytes[i] ELSE [slice |-> 0, more |-> FALSE]

ReadUnsigned ==
    /\ phase = "read" /\ ~field.signed
    /\ LET byte == ByteAt(count + 1) IN
        /\ value' = value + byte.slice * Pow2[shift]
        /\ phase' = IF byte.more THEN "read" ELSE "done"
    /\ count' = count + 1
    /\ UNCHANGED <<field, predicted, bytes>>

ReadSigned ==
    /\ phase = "read" /\ field.signed /\ count < Len(bytes)
    /\ LET byte == bytes[count + 1]
           read == OrShifted(value, byte.slice)
       IN  IF TooBig(byte.slice)
           THEN phase' = "failed" /\ UNCHANGED <<value, count>>
           ELSE /\ value' = IF byte.more THEN read ELSE SignExtended(read, byte.slice)
                /\ phase' = IF byte.more THEN "read" ELSE "done"
                /\ count' = count + 1
    /\ UNCHANGED <<field, predicted, bytes>>

PastEnd ==
    /\ phase = "read" /\ field.signed /\ count = Len(bytes)
    /\ phase' = "failed"
    /\ UNCHANGED <<field, value, count, predicted, bytes>>

Finished == phase \in {"done", "failed"} /\ UNCHANGED vars

Next == Measure \/ Write \/ Pad \/ ReadUnsigned \/ ReadSigned \/ PastEnd \/ Finished

Spec == Init /\ [][Next]_vars

-----------------------------------------------------------------------------
(* Properties *)

\* The width a length function predicts is the width the write function takes:
\* encode allocates a section's buffer from the predictions alone.  A padded field
\* has one width for every value of 32 bits, so that a relocation can be written
\* over it in place.
LengthPredicted ==
    phase \in {"read", "done", "failed"} /\ ~field.foreign =>
        /\ Len(bytes) = predicted
        /\ ~field.big /\ field.padTo > 0 => Len(bytes) = field.padTo

\* A value that is written, padded or not, is read back as it was, to the last
\* byte of the field and not beyond it.
RoundTrip ==
    ~field.foreign =>
        /\ phase = "done" => value = field.value /\ count = Len(bytes)
        /\ phase # "failed"

\* The integer that the first count bytes of a signed field stand for.
Denoted ==
    LET term[i \in 0 .. count] ==
            IF i = 0 THEN 0 ELSE term[i - 1] + bytes[i].slice * Pow2[GroupBits * (i - 1)]
    IN  term[count] - (IF HighBit(bytes[count].slice) THEN Pow2[shift] ELSE 0)

\* The field takes no more bytes than its integers need: 10 of 64 bits.
InWidth == GroupBits * (count - 1) < Bits

\* A signed field of 64 bits is read as the integer it stands for, or refused
\* if it has bits beyond the width.
BigAcceptedIsDenoted ==
    phase = "done" /\ field.signed /\ field.big /\ InWidth => value = Denoted

=============================================================================
