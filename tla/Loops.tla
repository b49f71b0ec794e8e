-------------------------------- MODULE Loops ---------------------------------
(***************************************************************************)
(* What the linker's loops over an array compute: the elements it keeps,   *)
(* the elements without their repetitions, and a total.                    *)
(***************************************************************************)
EXTENDS Integers, Sequences, SequencesExt

\* The elements of s that are in T, in their order.
Where(s, T) ==
    LET taken[k \in 0 .. Len(s)] ==
            IF k = 0 THEN <<>>
            ELSE IF s[k] \in T THEN Append(taken[k - 1], s[k]) ELSE taken[k - 1]
    IN  taken[Len(s)]

\* Each element of a sequence where it first occurs: indexOf before push.
Firsts(s) ==
    LET firsts[k \in 0 .. Len(s)] ==
            IF k = 0 THEN <<>>
            ELSE IF Contains(firsts[k - 1], s[k]) THEN firsts[k - 1] ELSE Append(firsts[k - 1], s[k])
    IN  firsts[Len(s)]

\* A total: += in a loop.
SumOf(s) ==
    LET sum[k \in 0 .. Len(s)] == IF k = 0 THEN 0 ELSE sum[k - 1] + s[k]
    IN  sum[Len(s)]
===============================================================================
