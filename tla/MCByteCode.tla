----------------------------- MODULE MCByteCode ------------------------------
(***************************************************************************)
(* ByteCode with a module that has enough functions for an index of two    *)
(* bytes, two objects of every other kind and one of each that the module  *)
(* does not have.  There is an instruction for every arm of the switches,  *)
(* and bodies that nest them.                                              *)
(***************************************************************************)
EXTENDS ByteCode

MCVector ==
    [functions |-> [n \in 1 .. 130 |-> "f" \o ToString(n)],
     globals |-> <<"g0", "g1">>, tables |-> <<"tbl0", "tbl1">>, types |-> <<"t0", "t1">>,
     tags |-> <<"tag0">>, memory |-> <<"mem0">>, dataSegments |-> <<"d0", "d1">>,
     elementSegments |-> <<"e0", "e1">>]
MCLocals == <<"l0", "l1">>

Inst(op, arg, reloc) == [op |-> op, arg |-> arg, reloc |-> reloc]
NoArg == [none \in {} |-> 0]
Plain(op) == Inst(op, NoArg, FALSE)

End == Plain(\h0B)
Lasts == {Plain(op) : op \in {\h00, \h01, \h0F, \h1A, \h1B, \h45, \h7F, \hC4, \hD1, \hFC00, \hFC07}}

BlockTypes == {<<"number", \h40>>, <<"number", \h7F>>, <<"typeidx", 1>>, <<"object", "t1">>}
Block(op, t) == Inst(op, [type |-> t], FALSE)

Control ==
    {Inst(op, [tag |-> "tag0"], FALSE) : op \in {\h07, \h08}}
    \cup {Inst(op, [relative_depth |-> 1], FALSE) : op \in {\h09, \h18}}
    \cup {Inst(op, [labelidx |-> n], FALSE) : op \in {\h0C, \h0D}, n \in {0, 128}}
    \cup {Inst(\h0E, [labels |-> l, default_br |-> 0], FALSE) : l \in {<<>>, <<0, 200>>}}
    \cup {Inst(\h10, [func |-> "f" \o ToString(n)], FALSE) : n \in {1, 128, 129, 131}}
    \cup {Inst(\h11, [type |-> "t1", table |-> "tbl1"], FALSE), Plain(\h19)}

Variable ==
    {Inst(op, [value |-> v], r) : op \in {\h41, \h42}, v \in {-65, -1, 63, 64}, r \in BOOLEAN}
    \cup {Inst(\h43, [value |-> <<1, 11, 3, 4>>], FALSE)}
    \cup {Inst(\h44, [value |-> <<1, 2, 3, 11, 5, 6, 7, 8>>], FALSE)}
    \cup {Inst(op, [local |-> l], FALSE) : op \in \h20 .. \h22, l \in {"l1", "other"}}
    \cup {Inst(op, [global |-> "g1"], FALSE) : op \in {\h23, \h24}}
    \cup {Inst(op, [table |-> t], FALSE) : op \in {\h25, \h26}, t \in {"tbl0", "other"}}

Memory ==
    {Inst(op, [align |-> 2, offset |-> n], r) : op \in {\h28, \h3E, \hFE10}, n \in {0, 127, 128}, r \in BOOLEAN}
    \cup {Inst(op, [align |-> 2, offset |-> 129], TRUE) : op \in {\hFD00, \hFD03, \hFD04, \hFD5C, \hFE00}}
    \cup {Inst(\hFD54, [align |-> 0, offset |-> 0, laneidx |-> 1], FALSE), Plain(\hFD0E)}
    \cup {Inst(op, [memidx |-> n], FALSE) : op \in {\h3F, \h40, \hFE03}, n \in {0, 1}}

Reference ==
    {Inst(\hD0, [reftype |-> \h70], FALSE), Inst(\hD2, [func |-> "f129"], FALSE)}

Bulk ==
    {Inst(\hFC08, [dataSegment |-> "d1", memory |-> "mem0"], FALSE),
     Inst(\hFC09, [dataSegment |-> "d1"], FALSE),
     Inst(\hFC0A, [memidx1 |-> 0, memidx2 |-> 0], FALSE), Inst(\hFC0B, [memidx |-> 0], FALSE),
     Inst(\hFC0C, [elem |-> "e1", table |-> "tbl0"], FALSE), Inst(\hFC0D, [elem |-> "e0"], FALSE),
     Inst(\hFC0E, [table1 |-> "tbl0", table2 |-> "tbl1"], FALSE)}
    \cup {Inst(op, [table |-> "tbl1"], FALSE) : op \in \hFC0F .. \hFC11}

Leaves == Lasts \cup Control \cup Variable \cup Memory \cup Reference \cup Bulk
Few == {Plain(\h01), Inst(\h28, [align |-> 2, offset |-> 127], TRUE), Inst(\h10, [func |-> "f129"], FALSE)}

MCBodies ==
    {<<a, End>> : a \in Leaves}
    \cup {<<a, b, End>> : a \in Variable \cup Memory, b \in Variable \cup Memory \cup Bulk}
    \cup {<<Block(op, t), a, End, b, End>> : op \in {\h02, \h03, \h04, \h06}, t \in BlockTypes, a \in Few, b \in Few}
    \cup {<<Block(\h02, <<"object", "t0">>), End, End>>, <<Block(\h02, <<"object", "t9">>), End, End>>}
    \cup {<<Block(\h04, t), a, Plain(\h05), Block(op, t), b, End, End, End>> :
            t \in BlockTypes, op \in Blocks, a \in Few, b \in Few}

File(insts, code) == [insts |-> Append(insts, End), code |-> Append(code, <<<<\h0B>>>>)]
Padded128 == <<\h80, \h81, \h80, \h80, \h00>>
Padded1 == <<\h81, \h80, \h80, \h80, \h00>>

\* As the text format assembles to: operands of one byte and of two.
Assembled ==
    {File(<<Inst(\h20, [local |-> "l1"], FALSE), Inst(\h41, [value |-> 3], FALSE),
            Inst(\h36, [align |-> 2, offset |-> 4], FALSE)>>,
          <<<<<<\h20>>, <<1>>>>, <<<<\h41>>, <<3>>>>, <<<<\h36>>, <<2>>, <<4>>>>>>),
     File(<<Inst(\h42, [value |-> -65], FALSE), Inst(\h28, [align |-> 2, offset |-> 300], FALSE)>>,
          <<<<<<\h42>>, <<\hBF, \h7F>>>>, <<<<\h28>>, <<2>>, <<\hAC, 2>>>>>>),
     File(<<Inst(\hFC0C, [elem |-> "e1", table |-> "tbl0"], FALSE), Inst(\hD2, [func |-> "f129"], FALSE),
            Inst(\hFC0A, [memidx1 |-> 0, memidx2 |-> 0], FALSE)>>,
          <<<<<<\hFC>>, <<12>>, <<1>>, <<0>>>>, <<<<\hD2>>, <<\h80, 1>>>>, <<<<\hFC>>, <<10>>, <<0>>, <<0>>>>>>),
     File(<<Inst(\h44, [value |-> <<\h0B, 0, \h10, 5, \h0B, 0, \hF0, \h3F>>], FALSE),
            Inst(\hFE10, [align |-> 2, offset |-> 8], FALSE)>>,
          <<<<<<\h44>>, <<\h0B, 0, \h10, 5, \h0B, 0, \hF0, \h3F>>>>, <<<<\hFE>>, <<\h10>>, <<2>>, <<8>>>>>>)}

\* block, loop and if-else in each other, with the branches out of them.
Nestings ==
    {File(<<Block(\h02, <<"number", \h40>>), Block(\h03, <<"number", \h7F>>),
            Inst(\h0D, [labelidx |-> 1], FALSE), Inst(\h0E, [labels |-> <<0, 1>>, default_br |-> 2], FALSE),
            End, End>>,
          <<<<<<\h02>>, <<\h40>>>>, <<<<\h03>>, <<\h7F>>>>, <<<<\h0D>>, <<1>>>>,
            <<<<\h0E>>, <<2>>, <<0>>, <<1>>, <<2>>>>, <<<<\h0B>>>>, <<<<\h0B>>>>>>),
     File(<<Block(\h04, <<"object", "t1">>), Inst(\h21, [local |-> "l0"], FALSE), Plain(\h05),
            Block(\h02, <<"number", \h40>>), Plain(\h0F), End, End>>,
          <<<<<<\h04>>, <<1>>>>, <<<<\h21>>, <<0>>>>, <<<<\h05>>>>, <<<<\h02>>, <<\h40>>>>,
            <<<<\h0F>>>>, <<<<\h0B>>>>, <<<<\h0B>>>>>>)}

\* As compilers write object files: what a relocation names has five bytes.
Relocatable ==
    {File(<<Inst(\h41, [value |-> -1], FALSE), Inst(\h10, [func |-> "f129"], FALSE),
            Inst(\h28, [align |-> 2, offset |-> 128], FALSE)>>,
          <<<<<<\h41>>, <<\hFF, \hFF, \hFF, \hFF, \h7F>>>>, <<<<\h10>>, Padded128>>,
            <<<<\h28>>, <<2>>, Padded128>>>>),
     File(<<Inst(\h23, [global |-> "g1"], FALSE), Inst(\h11, [type |-> "t1", table |-> "tbl1"], FALSE)>>,
          <<<<<<\h23>>, Padded1>>, <<<<\h11>>, Padded1, Padded1>>>>)}

MCFiles == Assembled \cup Nestings \cup Relocatable

SimdBodies ==
    {<<Inst(\hFD00, [align |-> 4, offset |-> n], FALSE), b, End>> : n \in 0 .. 40, b \in Few}
NoFiles == {}
=============================================================================
