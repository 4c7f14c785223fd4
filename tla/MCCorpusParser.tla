--------------------------- MODULE MCCorpusParser ---------------------------
(* A pool of at most two values; groups with registers and memory on either *)
(* side that declare none, one or two rows; rows that fit them or not.      *)
EXTENDS CorpusParser

Reg(r) == [reg |-> r]
Mem(a) == [mem |-> a]

MCHeader(n, i, o) == [count |-> n, in |-> i, out |-> o]
MCRow(i, o, x) == [in |-> i, out |-> o, exception |-> x]

MCHeaders == {MCHeader(0, <<>>, <<Mem(4)>>),
              MCHeader(1, <<Mem(4), Reg("rax")>>, <<Reg("rax")>>),
              MCHeader(2, <<Reg("rax")>>, <<Reg("rax"), Mem(4)>>)}

MCRowLines == {MCRow(<<>>, <<0>>, "none"), MCRow(<<0, 1>>, <<0>>, "none"),
               MCRow(<<0>>, <<0, 0>>, "none"), MCRow(<<1>>, <<>>, "divide")}

=============================================================================
