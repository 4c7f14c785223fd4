--------------------------- MODULE MCRowExecution ---------------------------
(* Three pages of two bytes.  The rows: code on one page and across two, at *)
(* both ends of the address space; cells on the page of the code, over the  *)
(* code, over each other, across pages and past the end; expectations on    *)
(* and off the mapped pages; an expected exception.                         *)
EXTENDS RowExecution

MCCell(a, b) == [address |-> a, bytes |-> b]

MCRow(a, o, c, e, x) ==
  [address |-> a, opcode |-> o, cells |-> c, exception |-> e, expected |-> x]

MCRows == {
  MCRow(0, <<1, 1>>, <<>>, "none", <<>>),
  MCRow(0, <<1>>, <<MCCell(0, <<0, 1>>), MCCell(1, <<0, 1>>)>>, "none",
        <<MCCell(1, <<1, 1>>), MCCell(0, <<0>>)>>),
  MCRow(2, <<1, 1>>, <<MCCell(5, <<1>>)>>, "none",
        <<MCCell(2, <<1>>), MCCell(5, <<1>>)>>),
  MCRow(5, <<1>>, <<MCCell(3, <<1, 1>>)>>, "none",
        <<MCCell(0, <<0>>), MCCell(4, <<1>>)>>),
  MCRow(2, <<1>>, <<MCCell(4, <<1>>)>>, "divide", <<>>),
  MCRow(1, <<1, 1>>, <<>>, "none", <<>>),
  MCRow(1, <<1, 1>>, <<MCCell(2, <<1>>)>>, "divide", <<>>),
  MCRow(0, <<1>>, <<MCCell(5, <<1, 1>>)>>, "none", <<>>)}

MCValues == {<<0>>, <<1>>, <<1, 1>>}

=============================================================================
