--------------------------- MODULE MCRowRegisters ---------------------------
(* Words of the bits that flags and x87 status tell apart.  Five kinds of   *)
(* rows: numbers and flags under several names; vector registers that share *)
(* storage; flags after shifts and rotates; keys and sizes that do not fit; *)
(* VERR and VERW.                                                           *)
EXTENDS RowRegisters

MCCanonical == [n \in Name |-> CASE n \in {"flags", "eflags"} -> "flag"
                                 [] n = "RAX" -> "rax"
                                 [] n = "XMM0" -> "xmm0"
                                 [] OTHER -> n]

MCKeyOrder == <<"cr0", "flag", "gdtr", "rax", "rcx", "rip", "st0",
                "x87status", "xmm0", "xmm99", "ymm0">>

MCByteRegister == [k \in {"st0", "xmm0", "ymm0"} |->
  CASE k = "st0" -> [cell |-> "st0", size |-> 2]
    [] k = "xmm0" -> [cell |-> "vec0", size |-> 2]
    [] k = "ymm0" -> [cell |-> "vec0", size |-> 3]]

E(n, v) == [name |-> n, value |-> v]
Eff(k, v) == [key |-> k, value |-> v]

NoOperand == [from |-> "none", n |-> 0]
Counts == {NoOperand, [from |-> "cl", n |-> 0]}
          \cup {[from |-> "immediate", n |-> n] : n \in {0, 8, 9, 32, 65}}

MCRow(i, o, c, w, n, e) ==
  [inputs |-> i, outputs |-> o, address |-> {3}, class |-> c, width |-> w,
   written |-> {0, 1, 4, 6, 7, 10}, undefined |-> {4}, count |-> n, effect |-> e]

Lists2(S) == {<<>>} \cup {<<a>> : a \in S} \cup {<<a, b>> : a \in S, b \in S}
Lists1(S) == {<<a>> : a \in S}

Numbers == {E("rax", <<{0}>>), E("RAX", <<{7}>>), E("rip", <<{}>>), E("rip", <<{5}>>),
            E("flags", <<{0, 4, 8}>>), E("eflags", <<{7}>>),
            E("x87status", <<{0, 7, 11}>>), E("x87status", <<{11}>>), E("cr0", <<{0}>>)}

NumberRows ==
  {MCRow(i, o, "other", 64, NoOperand, e) :
     i \in Lists2(Numbers),
     o \in Lists1(Numbers),
     e \in {Eff("rax", <<{0}>>), Eff("flag", <<{7, 8}>>), Eff("x87status", <<{0, 8}>>)}}

A3 == <<{0}, {}, {5}>>
B3 == <<{0}, {3}, {}>>
Vectors == {E("xmm0", SubSeq(A3, 1, 2)), E("XMM0", SubSeq(B3, 1, 2)), E("ymm0", A3),
            E("ymm0", B3), E("st0", <<{0}, {3}>>)}

VectorRows ==
  {MCRow(i, o, "other", 64, NoOperand, e) :
     i \in Lists2(Vectors), o \in Lists2(Vectors),
     e \in {Eff("xmm0", SubSeq(B3, 1, 2)), Eff("ymm0", A3), Eff("st0", <<{0}, {3}>>)}}

Shifts ==
  {MCRow(f \o c, <<E("flags", <<{7, 10}>>)>>, k, w, n, Eff("flag", <<b>>)) :
     f \in {<<>>, <<E("flags", <<{0, 7}>>)>>},
     c \in {<<>>, <<E("rcx", <<{0, 3}>>)>>, <<E("rcx", <<{5}>>)>>},
     k \in Class, w \in {0, 8, 32, 64}, n \in Counts,
     b \in {{7, 10}, {0, 7, 10}, {7}}}

Misfits == {E("xmm0", <<{0}>>), E("xmm99", <<{0}, {0}>>), E("xmm99", <<{0}>>),
            E("gdtr", <<{0}, {0}>>), E("rax", <<{0}, {0}>>), E("RAX", <<{3}>>),
            E("rax", <<>>)}

MisfitRows ==
  {MCRow(i, o, "other", 64, NoOperand, Eff("rax", <<{0}>>)) :
     i \in Lists2(Misfits), o \in Lists1(Misfits)}

VerifyRows ==
  {MCRow(i, o, "other", 16, NoOperand, Eff(k, <<selector>>)) :
     i \in {<<>>, <<E("flags", <<{6, 7}>>)>>},
     o \in {<<E("flags", <<{6}>>)>>, <<E("eflags", <<{7}>>)>>,
            <<E("flags", <<{6, 7}>>)>>, <<E("flags", <<{}>>)>>},
     k \in {"verr", "verw"}, selector \in {{}, {5}, {3, 5}}}

MCRows == NumberRows \cup VectorRows \cup Shifts \cup MisfitRows \cup VerifyRows

=============================================================================
