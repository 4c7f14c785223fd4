---------------------------- MODULE MCConverters -----------------------------
(* Small tables for both converters: rows that share values and schemas, or *)
(* do not; rows that cannot be converted, at every place; names that clash; *)
(* bit tests on all sides of mem0.                                          *)
EXTENDS Converters

MCFileName == [m \in {"A/D", "A0D", "ADC", "ADD", "A_D", "BT"} |->
                 CASE m \in {"A/D", "A_D"} -> "a_d" [] m = "A0D" -> "a0d"
                   [] m = "ADC" -> "adc" [] m = "ADD" -> "add" [] m = "BT" -> "bt"]

W(bits) == Value(8, bits)
F(bits) == Value(4, bits)
I(name, value) == Item(<<name>>, value)

----------------------------------------------------------------------------
(* vectors.                                                                *)

VRow(m, c, in, out, e) ==
  [mnemonic |-> m, named |-> TRUE, readable |-> TRUE, code |-> c,
   inputs |-> in, outputs |-> out, exception |-> e]

VA == VRow("ADC", "c1", <<I("rax", W({0})), I("eflags", F({0}))>>,
                        <<I("rax", W({1}))>>, "none")
VB == VRow("ADC", "c1", <<I("rax", W({1})), I("flags", F({0}))>>,
                        <<I("rax", W({0}))>>, "none")
VC == VRow("ADC", "c2", <<I("rax", W({0}))>>, <<I("rax", W({2}))>>, "divide")
VO == [VC EXCEPT !.code = "c1"]
VD == VRow("ADD", "c3", <<I("rbx", W({}))>>, <<I("rbx", W({0})), I("flags", F({}))>>,
           "none")
VE == VRow("A/D", "c4", <<I("rax", W({0}))>>, <<>>, "none")
V0 == VRow("A0D", "c6", <<I("rax", W({0}))>>, <<>>, "none")
VF == VRow("A_D", "c5", <<I("rax", W({3}))>>, <<>>, "none")

\* What cannot be converted.
Twice == [VD EXCEPT !.inputs = <<I("flags", F({0})), I("rflags", F({0}))>>]
Nameless == [VD EXCEPT !.named = FALSE]
Unreadable == [VD EXCEPT !.readable = FALSE]

VTable(n) == CASE n = 1 -> <<VA, VB, VC, VD>>
               [] n = 2 -> <<VA, VO, VB, VA, VO, VD>>
               [] n = 3 -> <<VA, VC, Twice>>
               [] n = 4 -> <<VA, VB, Nameless, VD>>
               [] n = 5 -> <<VA, VD, Unreadable>>
               [] n = 6 -> <<VE, V0, VF>>
               [] n = 7 -> <<VE, VF, VD>>
               [] n = 8 -> <<>>

VInputs == [stem : {"x", "y"}, readable : {TRUE}, rows : {VTable(n) : n \in 1..8}]
             \cup {[stem |-> "y", readable |-> FALSE, rows |-> <<>>]}

Existing1 == {{}, {<<".", "adc">>, <<".", "old">>}, {<<"y", "add">>, <<"x", "old">>}}

VJobs ==
  [tool : {"vectors"}, inputs : {<<i>> : i \in VInputs}
                                  \cup {<<i, j>> : i \in VInputs, j \in VInputs},
   overwrite : BOOLEAN, limit : {0}, single : {FALSE}, existing : Existing1]

----------------------------------------------------------------------------
(* public.                                                                 *)

PRow(m, c, in, out, e) ==
  [mnemonic |-> m, readable |-> TRUE, case |-> c, code |-> c,
   inputs |-> in, outputs |-> out, exception |-> e,
   element |-> 0, width |-> 0, offset |-> 0]

PA == PRow("ADC", 1, <<I("rax", W({0})), I("flag", W({0, 40}))>>,
                     <<I("rax", W({1})), I("flag", W({}))>>, "none")
PB == PRow("ADC", 1, <<I("flag", W({0})), I("rax", W({1}))>>,
                     <<I("flag", W({0})), I("rax", W({0}))>>, "none")
PC1 == PRow("ADC", 1, <<I("rax", W({2})), I("flag", W({}))>>, <<>>, "divide")
PD == PRow("ADD", 2, <<I("rax", W({0})), I("mem0_value", W({5}))>>,
                     <<I("mem0_value", W({0}))>>, "none")
PE == PRow("ADD", 2, <<I("rax", W({2}))>>, <<I("mem0_value", W({}))>>, "none")
PF == PRow("A/D", 3, <<I("rax", W({}))>>, <<I("rax", W({}))>>, "none")
PG == PRow("A_D", 5, <<I("rax", W({4}))>>, <<I("rax", W({0}))>>, "none")
PX == PRow("ADD", 2, <<I("mem0_value", W({5}))>>, <<I("mem0_value", W({0}))>>, "none")
PY == PRow("ADD", 2, <<I("rax", W({0}))>>, <<I("rax", W({0}))>>, "none")
PZ == PRow("ADD", 4, <<I("flag", W({0})), I("eflags", W({0}))>>, <<>>, "none")

\* The bits of a small signed number, in 64 bits, with the others above the low
\* `width' set.
BitsOf(n) == {b \in 0..14 : (n \div 2 ^ b) % 2 = 1}
Register(n, width) ==
  IF n >= 0 THEN BitsOf(n) \cup (IF width < 64 THEN {63} ELSE {})
            ELSE (0..63) \ BitsOf(-1 - n)

Bit(element, width, offset, carry) ==
  [PRow("BT", 6,
        <<I("rbx", W(Register(offset, width))), I("mem0_value", W({1, 7}))>>,
        <<I("flag", W(IF carry THEN {0, 2} ELSE {2}))>>, "none")
     EXCEPT !.element = element, !.width = width, !.offset = offset]

\* Two bit tests of one instruction.
BitTables ==
  {<<Bit(e, w, m, c), Bit(e, w, n, d)>> :
     e \in {2, 4, 8}, w \in {16, 32, 64},
     m \in {-65, -1, 5, 64}, n \in {-64, -17, 31, 65, 200},
     c \in BOOLEAN, d \in BOOLEAN}

PTables ==
  BitTables \cup
  {<<>>, <<PF, PA, PB, PC1, PD, PE>>, <<PF, PA, PD, PE, PE, PG>>, <<PC1, PD, PG>>,
   <<PA, PB, PD, PX>>, <<PA, PD, PY>>, <<PA, PZ>>, <<PA, PZ, PG>>,
   <<PA, PD, [PE EXCEPT !.readable = FALSE]>>, <<PF, PF, PG>>,
   <<PF, PD, [PG EXCEPT !.case = 6]>>}

PExisting == {{}, {<<".", "all">>, <<".", "adc">>, <<".", "old">>}}

PJobs ==
  {[tool |-> "public", inputs |-> <<[stem |-> "x", rows |-> t]>>, overwrite |-> o,
    limit |-> l, single |-> s, existing |-> x] :
     t \in PTables, o \in BOOLEAN,
     l \in {0, 1, 2, 3, 4, 9}, s \in BOOLEAN, x \in PExisting}

MCJobs == VJobs \cup {j \in PJobs : Len(j.inputs[1].rows) = 2 =>
                                      j.limit \in {0, 1} /\ j.overwrite /\ ~ j.single}

=============================================================================
