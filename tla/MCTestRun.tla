----------------------------- MODULE MCTestRun ------------------------------
(* Two keys and two files, of one directory.  The first file has up to two  *)
(* groups, the second at most one; among the groups are an empty one, one   *)
(* that declares more rows than it has and one that declares fewer.  The    *)
(* worlds vary the loops and the limits on plain instructions, the rules    *)
(* for skipping on runs without limits, and the command line.               *)
EXTENDS TestRun

k1 == [address |-> 1, opcode |-> "A"]
k2 == [address |-> 2, opcode |-> "B"]

MCKeys == {k1, k2}

----------------------------------------------------------------------------
(* Instructions.                                                           *)

MCInstruction(iclass) ==
  [bytes |-> 2, decodes |-> TRUE, length |-> 2, iclass |-> iclass,
   extension |-> "other", category |-> "other", memoryOperands |-> {}]

Plain == MCInstruction("XOR")
Load == [MCInstruction("XADD") EXCEPT !.memoryOperands = {{"read"}, {}}]
Address == [MCInstruction("LEA") EXCEPT !.memoryOperands = {{}}]
Garbage == [Plain EXCEPT !.decodes = FALSE]
Empty == [Plain EXCEPT !.bytes = 0]
Short == [Plain EXCEPT !.length = 1]
Port == [MCInstruction("INSB") EXCEPT !.category = "IO"]
X87(iclass) == [MCInstruction(iclass) EXCEPT !.extension = "X87"]

Both(i, j) == (k1 :> i) @@ (k2 :> j)

Linked == Both("ok", "ok")

----------------------------------------------------------------------------
(* Rows.                                                                   *)

MCRow(outcome) == [outcome |-> outcome] @@ [HeaderOnly EXCEPT !.cells = TRUE]

Equal == MCRow("equal")
Different == MCRow("different")
NoCells == [Different EXCEPT !.cells = FALSE]

MCSelectors(scalars) == [Equal EXCEPT !.scalars = scalars]

\* One row for each thing that a rule looks at.
MCStates ==
  {Equal, Different, NoCells,
   MCRow("stateKey"), MCRow("stateBytes"), MCRow("exception"),
   [Equal EXCEPT !.mmx = {"final_bytes"}],
   [Equal EXCEPT !.exception = TRUE],
   MCSelectors("rcx" :> 80), MCSelectors("rcx" :> 81),
   MCSelectors(("rcx" :> 1) @@ ("rax" :> 80)), MCSelectors("rax" :> 80)}
  \cup {[Equal EXCEPT !.stack = {[exponent |-> e, integer |-> i, fraction |-> f]}] :
          e \in {0, 1, 32767}, i \in BOOLEAN, f \in BOOLEAN}

MCText(name, register, width) ==
  [mnemonic |-> name,
   destination |-> [register |-> "rax", width |-> width],
   source |-> [register |-> register, width |-> width]]

MCGroup(key, name, declared, rows) ==
  [key |-> key, text |-> MCText(name, "rcx", 32), declared |-> declared,
   rows |-> rows]

MCFile(gs, throws) == [groups |-> gs, throws |-> throws]

Nothing == MCFile(<<>>, "never")

MCCorpus(a, b) == ("dir/a.txt" :> a) @@ ("dir/b.txt" :> b)

World(files, instructions, fates, args, works) ==
  [corpus |-> files, instructions |-> instructions, fates |-> fates,
   args |-> args, selfTests |-> works, mayFail |-> FALSE]

----------------------------------------------------------------------------
(* The loops and the limits.                                               *)

LoopGroups ==
  {MCGroup(k1, "a", Len(r), r) :
     r \in {<<Equal>>, <<Different, NoCells>>, <<Equal, MCRow("stateKey")>>}}
  \cup {MCGroup(k2, "b", 1, <<Equal>>), MCGroup(k2, "b", 2, <<MCRow("exception")>>),
        MCGroup(k2, "a", 0, <<Different>>), MCGroup(k2, "b", 1, <<>>)}

LoopCorpora ==
  {MCCorpus(MCFile(gs, "never"), second) :
     gs \in UNION {[1..n -> LoopGroups] : n \in 1..2},
     second \in {MCFile(<<>>, "row"),
                 MCFile(<<MCGroup(k2, "b", 1, <<Equal>>)>>, "never")}}

\* The instruction of k1 and the fates of both keys.
LoopKinds ==
  {<<Plain, Linked>>, <<Plain, Both("unresolved", "ok")>>,
   <<Plain, Both("lift", "ok")>>, <<Load, Linked>>, <<Short, Linked>>}
  \cup {<<MCInstruction("INT3"), Both(f, "ok")>> : f \in {"ok", "unresolved"}}

Inputs == <<"dir/a.txt", "dir/b.txt", "--execute">>

Limits(states, instructions) ==
  (IF states = "0" THEN <<>> ELSE <<"--limit-states", states>>)
    \o (IF instructions = "0" THEN <<>> ELSE <<"--limit-instructions", instructions>>)

LoopArgs ==
  {Inputs \o Limits(n, m) \o stop :
     n \in {"0", "1", "3"}, m \in {"0", "1", "2"},
     stop \in {<<>>, <<"--stop-on-first-fail", "--report-jsonl", "x">>}}

LoopWorlds ==
  {World(c, Both(x[1], Plain), x[2], args, TRUE) :
     c \in LoopCorpora, x \in LoopKinds, args \in LoopArgs}

----------------------------------------------------------------------------
(* The rules: pairs of rows of one instruction, each with one group of k2. *)

RuleInstructions ==
  {Plain, Load, Address, Garbage, Empty, Short, Port,
   X87("FXCH"), X87("FNINIT"), X87("FADD")}
  \cup {MCInstruction(x) : x \in {"INT3", "HLT", "RDTSC", "LAR", "LSL", "DIV",
                                  "CMPXCHG16B", "POPFQ"}}

RuleTexts == {MCText("a", s, w) : s \in {"rcx", NoRegister}, w \in {16, 32}}

RuleCorpora ==
  {MCCorpus(MCFile(<<[key |-> k1, text |-> t, declared |-> 2, rows |-> <<r, s>>],
                     MCGroup(k2, "a", 1, <<Equal>>)>>, "never"), Nothing) :
     t \in RuleTexts, r \in MCStates, s \in {Equal, NoCells}}

RuleWorlds ==
  {World(c, Both(i, Plain), f,
         Inputs \o <<"--report-skips-jsonl", "y", "--report-jsonl", "x">>, TRUE) :
     c \in RuleCorpora, i \in RuleInstructions,
     f \in {Linked, Both("decode", "ok")}}

----------------------------------------------------------------------------
(* The command line.                                                       *)

SmallCorpora ==
  {MCCorpus(MCFile(<<MCGroup(k1, "a", 1, <<r>>), MCGroup(k2, "b", 1, <<Equal>>)>>, t),
            MCFile(<<MCGroup(k2, "b", 1, <<r>>)>>, "never")) :
     r \in {Equal, Different}, t \in {"never", "row"}}

MCArgs ==
  {<<>>, <<"--help">>, <<"--self-test">>, <<"--execute">>, <<"--wrong">>,
   <<"--input">>, <<"--limit-states", "many">>, <<"-h", "--wrong">>,
   <<"--limit-states", "--execute">>,
   <<"--self-test", "dir/a.txt">>, <<"none.txt", "--execute">>, <<"none.txt">>,
   <<"dir/a.txt", "--report-jsonl", "no/x">>,
   <<"dir/a.txt", "--report-skips-jsonl", "no/x", "--execute">>,
   <<"--input-dir", "nowhere">>, <<"--input-dir", "dir">>,
   <<"--input-dir", "dir", "--mnemonic", "b", "--execute">>,
   <<"--mnemonic", "a,b", "--input-dir", "dir", "--execute">>,
   <<"--mnemonic", ",", "--input-dir", "dir", "--execute">>,
   <<"dir/a.txt", "--execute", "--opcode", ",">>,
   <<"--mnemonic", "a", "--execute", "--input-dir", "dir", "dir/b.txt">>,
   <<"--execute", "--input-dir", "dir", "--mnemonic", "a", "--mnemonic", "b">>,
   <<"--execute", "--input-dir", "dir", "--opcode", "b">>,
   <<"--execute", "--input-dir", "dir", "--input", "dir/a.txt">>,
   <<"--execute", "dir/a.txt", "dir/a.txt", "--limit-states", "3">>,
   <<"--execute", "dir/a.txt", "dir/a.txt", "--limit-instructions", "2",
     "--report-skips-jsonl", "--report-jsonl", "--print-instructions">>}

CommandWorlds ==
  {World(c, Both(Plain, Plain), Linked, args, works) :
     c \in SmallCorpora, args \in MCArgs, works \in BOOLEAN}

(* A backend that may fail at any time.                                    *)

FailingWorlds ==
  {[World(c, Both(Plain, i), Linked, Inputs \o args, TRUE)
      EXCEPT !.mayFail = TRUE] :
     c \in SmallCorpora, i \in {Plain, MCInstruction("UD2")},
     args \in {<<>>, <<"--stop-on-first-fail", "--report-jsonl", "x">>}}

MCScenarios == LoopWorlds \cup RuleWorlds \cup CommandWorlds \cup FailingWorlds

----------------------------------------------------------------------------
(* What the code reads off the arguments.                                  *)

MCDashed == Valued \cup Switches \cup {"--wrong"}

MCCsv ==
  ("a" :> {"a"}) @@ ("b" :> {"b", "B"}) @@ ("a,b" :> {"a", "b"}) @@ ("," :> {})

MCNumber == ("0" :> 0) @@ ("1" :> 1) @@ ("2" :> 2) @@ ("3" :> 3)

MCDirectory ==
  "dir" :> {[path |-> "dir/b.txt", txt |-> TRUE, stem |-> "b"],
            [path |-> "dir/a.txt", txt |-> TRUE, stem |-> "a"],
            [path |-> "dir/a.bak", txt |-> FALSE, stem |-> "a"]}

MCPathOrder == <<"dir/a.bak", "dir/a.txt", "dir/b.txt">>

=============================================================================
