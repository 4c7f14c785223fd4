----------------------------- MODULE CommandLine -----------------------------
(***************************************************************************)
(* ParseOptions (tester_main.cpp): from the arguments to the options, with *)
(* the directories of --input-dir opened up.                               *)
(*                                                                         *)
(* Arguments are strings.  What the code reads off the text of one is a    *)
(* constant: the names in a list, the number, whether it is an option.     *)
(***************************************************************************)
EXTENDS Integers, Sequences, SequencesExt, SequenceParts

CONSTANTS
  Dashed,     \* the arguments that begin with a dash
  Csv,        \* SplitCsv with the change of case: argument -> set of names
  Number,     \* std::stoull: argument -> number, only for those it accepts
  Directory,  \* the directories: path -> set of [path, txt, stem]
  PathOrder   \* the paths of all their entries, as std::sort orders them

Valued ==
  {"--input", "--input-dir", "--mnemonic", "--opcode", "--limit-states",
   "--limit-instructions", "--report-jsonl", "--report-skips-jsonl"}

Switches ==
  {"--help", "-h", "--self-test", "--print-instructions", "--execute",
   "--stop-on-first-fail"}

ASSUME CommandLineAssumption ==
  /\ Valued \cup Switches \subseteq Dashed
  /\ \A arg \in DOMAIN Number : Number[arg] \in Nat
  /\ PathOrder \in Seq(STRING)
  /\ \A d \in DOMAIN Directory : \A entry \in Directory[d] :
       /\ DOMAIN entry = {"path", "txt", "stem"}
       /\ entry.path \in ToSet(PathOrder)

NoPath == ""

DefaultOptions ==
  [inputs |-> <<>>, inputDirs |-> <<>>, mnemonics |-> {}, opcodes |-> {},
   limitStates |-> 0, limitInstructions |-> 0,
   reportJsonl |-> NoPath, reportSkipsJsonl |-> NoPath,
   execute |-> FALSE, stopOnFirstFail |-> FALSE,
   selfTest |-> FALSE, help |-> FALSE]

Accepts(option, arg) ==
  option \in {"--limit-states", "--limit-instructions"} => arg \in DOMAIN Number

WithValue(o, option, arg) ==
  CASE option = "--input"              -> [o EXCEPT !.inputs = Append(@, arg)]
    [] option = "--input-dir"          -> [o EXCEPT !.inputDirs = Append(@, arg)]
    [] option = "--mnemonic"           -> [o EXCEPT !.mnemonics = @ \cup Csv[arg]]
    [] option = "--opcode"             -> [o EXCEPT !.opcodes = @ \cup Csv[arg]]
    [] option = "--limit-states"       -> [o EXCEPT !.limitStates = Number[arg]]
    [] option = "--limit-instructions" -> [o EXCEPT !.limitInstructions = Number[arg]]
    [] option = "--report-jsonl"       -> [o EXCEPT !.reportJsonl = arg]
    [] option = "--report-skips-jsonl" -> [o EXCEPT !.reportSkipsJsonl = arg]

\* --print-instructions only adds lines to the output.
WithSwitch(o, switch) ==
  CASE switch \in {"--help", "-h"}       -> [o EXCEPT !.help = TRUE]
    [] switch = "--self-test"            -> [o EXCEPT !.selfTest = TRUE]
    [] switch = "--execute"              -> [o EXCEPT !.execute = TRUE]
    [] switch = "--stop-on-first-fail"   -> [o EXCEPT !.stopOnFirstFail = TRUE]
    [] switch = "--print-instructions"   -> o

(***************************************************************************)
(* One argument of the loop, given the options so far and the option that  *)
(* waits for its value, "" if none does.  The value of an option is the    *)
(* next argument, whatever it looks like.                                  *)
(***************************************************************************)
Refuses(waiting, arg) ==
  IF waiting # "" THEN ~ Accepts(waiting, arg)
                  ELSE arg \in Dashed \ (Valued \cup Switches)

OptionsAfter(o, waiting, arg) ==
  CASE waiting # ""                         -> WithValue(o, waiting, arg)
    [] waiting = "" /\ arg \in Switches     -> WithSwitch(o, arg)
    [] waiting = "" /\ arg \in Valued       -> o
    [] waiting = "" /\ arg \notin Dashed    -> WithValue(o, "--input", arg)

WaitingAfter(waiting, arg) == IF waiting = "" /\ arg \in Valued THEN arg ELSE ""

\* AddInputDirectory.
FilesIn(dir, mnemonics) ==
  LET kept == {entry.path : entry \in
                 {e \in Directory[dir] :
                    e.txt /\ (mnemonics = {} \/ e.stem \in mnemonics)}}
  IN  Only(PathOrder, {i \in DOMAIN PathOrder : PathOrder[i] \in kept})

WithDirectories(o) ==
  [o EXCEPT !.inputs =
     @ \o FlattenSeq([i \in DOMAIN o.inputDirs |->
                        FilesIn(o.inputDirs[i], o.mnemonics)])]

=============================================================================
