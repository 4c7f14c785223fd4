--------------------------- MODULE TestRunProofs ---------------------------
(***************************************************************************)
(* Proofs about TestRun: the variables have their types, the reports say   *)
(* what the summary counts, the summary is that of the selection, the exit *)
(* code tells of it, and the two passes agree on what is selected.         *)
(*                                                                         *)
(* Four invariants, each of which needs TypeInv, which says of every phase *)
(* what it works on and what it has not touched yet.                       *)
(*                                                                         *)
(* ReportInv has what makes the reports right: the reasons and the lines   *)
(* add up, every line is of a row of an input that has been opened, and no *)
(* row still to come has one.  The last needs the rows of a file to be     *)
(* told apart by their numbers, which RowsOfApart shows, and an input that *)
(* is opened to be another than those before.                              *)
(*                                                                         *)
(* ResultInv follows the run: the options are those that the arguments so  *)
(* far ask for, the rows are taken in the order of AllRows, those that     *)
(* pass the filters are the candidates, the backend's answer to each is    *)
(* what its key and the batch make of it, and the loop stops where one     *)
(* candidate more would exceed a limit, or one has failed.                 *)
(*                                                                         *)
(* PassesInv compares the passes.  The headers looked at so far stand for  *)
(* a number of rows, and so for a number of candidates; what the first     *)
(* pass counts is what the limits leave of them, and its batch has the     *)
(* keys of those within the limits, less what is kept out of it.           *)
(***************************************************************************)
EXTENDS TestRun, DataTheorems

----------------------------------------------------------------------------
(* The inductive invariant.                                                *)

RowAt(p, i, j) ==
  [group |-> <<p, i>>, index |-> j, key |-> Corpus(p).groups[i].key,
   text |-> Corpus(p).groups[i].text, row |-> Corpus(p).groups[i].rows[j]]

\* What the rows of path p are.
RowsIn(p) ==
  UNION {{RowAt(p, i, j) : j \in DOMAIN Corpus(p).groups[i].rows} :
           i \in DOMAIN Corpus(p).groups}

Headers == UNION {ToSet(Corpus(p).groups) : p \in Paths}

IsOptions(o) ==
  /\ DOMAIN o = DOMAIN DefaultOptions
  /\ o.inputs \in Seq(STRING) /\ o.inputDirs \in Seq(STRING)
  /\ o.limitStates \in Nat /\ o.limitInstructions \in Nat
  /\ o.execute \in BOOLEAN /\ o.stopOnFirstFail \in BOOLEAN
  /\ o.selfTest \in BOOLEAN /\ o.help \in BOOLEAN

\* What is left to do is of the phase that does it, and of the open file.
TodoIsTyped ==
  /\ pc \in {"arguments", "aborted"} => todo \in Seq(STRING)
  /\ pc = "prepare" => todo \in Seq(Headers)
  /\ pc = "rows" =>
       todo = <<>> \/ (file # 0 /\ todo \in Seq(RowsIn(options.inputs[file])))
  /\ pc \in {"compile", "done", "usage"} => todo = <<>>

\* What each phase leaves untouched.
PhasesKeepOrder ==
  /\ pc = "arguments" => file = 0 /\ batch = <<>>
  /\ pc \in {"arguments", "prepare", "compile", "usage"} =>
       /\ prepared = "no" /\ answer = [k \in Keys |-> "none"]
       /\ groups = {} /\ decoded = {} /\ summary = ZeroSummary /\ report = NoLines
  /\ pc \in {"arguments", "prepare", "compile", "rows"} => exit = 0
  /\ pc = "aborted" => exit = 1
  /\ pc = "usage" => exit \in {0, 2}
  /\ pc = "done" => exit = ExitCode /\ NoMoreInputs

Ids == (Paths \X Nat) \X Nat

\* The reasons that a row is skipped for: before it is run, or by the backend.
Reasons ==
  {"xed_decode_failed", "xed_length_mismatch", "memory_state_missing",
   "fpu_state_unsupported", "mmx_state_unsupported", "privileged_or_io_unsupported",
   "environment_read_unsupported", "descriptor_state_unsupported",
   "expected_exception_unsupported", "atomic128_unsupported",
   "popfq_flag_state_unsupported",
   "unsupported:remill_lift", "unsupported:remill_decode", "unsupported:state_key",
   "unsupported:state_bytes", "unsupported:exception"}

Lines == [id : Ids, reason : Reasons]

ReportIsTyped ==
  /\ DOMAIN report = {"mismatches", "skips", "reasons"}
  /\ report.mismatches \in Seq(Ids)
  /\ report.skips \in Seq(Lines)
  /\ IsFiniteSet(DOMAIN report.reasons)

TypeInv ==
  /\ TypeOK
  /\ ReportIsTyped
  /\ scenario \in Scenarios
  /\ waiting \in Valued \cup {""}
  /\ IsOptions(options)
  /\ TodoIsTyped
  /\ PhasesKeepOrder

----------------------------------------------------------------------------
(* The files and their rows.                                               *)

LEMMA ElementsOf ==
  ASSUME NEW S, NEW s \in Seq(S)
  PROVE  /\ DOMAIN s = 1..Len(s) /\ Len(s) \in Nat
         /\ ToSet(s) = {s[i] : i \in 1..Len(s)}
         /\ ToSet(s) \subseteq S
  BY DEF ToSet

LEMMA WorldType ==
  ASSUME scenario \in Scenarios
  PROVE  /\ scenario.instructions \in [Keys -> Instructions]
         /\ scenario.fates \in [Keys -> Fates]
         /\ scenario.args \in Seq(STRING)
         /\ scenario.selfTests \in BOOLEAN /\ scenario.mayFail \in BOOLEAN
         /\ \A p : IsFile(Corpus(p))
<1>1. \A p \in Paths : IsFile(Corpus(p))
  BY TestRunAssumption DEF Corpus
<1>2. ASSUME NEW p, p \notin Paths PROVE IsFile(Corpus(p))
  <2>1. Corpus(p) = NoFile
    BY <1>2 DEF Corpus
  <2>2. NoFile.throws = "header" /\ NoFile.groups = <<>> /\ DOMAIN <<>> = {}
    BY DEF NoFile
  <2>3. <<>> \in Seq(ToSet(<<>>))
    OBVIOUS
  <2> QED BY <2>1, <2>2, <2>3 DEF IsFile
<1> QED BY <1>1, <1>2, TestRunAssumption

LEMMA GroupType ==
  ASSUME scenario \in Scenarios, NEW p, NEW i \in DOMAIN Corpus(p).groups
  PROVE  /\ p \in Paths /\ i \in 1..Len(Corpus(p).groups)
         /\ Len(Corpus(p).groups) \in Nat
         /\ IsGroup(Corpus(p).groups[i])
<1>1. IsFile(Corpus(p))
  BY WorldType
<1>2. p \in Paths
  BY DEF Corpus, NoFile
<1> QED BY <1>1, <1>2 DEF IsFile

LEMMA RowsInType ==
  ASSUME scenario \in Scenarios, NEW p, NEW r \in RowsIn(p)
  PROVE  /\ RowType(r) /\ r.group[1] = p /\ r.index \in Nat
         /\ IdOf(r) \in Ids
<1>1. PICK i \in DOMAIN Corpus(p).groups : \E j \in DOMAIN Corpus(p).groups[i].rows :
        r = RowAt(p, i, j)
  BY DEF RowsIn
<1>2. PICK j \in DOMAIN Corpus(p).groups[i].rows : r = RowAt(p, i, j)
  BY <1>1
<1>3. p \in Paths /\ i \in Nat /\ IsGroup(Corpus(p).groups[i])
  BY GroupType
<1>4. /\ r.group = <<p, i>> /\ r.index = j /\ r.key = Corpus(p).groups[i].key
      /\ r.row = Corpus(p).groups[i].rows[j]
  BY <1>2 DEF RowAt
<1>5. j \in Nat /\ IsRow(r.row) /\ r.key \in Keys
  BY <1>3, <1>4 DEF IsGroup
<1> QED BY <1>3, <1>4, <1>5 DEF RowType, IdOf, Ids

\* The rows of each group, as RowsOf joins them.
RowsOfGroup(p, i) == [j \in DOMAIN Corpus(p).groups[i].rows |-> RowAt(p, i, j)]

GroupedRows(p) == [i \in DOMAIN Corpus(p).groups |-> RowsOfGroup(p, i)]

LEMMA RowsOfJoined ==
  ASSUME scenario \in Scenarios, NEW p
  PROVE  LET n == Len(Corpus(p).groups)
         IN  /\ n \in Nat
             /\ RowsOf(p) = Joined(GroupedRows(p), n)
             /\ \A i \in 1..n : /\ GroupedRows(p)[i] = RowsOfGroup(p, i)
                                /\ GroupedRows(p)[i] \in Seq(RowsIn(p))
<1> DEFINE gs == Corpus(p).groups
           f == GroupedRows(p)
<1>1. gs \in Seq(ToSet(gs)) /\ DOMAIN gs = 1..Len(gs) /\ Len(gs) \in Nat
  BY WorldType DEF IsFile
<1>2. ASSUME NEW i \in 1..Len(gs) PROVE RowsOfGroup(p, i) \in Seq(RowsIn(p))
  <2>1. IsGroup(gs[i])
    BY <1>1, GroupType
  <2>2. gs[i].rows \in Seq(ToSet(gs[i].rows))
    BY <2>1 DEF IsGroup
  <2>3. DOMAIN gs[i].rows = 1..Len(gs[i].rows) /\ Len(gs[i].rows) \in Nat
    BY <2>2
  <2>4. \A j \in DOMAIN gs[i].rows : RowAt(p, i, j) \in RowsIn(p)
    BY <1>1 DEF RowsIn
  <2>5. RowsOfGroup(p, i) = [j \in DOMAIN gs[i].rows |-> RowAt(p, i, j)]
    BY DEF RowsOfGroup
  <2> HIDE DEF gs
  <2> QED BY <2>3, <2>4, <2>5
<1>3. \A i \in 1..Len(gs) : f[i] = RowsOfGroup(p, i)
  BY <1>1 DEF GroupedRows
<1>4. RowsOf(p) = Joined(f, Len(gs))
  <2>1. [i \in 1..Len(gs) |-> f[i]] = f
    <3>1. DOMAIN gs = 1..Len(gs) /\ f = [i \in DOMAIN gs |-> RowsOfGroup(p, i)]
      BY <1>1 DEF GroupedRows
    <3> HIDE DEF gs, f
    <3> QED BY <3>1
  <2>2. RowsOf(p) = FlattenSeq(f)
    BY DEF RowsOf, GroupedRows, RowsOfGroup, RowAt
  <2> HIDE DEF f, gs
  <2> QED BY <2>1, <2>2 DEF Joined
<1> HIDE DEF gs, f
<1>5. QED BY <1>1, <1>2, <1>3, <1>4 DEF gs, f

LEMMA RowsOfType ==
  ASSUME scenario \in Scenarios, NEW p
  PROVE  RowsOf(p) \in Seq(RowsIn(p))
<1> DEFINE n == Len(Corpus(p).groups)
           f == GroupedRows(p)
<1>1. n \in Nat /\ RowsOf(p) = Joined(f, n) /\ \A i \in 1..n : f[i] \in Seq(RowsIn(p))
  BY RowsOfJoined
<1> HIDE DEF n, f
<1> QED BY <1>1, JoinedType

\* No two rows of a file are the same, as they are numbered.
LEMMA RowsOfApart ==
  ASSUME scenario \in Scenarios, NEW p
  PROVE  \A a, b \in DOMAIN RowsOf(p) :
           a # b => IdOf(RowsOf(p)[a]) # IdOf(RowsOf(p)[b])
<1> DEFINE n == Len(Corpus(p).groups)
           f == GroupedRows(p)
<1>1. /\ n \in Nat /\ RowsOf(p) = Joined(f, n)
      /\ \A i \in 1..n : f[i] = RowsOfGroup(p, i) /\ f[i] \in Seq(RowsIn(p))
  BY RowsOfJoined
<1>2. \A i \in 1..n : \A j \in DOMAIN f[i] :
        /\ f[i][j] = RowAt(p, i, j)
        /\ f[i][j].group = <<p, i>> /\ f[i][j].index = j
  <2> SUFFICES ASSUME NEW i \in 1..n, NEW j \in DOMAIN f[i]
               PROVE  f[i][j] = RowAt(p, i, j)
    BY DEF RowAt
  <2> QED BY <1>1 DEF RowsOfGroup
<1> HIDE DEF f, n
<1>3. \A i \in 1..n : AllApart(f[i])
  <2> SUFFICES ASSUME NEW i \in 1..n, NEW a \in DOMAIN f[i], NEW b \in DOMAIN f[i], a # b
               PROVE  f[i][a] # f[i][b]
    BY DEF AllApart
  <2> QED BY <1>2
<1>4. \A i, j \in 1..n : i # j => ToSet(f[i]) \cap ToSet(f[j]) = {}
  <2> SUFFICES ASSUME NEW i \in 1..n, NEW j \in 1..n, i # j,
                      NEW x \in ToSet(f[i]), x \in ToSet(f[j])
               PROVE  FALSE
    OBVIOUS
  <2>1. x.group = <<p, i>>
    BY <1>2 DEF ToSet
  <2>2. x.group = <<p, j>>
    BY <1>2 DEF ToSet
  <2> QED BY <2>1, <2>2
<1>5. AllApart(RowsOf(p))
  BY <1>1, <1>3, <1>4, JoinedApart
<1>6. \A r, s \in RowsIn(p) : IdOf(r) = IdOf(s) => r = s
  <2> SUFFICES ASSUME NEW r \in RowsIn(p), NEW s \in RowsIn(p), IdOf(r) = IdOf(s)
               PROVE  r = s
    OBVIOUS
  <2>1. PICK i, j : r = RowAt(p, i, j)
    BY DEF RowsIn
  <2>2. PICK k, l : s = RowAt(p, k, l)
    BY DEF RowsIn
  <2>3. /\ r.group = <<p, i>> /\ r.index = j /\ s.group = <<p, k>> /\ s.index = l
        /\ r.group = s.group /\ r.index = s.index
    BY <2>1, <2>2 DEF RowAt, IdOf
  <2>4. i = k /\ j = l
    BY <2>3
  <2> QED BY <2>1, <2>2, <2>4
<1>7. RowsOf(p) \in Seq(RowsIn(p))
  BY RowsOfType
<1>8. \A a \in DOMAIN RowsOf(p) : RowsOf(p)[a] \in RowsIn(p)
  BY <1>7
<1> QED BY <1>5, <1>6, <1>8 DEF AllApart

----------------------------------------------------------------------------
(* The command line.                                                       *)

LEMMA WithValueType ==
  ASSUME NEW o, IsOptions(o), NEW option \in Valued, NEW arg \in STRING,
         Accepts(option, arg)
  PROVE  IsOptions(WithValue(o, option, arg))
<1> DEFINE P == WithValue(o, option, arg)
<1>0. Append(o.inputs, arg) \in Seq(STRING) /\ Append(o.inputDirs, arg) \in Seq(STRING)
  BY DEF IsOptions
<1>d. DOMAIN o = {"inputs", "inputDirs", "mnemonics", "opcodes", "limitStates",
                  "limitInstructions", "reportJsonl", "reportSkipsJsonl", "execute",
                  "stopOnFirstFail", "selfTest", "help"}
  BY DEF IsOptions, DefaultOptions
<1>1. CASE option = "--input"
  <2>1. P = [o EXCEPT !.inputs = Append(@, arg)]
    BY <1>1 DEF WithValue
  <2> QED BY <1>0, <1>d, <2>1 DEF IsOptions
<1>2. CASE option = "--input-dir"
  <2>1. P = [o EXCEPT !.inputDirs = Append(@, arg)]
    BY <1>2 DEF WithValue
  <2> QED BY <1>0, <1>d, <2>1 DEF IsOptions
<1>3. CASE option = "--mnemonic"
  <2>1. P = [o EXCEPT !.mnemonics = @ \cup Csv[arg]]
    BY <1>3 DEF WithValue
  <2> QED BY <1>d, <2>1 DEF IsOptions
<1>4. CASE option = "--opcode"
  <2>1. P = [o EXCEPT !.opcodes = @ \cup Csv[arg]]
    BY <1>4 DEF WithValue
  <2> QED BY <1>d, <2>1 DEF IsOptions
<1>5. CASE option \in {"--limit-states", "--limit-instructions"}
  <2>1. Number[arg] \in Nat
    BY <1>5, CommandLineAssumption DEF Accepts
  <2>2. \/ P = [o EXCEPT !.limitStates = Number[arg]]
        \/ P = [o EXCEPT !.limitInstructions = Number[arg]]
    BY <1>5 DEF WithValue
  <2> QED BY <1>d, <2>1, <2>2 DEF IsOptions
<1>6. CASE option \in {"--report-jsonl", "--report-skips-jsonl"}
  <2>1. \/ P = [o EXCEPT !.reportJsonl = arg]
        \/ P = [o EXCEPT !.reportSkipsJsonl = arg]
    BY <1>6 DEF WithValue
  <2> QED BY <1>d, <2>1 DEF IsOptions
<1> QED BY <1>1, <1>2, <1>3, <1>4, <1>5, <1>6 DEF Valued

LEMMA WithSwitchType ==
  ASSUME NEW o, IsOptions(o), NEW switch \in Switches
  PROVE  IsOptions(WithSwitch(o, switch)) /\ WithSwitch(o, switch).inputs = o.inputs
<1> DEFINE P == WithSwitch(o, switch)
<1>1. \/ P = [o EXCEPT !.help = TRUE]
      \/ P = [o EXCEPT !.selfTest = TRUE]
      \/ P = [o EXCEPT !.execute = TRUE]
      \/ P = [o EXCEPT !.stopOnFirstFail = TRUE]
      \/ P = o
  BY DEF WithSwitch, Switches
<1>2. DOMAIN o = {"inputs", "inputDirs", "mnemonics", "opcodes", "limitStates",
                  "limitInstructions", "reportJsonl", "reportSkipsJsonl", "execute",
                  "stopOnFirstFail", "selfTest", "help"}
  BY DEF IsOptions, DefaultOptions
<1> HIDE DEF P
<1>3. IsOptions(P) /\ P.inputs = o.inputs
  BY <1>1, <1>2 DEF IsOptions
<1> QED BY <1>3 DEF P

LEMMA OptionsAfterType ==
  ASSUME NEW o, IsOptions(o), NEW w \in Valued \cup {""}, NEW arg \in STRING,
         ~ Refuses(w, arg)
  PROVE  IsOptions(OptionsAfter(o, w, arg)) /\ WaitingAfter(w, arg) \in Valued \cup {""}
<1>0. "" \notin Valued /\ Valued \cap Switches = {} /\ "--input" \in Valued
  BY DEF Valued, Switches
<1>1. CASE w # ""
  <2>1. OptionsAfter(o, w, arg) = WithValue(o, w, arg)
    BY <1>1 DEF OptionsAfter
  <2> QED BY <1>1, <2>1, WithValueType DEF Refuses, WaitingAfter
<1>2. CASE w = "" /\ arg \in Switches
  <2>1. OptionsAfter(o, w, arg) = WithSwitch(o, arg)
    BY <1>0, <1>2, CommandLineAssumption DEF OptionsAfter
  <2> QED BY <1>0, <1>2, <2>1, WithSwitchType DEF WaitingAfter
<1>3. CASE w = "" /\ arg \in Valued
  <2>1. OptionsAfter(o, w, arg) = o
    BY <1>0, <1>3, CommandLineAssumption DEF OptionsAfter
  <2> QED BY <1>3, <2>1 DEF WaitingAfter
<1>4. CASE w = "" /\ arg \notin Dashed
  <2>1. OptionsAfter(o, w, arg) = WithValue(o, "--input", arg)
    BY <1>0, <1>4, CommandLineAssumption DEF OptionsAfter
  <2>2. Accepts("--input", arg)
    BY DEF Accepts
  <2> QED BY <1>0, <1>4, <2>1, <2>2, WithValueType DEF WaitingAfter
<1> QED BY <1>1, <1>2, <1>3, <1>4 DEF Refuses

LEMMA FilesInType ==
  ASSUME NEW dir, NEW mnemonics
  PROVE  FilesIn(dir, mnemonics) \in Seq(STRING)
  BY OnlyType, CommandLineAssumption DEF FilesIn

LEMMA WithDirectoriesType ==
  ASSUME NEW o, IsOptions(o)
  PROVE  IsOptions(WithDirectories(o))
<1> DEFINE n == Len(o.inputDirs)
           f == [i \in DOMAIN o.inputDirs |-> FilesIn(o.inputDirs[i], o.mnemonics)]
<1>1. n \in Nat /\ DOMAIN o.inputDirs = 1..n
  BY DEF IsOptions
<1>2. FlattenSeq(f) = Joined(f, n)
  <2>1. f = [i \in 1..n |-> f[i]]
    <3>1. DOMAIN o.inputDirs = 1..n
      BY <1>1
    <3> HIDE DEF n
    <3> QED BY <3>1
  <2> HIDE DEF f, n
  <2> QED BY <2>1 DEF Joined
<1>3. Joined(f, n) \in Seq(STRING)
  <2>1. \A i \in 1..n : f[i] \in Seq(STRING)
    BY <1>1, FilesInType
  <2> HIDE DEF f, n
  <2> QED BY <1>1, <2>1, JoinedType
<1>4. WithDirectories(o) = [o EXCEPT !.inputs = @ \o FlattenSeq(f)]
  BY DEF WithDirectories
<1> HIDE DEF f
<1>5. o.inputs \o FlattenSeq(f) \in Seq(STRING)
  BY <1>2, <1>3 DEF IsOptions
<1>6. DOMAIN o = {"inputs", "inputDirs", "mnemonics", "opcodes", "limitStates",
                  "limitInstructions", "reportJsonl", "reportSkipsJsonl", "execute",
                  "stopOnFirstFail", "selfTest", "help"}
  BY DEF IsOptions, DefaultOptions
<1> QED BY <1>4, <1>5, <1>6 DEF IsOptions

----------------------------------------------------------------------------
(* Type correctness.                                                       *)

LEMMA InitType == Init => TypeInv
<1> SUFFICES ASSUME Init PROVE TypeInv
  OBVIOUS
<1>1. /\ scenario \in Scenarios /\ waiting = "" /\ pc = "arguments" /\ file = 0 /\ exit = 0
  BY DEF Init
<1>8. todo \in Seq(STRING)
  BY WorldType DEF Init
<1>9. options = DefaultOptions
  BY DEF Init
<1>0. <<>> \in Seq(STRING) /\ Len(<<>>) = 0 /\ DOMAIN <<>> = {} /\ <<>> \in Seq(Keys)
  OBVIOUS
<1>2. IsOptions(options)
  <2>1. /\ DefaultOptions.inputs = <<>> /\ DefaultOptions.inputDirs = <<>>
        /\ DefaultOptions.limitStates = 0 /\ DefaultOptions.limitInstructions = 0
        /\ DefaultOptions.execute = FALSE /\ DefaultOptions.stopOnFirstFail = FALSE
        /\ DefaultOptions.selfTest = FALSE /\ DefaultOptions.help = FALSE
    BY DEF DefaultOptions
  <2>2. IsOptions(DefaultOptions)
    <3>1. 0 \in Nat /\ FALSE \in BOOLEAN
      OBVIOUS
    <3> QED BY <1>0, <2>1, <3>1, Zenon DEF IsOptions
  <2> QED BY <1>9, <2>2
<1>3. /\ batch = <<>> /\ prepared = "no" /\ answer = [k \in Keys |-> "none"]
      /\ groups = {} /\ decoded = {} /\ summary = ZeroSummary /\ report = NoLines
  BY DEF Init
<1>4. /\ reached \in [groups : Nat, rows : Nat] /\ batch \in Seq(Keys)
      /\ summary \in [DOMAIN ZeroSummary -> Nat]
      /\ \A x \in DOMAIN report.reasons : report.reasons[x] \in Nat
  <2>1. reached \in [groups : Nat, rows : Nat]
    BY DEF Init
  <2>2. ZeroSummary \in [DOMAIN ZeroSummary -> Nat]
    BY DEF ZeroSummary
  <2>3. NoLines.reasons = <<>>
    BY DEF NoLines
  <2> QED BY <1>0, <1>3, <2>1, <2>2, <2>3
<1>5. file \in 0..Len(options.inputs)
  <2>1. options.inputs = <<>>
    BY <1>9 DEF DefaultOptions
  <2>2. Len(options.inputs) = 0
    BY <1>0, <2>1
  <2>3. file = 0
    BY <1>1
  <2> QED BY <2>2, <2>3
<1>6. \A i \in DOMAIN todo : todo[i] \in STRING
  BY <1>8
<1>10. ReportIsTyped
  <2>1. /\ NoLines.mismatches = <<>> /\ NoLines.skips = <<>> /\ NoLines.reasons = <<>>
        /\ DOMAIN NoLines = {"mismatches", "skips", "reasons"}
    BY DEF NoLines
  <2>2. IsFiniteSet({}) /\ \A S : <<>> \in Seq(S)
    BY FS_EmptySet
  <2> QED BY <1>0, <1>3, <2>1, <2>2 DEF ReportIsTyped
<1>7. TypeOK
  BY <1>1, <1>2, <1>3, <1>4, <1>5, <1>6 DEF TypeOK, IsOptions
<1> QED BY <1>1, <1>2, <1>3, <1>7, <1>8, <1>10 DEF TypeInv, TodoIsTyped, PhasesKeepOrder

LEMMA TailType ==
  ASSUME NEW S, NEW s \in Seq(S), s # <<>>
  PROVE  /\ Head(s) \in S /\ Tail(s) \in Seq(S) /\ Head(s) = s[1]
         /\ 1 \in DOMAIN s /\ Len(Tail(s)) = Len(s) - 1 /\ Len(s) \in Nat
         /\ \A i \in 1..(Len(s) - 1) : Tail(s)[i] = s[i + 1]
  OBVIOUS

LEMMA ParseArgumentType == TypeInv /\ ParseArgument => TypeInv'
<1> SUFFICES ASSUME TypeInv, ParseArgument PROVE TypeInv'
  OBVIOUS
<1>1. todo \in Seq(STRING) /\ pc = "arguments" /\ todo # <<>>
  BY DEF TypeInv, TodoIsTyped, ParseArgument
<1>2. Head(todo) \in STRING /\ todo' \in Seq(STRING) /\ todo' = Tail(todo)
  BY <1>1, TailType DEF ParseArgument
<1>3. \A i \in DOMAIN todo' : todo'[i] \in STRING
  BY <1>2
<1>4. \/ pc' = "aborted" /\ exit' = 1 /\ UNCHANGED <<options, waiting>>
      \/ /\ ~ Refuses(waiting, Head(todo))
         /\ options' = OptionsAfter(options, waiting, Head(todo))
         /\ waiting' = WaitingAfter(waiting, Head(todo))
         /\ UNCHANGED <<pc, exit>>
  BY DEF ParseArgument, Throw
<1>5. UNCHANGED <<scenario, file, batch, reached, prepared, answer, groups, decoded,
                  summary, report>>
  BY DEF ParseArgument, preparing, backend, counting
<1>6. IsOptions(options') /\ waiting' \in Valued \cup {""}
  BY <1>2, <1>4, OptionsAfterType DEF TypeInv
<1>7. file' = 0 /\ pc' \in {"arguments", "aborted"} /\ exit' \in {0, 1}
  BY <1>1, <1>4, <1>5 DEF TypeInv, PhasesKeepOrder
<1>8. file' \in 0..Len(options'.inputs)
  <2>1. options'.inputs \in Seq(STRING)
    BY <1>6 DEF IsOptions
  <2>2. Len(options'.inputs) \in Nat
    BY <2>1
  <2> QED BY <1>7, <2>2
<1>9. TypeOK'
  <2>1. DOMAIN options' = DOMAIN DefaultOptions /\ options'.inputs \in Seq(STRING)
    BY <1>6 DEF IsOptions
  <2> QED BY <1>3, <1>5, <1>7, <1>8, <2>1 DEF TypeOK, TypeInv
<1>10. TodoIsTyped'
  BY <1>2, <1>7 DEF TodoIsTyped
<1>11. PhasesKeepOrder'
  BY <1>1, <1>4, <1>5 DEF TypeInv, PhasesKeepOrder
<1> QED BY <1>5, <1>6, <1>9, <1>10, <1>11 DEF TypeInv, ReportIsTyped

LEMMA LaunchType == TypeInv /\ Launch => TypeInv'
<1> SUFFICES ASSUME TypeInv, Launch PROVE TypeInv'
  OBVIOUS
<1>1. todo = <<>> /\ pc = "arguments" /\ file = 0 /\ exit = 0
  BY DEF Launch, TypeInv, PhasesKeepOrder
<1>2. UNCHANGED <<scenario, waiting, file, todo, batch, reached, prepared, answer,
                  groups, decoded, summary, report>>
  BY DEF Launch, preparing, backend, counting
<1>3. \/ UNCHANGED options /\ pc' = "aborted" /\ exit' = 1
      \/ /\ options' = WithDirectories(options)
         /\ \/ pc' = "aborted" /\ exit' = 1
            \/ pc' = "usage" /\ exit' \in {0, 2}
            \/ pc' \in {"prepare", "rows"} /\ exit' = exit
  BY DEF Launch, Throw, Usage
<1>4. IsOptions(options')
  BY <1>3, WithDirectoriesType DEF TypeInv
<1>5. /\ pc' \in {"aborted", "usage", "prepare", "rows"} /\ exit' \in {0, 1, 2}
      /\ todo' = <<>>
  BY <1>1, <1>2, <1>3
<1>6. file' \in 0..Len(options'.inputs)
  BY <1>1, <1>2, <1>4 DEF IsOptions
<1>7. TypeOK'
  <2>1. DOMAIN options' = DOMAIN DefaultOptions /\ options'.inputs \in Seq(STRING)
    BY <1>4 DEF IsOptions
  <2>2. DOMAIN todo' = {}
    BY <1>5
  <2> QED BY <1>2, <1>5, <1>6, <2>1, <2>2 DEF TypeOK, TypeInv
<1>8. TodoIsTyped'
  <2>1. \A S : <<>> \in Seq(S)
    OBVIOUS
  <2> QED BY <1>5, <2>1 DEF TodoIsTyped
<1>9. PhasesKeepOrder'
  BY <1>1, <1>2, <1>3 DEF TypeInv, PhasesKeepOrder
<1> QED BY <1>2, <1>4, <1>7, <1>8, <1>9 DEF TypeInv, ReportIsTyped

LEMMA HeadersOf ==
  ASSUME scenario \in Scenarios, NEW p
  PROVE  Corpus(p).groups \in Seq(Headers)
<1>1. Corpus(p).groups \in Seq(ToSet(Corpus(p).groups))
  BY WorldType DEF IsFile
<1>2. CASE p \in Paths
  <2>1. ToSet(Corpus(p).groups) \subseteq Headers
    BY <1>2 DEF Headers
  <2> QED BY <1>1, <2>1
<1>3. CASE p \notin Paths
  <2>1. Corpus(p).groups = <<>>
    BY <1>3 DEF Corpus, NoFile
  <2> QED BY <2>1
<1> QED BY <1>2, <1>3

LEMMA HeaderIsTyped ==
  ASSUME scenario \in Scenarios, NEW h \in Headers
  PROVE  HeaderType(h) /\ IsGroup(h)
<1>1. PICK p \in Paths : h \in ToSet(Corpus(p).groups)
  BY DEF Headers
<1>2. PICK i \in DOMAIN Corpus(p).groups : h = Corpus(p).groups[i]
  BY <1>1 DEF ToSet
<1>3. IsGroup(h)
  BY <1>2, GroupType
<1> QED BY <1>3 DEF HeaderType, IsGroup

LEMMA OpenForHeadersType == TypeInv /\ OpenForHeaders => TypeInv'
<1> SUFFICES ASSUME TypeInv, OpenForHeaders PROVE TypeInv'
  OBVIOUS
<1>1. /\ pc = "prepare" /\ todo = <<>> /\ file # Len(options.inputs) /\ file' = file + 1
      /\ exit = 0
  BY DEF OpenForHeaders, NoMoreInputs, TypeInv, PhasesKeepOrder
<1>2. UNCHANGED <<scenario, options, waiting, batch, reached, prepared, answer, groups,
                  decoded, summary, report>>
  BY DEF OpenForHeaders, world, preparing, backend, counting
<1>3. \/ pc' = "aborted" /\ exit' = 1 /\ todo' = <<>>
      \/ pc' = "prepare" /\ exit' = 0 /\ todo' = Corpus(NextInput).groups
  BY <1>1 DEF OpenForHeaders, Throw
<1>4. \A S : <<>> \in Seq(S)
  OBVIOUS
<1>5. \/ pc' = "aborted" /\ todo' = <<>>
      \/ pc' = "prepare" /\ todo' \in Seq(Headers)
  <2>1. Corpus(NextInput).groups \in Seq(Headers)
    BY HeadersOf DEF TypeInv
  <2> QED BY <1>3, <2>1
<1>6. TodoIsTyped'
  <2>1. Headers' = Headers
    BY <1>2 DEF Headers, Corpus
  <2> QED BY <1>4, <1>5, <2>1 DEF TodoIsTyped
<1>7. \A i \in DOMAIN todo' : pc' = "prepare" /\ HeaderType(todo'[i])
  <2>1. CASE todo' = <<>>
    BY <2>1
  <2>2. CASE pc' = "prepare" /\ todo' \in Seq(Headers)
    <3>1. \A i \in DOMAIN todo' : todo'[i] \in Headers
      BY <2>2
    <3> QED BY <2>2, <3>1, HeaderIsTyped DEF TypeInv
  <2> QED BY <1>5, <2>1, <2>2
<1>8. file' \in 0..Len(options'.inputs)
  <2>1. file \in 0..Len(options.inputs) /\ options.inputs \in Seq(STRING)
    BY DEF TypeInv, TypeOK
  <2>2. Len(options.inputs) \in Nat
    BY <2>1
  <2> QED BY <1>1, <1>2, <2>1, <2>2
<1>9. TypeOK'
  BY <1>2, <1>3, <1>7, <1>8 DEF TypeInv, TypeOK, HeaderType
<1>10. PhasesKeepOrder'
  BY <1>1, <1>2, <1>3 DEF TypeInv, PhasesKeepOrder
<1> QED BY <1>2, <1>6, <1>9, <1>10 DEF TypeInv, IsOptions, ReportIsTyped

LEMMA HeadersEndType == TypeInv /\ HeadersEnd => TypeInv'
<1> SUFFICES ASSUME TypeInv, HeadersEnd PROVE TypeInv'
  OBVIOUS
<1>1. /\ pc = "prepare" /\ todo = <<>> /\ pc' = "compile"
      /\ UNCHANGED <<scenario, options, waiting, file, todo, batch, reached, prepared,
                     answer, groups, decoded, summary, report, exit>>
  BY DEF HeadersEnd, world, preparing, backend, counting
<1>2. DOMAIN todo' = {}
  BY <1>1
<1>3. TypeOK'
  BY <1>1, <1>2 DEF TypeInv, TypeOK
<1>4. TodoIsTyped'
  BY <1>1 DEF TodoIsTyped
<1>5. PhasesKeepOrder'
  BY <1>1 DEF TypeInv, PhasesKeepOrder
<1> QED BY <1>1, <1>3, <1>4, <1>5 DEF TypeInv, IsOptions, ReportIsTyped

LEMMA RowsLeftType ==
  ASSUME options.limitStates \in Nat, reached.rows \in Nat, NEW h, h.declared \in Nat,
         ~ PrepareLimitReached
  PROVE  RowsLeft(h) \in Nat
<1>1. options.limitStates = 0 \/ reached.rows < options.limitStates
  BY DEF PrepareLimitReached, Reaches
<1> QED BY <1>1 DEF RowsLeft

LEMMA AddToBatchType ==
  ASSUME batch \in Seq(Keys), NEW h, h.key \in Keys, AddToBatch(h)
  PROVE  batch' \in Seq(Keys)
<1>1. Append(batch, h.key) \in Seq(Keys)
  OBVIOUS
<1>2. batch' = batch \/ batch' = Append(batch, h.key)
  BY DEF AddToBatch
<1> QED BY <1>1, <1>2

LEMMA PrepareHeaderType == TypeInv /\ PrepareHeader => TypeInv'
<1> SUFFICES ASSUME TypeInv, PrepareHeader PROVE TypeInv'
  OBVIOUS
<1> DEFINE h == Head(todo)
<1>1. pc = "prepare" /\ todo # <<>> /\ todo \in Seq(Headers)
  BY DEF PrepareHeader, TypeInv, TodoIsTyped
<1>2. UNCHANGED <<scenario, options, waiting, file, prepared, answer, groups, decoded,
                  summary, report, exit>>
  BY DEF PrepareHeader, world, backend, counting
<1>3. h \in Headers /\ Tail(todo) \in Seq(Headers)
  BY <1>1, TailType
<1>4. HeaderType(h)
  BY <1>3, HeaderIsTyped DEF TypeInv
<1>5. \/ pc' = pc /\ todo' = Tail(todo) /\ UNCHANGED <<batch, reached>>
      \/ pc' = "compile" /\ todo' = <<>> /\ UNCHANGED <<batch, reached>>
      \/ /\ pc' = pc /\ todo' = Tail(todo) /\ ~ PrepareLimitReached
         /\ reached' = [groups |-> reached.groups + 1, rows |-> reached.rows + RowsLeft(h)]
         /\ AddToBatch(h)
  BY DEF PrepareHeader, preparing
<1> HIDE DEF h
<1>6. reached' \in [groups : Nat, rows : Nat]
  <2>1. reached \in [groups : Nat, rows : Nat] /\ options.limitStates \in Nat
    BY DEF TypeInv, TypeOK, IsOptions
  <2>2. CASE UNCHANGED reached
    BY <2>1, <2>2
  <2>3. CASE /\ ~ PrepareLimitReached
             /\ reached' = [groups |-> reached.groups + 1, rows |-> reached.rows + RowsLeft(h)]
    <3>1. RowsLeft(h) \in Nat
      BY <1>4, <2>1, <2>3, RowsLeftType DEF HeaderType
    <3>2. reached.groups + 1 \in Nat /\ reached.rows + RowsLeft(h) \in Nat
      BY <2>1, <3>1
    <3> QED BY <2>3, <3>2
  <2> QED BY <1>5, <2>2, <2>3
<1>7. batch' \in Seq(Keys)
  <2>1. batch \in Seq(Keys)
    BY DEF TypeInv, TypeOK
  <2> QED BY <1>4, <1>5, <2>1, AddToBatchType DEF HeaderType
<1>8. \/ pc' = "compile" /\ todo' = <<>>
      \/ pc' = "prepare" /\ todo' \in Seq(Headers)
  BY <1>1, <1>3, <1>5
<1>9. \A i \in DOMAIN todo' : pc' = "prepare" /\ HeaderType(todo'[i])
  <2>1. CASE todo' = <<>>
    BY <2>1
  <2>2. CASE pc' = "prepare" /\ todo' \in Seq(Headers)
    <3>1. \A i \in DOMAIN todo' : todo'[i] \in Headers
      BY <2>2
    <3> QED BY <2>2, <3>1, HeaderIsTyped DEF TypeInv
  <2> QED BY <1>8, <2>1, <2>2
<1>10. TypeOK'
  BY <1>2, <1>6, <1>7, <1>8, <1>9 DEF TypeInv, TypeOK, HeaderType
<1>11. TodoIsTyped'
  <2>1. Headers' = Headers
    BY <1>2 DEF Headers, Corpus
  <2> QED BY <1>8, <2>1 DEF TodoIsTyped
<1>12. PhasesKeepOrder'
  BY <1>1, <1>2, <1>8 DEF TypeInv, PhasesKeepOrder
<1> QED BY <1>2, <1>10, <1>11, <1>12 DEF TypeInv, IsOptions, ReportIsTyped

LEMMA PrepareCasesType == TypeInv /\ PrepareCases => TypeInv'
<1> SUFFICES ASSUME TypeInv, PrepareCases PROVE TypeInv'
  OBVIOUS
<1>1. /\ pc = "compile" /\ todo = <<>> /\ exit = 0
      /\ UNCHANGED <<scenario, options, waiting, todo, batch, reached, answer, groups,
                     decoded, summary, report>>
  BY DEF PrepareCases, world, preparing, counting, TypeInv, TodoIsTyped, PhasesKeepOrder
<1>2. prepared' \in {"done", "failed"}
  BY DEF PrepareCases, Backend!Prepare
<1>3. \/ pc' = "aborted" /\ exit' = 1 /\ UNCHANGED file
      \/ pc' = "rows" /\ exit' = 0 /\ file' = 0
  BY <1>1 DEF PrepareCases, Throw
<1>4. file' \in 0..Len(options'.inputs)
  <2>1. file \in 0..Len(options.inputs) /\ options.inputs \in Seq(STRING)
    BY DEF TypeInv, TypeOK
  <2>2. Len(options.inputs) \in Nat
    BY <2>1
  <2> QED BY <1>1, <1>3, <2>1, <2>2
<1>5. DOMAIN todo' = {}
  BY <1>1
<1>6. TypeOK'
  BY <1>1, <1>2, <1>3, <1>4, <1>5 DEF TypeInv, TypeOK
<1>7. TodoIsTyped'
  <2>1. <<>> \in Seq(STRING)
    OBVIOUS
  <2> QED BY <1>1, <1>3, <2>1 DEF TodoIsTyped
<1>8. PhasesKeepOrder'
  BY <1>3 DEF PhasesKeepOrder
<1> QED BY <1>1, <1>6, <1>7, <1>8 DEF TypeInv, IsOptions, ReportIsTyped

LEMMA WarningsType ==
  ASSUME scenario \in Scenarios, NEW p
  PROVE  Warnings(p) \in Nat
<1> DEFINE gs == Corpus(p).groups
           W == {i \in DOMAIN gs : gs[i].declared # Len(gs[i].rows)}
<1>1. DOMAIN gs = 1..Len(gs) /\ Len(gs) \in Nat
  BY WorldType DEF IsFile
<1>2. IsFiniteSet(W)
  <2>1. IsFiniteSet(1..Len(gs)) /\ W \subseteq 1..Len(gs)
    BY <1>1, FS_Interval
  <2> HIDE DEF W
  <2> QED BY <2>1, FS_Subset
<1>3. Warnings(p) = Cardinality(W)
  BY DEF Warnings
<1> HIDE DEF W
<1> QED BY <1>2, <1>3, FS_CardinalityType

LEMMA Increased ==
  ASSUME NEW D, NEW s \in [D -> Nat], NEW x \in D, NEW n \in Nat
  PROVE  [s EXCEPT ![x] = @ + n] \in [D -> Nat]
  OBVIOUS

LEMMA OpenForRowsType == TypeInv /\ OpenForRows => TypeInv'
<1> SUFFICES ASSUME TypeInv, OpenForRows PROVE TypeInv'
  OBVIOUS
<1>1. /\ pc = "rows" /\ todo = <<>> /\ file # Len(options.inputs) /\ file' = file + 1
      /\ exit = 0 /\ scenario \in Scenarios
  BY DEF OpenForRows, NoMoreInputs, TypeInv, PhasesKeepOrder
<1>2. UNCHANGED <<scenario, options, waiting, batch, reached, prepared, answer, groups,
                  decoded, report>>
  BY DEF OpenForRows, world, preparing, backend
<1> DEFINE Opened == [summary EXCEPT
                        !.files = @ + 1,
                        !.groups = @ + Len(Corpus(NextInput).groups),
                        !.rows = @ + Len(RowsOf(NextInput)),
                        !.warnings = @ + Warnings(NextInput)]
<1>3. \/ pc' = "aborted" /\ exit' = 1 /\ todo' = <<>> /\ summary' = summary
      \/ pc' = "rows" /\ exit' = 0 /\ todo' = RowsOf(NextInput) /\ summary' = Opened
  BY <1>1 DEF OpenForRows, Throw
<1>4. NextInput = options'.inputs[file']
  BY <1>1, <1>2 DEF NextInput
<1>5. RowsOf(NextInput) \in Seq(RowsIn(NextInput))
  BY <1>1, RowsOfType
<1>6. summary' \in [DOMAIN ZeroSummary -> Nat]
  <2>1. summary \in [DOMAIN ZeroSummary -> Nat]
    BY DEF TypeInv, TypeOK
  <2>2. Len(Corpus(NextInput).groups) \in Nat
    BY <1>1, WorldType DEF IsFile
  <2>3. Len(RowsOf(NextInput)) \in Nat
    BY <1>5
  <2>4. Warnings(NextInput) \in Nat
    BY <1>1, WarningsType
  <2>5. {"files", "groups", "rows", "warnings"} \subseteq DOMAIN ZeroSummary
    BY DEF ZeroSummary
  <2> DEFINE D == DOMAIN ZeroSummary
             a == Len(Corpus(NextInput).groups)
             b == Len(RowsOf(NextInput))
             c == Warnings(NextInput)
             O == [summary EXCEPT !.files = @ + 1, !.groups = @ + a, !.rows = @ + b,
                                  !.warnings = @ + c]
  <2>6. O = Opened
    OBVIOUS
  <2>7. /\ summary \in [D -> Nat] /\ a \in Nat /\ b \in Nat /\ c \in Nat
        /\ "files" \in D /\ "groups" \in D /\ "rows" \in D /\ "warnings" \in D
    BY <2>1, <2>2, <2>3, <2>4, <2>5
  <2> HIDE DEF D, a, b, c, Opened
  <2>8. O \in [D -> Nat]
    <3> DEFINE s1 == [summary EXCEPT !["files"] = @ + 1]
               s2 == [s1 EXCEPT !["groups"] = @ + a]
               s3 == [s2 EXCEPT !["rows"] = @ + b]
               s4 == [s3 EXCEPT !["warnings"] = @ + c]
    <3>1. s1 \in [D -> Nat]
      BY <2>7, Increased
    <3> HIDE DEF s1
    <3>2. s2 \in [D -> Nat]
      BY <2>7, <3>1, Increased
    <3> HIDE DEF s2
    <3>3. s3 \in [D -> Nat]
      BY <2>7, <3>2, Increased
    <3> HIDE DEF s3
    <3>4. s4 \in [D -> Nat]
      BY <2>7, <3>3, Increased
    <3>5. O = s4
      BY <2>7, <3>1, <3>2, <3>3 DEF s1, s2, s3
    <3> QED BY <3>4, <3>5
  <2> HIDE DEF O
  <2>9. Opened \in [DOMAIN ZeroSummary -> Nat]
    BY <2>6, <2>8 DEF D
  <2> QED BY <1>3, <2>1, <2>9
<1> HIDE DEF Opened
<1>7. \/ pc' = "aborted" /\ todo' = <<>>
      \/ pc' = "rows" /\ todo' \in Seq(RowsIn(NextInput))
  BY <1>3, <1>5
<1>8. \A i \in DOMAIN todo' : pc' = "rows" /\ RowType(todo'[i])
  <2>1. CASE todo' = <<>>
    BY <2>1
  <2>2. CASE pc' = "rows" /\ todo' \in Seq(RowsIn(NextInput))
    <3>1. \A i \in DOMAIN todo' : todo'[i] \in RowsIn(NextInput)
      BY <2>2
    <3> QED BY <1>1, <2>2, <3>1, RowsInType
  <2> QED BY <1>7, <2>1, <2>2
<1>9. file' \in 0..Len(options'.inputs) /\ file' # 0
  <2>1. file \in 0..Len(options.inputs) /\ options.inputs \in Seq(STRING)
    BY DEF TypeInv, TypeOK
  <2>2. Len(options.inputs) \in Nat
    BY <2>1
  <2> QED BY <1>1, <1>2, <2>1, <2>2
<1>10. TypeOK'
  BY <1>2, <1>3, <1>6, <1>8, <1>9 DEF TypeInv, TypeOK, RowType, IsRow
<1>11. TodoIsTyped'
  <2>1. \A p : (RowsIn(p))' = RowsIn(p)
    BY <1>2 DEF RowsIn, RowAt, Corpus
  <2>2. <<>> \in Seq(STRING)
    OBVIOUS
  <2> QED BY <1>4, <1>7, <1>9, <2>1, <2>2 DEF TodoIsTyped
<1>12. PhasesKeepOrder'
  BY <1>3 DEF PhasesKeepOrder
<1> QED BY <1>2, <1>10, <1>11, <1>12 DEF TypeInv, IsOptions, ReportIsTyped

----------------------------------------------------------------------------
(* One row.                                                                *)

LEMMA CompileResult ==
  ASSUME TypeInv, NEW r, r.key \in Keys, Compile(r)
  PROVE  /\ UNCHANGED prepared
         /\ answer' \in [Keys -> {"none", "ready", "unsupported", "backend"}]
         /\ options.execute /\ SkipOf(r) = NoSkip =>
              /\ answer'[r.key] \in {"ready", "unsupported", "backend"}
              /\ answer'[r.key] = "unsupported" => FateOf(r.key) \in {"decode", "lift"}
              /\ answer'[r.key] = "ready" => FateOf(r.key) = "ok"
<1>1. answer \in [Keys -> {"none", "ready", "unsupported", "backend"}]
  BY DEF TypeInv, TypeOK
<1>2. CASE options.execute /\ SkipOf(r) = NoSkip
  <2>1. Backend!Demand(r.key)
    BY <1>2 DEF Compile
  <2>2. PICK a \in {"ready", "unsupported", "backend"} :
          /\ a = "ready" => Backend!IsReady(r.key)
          /\ a = "unsupported" => Backend!Refused(r.key)
          /\ answer' = [answer EXCEPT ![r.key] = a]
    BY <2>1 DEF Backend!Demand
  <2>3. answer'[r.key] = a
    BY <1>1, <2>2
  <2>4. a = "ready" => FateOf(r.key) = "ok"
    BY <2>2 DEF Backend!IsReady, FateOf
  <2>5. a = "unsupported" => FateOf(r.key) \in {"decode", "lift"}
    BY <2>2 DEF Backend!Refused, FateOf
  <2>6. answer' \in [Keys -> {"none", "ready", "unsupported", "backend"}]
    BY <1>1, <2>2
  <2> QED BY <2>2, <2>3, <2>4, <2>5, <2>6 DEF Compile
<1>3. CASE ~ (options.execute /\ SkipOf(r) = NoSkip)
  BY <1>1, <1>3 DEF Compile
<1> QED BY <1>2, <1>3

LEMMA VerdictType ==
  ASSUME NEW r, IsRow(r.row), NEW a
  PROVE  Verdict(r, a) \in {"none", "skipped", "failed", "passed"}
  BY DEF Verdict, IsRow, Outcomes, UnsupportedOutcomes

LEMMA AccountResult ==
  ASSUME summary \in [DOMAIN ZeroSummary -> Nat], NEW r, NEW verdict, Account(r, verdict)
  PROVE  /\ groups' = groups \cup {r.group} /\ decoded' = decoded \cup {r.key}
         /\ summary'.selectedGroups = summary.selectedGroups + One(r.group \notin groups)
         /\ summary'.uniqueDecodes = summary.uniqueDecodes + FirstOf(r, TRUE)
         /\ summary'.decodeFailures =
              summary.decodeFailures + FirstOf(r, ~ Decode(Instruction(r.key)).ok)
         /\ summary'.lengthMismatches =
              summary.lengthMismatches + FirstOf(r, LengthDiffers(Instruction(r.key)))
         /\ summary'.selectedRows = summary.selectedRows + 1
         /\ summary'.passed = summary.passed + One(verdict = "passed")
         /\ summary'.failed = summary.failed + One(verdict = "failed")
         /\ summary'.skipped = summary.skipped + One(verdict = "skipped")
         /\ summary' \in [DOMAIN ZeroSummary -> Nat]
<1> DEFINE D == {"files", "groups", "rows", "warnings", "selectedGroups", "selectedRows",
                 "uniqueDecodes", "decodeFailures", "lengthMismatches", "withoutOracle",
                 "passed", "failed", "skipped"}
           a == One(r.group \notin groups)
           b == FirstOf(r, TRUE)
           c == FirstOf(r, ~ Decode(Instruction(r.key)).ok)
           d == FirstOf(r, LengthDiffers(Instruction(r.key)))
           e == One(MemoryStateMissing(r))
           f == One(verdict = "passed")
           g == One(verdict = "failed")
           h == One(verdict = "skipped")
<1>1. DOMAIN ZeroSummary = D
  BY DEF ZeroSummary
<1>2. /\ summary' = [summary EXCEPT
                      !.selectedGroups = @ + a, !.uniqueDecodes = @ + b,
                      !.decodeFailures = @ + c, !.lengthMismatches = @ + d,
                      !.selectedRows = @ + 1, !.withoutOracle = @ + e,
                      !.passed = @ + f, !.failed = @ + g, !.skipped = @ + h]
      /\ groups' = groups \cup {r.group} /\ decoded' = decoded \cup {r.key}
  BY DEF Account
<1>3. /\ a \in Nat /\ b \in Nat /\ c \in Nat /\ d \in Nat /\ e \in Nat /\ f \in Nat
      /\ g \in Nat /\ h \in Nat
  BY DEF One, FirstOf
<1> HIDE DEF a, b, c, d, e, f, g, h
<1>4. summary \in [D -> Nat]
  BY <1>1
<1>5. /\ summary'.selectedGroups = summary.selectedGroups + a
      /\ summary'.uniqueDecodes = summary.uniqueDecodes + b
      /\ summary'.decodeFailures = summary.decodeFailures + c
      /\ summary'.lengthMismatches = summary.lengthMismatches + d
      /\ summary'.selectedRows = summary.selectedRows + 1
      /\ summary'.withoutOracle = summary.withoutOracle + e
      /\ summary'.passed = summary.passed + f
      /\ summary'.failed = summary.failed + g
      /\ summary'.skipped = summary.skipped + h
  BY <1>2, <1>4
<1>6. /\ summary'.files = summary.files /\ summary'.groups = summary.groups
      /\ summary'.rows = summary.rows /\ summary'.warnings = summary.warnings
  BY <1>2, <1>4
<1>7. summary' \in [D -> Nat]
  <2>1. summary' = [x \in D |-> summary'[x]]
    BY <1>2, <1>4
  <2>2. \A x \in D : summary[x] \in Nat
    BY <1>4
  <2>3. \A x \in D : summary'[x] \in Nat
    <3>1. /\ summary'.files \in Nat /\ summary'.groups \in Nat /\ summary'.rows \in Nat
          /\ summary'.warnings \in Nat
      BY <1>6, <2>2
    <3>2. /\ summary'.selectedGroups \in Nat /\ summary'.uniqueDecodes \in Nat
          /\ summary'.decodeFailures \in Nat /\ summary'.lengthMismatches \in Nat
          /\ summary'.selectedRows \in Nat /\ summary'.withoutOracle \in Nat
          /\ summary'.passed \in Nat /\ summary'.failed \in Nat /\ summary'.skipped \in Nat
      BY <1>3, <1>5, <2>2
    <3> QED BY <3>1, <3>2
  <2> HIDE DEF D
  <2> QED BY <2>1, <2>3
<1> QED BY <1>1, <1>2, <1>5, <1>7 DEF a, b, c, d, e, f, g, h

LEMMA RowIsTyped ==
  ASSUME TypeInv, pc = "rows", todo # <<>>
  PROVE  /\ scenario \in Scenarios /\ file # 0 /\ file \in 1..Len(options.inputs)
         /\ todo \in Seq(RowsIn(options.inputs[file]))
         /\ Head(todo) \in RowsIn(options.inputs[file])
         /\ Tail(todo) \in Seq(RowsIn(options.inputs[file]))
         /\ RowType(Head(todo))
<1>1. scenario \in Scenarios /\ file # 0 /\ todo \in Seq(RowsIn(options.inputs[file]))
  BY DEF TypeInv, TodoIsTyped
<1>2. file \in 1..Len(options.inputs)
  <2>1. file \in 0..Len(options.inputs)
    BY DEF TypeInv, TypeOK
  <2> QED BY <1>1, <2>1
<1>3. /\ Head(todo) \in RowsIn(options.inputs[file])
      /\ Tail(todo) \in Seq(RowsIn(options.inputs[file]))
  BY <1>1, TailType
<1> QED BY <1>1, <1>2, <1>3, RowsInType

LEMMA SkipOfType ==
  ASSUME NEW r PROVE SkipOf(r) = NoSkip \/ SkipOf(r) \in Reasons
<1>1. SkipOf(r) \in
        {"xed_decode_failed", "xed_length_mismatch", "memory_state_missing",
         "fpu_state_unsupported", "mmx_state_unsupported", "privileged_or_io_unsupported",
         "environment_read_unsupported", "descriptor_state_unsupported",
         "expected_exception_unsupported", "atomic128_unsupported",
         "popfq_flag_state_unsupported", NoSkip}
  BY DEF SkipOf, PreExecutionSkip
<1> QED BY <1>1 DEF Reasons

LEMMA ReasonType ==
  ASSUME NEW r, RowType(r), NEW a, Verdict(r, a) = "skipped",
         SkipOf(r) = NoSkip =>
           /\ a \in {"ready", "unsupported", "backend"}
           /\ a = "unsupported" => FateOf(r.key) \in {"decode", "lift"}
           /\ a = "ready" => FateOf(r.key) = "ok"
  PROVE  Reason(r) \in Reasons
<1>1. CASE SkipOf(r) # NoSkip
  BY <1>1, SkipOfType DEF Reason
<1>2. CASE SkipOf(r) = NoSkip /\ FateOf(r.key) = "lift"
  <2>1. Reason(r) = "unsupported:remill_lift"
    BY <1>2 DEF Reason
  <2> QED BY <2>1 DEF Reasons
<1>3. CASE SkipOf(r) = NoSkip /\ FateOf(r.key) = "decode"
  <2>1. Reason(r) = "unsupported:remill_decode"
    BY <1>3 DEF Reason
  <2> QED BY <2>1 DEF Reasons
<1>4. CASE SkipOf(r) = NoSkip /\ FateOf(r.key) \notin {"decode", "lift"}
  <2>1. a = "ready" /\ r.row.outcome \in UnsupportedOutcomes
    BY <1>4 DEF Verdict, RowType, IsRow, Outcomes, UnsupportedOutcomes
  <2>2. r.row.outcome \in {"stateKey", "stateBytes", "exception"}
    BY <2>1 DEF Outcomes, UnsupportedOutcomes
  <2>3. FateOf(r.key) # "lift" /\ FateOf(r.key) # "decode"
    BY <1>4
  <2> DEFINE o == r.row.outcome
             R == CASE o = "stateKey"   -> "unsupported:state_key"
                    [] o = "stateBytes" -> "unsupported:state_bytes"
                    [] o = "exception"  -> "unsupported:exception"
  <2>4. Reason(r) = R
    BY <1>4, <2>3 DEF Reason
  <2>5. o \in {"stateKey", "stateBytes", "exception"}
    BY <2>2
  <2> HIDE DEF o
  <2>6. R \in {"unsupported:state_key", "unsupported:state_bytes", "unsupported:exception"}
    BY <2>5
  <2> QED BY <2>4, <2>6 DEF Reasons
<1> QED BY <1>1, <1>2, <1>3, <1>4

LEMMA LineAdded ==
  ASSUME NEW S, NEW lines \in Seq(S), NEW path, NEW line \in S
  PROVE  /\ WithLine(lines, path, line) \in Seq(S)
         /\ path = NoPath => WithLine(lines, path, line) = lines
         /\ path # NoPath => WithLine(lines, path, line) = Append(lines, line)
  BY DEF WithLine

LEMMA ReportResult ==
  ASSUME ReportIsTyped, NEW r, IdOf(r) \in Ids, NEW v, v = "skipped" => Reason(r) \in Reasons,
         WriteReport(r, v), \A x \in DOMAIN report.reasons : report.reasons[x] \in Nat
  PROVE  /\ ReportIsTyped'
         /\ \A x \in DOMAIN report'.reasons : report'.reasons[x] \in Nat
         /\ v = "skipped" =>
              /\ report'.reasons = Counted(report.reasons, Reason(r))
              /\ report'.skips = SkipLines(r)
              /\ report'.mismatches = report.mismatches
         /\ v = "failed" =>
              /\ report'.mismatches =
                   WithLine(report.mismatches, options.reportJsonl, IdOf(r))
              /\ report'.skips = report.skips /\ report'.reasons = report.reasons
         /\ v \notin {"skipped", "failed"} => report' = report
<1> DEFINE counts == Counted(report.reasons, Reason(r))
           skips == SkipLines(r)
           fails == WithLine(report.mismatches, options.reportJsonl, IdOf(r))
<1>1. /\ DOMAIN report = {"mismatches", "skips", "reasons"}
      /\ report.mismatches \in Seq(Ids)
      /\ report.skips \in Seq(Lines)
      /\ IsFiniteSet(DOMAIN report.reasons)
  BY DEF ReportIsTyped
<1>2. fails \in Seq(Ids)
  BY <1>1, LineAdded
<1>3. CASE v = "skipped"
  <2>1. report' = [report EXCEPT !.reasons = counts, !.skips = skips]
    BY <1>3 DEF WriteReport
  <2>2. DOMAIN counts = DOMAIN report.reasons \cup {Reason(r)}
    BY DEF Counted
  <2>3. IsFiniteSet(DOMAIN counts)
    BY <1>1, <2>2, FS_AddElement
  <2>4. \A x \in DOMAIN counts : counts[x] \in Nat
    BY DEF Counted, One
  <2>5. skips \in Seq(Lines)
    <3>1. [id |-> IdOf(r), reason |-> Reason(r)] \in Lines
      BY <1>3 DEF Lines
    <3> QED BY <1>1, <3>1, LineAdded DEF SkipLines
  <2> HIDE DEF counts, skips, fails
  <2>6. report'.reasons = counts /\ report'.skips = skips
        /\ report'.mismatches = report.mismatches
        /\ DOMAIN report' = {"mismatches", "skips", "reasons"}
    BY <1>1, <2>1
  <2>7. ReportIsTyped'
    BY <1>1, <2>3, <2>5, <2>6 DEF ReportIsTyped
  <2> QED BY <1>3, <2>4, <2>6, <2>7 DEF counts, skips
<1>4. CASE v = "failed"
  <2>1. report' = [report EXCEPT !.mismatches = fails]
    BY <1>4 DEF WriteReport
  <2> HIDE DEF counts, skips, fails
  <2>2. /\ report'.mismatches = fails /\ report'.skips = report.skips
        /\ report'.reasons = report.reasons
        /\ DOMAIN report' = {"mismatches", "skips", "reasons"}
    BY <1>1, <2>1
  <2>3. ReportIsTyped'
    BY <1>1, <1>2, <2>2 DEF ReportIsTyped
  <2> QED BY <1>4, <2>2, <2>3 DEF fails
<1>5. CASE v \notin {"skipped", "failed"}
  <2>1. report' = report
    BY <1>5 DEF WriteReport
  <2> QED BY <1>1, <1>5, <2>1 DEF ReportIsTyped
<1> QED BY <1>3, <1>4, <1>5

\* What selecting a row does, as far as the types go.
LEMMA SelectedResult ==
  ASSUME TypeInv, pc = "rows", todo # <<>>, Selected(Head(todo))
  PROVE  LET r == Head(todo)
             v == Verdict(r, answer'[r.key])
         IN  /\ Account(r, v) /\ WriteReport(r, v)
             /\ v \in {"none", "skipped", "failed", "passed"}
             /\ v = "skipped" => Reason(r) \in Reasons
             /\ answer' \in [Keys -> {"none", "ready", "unsupported", "backend"}]
             /\ UNCHANGED prepared
<1> DEFINE r == Head(todo)
           v == Verdict(r, answer'[r.key])
<1>1. RowType(r) /\ scenario \in Scenarios
  BY RowIsTyped
<1>2. Compile(r) /\ Account(r, v) /\ WriteReport(r, v)
  BY DEF Selected
<1>3. r.key \in Keys /\ IsRow(r.row)
  BY <1>1 DEF RowType
<1>4. /\ answer' \in [Keys -> {"none", "ready", "unsupported", "backend"}]
      /\ UNCHANGED prepared
      /\ options.execute /\ SkipOf(r) = NoSkip =>
           /\ answer'[r.key] \in {"ready", "unsupported", "backend"}
           /\ answer'[r.key] = "unsupported" => FateOf(r.key) \in {"decode", "lift"}
           /\ answer'[r.key] = "ready" => FateOf(r.key) = "ok"
  BY <1>2, <1>3, CompileResult
<1>5. v \in {"none", "skipped", "failed", "passed"}
  BY <1>3, VerdictType
<1>6. ASSUME v = "skipped" PROVE Reason(r) \in Reasons
  <2>1. options.execute
    BY <1>6 DEF Verdict
  <2> DEFINE a == answer'[r.key]
  <2>2. SkipOf(r) = NoSkip =>
          /\ a \in {"ready", "unsupported", "backend"}
          /\ a = "unsupported" => FateOf(r.key) \in {"decode", "lift"}
          /\ a = "ready" => FateOf(r.key) = "ok"
    BY <1>4, <2>1
  <2>3. Verdict(r, a) = "skipped"
    BY <1>6
  <2> HIDE DEF a, r
  <2> QED BY <1>1, <2>2, <2>3, ReasonType
<1> HIDE DEF r, v
<1>7. QED BY <1>2, <1>4, <1>5, <1>6 DEF r, v

\* A row leaves the rest of the file to do, or nothing in any file.
LEMMA RowResult ==
  ASSUME TypeInv, Row
  PROVE  /\ pc = "rows" /\ pc' = "rows" /\ todo # <<>>
         /\ UNCHANGED <<scenario, options, waiting, batch, reached, exit>>
         /\ \/ todo' = Tail(todo) /\ UNCHANGED file
            \/ todo' = <<>> /\ file' = Len(options.inputs)
         /\ \/ UNCHANGED <<prepared, answer, groups, decoded, summary, report>>
            \/ Selected(Head(todo))
<1> DEFINE r == Head(todo)
<1>1. /\ pc = "rows" /\ pc' = "rows" /\ todo # <<>>
      /\ UNCHANGED <<scenario, options, waiting, batch, reached, exit>>
      /\ Unwanted(r) \/ CutOff(r) \/ Selected(r)
  BY DEF Row, world, preparing
<1> HIDE DEF r
<1>2. CASE Unwanted(r)
  BY <1>1, <1>2 DEF Unwanted, backend, counting
<1>3. CASE CutOff(r)
  BY <1>1, <1>3 DEF CutOff, Stop, backend, counting
<1>4. CASE Selected(r)
  <2>1. \/ todo' = Tail(todo) /\ UNCHANGED file
        \/ todo' = <<>> /\ file' = Len(options.inputs)
    BY <1>4 DEF Selected, Stop
  <2> QED BY <1>1, <1>4, <2>1 DEF r
<1> QED BY <1>1, <1>2, <1>3, <1>4

LEMMA RowStepType == TypeInv /\ Row => TypeInv'
<1> SUFFICES ASSUME TypeInv, Row PROVE TypeInv'
  OBVIOUS
<1> DEFINE r == Head(todo)
           P == options.inputs[file]
<1>1. /\ pc = "rows" /\ pc' = "rows" /\ todo # <<>>
      /\ UNCHANGED <<scenario, options, waiting, batch, reached, exit>>
      /\ \/ todo' = Tail(todo) /\ UNCHANGED file
         \/ todo' = <<>> /\ file' = Len(options.inputs)
      /\ \/ UNCHANGED <<prepared, answer, groups, decoded, summary, report>>
         \/ Selected(r)
  BY RowResult
<1>2. /\ scenario \in Scenarios /\ file # 0 /\ RowType(r)
      /\ Tail(todo) \in Seq(RowsIn(P)) /\ r \in RowsIn(P)
  BY <1>1, RowIsTyped
<1>3. /\ answer' \in [Keys -> {"none", "ready", "unsupported", "backend"}]
      /\ prepared' = prepared
      /\ groups' \subseteq Paths \X Nat /\ decoded' \subseteq Keys
      /\ summary' \in [DOMAIN ZeroSummary -> Nat]
      /\ ReportIsTyped'
      /\ \A x \in DOMAIN report'.reasons : report'.reasons[x] \in Nat
  <2>0. /\ answer \in [Keys -> {"none", "ready", "unsupported", "backend"}]
        /\ groups \subseteq Paths \X Nat /\ decoded \subseteq Keys
        /\ summary \in [DOMAIN ZeroSummary -> Nat]
        /\ ReportIsTyped
        /\ \A x \in DOMAIN report.reasons : report.reasons[x] \in Nat
    BY DEF TypeInv, TypeOK
  <2>1. CASE UNCHANGED <<prepared, answer, groups, decoded, summary, report>>
    <3>1. ReportIsTyped'
      BY <2>0, <2>1 DEF ReportIsTyped
    <3> QED BY <2>0, <2>1, <3>1
  <2>2. CASE Selected(r)
    <3> DEFINE v == Verdict(r, answer'[r.key])
    <3>1. /\ Account(r, v) /\ WriteReport(r, v) /\ (v = "skipped" => Reason(r) \in Reasons)
          /\ answer' \in [Keys -> {"none", "ready", "unsupported", "backend"}]
          /\ prepared' = prepared
      BY <1>1, <2>2, SelectedResult
    <3> HIDE DEF v
    <3>2. IdOf(r) \in Ids
      BY <1>2, RowsInType
    <3>3. /\ ReportIsTyped'
          /\ \A x \in DOMAIN report'.reasons : report'.reasons[x] \in Nat
      BY <2>0, <3>1, <3>2, ReportResult
    <3>4. /\ groups' = groups \cup {r.group} /\ decoded' = decoded \cup {r.key}
          /\ summary' \in [DOMAIN ZeroSummary -> Nat]
      BY <2>0, <3>1, AccountResult
    <3>5. r.group \in Paths \X Nat /\ r.key \in Keys
      BY <1>2 DEF RowType
    <3> QED BY <2>0, <3>1, <3>3, <3>4, <3>5
  <2> QED BY <1>1, <2>1, <2>2
<1>4. \/ todo' = <<>>
      \/ todo' \in Seq(RowsIn(P)) /\ file' = file
  BY <1>1, <1>2
<1>5. \A i \in DOMAIN todo' : RowType(todo'[i])
  <2>1. CASE todo' = <<>>
    BY <2>1
  <2>2. CASE todo' \in Seq(RowsIn(P))
    <3>1. \A i \in DOMAIN todo' : todo'[i] \in RowsIn(P)
      BY <2>2
    <3> QED BY <1>2, <3>1, RowsInType
  <2> QED BY <1>4, <2>1, <2>2
<1>6. file' \in 0..Len(options'.inputs)
  <2>1. file \in 0..Len(options.inputs) /\ options.inputs \in Seq(STRING)
    BY DEF TypeInv, TypeOK
  <2>2. Len(options.inputs) \in Nat
    BY <2>1
  <2> QED BY <1>1, <2>1, <2>2
<1>7. TypeOK'
  BY <1>1, <1>3, <1>5, <1>6 DEF TypeInv, TypeOK, RowType, IsRow
<1>8. TodoIsTyped'
  <2>1. \A p : (RowsIn(p))' = RowsIn(p)
    BY <1>1 DEF RowsIn, RowAt, Corpus
  <2>2. options'.inputs = options.inputs
    BY <1>1
  <2> QED BY <1>1, <1>2, <1>4, <2>1, <2>2 DEF TodoIsTyped
<1>9. PhasesKeepOrder'
  BY <1>1 DEF TypeInv, PhasesKeepOrder
<1> QED BY <1>1, <1>3, <1>7, <1>8, <1>9 DEF TypeInv, IsOptions

LEMMA FinishType == TypeInv /\ Finish => TypeInv'
<1> SUFFICES ASSUME TypeInv, Finish PROVE TypeInv'
  OBVIOUS
<1>1. /\ pc = "rows" /\ todo = <<>> /\ NoMoreInputs /\ pc' = "done" /\ exit' = ExitCode
      /\ UNCHANGED <<scenario, options, waiting, file, todo, batch, reached, prepared,
                     answer, groups, decoded, summary, report>>
  BY DEF Finish, world, preparing, backend, counting
<1>2. DOMAIN todo' = {}
  BY <1>1
<1>3. exit' \in {0, 1, 2}
  BY <1>1 DEF ExitCode, One
<1>4. TypeOK'
  BY <1>1, <1>2, <1>3 DEF TypeInv, TypeOK
<1>5. TodoIsTyped'
  BY <1>1 DEF TodoIsTyped
<1>6. PhasesKeepOrder'
  BY <1>1 DEF PhasesKeepOrder, NoMoreInputs, ExitCode
<1> QED BY <1>1, <1>4, <1>5, <1>6 DEF TypeInv, IsOptions, ReportIsTyped

LEMMA StutterType == TypeInv /\ UNCHANGED vars => TypeInv'
<1> SUFFICES ASSUME TypeInv, UNCHANGED vars PROVE TypeInv'
  OBVIOUS
<1>1. UNCHANGED <<scenario, options, waiting, pc, file, todo, batch, reached, prepared,
                  answer, groups, decoded, summary, report, exit>>
  BY DEF vars, world, preparing, backend, counting
<1>2. TypeOK'
  BY <1>1 DEF TypeInv, TypeOK, RowType, IsRow, HeaderType
<1>3. TodoIsTyped'
  <2>1. \A p : (RowsIn(p))' = RowsIn(p)
    BY <1>1 DEF RowsIn, RowAt, Corpus
  <2>2. Headers' = Headers
    BY <1>1 DEF Headers, Corpus
  <2> QED BY <1>1, <2>1, <2>2 DEF TypeInv, TodoIsTyped
<1>4. PhasesKeepOrder'
  BY <1>1 DEF TypeInv, PhasesKeepOrder, NoMoreInputs, ExitCode
<1> QED BY <1>1, <1>2, <1>3, <1>4 DEF TypeInv, IsOptions, ReportIsTyped

LEMMA NextType == TypeInv /\ [Next]_vars => TypeInv'
  BY ParseArgumentType, LaunchType, OpenForHeadersType, HeadersEndType, PrepareHeaderType,
     PrepareCasesType, OpenForRowsType, RowStepType, FinishType, StutterType DEF Next

\* The variables have their types.
THEOREM TypesCorrect == Spec => []TypeOK
<1>1. TypeInv => TypeOK
  BY DEF TypeInv
<1> QED BY <1>1, InitType, NextType, PTL DEF Spec

----------------------------------------------------------------------------
(* The reports.                                                            *)

\* How many rows the reasons are given for.
Explained == Total(report.reasons)

\* The reports and the reasons say what the summary counts.
ReportsAddUp ==
  /\ Explained = summary.skipped
  /\ DOMAIN report.reasons \subseteq Reasons
  /\ options.reportJsonl # NoPath => Len(report.mismatches) = summary.failed
  /\ options.reportSkipsJsonl # NoPath =>
       /\ \A x \in DOMAIN report.reasons : LinesFor(x) = report.reasons[x]
       /\ \A i \in DOMAIN report.skips :
            report.skips[i].reason \in DOMAIN report.reasons

IdsOf(lines) == {lines[i].id : i \in DOMAIN lines}

IdsApart(lines) == \A a, b \in DOMAIN lines : a # b => lines[a].id # lines[b].id

ReportedIds == ToSet(report.mismatches) \cup IdsOf(report.skips)

\* No row is reported twice, and none of those to come is reported yet.
ReportedOnce ==
  IsInjective(options.inputs) =>
    /\ AllApart(report.mismatches) /\ IdsApart(report.skips)
    /\ ToSet(report.mismatches) \cap IdsOf(report.skips) = {}
    /\ pc = "rows" =>
         /\ \A id \in ReportedIds : \E i \in 1..file : id[1][1] = options.inputs[i]
         /\ \A a \in DOMAIN todo : IdOf(todo[a]) \notin ReportedIds
         /\ \A a, b \in DOMAIN todo : a # b => IdOf(todo[a]) # IdOf(todo[b])

ReportInv == TypeInv /\ ReportsAddUp /\ ReportedOnce

LEMMA ReportsAreRight == ReportInv => ReportsMatchTheSummary
<1> SUFFICES ASSUME ReportInv PROVE ReportsMatchTheSummary
  OBVIOUS
<1>1. ReportsAddUp /\ ReportedOnce
  BY DEF ReportInv
<1>2. NoSkip \notin Reasons
  BY DEF NoSkip, Reasons
<1>3. IsInjective(options.inputs) =>
        /\ ~ IsRepeated(report.skips) /\ ~ IsRepeated(report.mismatches)
        /\ \A i \in DOMAIN report.skips :
             report.skips[i].id \notin ToSet(report.mismatches)
  BY <1>1 DEF ReportedOnce, IsRepeated, AllApart, IdsApart, IdsOf
<1>4. /\ DOMAIN report.reasons \subseteq Reasons
      /\ options.reportJsonl # NoPath => Len(report.mismatches) = summary.failed
      /\ options.reportSkipsJsonl # NoPath =>
           \A x \in DOMAIN report.reasons : LinesFor(x) = report.reasons[x]
  BY <1>1 DEF ReportsAddUp
<1>5. Explained = summary.skipped
  BY <1>1 DEF ReportsAddUp
<1>6. FoldFunction(+, 0, report.reasons) = summary.skipped
  <2>1. Total(report.reasons) = summary.skipped
    BY <1>5 DEF Explained
  <2> QED BY <2>1 DEF Total
<1> QED BY <1>2, <1>3, <1>4, <1>6 DEF ReportsMatchTheSummary

\* As long as nothing is counted there is nothing to report.
LEMMA NothingToReport ==
  ASSUME report = NoLines, summary = ZeroSummary, pc = "rows" => todo = <<>>
  PROVE  ReportsAddUp /\ ReportedOnce
<1>1. /\ report.mismatches = <<>> /\ report.skips = <<>> /\ report.reasons = <<>>
      /\ summary.skipped = 0 /\ summary.failed = 0
  BY DEF NoLines, ZeroSummary
<1>2. DOMAIN <<>> = {} /\ Len(<<>>) = 0
  OBVIOUS
<1>3. /\ DOMAIN report.mismatches = {} /\ DOMAIN report.skips = {}
      /\ DOMAIN report.reasons = {} /\ Len(report.mismatches) = 0
  BY <1>1, <1>2
<1>4. Explained = 0
  BY <1>1, SumOfNothing DEF Explained
<1>5. ReportsAddUp
  BY <1>1, <1>3, <1>4 DEF ReportsAddUp
<1>6. /\ ReportedIds = {} /\ ToSet(report.mismatches) = {}
      /\ AllApart(report.mismatches) /\ IdsApart(report.skips)
  BY <1>3 DEF ReportedIds, ToSet, IdsOf, AllApart, IdsApart
<1>7. pc = "rows" => DOMAIN todo = {}
  BY <1>2
<1>8. ReportedOnce
  BY <1>3, <1>6, <1>7 DEF ReportedOnce
<1> QED BY <1>5, <1>8

LEMMA NewLines ==
  ASSUME NEW S, NEW s \in Seq(S), NEW e \in S
  PROVE  /\ Append(s, e) \in Seq(S) /\ Len(Append(s, e)) = Len(s) + 1
         /\ DOMAIN s = 1..Len(s) /\ DOMAIN Append(s, e) = 1..(Len(s) + 1)
         /\ Len(s) \in Nat
         /\ \A i \in 1..Len(s) : Append(s, e)[i] = s[i]
         /\ Append(s, e)[Len(s) + 1] = e
  OBVIOUS

LinesWith(s, x) == Cardinality({i \in DOMAIN s : s[i].reason = x})

\* A line more is one more for its reason.
LEMMA LinesGrow ==
  ASSUME NEW S, NEW s \in Seq(S), NEW e \in S, NEW x
  PROVE  /\ LinesWith(s, x) \in Nat
         /\ LinesWith(Append(s, e), x) = LinesWith(s, x) + One(e.reason = x)
<1> DEFINE n == Len(s)
           t == Append(s, e)
           P == {i \in DOMAIN s : s[i].reason = x}
           Q == {i \in DOMAIN t : t[i].reason = x}
<1>0. LinesWith(s, x) = Cardinality(P) /\ LinesWith(t, x) = Cardinality(Q)
  BY DEF LinesWith
<1>1. /\ n \in Nat /\ DOMAIN s = 1..n /\ DOMAIN t = 1..(n + 1)
      /\ \A i \in 1..n : t[i] = s[i]
      /\ t[n + 1] = e
  BY NewLines
<1> HIDE DEF n, t
<1>2. P \subseteq 1..n /\ IsFiniteSet(P) /\ n + 1 \notin P
  <2>1. P \subseteq 1..n /\ n + 1 \notin P
    BY <1>1
  <2>2. IsFiniteSet(1..n)
    BY <1>1, FS_Interval
  <2> HIDE DEF P
  <2> QED BY <2>1, <2>2, FS_Subset
<1>3. Q = IF e.reason = x THEN P \cup {n + 1} ELSE P
  <2>1. \A i : i \in Q <=> i \in P \/ (i = n + 1 /\ e.reason = x)
    <3> SUFFICES ASSUME NEW i PROVE i \in Q <=> i \in P \/ (i = n + 1 /\ e.reason = x)
      OBVIOUS
    <3>1. i \in 1..(n + 1) <=> i \in 1..n \/ i = n + 1
      BY <1>1
    <3>2. i \in 1..n => i # n + 1
      BY <1>1
    <3> QED BY <1>1, <3>1, <3>2
  <2> HIDE DEF P, Q
  <2> QED BY <2>1
<1> HIDE DEF P, Q
<1>4. Cardinality(P) \in Nat
  BY <1>2, FS_CardinalityType
<1>5. Cardinality(P \cup {n + 1}) = Cardinality(P) + 1
  BY <1>2, FS_AddElement
<1>6. Cardinality(Q) = Cardinality(P) + One(e.reason = x)
  BY <1>3, <1>4, <1>5 DEF One
<1> QED BY <1>0, <1>4, <1>6 DEF t

LEMMA ReasonCounted ==
  ASSUME TypeInv, NEW x, report'.reasons = Counted(report.reasons, x)
  PROVE  Explained' = Explained + 1
<1> DEFINE f == report.reasons
           g == Counted(f, x)
<1>1. IsFiniteSet(DOMAIN f) /\ \A y \in DOMAIN f : f[y] \in Nat
  BY DEF TypeInv, TypeOK, ReportIsTyped
<1>2. /\ DOMAIN g = DOMAIN f \cup {x}
      /\ \A y \in DOMAIN f \ {x} : g[y] = f[y]
      /\ g[x] = IF x \in DOMAIN f THEN f[x] + 1 ELSE 1
  BY <1>1 DEF Counted, One
<1>3. Explained = Total(f) /\ Explained' = Total(g)
  BY DEF Explained
<1> HIDE DEF f, g
<1>4. Total(f) \in Nat /\ Total(g) = Total(f) + 1
  BY <1>1, <1>2, SumCounts
<1> QED BY <1>3, <1>4

LEMMA SelectedAddsUp ==
  ASSUME TypeInv, ReportsAddUp, pc = "rows", todo # <<>>, UNCHANGED options,
         Selected(Head(todo))
  PROVE  ReportsAddUp'
<1> DEFINE r == Head(todo)
           v == Verdict(r, answer'[r.key])
           line == [id |-> IdOf(r), reason |-> Reason(r)]
<1>1. /\ Account(r, v) /\ WriteReport(r, v)
      /\ v \in {"none", "skipped", "failed", "passed"}
      /\ v = "skipped" => Reason(r) \in Reasons
  BY SelectedResult
<1>2. IdOf(r) \in Ids
  BY RowIsTyped, RowsInType
<1>3. /\ summary \in [DOMAIN ZeroSummary -> Nat] /\ ReportIsTyped
      /\ \A x \in DOMAIN report.reasons : report.reasons[x] \in Nat
  BY DEF TypeInv, TypeOK
<1> HIDE DEF r, v
<1>4. /\ summary'.failed = summary.failed + One(v = "failed")
      /\ summary'.skipped = summary.skipped + One(v = "skipped")
  BY <1>1, <1>3, AccountResult
<1>5. /\ v = "skipped" => /\ report'.reasons = Counted(report.reasons, Reason(r))
                          /\ report'.skips = SkipLines(r)
                          /\ report'.mismatches = report.mismatches
      /\ v = "failed" =>
           /\ report'.mismatches = WithLine(report.mismatches, options.reportJsonl, IdOf(r))
           /\ report'.skips = report.skips /\ report'.reasons = report.reasons
      /\ v \notin {"skipped", "failed"} => report' = report
  BY <1>1, <1>2, <1>3, ReportResult
<1>6. report.mismatches \in Seq(Ids) /\ report.skips \in Seq(Lines)
  BY <1>3 DEF ReportIsTyped
<1>7. options' = options
  OBVIOUS
<1>8. summary.failed \in Nat /\ summary.skipped \in Nat
  BY <1>3 DEF ZeroSummary
<1>9. CASE v \notin {"skipped", "failed"}
  <2>1. report' = report /\ summary'.failed = summary.failed
        /\ summary'.skipped = summary.skipped
    BY <1>4, <1>5, <1>8, <1>9 DEF One
  <2>2. Explained' = Explained
    BY <2>1 DEF Explained
  <2> QED BY <1>7, <2>1, <2>2 DEF ReportsAddUp, LinesFor
<1>10. CASE v = "failed"
  <2>1. /\ report'.skips = report.skips /\ report'.reasons = report.reasons
        /\ summary'.failed = summary.failed + 1 /\ summary'.skipped = summary.skipped
    BY <1>4, <1>5, <1>8, <1>10 DEF One
  <2>2. options.reportJsonl # NoPath =>
          Len(report'.mismatches) = Len(report.mismatches) + 1
    <3> SUFFICES ASSUME options.reportJsonl # NoPath
                 PROVE  Len(report'.mismatches) = Len(report.mismatches) + 1
      OBVIOUS
    <3>1. report'.mismatches = Append(report.mismatches, IdOf(r))
      BY <1>5, <1>10 DEF WithLine
    <3> QED BY <1>2, <1>6, <3>1, NewLines
  <2>3. Explained' = Explained
    BY <2>1 DEF Explained
  <2>4. \A x : LinesFor(x)' = LinesFor(x)
    BY <2>1 DEF LinesFor
  <2> QED BY <1>7, <2>1, <2>2, <2>3, <2>4 DEF ReportsAddUp
<1>11. CASE v = "skipped"
  <2>1. /\ report'.reasons = Counted(report.reasons, Reason(r))
        /\ report'.skips = SkipLines(r) /\ report'.mismatches = report.mismatches
        /\ summary'.failed = summary.failed /\ summary'.skipped = summary.skipped + 1
    BY <1>4, <1>5, <1>8, <1>11 DEF One
  <2>2. Explained' = summary'.skipped
    <3>1. Explained' = Explained + 1
      BY <2>1, ReasonCounted
    <3>2. Explained = summary.skipped
      BY DEF ReportsAddUp
    <3> QED BY <2>1, <3>1, <3>2
  <2>3. DOMAIN report'.reasons = DOMAIN report.reasons \cup {Reason(r)}
    BY <2>1 DEF Counted
  <2>4. DOMAIN report'.reasons \subseteq Reasons
    BY <1>1, <1>11, <2>3 DEF ReportsAddUp
  <2>5. options.reportSkipsJsonl # NoPath =>
          /\ (\A x \in DOMAIN report.reasons : LinesFor(x) = report.reasons[x])'
          /\ (\A i \in DOMAIN report.skips :
                report.skips[i].reason \in DOMAIN report.reasons)'
    <3> SUFFICES ASSUME options.reportSkipsJsonl # NoPath
                 PROVE  /\ \A x \in DOMAIN report'.reasons : LinesFor(x)' = report'.reasons[x]
                        /\ \A i \in DOMAIN report'.skips :
                             report'.skips[i].reason \in DOMAIN report'.reasons
      OBVIOUS
    <3>1. line \in Lines /\ line.reason = Reason(r)
      BY <1>1, <1>2, <1>11 DEF Lines
    <3>2. report'.skips = Append(report.skips, line)
      BY <2>1 DEF SkipLines, WithLine
    <3> HIDE DEF line
    <3>3. /\ \A x \in DOMAIN report.reasons : LinesFor(x) = report.reasons[x]
          /\ \A i \in DOMAIN report.skips :
               report.skips[i].reason \in DOMAIN report.reasons
      BY DEF ReportsAddUp
    <3>4. ASSUME NEW i \in DOMAIN report'.skips
          PROVE  report'.skips[i].reason \in DOMAIN report'.reasons
      <4>1. CASE i \in DOMAIN report.skips
        <5>1. report'.skips[i] = report.skips[i]
          BY <1>6, <3>1, <3>2, <4>1, NewLines
        <5> QED BY <2>3, <3>3, <4>1, <5>1
      <4>2. CASE i = Len(report.skips) + 1
        <5>1. report'.skips[i] = line
          BY <1>6, <3>1, <3>2, <4>2, NewLines
        <5> QED BY <2>3, <3>1, <5>1
      <4>3. i \in DOMAIN report.skips \/ i = Len(report.skips) + 1
        <5>1. /\ DOMAIN report'.skips = 1..(Len(report.skips) + 1)
              /\ DOMAIN report.skips = 1..Len(report.skips) /\ Len(report.skips) \in Nat
          BY <1>6, <3>1, <3>2, NewLines
        <5> QED BY <5>1
      <4> QED BY <4>1, <4>2, <4>3
    <3>5. ASSUME NEW x \in DOMAIN report'.reasons
          PROVE  LinesFor(x)' = report'.reasons[x]
      <4>1. LinesFor(x)' = LinesFor(x) + One(x = Reason(r)) /\ LinesFor(x) \in Nat
        <5>1. /\ LinesWith(report.skips, x) \in Nat
              /\ LinesWith(Append(report.skips, line), x) =
                   LinesWith(report.skips, x) + One(line.reason = x)
          BY <1>6, <3>1, LinesGrow
        <5>2. /\ LinesFor(x) = LinesWith(report.skips, x)
              /\ LinesFor(x)' = LinesWith(report'.skips, x)
          BY DEF LinesFor, LinesWith
        <5>3. One(line.reason = x) = One(x = Reason(r))
          BY <3>1 DEF One
        <5> QED BY <3>2, <5>1, <5>2, <5>3
      <4>2. CASE x \in DOMAIN report.reasons
        <5>1. report'.reasons[x] = report.reasons[x] + One(x = Reason(r))
          BY <2>1, <2>3, <4>2 DEF Counted
        <5> QED BY <3>3, <4>1, <4>2, <5>1
      <4>3. CASE x \notin DOMAIN report.reasons
        <5>1. x = Reason(r) /\ report'.reasons[x] = 1
          BY <2>1, <2>3, <4>3 DEF Counted
        <5>2. LinesFor(x) = 0
          <6>1. {i \in DOMAIN report.skips : report.skips[i].reason = x} = {}
            BY <3>3, <4>3
          <6> QED BY <6>1, FS_EmptySet DEF LinesFor
        <5> QED BY <4>1, <5>1, <5>2 DEF One
      <4> QED BY <4>2, <4>3
    <3> QED BY <3>4, <3>5
  <2>6. options.reportJsonl # NoPath => Len(report'.mismatches) = summary'.failed
    BY <2>1 DEF ReportsAddUp
  <2> QED BY <1>7, <2>2, <2>4, <2>5, <2>6 DEF ReportsAddUp
<1> QED BY <1>9, <1>10, <1>11

\* One more id on a list that has it not.
LEMMA AppendedOnce ==
  ASSUME NEW S, NEW s \in Seq(S), NEW e \in S,
         AllApart(s), e \notin ToSet(s)
  PROVE  /\ AllApart(Append(s, e))
         /\ ToSet(Append(s, e)) = ToSet(s) \cup {e}
<1> DEFINE n == Len(s)
           t == Append(s, e)
<1>1. /\ n \in Nat /\ DOMAIN s = 1..n /\ DOMAIN t = 1..(n + 1)
      /\ \A i \in 1..n : t[i] = s[i]
      /\ t[n + 1] = e
  BY NewLines
<1>2. \A i \in 1..n : s[i] # e
  BY <1>1 DEF ToSet
<1> HIDE DEF n, t
<1>3. \A i \in 1..(n + 1) : i \in 1..n \/ i = n + 1
  BY <1>1
<1>4. AllApart(t)
  BY <1>1, <1>2, <1>3 DEF AllApart
<1>5. ToSet(t) = ToSet(s) \cup {e}
  <2>1. \A i \in 1..n : i \in 1..(n + 1)
    BY <1>1
  <2>2. n + 1 \in 1..(n + 1)
    BY <1>1
  <2> QED BY <1>1, <1>3, <2>1, <2>2 DEF ToSet
<1> QED BY <1>4, <1>5 DEF t

LEMMA AppendedLineOnce ==
  ASSUME NEW S, NEW s \in Seq(S), NEW e \in S,
         IdsApart(s), e.id \notin IdsOf(s)
  PROVE  IdsApart(Append(s, e)) /\ IdsOf(Append(s, e)) = IdsOf(s) \cup {e.id}
<1> DEFINE n == Len(s)
           t == Append(s, e)
<1>1. /\ n \in Nat /\ DOMAIN s = 1..n /\ DOMAIN t = 1..(n + 1)
      /\ \A i \in 1..n : t[i] = s[i]
      /\ t[n + 1] = e
  BY NewLines
<1> HIDE DEF n, t
<1>2. \A i \in 1..n : s[i].id # e.id
  BY <1>1 DEF IdsOf
<1>3. \A i \in 1..(n + 1) : i \in 1..n \/ i = n + 1
  BY <1>1
<1>4. IdsApart(t)
  BY <1>1, <1>2, <1>3 DEF IdsApart
<1>5. IdsOf(t) = IdsOf(s) \cup {e.id}
  <2>1. \A i \in 1..n : i \in 1..(n + 1)
    BY <1>1
  <2>2. n + 1 \in 1..(n + 1)
    BY <1>1
  <2> QED BY <1>1, <1>3, <2>1, <2>2 DEF IdsOf
<1> QED BY <1>4, <1>5 DEF t

\* A row that is reported is the first of those to come, or none is.
LEMMA ReportsGrow ==
  ASSUME TypeInv, pc = "rows", todo # <<>>, UNCHANGED options, Selected(Head(todo))
  PROVE  LET id == IdOf(Head(todo))
         IN  \/ report'.mismatches = report.mismatches /\ report'.skips = report.skips
             \/ /\ report'.mismatches = Append(report.mismatches, id)
                /\ report'.skips = report.skips
             \/ /\ report'.mismatches = report.mismatches
                /\ \E line \in Lines :
                     line.id = id /\ report'.skips = Append(report.skips, line)
<1> DEFINE r == Head(todo)
           v == Verdict(r, answer'[r.key])
           line == [id |-> IdOf(r), reason |-> Reason(r)]
<1>1. /\ Account(r, v) /\ WriteReport(r, v)
      /\ v = "skipped" => Reason(r) \in Reasons
  BY SelectedResult
<1>2. IdOf(r) \in Ids
  BY RowIsTyped, RowsInType
<1>3. /\ ReportIsTyped
      /\ \A x \in DOMAIN report.reasons : report.reasons[x] \in Nat
  BY DEF TypeInv, TypeOK
<1> HIDE DEF r, v
<1>4. /\ v = "skipped" => /\ report'.skips = SkipLines(r)
                          /\ report'.mismatches = report.mismatches
      /\ v = "failed" =>
           /\ report'.mismatches = WithLine(report.mismatches, options.reportJsonl, IdOf(r))
           /\ report'.skips = report.skips
      /\ v \notin {"skipped", "failed"} => report' = report
  BY <1>1, <1>2, <1>3, ReportResult
<1>5. CASE v = "skipped"
  <2>1. report'.skips = report.skips \/ report'.skips = Append(report.skips, line)
    BY <1>4, <1>5 DEF SkipLines, WithLine
  <2>2. line \in Lines /\ line.id = IdOf(r)
    BY <1>1, <1>2, <1>5 DEF Lines
  <2> HIDE DEF line
  <2> QED BY <1>4, <1>5, <2>1, <2>2 DEF r
<1>6. CASE v = "failed"
  <2>1. \/ report'.mismatches = report.mismatches
        \/ report'.mismatches = Append(report.mismatches, IdOf(r))
    BY <1>4, <1>6 DEF WithLine
  <2> QED BY <1>4, <1>6, <2>1 DEF r
<1>7. CASE v \notin {"skipped", "failed"}
  BY <1>4, <1>7
<1> QED BY <1>5, <1>6, <1>7

LEMMA RowReportsOnce ==
  ASSUME TypeInv, ReportedOnce, Row
  PROVE  ReportedOnce'
<1> DEFINE r == Head(todo)
           id == IdOf(r)
           M == ToSet(report.mismatches)
           K == IdsOf(report.skips)
<1>1. /\ pc = "rows" /\ pc' = "rows" /\ todo # <<>> /\ UNCHANGED options
      /\ \/ todo' = Tail(todo) /\ UNCHANGED file
         \/ todo' = <<>> /\ file' = Len(options.inputs)
      /\ \/ UNCHANGED report
         \/ Selected(r)
  BY RowResult
<1>2. /\ r \in RowsIn(options.inputs[file]) /\ file \in 1..Len(options.inputs)
      /\ scenario \in Scenarios /\ todo \in Seq(RowsIn(options.inputs[file]))
  BY <1>1, RowIsTyped
<1>3. SUFFICES ASSUME IsInjective(options.inputs) PROVE ReportedOnce'
  BY <1>1 DEF ReportedOnce
<1>4. /\ AllApart(report.mismatches) /\ IdsApart(report.skips) /\ M \cap K = {}
      /\ \A x \in ReportedIds : \E i \in 1..file : x[1][1] = options.inputs[i]
      /\ \A a \in DOMAIN todo : IdOf(todo[a]) \notin ReportedIds
      /\ \A a, b \in DOMAIN todo : a # b => IdOf(todo[a]) # IdOf(todo[b])
  BY <1>1, <1>3 DEF ReportedOnce
<1>5. /\ ReportedIds = M \cup K
      /\ ReportedIds' = ToSet(report'.mismatches) \cup IdsOf(report'.skips)
  BY DEF ReportedIds, IdsOf
<1>6. /\ Tail(todo) \in Seq(RowsIn(options.inputs[file])) /\ Head(todo) = todo[1]
      /\ 1 \in DOMAIN todo /\ Len(Tail(todo)) = Len(todo) - 1 /\ Len(todo) \in Nat
      /\ \A i \in 1..(Len(todo) - 1) : Tail(todo)[i] = todo[i + 1]
      /\ DOMAIN todo = 1..Len(todo) /\ DOMAIN Tail(todo) = 1..Len(Tail(todo))
  BY <1>1, <1>2, TailType
<1>7. id \in Ids /\ id[1][1] = options.inputs[file] /\ id \notin ReportedIds
  <2>1. id \in Ids /\ r.group[1] = options.inputs[file]
    BY <1>2, RowsInType
  <2>2. id[1] = r.group
    BY DEF IdOf
  <2> QED BY <1>4, <1>6, <2>1, <2>2
<1>8. report.mismatches \in Seq(Ids) /\ report.skips \in Seq(Lines)
  BY DEF TypeInv, ReportIsTyped
<1> DEFINE M2 == ToSet(report'.mismatches)
           K2 == IdsOf(report'.skips)
<1>9. /\ AllApart(report'.mismatches) /\ IdsApart(report'.skips)
      /\ K2 \cap M2 = {}
      /\ M2 \cup K2 \subseteq M \cup K \cup {id}
  <2>0. K \cap M = {} /\ id \notin M /\ id \notin K
    BY <1>4, <1>5, <1>7
  <2>1. CASE report'.mismatches = report.mismatches /\ report'.skips = report.skips
    <3>1. M2 = M /\ K2 = K
      BY <2>1
    <3> HIDE DEF M, K, M2, K2
    <3> QED BY <1>4, <2>0, <2>1, <3>1
  <2>2. CASE /\ report'.mismatches = Append(report.mismatches, id)
             /\ report'.skips = report.skips
    <3>1. K2 = K
      BY <2>2
    <3> HIDE DEF id, K, K2
    <3>2. /\ AllApart(report'.mismatches)
          /\ M2 = M \cup {id}
      BY <1>4, <1>7, <1>8, <2>0, <2>2, AppendedOnce
    <3> HIDE DEF M, M2
    <3> QED BY <1>4, <2>0, <2>2, <3>1, <3>2
  <2>3. CASE /\ report'.mismatches = report.mismatches
             /\ \E line \in Lines : line.id = id /\ report'.skips = Append(report.skips, line)
    <3>0. PICK line \in Lines : line.id = id /\ report'.skips = Append(report.skips, line)
      BY <2>3
    <3>1. M2 = M
      BY <2>3
    <3> HIDE DEF id, M, M2
    <3>2. /\ IdsApart(report'.skips)
          /\ K2 = K \cup {id}
      <4>1. line.id \notin K
        BY <2>0, <3>0
      <4> QED BY <1>4, <1>8, <3>0, <4>1, AppendedLineOnce
    <3> HIDE DEF K, K2
    <3> QED BY <1>4, <2>0, <2>3, <3>1, <3>2
  <2>4. \/ report'.mismatches = report.mismatches /\ report'.skips = report.skips
        \/ /\ report'.mismatches = Append(report.mismatches, id)
           /\ report'.skips = report.skips
        \/ /\ report'.mismatches = report.mismatches
           /\ \E line \in Lines :
                line.id = id /\ report'.skips = Append(report.skips, line)
    <3>1. CASE Selected(r)
      BY <1>1, <3>1, ReportsGrow
    <3>2. CASE UNCHANGED report
      BY <3>2
    <3> QED BY <1>1, <3>1, <3>2
  <2> HIDE DEF id, M, K, M2, K2
  <2> QED BY <2>1, <2>2, <2>3, <2>4
<1>10. \A x \in ReportedIds' : \E i \in 1..file' : x[1][1] = options'.inputs[i]
  <2> SUFFICES ASSUME NEW x \in ReportedIds'
               PROVE  \E i \in 1..file' : x[1][1] = options.inputs[i]
    BY <1>1
  <2>1. x \in ReportedIds \/ x = id
    <3> HIDE DEF id, M, K
    <3> QED BY <1>5, <1>9
  <2>2. \E i \in 1..file : x[1][1] = options.inputs[i]
    <3>1. file \in 1..file
      BY <1>2
    <3> HIDE DEF id
    <3> QED BY <1>4, <1>7, <2>1, <3>1
  <2>3. \A i \in 1..file : i \in 1..file'
    BY <1>1, <1>2
  <2> QED BY <2>2, <2>3
<1>11. /\ \A a \in DOMAIN todo' : IdOf(todo'[a]) \notin ReportedIds'
       /\ \A a, b \in DOMAIN todo' : a # b => IdOf(todo'[a]) # IdOf(todo'[b])
  <2>1. CASE todo' = <<>>
    <3>1. DOMAIN todo' = {}
      BY <2>1
    <3> QED BY <3>1
  <2>2. CASE todo' = Tail(todo)
    <3>1. ASSUME NEW a \in DOMAIN todo'
          PROVE  /\ a \in Nat /\ a + 1 \in DOMAIN todo /\ a + 1 # 1 /\ todo'[a] = todo[a + 1]
      <4>1. a \in 1..(Len(todo) - 1)
        BY <1>6, <2>2
      <4>2. a \in Nat /\ a + 1 \in 1..Len(todo) /\ a + 1 # 1
        BY <1>6, <4>1
      <4>3. Tail(todo)[a] = todo[a + 1]
        BY <1>6, <4>1
      <4> QED BY <1>6, <2>2, <4>2, <4>3
    <3>2. ASSUME NEW a \in DOMAIN todo' PROVE IdOf(todo'[a]) \notin ReportedIds'
      <4> DEFINE c == a + 1
      <4>1. c \in DOMAIN todo /\ c # 1 /\ todo'[a] = todo[c]
        BY <3>1
      <4> HIDE DEF c
      <4>2. IdOf(todo[c]) # id /\ IdOf(todo[c]) \notin ReportedIds
        BY <1>4, <1>6, <4>1
      <4> HIDE DEF id, M, K
      <4> QED BY <1>5, <1>9, <4>1, <4>2
    <3>3. ASSUME NEW a \in DOMAIN todo', NEW b \in DOMAIN todo', a # b
          PROVE  IdOf(todo'[a]) # IdOf(todo'[b])
      <4> DEFINE c == a + 1
                 d == b + 1
      <4>1. /\ c \in DOMAIN todo /\ todo'[a] = todo[c]
            /\ d \in DOMAIN todo /\ todo'[b] = todo[d] /\ c # d
        BY <3>1, <3>3
      <4> HIDE DEF c, d
      <4> QED BY <1>4, <4>1
    <3> QED BY <3>2, <3>3
  <2> QED BY <1>1, <2>1, <2>2
<1> HIDE DEF M, K, M2, K2, id, r
<1> QED BY <1>9, <1>10, <1>11 DEF ReportedOnce, M2, K2

\* The steps up to the second pass count nothing.
LEMMA EarlyStepsReportNothing ==
  ASSUME TypeInv, TypeInv',
         ParseArgument \/ Launch \/ OpenForHeaders \/ HeadersEnd \/ PrepareHeader
           \/ PrepareCases
  PROVE  (ReportsAddUp /\ ReportedOnce)'
<1>1. /\ pc \in {"arguments", "prepare", "compile"}
      /\ UNCHANGED <<summary, report>>
  BY DEF ParseArgument, Launch, OpenForHeaders, HeadersEnd, PrepareHeader, PrepareCases,
         counting
<1>2. report' = NoLines /\ summary' = ZeroSummary
  BY <1>1 DEF TypeInv, PhasesKeepOrder
<1>3. pc' = "rows" => todo' = <<>>
  <2>1. CASE ParseArgument
    BY <2>1, <1>1 DEF ParseArgument, Throw
  <2>2. CASE Launch
    BY <2>2 DEF Launch, Throw, Usage
  <2>3. CASE OpenForHeaders
    BY <2>3, <1>1 DEF OpenForHeaders, Throw
  <2>4. CASE HeadersEnd
    BY <2>4 DEF HeadersEnd
  <2>5. CASE PrepareHeader
    BY <2>5 DEF PrepareHeader
  <2>6. CASE PrepareCases
    BY <2>6 DEF PrepareCases, Throw, TypeInv, TodoIsTyped
  <2> QED BY <2>1, <2>2, <2>3, <2>4, <2>5, <2>6
<1>4. (report = NoLines /\ summary = ZeroSummary /\ (pc = "rows" => todo = <<>>))'
  BY <1>2, <1>3
<1> QED BY <1>4, NothingToReport, PTL

\* The other steps write no report.
LEMMA SameReports ==
  ASSUME ReportsAddUp, UNCHANGED <<options, report>>,
         summary'.skipped = summary.skipped, summary'.failed = summary.failed
  PROVE  ReportsAddUp'
<1>1. Explained' = Explained
  BY DEF Explained
<1>2. \A x : LinesFor(x)' = LinesFor(x)
  BY DEF LinesFor
<1> QED BY <1>1, <1>2 DEF ReportsAddUp

LEMMA OpenForRowsReportsOnce ==
  ASSUME TypeInv, ReportedOnce, OpenForRows
  PROVE  ReportedOnce'
<1>1. /\ pc = "rows" /\ file # Len(options.inputs) /\ file' = file + 1
      /\ UNCHANGED <<scenario, options, report>>
      /\ \/ pc' = "aborted"
         \/ todo' = RowsOf(NextInput)
      /\ scenario \in Scenarios
  BY DEF OpenForRows, NoMoreInputs, world, Throw, TypeInv
<1>2. file \in Nat /\ file + 1 \in 1..Len(options.inputs)
      /\ DOMAIN options.inputs = 1..Len(options.inputs)
  <2>1. options.inputs \in Seq(STRING) /\ file \in 0..Len(options.inputs)
    BY DEF TypeInv, TypeOK
  <2>2. Len(options.inputs) \in Nat /\ DOMAIN options.inputs = 1..Len(options.inputs)
    BY <2>1
  <2> QED BY <1>1, <2>1, <2>2
<1> SUFFICES ASSUME IsInjective(options.inputs) PROVE ReportedOnce'
  BY <1>1 DEF ReportedOnce
<1>3. /\ AllApart(report.mismatches) /\ IdsApart(report.skips)
      /\ ToSet(report.mismatches) \cap IdsOf(report.skips) = {}
      /\ \A x \in ReportedIds : \E i \in 1..file : x[1][1] = options.inputs[i]
  BY <1>1 DEF ReportedOnce
<1>4. ReportedIds' = ReportedIds
  BY <1>1 DEF ReportedIds, IdsOf
<1>5. \A x \in ReportedIds' : \E i \in 1..file' : x[1][1] = options'.inputs[i]
  <2>1. \A i \in 1..file : i \in 1..(file + 1)
    BY <1>2
  <2> QED BY <1>1, <1>3, <1>4, <2>1
<1>6. CASE pc' = "aborted"
  BY <1>1, <1>3, <1>6 DEF ReportedOnce, IdsOf
<1>7. CASE todo' = RowsOf(NextInput)
  <2>1. ASSUME NEW a \in DOMAIN todo' PROVE IdOf(todo'[a])[1][1] = NextInput
    <3>1. todo'[a] \in RowsIn(NextInput)
      <4>1. todo' \in Seq(RowsIn(NextInput))
        BY <1>1, <1>7, RowsOfType
      <4> QED BY <4>1, ElementsOf
    <3>2. todo'[a].group[1] = NextInput
      BY <1>1, <3>1, RowsInType
    <3> QED BY <3>2 DEF IdOf
  <2>2. ASSUME NEW x \in ReportedIds PROVE x[1][1] # NextInput
    <3>1. PICK i \in 1..file : x[1][1] = options.inputs[i]
      BY <1>3
    <3>2. i \in DOMAIN options.inputs /\ file + 1 \in DOMAIN options.inputs /\ i # file + 1
      BY <1>2
    <3>3. options.inputs[i] # options.inputs[file + 1]
      BY <3>2 DEF IsInjective
    <3> QED BY <3>1, <3>3 DEF NextInput
  <2>3. \A a \in DOMAIN todo' : IdOf(todo'[a]) \notin ReportedIds'
    BY <1>4, <2>1, <2>2
  <2>4. \A a, b \in DOMAIN todo' : a # b => IdOf(todo'[a]) # IdOf(todo'[b])
    BY <1>1, <1>7, RowsOfApart
  <2>5. AllApart(report'.mismatches) /\ IdsApart(report'.skips)
        /\ ToSet(report'.mismatches) \cap IdsOf(report'.skips) = {}
    BY <1>1, <1>3
  <2> QED BY <1>5, <2>3, <2>4, <2>5 DEF ReportedOnce
<1> QED BY <1>1, <1>6, <1>7

LEMMA OpenForRowsAddsUp ==
  ASSUME TypeInv, ReportsAddUp, OpenForRows
  PROVE  ReportsAddUp'
<1>1. summary \in [DOMAIN ZeroSummary -> Nat] /\ UNCHANGED <<options, report>>
  BY DEF OpenForRows, world, TypeInv, TypeOK
<1>2. {"skipped", "failed"} \subseteq DOMAIN ZeroSummary
  BY DEF ZeroSummary
<1>3. summary'.skipped = summary.skipped /\ summary'.failed = summary.failed
  <2>1. CASE UNCHANGED summary
    BY <2>1
  <2>2. CASE summary' = [summary EXCEPT
                           !.files = @ + 1,
                           !.groups = @ + Len(Corpus(NextInput).groups),
                           !.rows = @ + Len(RowsOf(NextInput)),
                           !.warnings = @ + Warnings(NextInput)]
    BY <1>1, <1>2, <2>2
  <2> QED BY <2>1, <2>2 DEF OpenForRows
<1> QED BY <1>1, <1>3, SameReports

LEMMA RowAddsUp ==
  ASSUME TypeInv, ReportsAddUp, Row
  PROVE  ReportsAddUp'
<1>1. /\ pc = "rows" /\ todo # <<>> /\ UNCHANGED options
      /\ UNCHANGED <<summary, report>> \/ Selected(Head(todo))
  BY RowResult
<1>2. CASE UNCHANGED <<summary, report>>
  BY <1>1, <1>2, SameReports
<1>3. CASE Selected(Head(todo))
  BY <1>1, <1>3, SelectedAddsUp
<1> QED BY <1>1, <1>2, <1>3

LEMMA InitReports == Init => ReportInv
<1> SUFFICES ASSUME Init PROVE ReportInv
  OBVIOUS
<1>1. report = NoLines /\ summary = ZeroSummary /\ pc # "rows"
  BY DEF Init
<1> QED BY <1>1, InitType, NothingToReport DEF ReportInv

LEMMA NextReports == ReportInv /\ [Next]_vars => ReportInv'
<1> SUFFICES ASSUME ReportInv, [Next]_vars PROVE ReportInv'
  OBVIOUS
<1>1. TypeInv /\ ReportsAddUp /\ ReportedOnce
  BY DEF ReportInv
<1>2. TypeInv'
  BY <1>1, NextType
<1>3. CASE ParseArgument \/ Launch \/ OpenForHeaders \/ HeadersEnd \/ PrepareHeader
             \/ PrepareCases
  BY <1>1, <1>2, <1>3, EarlyStepsReportNothing DEF ReportInv
<1>4. CASE OpenForRows
  BY <1>1, <1>2, <1>4, OpenForRowsReportsOnce, OpenForRowsAddsUp DEF ReportInv
<1>5. CASE Row
  BY <1>1, <1>2, <1>5, RowReportsOnce, RowAddsUp DEF ReportInv
<1>6. CASE Finish \/ UNCHANGED vars
  <2>1. /\ UNCHANGED <<options, file, todo, summary, report>>
        /\ pc' = pc \/ pc' = "done"
    BY <1>6 DEF Finish, vars, world, counting
  <2>2. ReportsAddUp'
    BY <1>1, <2>1, SameReports
  <2>3. ReportedIds' = ReportedIds
    BY <2>1 DEF ReportedIds, IdsOf
  <2>4. ReportedOnce'
    BY <1>1, <2>1, <2>3 DEF ReportedOnce
  <2> QED BY <1>2, <2>2, <2>4 DEF ReportInv
<1> QED BY <1>3, <1>4, <1>5, <1>6 DEF Next

\* Every row that is skipped has one reason, and at every moment of a run, one
\* that an exception cuts short included, the reports and the reasons say what
\* the summary counts, no row in both reports or twice in one.
THEOREM ReportsCorrect == Spec => []ReportsMatchTheSummary
<1>1. Spec => []ReportInv
  BY InitReports, NextReports, PTL DEF Spec
<1> QED BY <1>1, ReportsAreRight, PTL

----------------------------------------------------------------------------
(* The arguments.                                                          *)

\* What the first m arguments ask for.
GivenAmong(option, m) ==
  {scenario.args[i] : i \in {i \in Values(scenario.args) :
                               i <= m /\ scenario.args[i - 1] = option}}

NamesAmong(option, m) == UNION {Csv[arg] : arg \in GivenAmong(option, m)}

PathsAmong(m) ==
  {scenario.args[i] : i \in {i \in 1..m :
                               /\ i \notin Values(scenario.args)
                               /\ scenario.args[i] \notin Dashed}}
    \cup GivenAmong("--input", m)

\* The option that waits for its value after the m-th argument.
WaitingAt(m) ==
  IF m > 0 /\ m \notin Values(scenario.args) /\ scenario.args[m] \in Valued
    THEN scenario.args[m] ELSE ""

\* The options are what the first m arguments ask for.
Asks(o, m) ==
  /\ ToSet(o.inputs) = PathsAmong(m)
  /\ ToSet(o.inputDirs) = GivenAmong("--input-dir", m)
  /\ o.mnemonics = NamesAmong("--mnemonic", m)
  /\ o.opcodes = NamesAmong("--opcode", m)

ArgumentsAreTaken ==
  pc = "arguments" =>
    LET m == Len(scenario.args) - Len(todo)
    IN  /\ m \in Nat
        /\ \A i \in DOMAIN todo : todo[i] = scenario.args[m + i]
        /\ waiting = WaitingAt(m)
        /\ Asks(options, m)

OptionsAreAsked ==
  pc \in {"prepare", "compile", "rows", "done"} =>
    /\ ToSet(options.inputs) = AskedFiles
    /\ options.mnemonics = Names("--mnemonic")
    /\ options.opcodes = Names("--opcode")

----------------------------------------------------------------------------
(* The second pass.                                                        *)

InputRows == [i \in DOMAIN options.inputs |-> RowsOf(options.inputs[i])]

\* How many of the rows of all inputs have been taken.
Taken == Len(Joined(InputRows, file)) - Len(todo)

RowsAreTaken ==
  pc = "rows" =>
    /\ Taken \in Nat
    /\ \A i \in DOMAIN todo : todo[i] = Joined(InputRows, file)[Taken + i]

Places == {i \in DOMAIN AllRows : Asked(AllRows[i])}

\* How many of the first p rows are candidates.
Met(p) == Len(Ascending(Places, p))

BatchLinks ==
  /\ pc \in {"prepare", "compile"} => options.execute
  /\ pc = "rows" =>
       IF options.execute
         THEN prepared = "done" /\ \A k \in ToSet(batch) : FateOf(k) # "unresolved"
         ELSE prepared = "no"

\* What compiling candidate i comes to.
AnswerTo(i) ==
  IF FateOf(Candidates[i].key) \in {"decode", "lift"} THEN "unsupported"
  ELSE IF Unlinked(i) THEN "backend" ELSE "ready"

AnswersAreRight(n) ==
  /\ \A i \in 1..n : Compiles(i) => answer[Candidates[i].key] = AnswerTo(i)
  /\ \A k \in Keys :
       (\A i \in 1..n : Compiles(i) => Candidates[i].key # k) => answer[k] = "none"

KeysAmong(n) == {Candidates[i].key : i \in 1..n}

Undecodable(keys) == {k \in keys : ~ Decode(Instruction(k)).ok}
Longer(keys) == {k \in keys : LengthDiffers(Instruction(k))}

HaveResult(n, result) == {i \in 1..n : Result(i) = result}

CountsAreRight(n) ==
  /\ groups = GroupsAmong(n) /\ decoded = KeysAmong(n)
  /\ summary.selectedGroups = Cardinality(groups)
  /\ summary.uniqueDecodes = Cardinality(decoded)
  /\ summary.decodeFailures = Cardinality(Undecodable(decoded))
  /\ summary.lengthMismatches = Cardinality(Longer(decoded))
  /\ summary.passed = Cardinality(HaveResult(n, "passed"))
  /\ summary.failed = Cardinality(HaveResult(n, "failed"))
  /\ summary.skipped = Cardinality(HaveResult(n, "skipped"))

\* The run goes on, or has stopped at a limit or a failure.
GoesOn(n) ==
  /\ n = Met(Taken)
  /\ options.stopOnFirstFail => \A i \in 1..n : Result(i) # "failed"

HasStopped(n) ==
  /\ todo = <<>> /\ NoMoreInputs
  /\ options.stopOnFirstFail => \A i \in 1..(n - 1) : Result(i) # "failed"
  /\ \/ n # Len(Candidates) /\ ~ WithinLimits(n + 1)
     \/ n > 0 /\ options.stopOnFirstFail /\ Result(n) = "failed"

SelectionIsRight ==
  pc \in {"rows", "done"} /\ ~ scenario.mayFail =>
    LET n == summary.selectedRows
    IN  /\ n <= Len(Candidates) /\ WithinLimits(n)
        /\ AnswersAreRight(n)
        /\ CountsAreRight(n)
        /\ pc = "rows" => GoesOn(n) \/ HasStopped(n)
        /\ pc = "done" => n = SelectedCount

ResultInv ==
  TypeInv /\ ArgumentsAreTaken /\ OptionsAreAsked /\ RowsAreTaken /\ BatchLinks
    /\ SelectionIsRight

----------------------------------------------------------------------------

\* Every second of a row of options is the value of the one before.
LEMMA ValuesExist ==
  ASSUME NEW args, NEW n \in Nat
  PROVE  \E W : \A i \in 1..n : i \in W <=> i > 1 /\ args[i - 1] \in Valued /\ i - 1 \notin W
<1> DEFINE Good(W, m) ==
             /\ W \subseteq 1..m
             /\ \A i \in 1..m : i \in W <=> i > 1 /\ args[i - 1] \in Valued /\ i - 1 \notin W
           T == {m \in Nat : \E W : Good(W, m)}
<1>1. 0 \in T
  <2>1. Good({}, 0)
    OBVIOUS
  <2> HIDE DEF Good
  <2> QED BY <2>1
<1>2. ASSUME NEW m \in Nat, m \in T PROVE m + 1 \in T
  <2>1. PICK W : Good(W, m)
    BY <1>2
  <2> DEFINE takes == m + 1 > 1 /\ args[m] \in Valued /\ m \notin W
             V == IF takes THEN W \cup {m + 1} ELSE W
  <2>2. m + 1 \notin W /\ W \subseteq 1..m
    BY <2>1
  <2>3. \A i : i \in V <=> i \in W \/ (i = m + 1 /\ takes)
    OBVIOUS
  <2>4. \A i \in 1..(m + 1) : i \in 1..m \/ i = m + 1
    OBVIOUS
  <2>5. V \subseteq 1..(m + 1)
    BY <2>2, <2>3
  <2>6. ASSUME NEW i \in 1..(m + 1)
        PROVE  i \in V <=> i > 1 /\ args[i - 1] \in Valued /\ i - 1 \notin V
    <3>1. i - 1 # m + 1 /\ m + 1 - 1 = m
      OBVIOUS
    <3>2. i - 1 \in V <=> i - 1 \in W
      BY <2>3, <3>1
    <3>3. CASE i \in 1..m
      <4>1. i # m + 1
        BY <3>3
      <4>2. i \in V <=> i \in W
        BY <2>3, <4>1
      <4> HIDE DEF V
      <4> QED BY <2>1, <3>2, <3>3, <4>2
    <3>4. CASE i = m + 1
      <4>1. i \in V <=> takes
        BY <2>2, <2>3, <3>4
      <4> HIDE DEF V
      <4> QED BY <3>1, <3>2, <3>4, <4>1
    <3> QED BY <2>4, <3>3, <3>4
  <2>7. Good(V, m + 1)
    <3> HIDE DEF V
    <3> QED BY <2>5, <2>6
  <2> HIDE DEF V, Good
  <2> QED BY <2>7
<1> HIDE DEF T
<1>3. n \in T
  BY <1>1, <1>2, NumbersByInduction
<1> QED BY <1>3 DEF T

LEMMA ValuesSteps ==
  ASSUME NEW args, Len(args) \in Nat
  PROVE  /\ Values(args) \subseteq 1..Len(args)
         /\ \A i \in 1..Len(args) :
              i \in Values(args) <=>
                i > 1 /\ args[i - 1] \in Valued /\ i - 1 \notin Values(args)
<1> DEFINE n == Len(args)
           Takes(v, i) == i > 1 /\ args[i - 1] \in Valued /\ ~ v[i - 1]
           IsIt(v) == v = [i \in 1..n |-> Takes(v, i)]
           it == CHOOSE v : IsIt(v)
<1>1. Values(args) = {i \in 1..n : it[i]}
  BY DEF Values
<1>2. \E v : IsIt(v)
  <2>1. PICK W : \A i \in 1..n : i \in W <=> i > 1 /\ args[i - 1] \in Valued /\ i - 1 \notin W
    BY ValuesExist
  <2> DEFINE w == [i \in 1..n |-> i \in W]
             u == [i \in 1..n |-> Takes(w, i)]
  <2>2. ASSUME NEW i \in 1..n PROVE w[i] = u[i]
    <3>1. w[i] = (i \in W) /\ u[i] = Takes(w, i)
      OBVIOUS
    <3>2. i > 1 => i - 1 \in 1..n
      OBVIOUS
    <3>3. i > 1 => (w[i - 1] <=> i - 1 \in W)
      BY <3>2
    <3>4. Takes(w, i) <=> i \in W
      <4> HIDE DEF w
      <4> QED BY <2>1, <3>3
    <3>5. Takes(w, i) \in BOOLEAN
      <4> HIDE DEF w
      <4> QED OBVIOUS
    <3>6. (i \in W) = Takes(w, i)
      <4> HIDE DEF w, Takes
      <4> QED BY <3>4, <3>5
    <3> HIDE DEF w, u, Takes
    <3> QED BY <3>1, <3>6
  <2>3. w = u
    <3> HIDE DEF Takes
    <3> QED BY <2>2, Zenon
  <2> HIDE DEF w, Takes
  <2> QED BY <2>3
<1>3. IsIt(it)
  <2> HIDE DEF IsIt
  <2> QED BY <1>2
<1> HIDE DEF it
<1>4. \A i \in 1..n : it[i] <=> Takes(it, i)
  <2> SUFFICES ASSUME NEW i \in 1..n PROVE it[i] <=> Takes(it, i)
    OBVIOUS
  <2>1. it = [j \in 1..n |-> Takes(it, j)]
    BY <1>3
  <2> HIDE DEF Takes, IsIt
  <2>2. it[i] = Takes(it, i)
    BY <2>1
  <2> QED BY <2>2
<1>5. ASSUME NEW i \in 1..n
      PROVE  i \in Values(args) <=> i > 1 /\ args[i - 1] \in Valued /\ i - 1 \notin Values(args)
  <2>1. i > 1 => i - 1 \in 1..n
    OBVIOUS
  <2>2. i > 1 => (i - 1 \in Values(args) <=> it[i - 1])
    BY <1>1, <2>1
  <2>3. i \in Values(args) <=> Takes(it, i)
    BY <1>1, <1>4
  <2> QED BY <2>2, <2>3
<1> QED BY <1>1, <1>5

LEMMA SetOfAppended ==
  ASSUME NEW S, NEW s \in Seq(S), NEW e \in S
  PROVE  ToSet(Append(s, e)) = ToSet(s) \cup {e}
<1> DEFINE t == Append(s, e)
           n == Len(s)
<1>1. /\ n \in Nat /\ DOMAIN s = 1..n /\ DOMAIN t = 1..(n + 1)
      /\ \A i \in 1..n : t[i] = s[i]
      /\ t[n + 1] = e
  BY NewLines
<1> HIDE DEF n, t
<1>2. \A i : i \in 1..(n + 1) <=> i \in 1..n \/ i = n + 1
  BY <1>1
<1>3. ToSet(t) = ToSet(s) \cup {e}
  BY <1>1, <1>2 DEF ToSet
<1> QED BY <1>3 DEF t

If(condition, S) == IF condition THEN S ELSE {}

LEMMA WithValueAsks ==
  ASSUME NEW o, IsOptions(o), NEW option \in Valued, NEW arg \in STRING
  PROVE  LET P == WithValue(o, option, arg)
         IN  /\ ToSet(P.inputs) = ToSet(o.inputs) \cup If(option = "--input", {arg})
             /\ ToSet(P.inputDirs) = ToSet(o.inputDirs) \cup If(option = "--input-dir", {arg})
             /\ P.mnemonics = o.mnemonics \cup If(option = "--mnemonic", Csv[arg])
             /\ P.opcodes = o.opcodes \cup If(option = "--opcode", Csv[arg])
<1> DEFINE P == WithValue(o, option, arg)
           same == /\ P.inputs = o.inputs /\ P.inputDirs = o.inputDirs
                   /\ P.mnemonics = o.mnemonics /\ P.opcodes = o.opcodes
<1>0. o.inputs \in Seq(STRING) /\ o.inputDirs \in Seq(STRING)
  BY DEF IsOptions
<1>d. DOMAIN o = {"inputs", "inputDirs", "mnemonics", "opcodes", "limitStates",
                  "limitInstructions", "reportJsonl", "reportSkipsJsonl", "execute",
                  "stopOnFirstFail", "selfTest", "help"}
  BY DEF IsOptions, DefaultOptions
<1>1. CASE option = "--input"
  <2>1. P = [o EXCEPT !.inputs = Append(@, arg)]
    BY <1>1 DEF WithValue
  <2> HIDE DEF P
  <2>2. /\ P.inputs = Append(o.inputs, arg) /\ P.inputDirs = o.inputDirs
        /\ P.mnemonics = o.mnemonics /\ P.opcodes = o.opcodes
    BY <1>d, <2>1
  <2>3. ToSet(P.inputs) = ToSet(o.inputs) \cup {arg}
    BY <1>0, <2>2, SetOfAppended
  <2> QED BY <1>1, <2>2, <2>3 DEF If, P
<1>2. CASE option = "--input-dir"
  <2>1. P = [o EXCEPT !.inputDirs = Append(@, arg)]
    BY <1>2 DEF WithValue
  <2> HIDE DEF P
  <2>2. /\ P.inputDirs = Append(o.inputDirs, arg) /\ P.inputs = o.inputs
        /\ P.mnemonics = o.mnemonics /\ P.opcodes = o.opcodes
    BY <1>d, <2>1
  <2>3. ToSet(P.inputDirs) = ToSet(o.inputDirs) \cup {arg}
    BY <1>0, <2>2, SetOfAppended
  <2> QED BY <1>2, <2>2, <2>3 DEF If, P
<1>3. CASE option = "--mnemonic"
  <2>1. P = [o EXCEPT !.mnemonics = @ \cup Csv[arg]]
    BY <1>3 DEF WithValue
  <2> HIDE DEF P
  <2> QED BY <1>d, <1>3, <2>1 DEF If, P
<1>4. CASE option = "--opcode"
  <2>1. P = [o EXCEPT !.opcodes = @ \cup Csv[arg]]
    BY <1>4 DEF WithValue
  <2> HIDE DEF P
  <2> QED BY <1>d, <1>4, <2>1 DEF If, P
<1>5. CASE option \in {"--limit-states", "--limit-instructions", "--report-jsonl",
                       "--report-skips-jsonl"}
  <2>1. \/ P = [o EXCEPT !.limitStates = Number[arg]]
        \/ P = [o EXCEPT !.limitInstructions = Number[arg]]
        \/ P = [o EXCEPT !.reportJsonl = arg]
        \/ P = [o EXCEPT !.reportSkipsJsonl = arg]
    BY <1>5 DEF WithValue
  <2> HIDE DEF P
  <2>2. same
    BY <1>d, <2>1
  <2> QED BY <1>5, <2>2 DEF If, P
<1> QED BY <1>1, <1>2, <1>3, <1>4, <1>5 DEF Valued

\* What one argument more asks for.
LEMMA AskedNext ==
  ASSUME scenario \in Scenarios, NEW m \in Nat, m < Len(scenario.args)
  PROVE  LET arg == scenario.args[m + 1]
             w == WaitingAt(m)
         IN  /\ arg \in STRING
             /\ w \in Valued \cup {""}
             /\ WaitingAt(m + 1) = WaitingAfter(w, arg)
             /\ \A option \in Valued :
                  GivenAmong(option, m + 1) =
                    GivenAmong(option, m) \cup If(w = option, {arg})
             /\ PathsAmong(m + 1) =
                  PathsAmong(m) \cup If(w = "--input" \/ (w = "" /\ arg \notin Dashed), {arg})
<1> DEFINE args == scenario.args
           arg == args[m + 1]
           w == WaitingAt(m)
           V == Values(args)
<1>1. args \in Seq(STRING) /\ Len(args) \in Nat /\ m + 1 \in 1..Len(args)
  BY WorldType
<1>2. arg \in STRING
  BY <1>1
<1>3. "" \notin Valued
  BY DEF Valued
<1>4. V \subseteq 1..Len(args)
  BY <1>1, ValuesSteps
<1>5. m + 1 \in V <=> m > 0 /\ args[m] \in Valued /\ m \notin V
  <2>1. m + 1 > 1 <=> m > 0
    OBVIOUS
  <2>2. m + 1 - 1 = m
    OBVIOUS
  <2> QED BY <1>1, <2>1, <2>2, ValuesSteps
<1>6. /\ m + 1 \in V => w = args[m] /\ w \in Valued
      /\ m + 1 \notin V => w = ""
  BY <1>5 DEF WaitingAt
<1>7. WaitingAt(m + 1) = WaitingAfter(w, arg)
  <2>1. m + 1 > 0
    OBVIOUS
  <2>2. WaitingAt(m + 1) = IF m + 1 \notin V /\ arg \in Valued THEN arg ELSE ""
    BY <2>1 DEF WaitingAt
  <2> HIDE DEF V, w, arg
  <2> QED BY <1>3, <1>6, <2>2 DEF WaitingAfter
<1>8. \A i \in Nat : i <= m + 1 <=> i <= m \/ i = m + 1
  OBVIOUS
<1>9. ASSUME NEW option \in Valued
      PROVE  GivenAmong(option, m + 1) = GivenAmong(option, m) \cup If(w = option, {arg})
  <2> DEFINE G(n) == {i \in V : i <= n /\ args[i - 1] = option}
  <2>1. G(m + 1) = IF w = option THEN G(m) \cup {m + 1} ELSE G(m)
    <3>1. \A i \in V : i \in Nat
      BY <1>1, <1>4
    <3>2. m + 1 - 1 = m
      OBVIOUS
    <3>3. m + 1 \in V /\ args[m] = option <=> w = option
      <4> HIDE DEF w, V
      <4> QED BY <1>3, <1>5, <1>6, <1>9
    <3>4. \A i : i \in G(m + 1) <=> i \in G(m) \/ (i = m + 1 /\ w = option)
      <4> SUFFICES ASSUME NEW i
                   PROVE  i \in G(m + 1) <=> i \in G(m) \/ (i = m + 1 /\ w = option)
        OBVIOUS
      <4> HIDE DEF w, V
      <4>1. i = m + 1 => (i \in G(m + 1) <=> w = option)
        BY <3>2, <3>3
      <4>2. i # m + 1 => (i \in G(m + 1) <=> i \in G(m))
        BY <1>8, <3>1
      <4>3. m + 1 \notin G(m)
        OBVIOUS
      <4> HIDE DEF G
      <4> QED BY <4>1, <4>2, <4>3
    <3> HIDE DEF G, w
    <3> QED BY <3>4
  <2>2. \A n : GivenAmong(option, n) = {args[i] : i \in G(n)}
    BY DEF GivenAmong
  <2> HIDE DEF G, w, V
  <2> QED BY <2>1, <2>2 DEF If
<1>10. PathsAmong(m + 1) =
         PathsAmong(m) \cup If(w = "--input" \/ (w = "" /\ arg \notin Dashed), {arg})
  <2> DEFINE G(n) == {i \in 1..n : i \notin V /\ args[i] \notin Dashed}
  <2>1. G(m + 1) = IF m + 1 \notin V /\ arg \notin Dashed THEN G(m) \cup {m + 1} ELSE G(m)
    <3>1. \A i : i \in 1..(m + 1) <=> i \in 1..m \/ i = m + 1
      OBVIOUS
    <3> HIDE DEF V
    <3> QED BY <3>1
  <2>2. \A n : PathsAmong(n) = {args[i] : i \in G(n)} \cup GivenAmong("--input", n)
    BY DEF PathsAmong
  <2>3. m + 1 \notin V <=> w = ""
    <3> HIDE DEF V, w
    <3> QED BY <1>3, <1>6
  <2>4. GivenAmong("--input", m + 1) = GivenAmong("--input", m) \cup If(w = "--input", {arg})
    BY <1>9 DEF Valued
  <2> HIDE DEF G, w, V
  <2>5. {args[i] : i \in G(m + 1)} =
          {args[i] : i \in G(m)} \cup If(w = "" /\ arg \notin Dashed, {arg})
    BY <2>1, <2>3 DEF If
  <2> QED BY <2>2, <2>4, <2>5 DEF If
<1> QED BY <1>2, <1>3, <1>6, <1>7, <1>9, <1>10

LEMMA SameQuestion ==
  ASSUME UNCHANGED scenario
  PROVE  /\ \A option, m : GivenAmong(option, m)' = GivenAmong(option, m)
         /\ \A option, m : NamesAmong(option, m)' = NamesAmong(option, m)
         /\ \A m : PathsAmong(m)' = PathsAmong(m) /\ WaitingAt(m)' = WaitingAt(m)
         /\ \A option : Given(option)' = Given(option) /\ Names(option)' = Names(option)
         /\ AskedFiles' = AskedFiles
<1>1. \A option, m : GivenAmong(option, m)' = GivenAmong(option, m)
  BY DEF GivenAmong
<1>2. \A option, m : NamesAmong(option, m)' = NamesAmong(option, m)
  BY <1>1 DEF NamesAmong
<1>3. \A m : PathsAmong(m)' = PathsAmong(m)
  BY <1>1 DEF PathsAmong
<1>4. \A m : WaitingAt(m)' = WaitingAt(m)
  BY DEF WaitingAt
<1>5. \A option : Given(option)' = Given(option)
  BY DEF Given
<1>6. \A option : Names(option)' = Names(option)
  BY <1>5 DEF Names
<1>7. AskedFiles' = AskedFiles
  BY <1>5, <1>6 DEF AskedFiles
<1> QED BY <1>1, <1>2, <1>3, <1>4, <1>5, <1>6, <1>7

\* One argument more.
LEMMA OneMoreAsks ==
  ASSUME scenario \in Scenarios, NEW m \in Nat, m < Len(scenario.args),
         NEW o, IsOptions(o), Asks(o, m),
         ~ Refuses(WaitingAt(m), scenario.args[m + 1])
  PROVE  Asks(OptionsAfter(o, WaitingAt(m), scenario.args[m + 1]), m + 1)
<1> DEFINE arg == scenario.args[m + 1]
           w == WaitingAt(m)
           P == OptionsAfter(o, w, arg)
<1>1. /\ arg \in STRING /\ w \in Valued \cup {""}
      /\ \A option \in Valued :
           GivenAmong(option, m + 1) = GivenAmong(option, m) \cup If(w = option, {arg})
      /\ PathsAmong(m + 1) =
           PathsAmong(m) \cup If(w = "--input" \/ (w = "" /\ arg \notin Dashed), {arg})
  BY AskedNext
<1>2. {"--input", "--input-dir", "--mnemonic", "--opcode"} \subseteq Valued
  BY DEF Valued
<1>3. \A option \in Valued :
        NamesAmong(option, m + 1) = NamesAmong(option, m) \cup If(w = option, Csv[arg])
  <2> HIDE DEF arg, w
  <2> QED BY <1>1 DEF NamesAmong, If
<1>4. "" \notin Valued /\ Valued \cap Switches = {}
  BY DEF Valued, Switches
<1> HIDE DEF arg, w
<1>5. ~ Refuses(w, arg)
  BY DEF arg, w
<1>6. CASE w # ""
  <2>1. P = WithValue(o, w, arg) /\ w \in Valued
    BY <1>1, <1>6 DEF OptionsAfter
  <2> HIDE DEF P
  <2>2. /\ ToSet(P.inputs) = ToSet(o.inputs) \cup If(w = "--input", {arg})
        /\ ToSet(P.inputDirs) = ToSet(o.inputDirs) \cup If(w = "--input-dir", {arg})
        /\ P.mnemonics = o.mnemonics \cup If(w = "--mnemonic", Csv[arg])
        /\ P.opcodes = o.opcodes \cup If(w = "--opcode", Csv[arg])
    <3> DEFINE Q == WithValue(o, w, arg)
    <3>1. arg \in STRING
      BY <1>1
    <3>2. /\ ToSet(Q.inputs) = ToSet(o.inputs) \cup If(w = "--input", {arg})
          /\ ToSet(Q.inputDirs) = ToSet(o.inputDirs) \cup If(w = "--input-dir", {arg})
          /\ Q.mnemonics = o.mnemonics \cup If(w = "--mnemonic", Csv[arg])
          /\ Q.opcodes = o.opcodes \cup If(w = "--opcode", Csv[arg])
      BY <2>1, <3>1, WithValueAsks DEF If
    <3> HIDE DEF Q
    <3> QED BY <2>1, <3>2 DEF Q
  <2>3. PathsAmong(m + 1) = PathsAmong(m) \cup If(w = "--input", {arg})
    BY <1>1, <1>6 DEF If
  <2>4. Asks(P, m + 1)
    BY <1>1, <1>2, <1>3, <2>2, <2>3 DEF Asks
  <2> QED BY <2>4 DEF P, arg, w
<1>7. CASE w = "" /\ arg \in Dashed
  <2>1. /\ P.inputs = o.inputs /\ P.inputDirs = o.inputDirs
        /\ P.mnemonics = o.mnemonics /\ P.opcodes = o.opcodes
    <3>1. arg \in Valued \cup Switches
      BY <1>5, <1>7 DEF Refuses
    <3>2. CASE arg \in Valued
      <4>1. P = o
        BY <1>4, <1>7, <3>2 DEF OptionsAfter
      <4> QED BY <4>1
    <3>3. CASE arg \in Switches
      <4>1. P = WithSwitch(o, arg)
        BY <1>4, <1>7, <3>3 DEF OptionsAfter
      <4>2. \/ P = [o EXCEPT !.help = TRUE]
            \/ P = [o EXCEPT !.selfTest = TRUE]
            \/ P = [o EXCEPT !.execute = TRUE]
            \/ P = [o EXCEPT !.stopOnFirstFail = TRUE]
            \/ P = o
        BY <3>3, <4>1 DEF WithSwitch, Switches
      <4>3. DOMAIN o = {"inputs", "inputDirs", "mnemonics", "opcodes", "limitStates",
                        "limitInstructions", "reportJsonl", "reportSkipsJsonl", "execute",
                        "stopOnFirstFail", "selfTest", "help"}
        BY DEF IsOptions, DefaultOptions
      <4> HIDE DEF P
      <4> QED BY <4>2, <4>3
    <3> QED BY <3>1, <3>2, <3>3
  <2> HIDE DEF P
  <2>2. /\ PathsAmong(m + 1) = PathsAmong(m)
        /\ \A option \in Valued : /\ GivenAmong(option, m + 1) = GivenAmong(option, m)
                                  /\ NamesAmong(option, m + 1) = NamesAmong(option, m)
    BY <1>1, <1>3, <1>4, <1>7 DEF If
  <2>3. Asks(P, m + 1)
    BY <1>2, <2>1, <2>2 DEF Asks
  <2> QED BY <2>3 DEF P, arg, w
<1>8. CASE w = "" /\ arg \notin Dashed
  <2>1. P = WithValue(o, "--input", arg)
    BY <1>8, CommandLineAssumption DEF OptionsAfter
  <2>2. /\ ToSet(P.inputs) = ToSet(o.inputs) \cup If(TRUE, {arg})
        /\ ToSet(P.inputDirs) = ToSet(o.inputDirs) \cup If(FALSE, {arg})
        /\ P.mnemonics = o.mnemonics \cup If(FALSE, Csv[arg])
        /\ P.opcodes = o.opcodes \cup If(FALSE, Csv[arg])
    <3> HIDE DEF P
    <3> QED BY <1>1, <1>2, <2>1, WithValueAsks DEF If
  <2> HIDE DEF P
  <2>3. /\ PathsAmong(m + 1) = PathsAmong(m) \cup {arg}
        /\ \A option \in Valued : /\ GivenAmong(option, m + 1) = GivenAmong(option, m)
                                  /\ NamesAmong(option, m + 1) = NamesAmong(option, m)
    BY <1>1, <1>3, <1>4, <1>8 DEF If
  <2>4. Asks(P, m + 1)
    BY <1>2, <2>2, <2>3 DEF Asks, If
  <2> QED BY <2>4 DEF P, arg, w
<1> QED BY <1>6, <1>7, <1>8

LEMMA ParseArgumentAsks ==
  ASSUME TypeInv, ArgumentsAreTaken, ParseArgument
  PROVE  ArgumentsAreTaken'
<1> DEFINE args == scenario.args
<1>1. /\ pc = "arguments" /\ todo # <<>> /\ todo' = Tail(todo) /\ UNCHANGED scenario
      /\ scenario \in Scenarios /\ IsOptions(options) /\ todo \in Seq(STRING)
  BY DEF ParseArgument, TypeInv, TodoIsTyped
<1>2. PICK m \in Nat :
        /\ m = Len(args) - Len(todo) /\ waiting = WaitingAt(m) /\ Asks(options, m)
        /\ \A i \in DOMAIN todo : todo[i] = args[m + i]
  BY <1>1 DEF ArgumentsAreTaken
<1>3. /\ Head(todo) = todo[1] /\ 1 \in DOMAIN todo /\ Len(todo) \in Nat
      /\ Len(Tail(todo)) = Len(todo) - 1 /\ Tail(todo) \in Seq(STRING)
      /\ \A i \in 1..(Len(todo) - 1) : Tail(todo)[i] = todo[i + 1]
      /\ DOMAIN todo = 1..Len(todo)
  BY <1>1, TailType
<1>4. Len(args) \in Nat /\ Len(todo) # 0
  <2>1. args \in Seq(STRING)
    BY <1>1, WorldType
  <2> QED BY <1>1, <2>1
<1>5. m < Len(args) /\ Head(todo) = args[m + 1]
  BY <1>2, <1>3, <1>4
<1>6. \/ pc' = "aborted"
      \/ /\ ~ Refuses(waiting, Head(todo))
         /\ options' = OptionsAfter(options, waiting, Head(todo))
         /\ waiting' = WaitingAfter(waiting, Head(todo))
         /\ UNCHANGED pc
  BY DEF ParseArgument, Throw
<1>7. CASE pc' = "aborted"
  BY <1>7 DEF ArgumentsAreTaken
<1>8. CASE /\ ~ Refuses(waiting, Head(todo))
           /\ options' = OptionsAfter(options, waiting, Head(todo))
           /\ waiting' = WaitingAfter(waiting, Head(todo))
  <2>1. PICK k \in Nat : k = m + 1
    OBVIOUS
  <2>2. k = Len(args) - Len(todo')
    BY <1>1, <1>2, <1>3, <1>4, <2>1
  <2>3. ASSUME NEW i \in DOMAIN todo' PROVE todo'[i] = args[k + i]
    <3> DEFINE j == i + 1
    <3>1. j \in DOMAIN todo /\ m + j = k + i /\ todo'[i] = todo[j]
      BY <1>1, <1>3, <2>1
    <3> HIDE DEF j
    <3> QED BY <1>2, <3>1
  <2>4. waiting' = WaitingAt(k)
    BY <1>1, <1>2, <1>5, <1>8, <2>1, AskedNext
  <2>5. Asks(options', k)
    BY <1>1, <1>2, <1>5, <1>8, <2>1, OneMoreAsks
  <2>6. args' = args /\ (Len(args) - Len(todo))' = k
    BY <1>1, <2>2
  <2>7. Asks(options, k)' /\ waiting' = WaitingAt(k)'
    BY <1>1, <2>4, <2>5, SameQuestion DEF Asks
  <2>8. \A i \in DOMAIN todo' : todo'[i] = args'[k + i]
    BY <2>3, <2>6
  <2> QED BY <2>6, <2>7, <2>8 DEF ArgumentsAreTaken
<1> QED BY <1>6, <1>7, <1>8

KeptOf(dir, mnemonics) ==
  {entry.path : entry \in {e \in Directory[dir] :
                             e.txt /\ (mnemonics = {} \/ e.stem \in mnemonics)}}

LEMMA FilesInAre ==
  ASSUME NEW dir \in DOMAIN Directory, NEW mnemonics
  PROVE  ToSet(FilesIn(dir, mnemonics)) = KeptOf(dir, mnemonics)
<1> DEFINE kept == KeptOf(dir, mnemonics)
           I == {i \in DOMAIN PathOrder : PathOrder[i] \in kept}
<1>1. FilesIn(dir, mnemonics) = Only(PathOrder, I)
  BY DEF FilesIn, KeptOf
<1>2. PathOrder \in Seq(STRING) /\ DOMAIN PathOrder = 1..Len(PathOrder)
  BY CommandLineAssumption
<1>3. ToSet(Only(PathOrder, I)) = {PathOrder[i] : i \in I \cap 1..Len(PathOrder)}
  BY <1>2, RangeOfOnly
<1>4. \A x \in kept : \E i \in DOMAIN PathOrder : x = PathOrder[i]
  <2>1. \A x \in kept : x \in ToSet(PathOrder)
    BY CommandLineAssumption DEF KeptOf
  <2> HIDE DEF kept
  <2> QED BY <2>1 DEF ToSet
<1>5. {PathOrder[i] : i \in I \cap 1..Len(PathOrder)} = kept
  <2> HIDE DEF kept
  <2> QED BY <1>2, <1>4
<1> QED BY <1>1, <1>3, <1>5

LEMMA WithDirectoriesAre ==
  ASSUME NEW o, IsOptions(o), ToSet(o.inputDirs) \subseteq DOMAIN Directory
  PROVE  LET P == WithDirectories(o)
         IN  /\ ToSet(P.inputs) =
                  ToSet(o.inputs) \cup UNION {KeptOf(d, o.mnemonics) : d \in ToSet(o.inputDirs)}
             /\ P.mnemonics = o.mnemonics /\ P.opcodes = o.opcodes
<1> DEFINE n == Len(o.inputDirs)
           f == [i \in DOMAIN o.inputDirs |-> FilesIn(o.inputDirs[i], o.mnemonics)]
           P == WithDirectories(o)
<1>1. n \in Nat /\ DOMAIN o.inputDirs = 1..n /\ o.inputs \in Seq(STRING)
  BY DEF IsOptions
<1>2. FlattenSeq(f) = Joined(f, n)
  <2>1. f = [i \in 1..n |-> f[i]]
    <3>1. DOMAIN o.inputDirs = 1..n
      BY <1>1
    <3> HIDE DEF n
    <3> QED BY <3>1
  <2> HIDE DEF f, n
  <2> QED BY <2>1 DEF Joined
<1>3. \A i \in 1..n : f[i] \in Seq(STRING) /\ ToSet(f[i]) = KeptOf(o.inputDirs[i], o.mnemonics)
  <2> SUFFICES ASSUME NEW i \in 1..n
               PROVE  f[i] \in Seq(STRING) /\ ToSet(f[i]) = KeptOf(o.inputDirs[i], o.mnemonics)
    OBVIOUS
  <2>1. f[i] = FilesIn(o.inputDirs[i], o.mnemonics)
    BY <1>1
  <2>2. o.inputDirs[i] \in DOMAIN Directory
    BY <1>1 DEF ToSet
  <2> HIDE DEF f
  <2>3. FilesIn(o.inputDirs[i], o.mnemonics) \in Seq(STRING)
    BY FilesInType
  <2> QED BY <2>1, <2>2, <2>3, FilesInAre
<1> HIDE DEF f
<1>4. Joined(f, n) \in Seq(STRING)
  <2> HIDE DEF n
  <2> QED BY <1>1, <1>3, JoinedType
<1>5. ToSet(Joined(f, n)) = UNION {KeptOf(d, o.mnemonics) : d \in ToSet(o.inputDirs)}
  <2>1. ToSet(Joined(f, n)) = UNION {ToSet(f[i]) : i \in 1..n}
    <3> HIDE DEF n
    <3> QED BY <1>1, <1>3, RangeOfJoined
  <2>2. UNION {ToSet(f[i]) : i \in 1..n} = UNION {KeptOf(o.inputDirs[i], o.mnemonics) : i \in 1..n}
    <3> HIDE DEF n
    <3> QED BY <1>3
  <2>3. UNION {KeptOf(o.inputDirs[i], o.mnemonics) : i \in 1..n} =
          UNION {KeptOf(d, o.mnemonics) : d \in ToSet(o.inputDirs)}
    <3> HIDE DEF n
    <3> QED BY <1>1 DEF ToSet
  <2> QED BY <2>1, <2>2, <2>3
<1>6. P = [o EXCEPT !.inputs = @ \o FlattenSeq(f)]
  BY DEF WithDirectories, f
<1>7. DOMAIN o = {"inputs", "inputDirs", "mnemonics", "opcodes", "limitStates",
                  "limitInstructions", "reportJsonl", "reportSkipsJsonl", "execute",
                  "stopOnFirstFail", "selfTest", "help"}
  BY DEF IsOptions, DefaultOptions
<1> HIDE DEF P, n
<1>8. P.inputs = o.inputs \o Joined(f, n) /\ P.mnemonics = o.mnemonics /\ P.opcodes = o.opcodes
  BY <1>2, <1>6, <1>7
<1>9. ToSet(P.inputs) = ToSet(o.inputs) \cup ToSet(Joined(f, n))
  BY <1>1, <1>4, <1>8, RangeOfConcatenated
<1> QED BY <1>5, <1>8, <1>9 DEF P

LEMMA AllAsked ==
  ASSUME scenario \in Scenarios
  PROVE  LET m == Len(scenario.args)
         IN  /\ \A option : GivenAmong(option, m) = Given(option)
             /\ \A option : NamesAmong(option, m) = Names(option)
             /\ AskedFiles = PathsAmong(m) \cup
                  UNION {KeptOf(d, Names("--mnemonic")) : d \in Given("--input-dir")}
<1> DEFINE args == scenario.args
           m == Len(args)
<1>1. m \in Nat /\ DOMAIN args = 1..m /\ Values(args) \subseteq 1..m
  <2>1. args \in Seq(STRING)
    BY WorldType
  <2> QED BY <2>1, ValuesSteps
<1>2. ASSUME NEW option PROVE GivenAmong(option, m) = Given(option)
  <2>1. \A i \in Values(args) : i <= m
    BY <1>1
  <2>2. {i \in Values(args) : i <= m /\ args[i - 1] = option} =
          {i \in Values(args) : args[i - 1] = option}
    BY <2>1
  <2> QED BY <2>2 DEF GivenAmong, Given
<1>3. \A option : NamesAmong(option, m) = Names(option)
  BY <1>2 DEF NamesAmong, Names
<1>4. AskedFiles = PathsAmong(m) \cup
        UNION {KeptOf(d, Names("--mnemonic")) : d \in Given("--input-dir")}
  <2> DEFINE ms == Names("--mnemonic")
             Ok(e) == e.txt /\ (ms # {} => e.stem \in ms)
             A == {entry.path : entry \in
                     {e \in UNION {Directory[d] : d \in Given("--input-dir")} : Ok(e)}}
             B == UNION {KeptOf(d, ms) : d \in Given("--input-dir")}
             G == {args[i] : i \in {i \in 1..m : i \notin Values(args) /\ args[i] \notin Dashed}}
  <2>1. AskedFiles = G \cup Given("--input") \cup A
    BY <1>1 DEF AskedFiles
  <2>2. PathsAmong(m) = G \cup Given("--input")
    BY <1>2 DEF PathsAmong
  <2>3. \A d : KeptOf(d, ms) = {entry.path : entry \in {e \in Directory[d] : Ok(e)}}
    BY DEF KeptOf
  <2>4. A = B
    <3> HIDE DEF Ok, ms
    <3> QED BY <2>3
  <2> HIDE DEF A, B, G
  <2>5. AskedFiles = PathsAmong(m) \cup B
    BY <2>1, <2>2, <2>4
  <2> QED BY <2>5 DEF B
<1> QED BY <1>2, <1>3, <1>4

LEMMA LaunchAsks ==
  ASSUME TypeInv, ArgumentsAreTaken, Launch
  PROVE  OptionsAreAsked'
<1>1. /\ pc = "arguments" /\ todo = <<>> /\ UNCHANGED scenario
      /\ scenario \in Scenarios /\ IsOptions(options)
      /\ \/ pc' = "aborted"
         \/ ~ IsMalformed /\ options' = WithDirectories(options)
  BY DEF Launch, TypeInv, Throw
<1>2. CASE pc' = "aborted"
  BY <1>2 DEF OptionsAreAsked
<1>3. CASE ~ IsMalformed /\ options' = WithDirectories(options)
  <2> DEFINE m == Len(scenario.args)
             ms == Names("--mnemonic")
  <2>1. Asks(options, m)
    <3>1. Len(todo) = 0 /\ m \in Nat
      BY <1>1, WorldType
    <3>2. m - Len(todo) = m
      BY <3>1
    <3> QED BY <1>1, <3>2 DEF ArgumentsAreTaken
  <2>2. ToSet(options.inputDirs) \subseteq DOMAIN Directory
    BY <1>3 DEF IsMalformed
  <2>3. /\ ToSet(options.inputs) = PathsAmong(m)
        /\ ToSet(options.inputDirs) = Given("--input-dir")
        /\ options.mnemonics = ms /\ options.opcodes = Names("--opcode")
    BY <1>1, <2>1, AllAsked DEF Asks
  <2>4. AskedFiles = PathsAmong(m) \cup UNION {KeptOf(d, ms) : d \in Given("--input-dir")}
    BY <1>1, AllAsked
  <2>5. /\ ToSet(options'.inputs) =
             ToSet(options.inputs) \cup
               UNION {KeptOf(d, options.mnemonics) : d \in ToSet(options.inputDirs)}
        /\ options'.mnemonics = options.mnemonics /\ options'.opcodes = options.opcodes
    BY <1>1, <1>3, <2>2, WithDirectoriesAre
  <2> HIDE DEF ms, m
  <2>6. ToSet(options'.inputs) = AskedFiles
    BY <2>3, <2>4, <2>5
  <2>7. /\ AskedFiles' = AskedFiles
        /\ Names("--mnemonic")' = Names("--mnemonic") /\ Names("--opcode")' = Names("--opcode")
    BY <1>1, SameQuestion
  <2> QED BY <2>3, <2>5, <2>6, <2>7 DEF OptionsAreAsked, ms
<1> QED BY <1>1, <1>2, <1>3

----------------------------------------------------------------------------
(* What does not change once the options are known.                        *)

LEMMA SameRows ==
  ASSUME UNCHANGED <<scenario, options>>
  PROVE  /\ \A p : Corpus(p)' = Corpus(p) /\ RowsOf(p)' = RowsOf(p)
         /\ InputRows' = InputRows /\ AllRows' = AllRows
         /\ \A x : Asked(x)' = Asked(x)
         /\ Places' = Places /\ Candidates' = Candidates
         /\ \A p : Met(p)' = Met(p)
<1>1. \A p : Corpus(p)' = Corpus(p)
  BY DEF Corpus
<1>2. \A p : RowsOf(p)' = RowsOf(p)
  BY <1>1 DEF RowsOf
<1>3. InputRows' = InputRows
  BY <1>2 DEF InputRows
<1>4. AllRows' = AllRows
  BY <1>2 DEF AllRows
<1>5. \A x : Asked(x)' = Asked(x)
  BY SameQuestion DEF Asked
<1>6. Places' = Places
  BY <1>4, <1>5 DEF Places
<1>7. Candidates' = Candidates
  BY <1>4, <1>5 DEF Candidates
<1>8. \A p : Met(p)' = Met(p)
  BY <1>6 DEF Met
<1> QED BY <1>1, <1>2, <1>3, <1>4, <1>5, <1>6, <1>7, <1>8

LEMMA SameUse ==
  ASSUME UNCHANGED <<scenario, options, batch>>
  PROVE  /\ \A i : Compiles(i)' = Compiles(i)
         /\ \A i : FirstUse(i)' = FirstUse(i)
         /\ \A i : Unlinked(i)' = Unlinked(i)
         /\ \A i : AnswerTo(i)' = AnswerTo(i)
         /\ \A i : Result(i)' = Result(i)
<1>1. Candidates' = Candidates /\ \A k : Instruction(k)' = Instruction(k) /\ FateOf(k)' = FateOf(k)
  BY SameRows DEF Instruction, FateOf
<1>2. \A r : SkipOf(r)' = SkipOf(r)
  BY <1>1 DEF SkipOf, MemoryStateMissing
<1>3. \A i : Compiles(i)' = Compiles(i)
  BY <1>1, <1>2 DEF Compiles
<1>4. \A i : FirstUse(i)' = FirstUse(i)
  BY <1>1, <1>3 DEF FirstUse
<1>5. \A i : Unlinked(i)' = Unlinked(i)
  BY <1>1, <1>3, <1>4 DEF Unlinked
<1>6. \A i : AnswerTo(i)' = AnswerTo(i)
  BY <1>1, <1>5 DEF AnswerTo
<1>7. \A i : Result(i)' = Result(i)
  BY <1>1, <1>3, <1>5 DEF Result
<1> QED BY <1>3, <1>4, <1>5, <1>6, <1>7

LEMMA SameSelection ==
  ASSUME UNCHANGED <<scenario, options, batch>>
  PROVE  /\ \A n : GroupsAmong(n)' = GroupsAmong(n) /\ KeysAmong(n)' = KeysAmong(n)
         /\ \A n : WithinLimits(n)' = WithinLimits(n)
         /\ \A n, result : HaveResult(n, result)' = HaveResult(n, result)
         /\ \A keys : /\ Undecodable(keys)' = Undecodable(keys)
                      /\ Longer(keys)' = Longer(keys)
         /\ SelectedCount' = SelectedCount
<1>1. \A n : GroupsAmong(n)' = GroupsAmong(n) /\ KeysAmong(n)' = KeysAmong(n)
  BY SameRows DEF GroupsAmong, KeysAmong
<1>2. \A n : WithinLimits(n)' = WithinLimits(n)
  BY <1>1 DEF WithinLimits
<1>3. \A n, result : HaveResult(n, result)' = HaveResult(n, result)
  BY SameUse DEF HaveResult
<1>4. \A keys : /\ Undecodable(keys)' = Undecodable(keys)
                /\ Longer(keys)' = Longer(keys)
  BY DEF Undecodable, Longer, Instruction
<1>5. SelectedCount' = SelectedCount
  BY <1>2, SameUse, SameRows DEF SelectedCount
<1> QED BY <1>1, <1>2, <1>3, <1>4, <1>5

----------------------------------------------------------------------------
(* The rows that are still to come.                                        *)

\* The rows of the inputs.
RowsAround == UNION {RowsIn(options.inputs[i]) : i \in DOMAIN options.inputs}

LEMMA RowsAreTyped ==
  ASSUME TypeInv
  PROVE  LET n == Len(options.inputs)
         IN  /\ n \in Nat /\ DOMAIN options.inputs = 1..n
             /\ \A i \in 1..n : /\ InputRows[i] = RowsOf(options.inputs[i])
                                /\ InputRows[i] \in Seq(RowsAround)
             /\ AllRows = Joined(InputRows, n)
             /\ AllRows \in Seq(RowsAround)
             /\ Candidates \in Seq(RowsAround)
             /\ Len(Candidates) = Met(Len(AllRows))
             /\ \A r \in RowsAround : RowType(r)
<1> DEFINE n == Len(options.inputs)
<1>1. scenario \in Scenarios /\ n \in Nat /\ DOMAIN options.inputs = 1..n
  <2>1. options.inputs \in Seq(STRING) /\ scenario \in Scenarios
    BY DEF TypeInv, TypeOK
  <2> QED BY <2>1
<1>2. ASSUME NEW i \in 1..n
      PROVE  /\ InputRows[i] = RowsOf(options.inputs[i])
             /\ InputRows[i] \in Seq(RowsAround)
  <2>1. InputRows[i] = RowsOf(options.inputs[i])
    BY <1>1 DEF InputRows
  <2>2. RowsIn(options.inputs[i]) \subseteq RowsAround
    BY <1>1 DEF RowsAround
  <2>3. RowsOf(options.inputs[i]) \in Seq(RowsIn(options.inputs[i]))
    BY <1>1, RowsOfType
  <2> DEFINE s == RowsOf(options.inputs[i])
             A == RowsIn(options.inputs[i])
  <2>4. s \in Seq(A) /\ A \subseteq RowsAround
    BY <2>2, <2>3
  <2> HIDE DEF s, A
  <2>5. s \in Seq(RowsAround)
    BY <2>4
  <2> QED BY <2>1, <2>5 DEF s
<1>3. AllRows = Joined(InputRows, n)
  <2>1. InputRows = [i \in 1..n |-> InputRows[i]]
    <3>1. DOMAIN options.inputs = 1..n
      BY <1>1
    <3> HIDE DEF n
    <3> QED BY <3>1 DEF InputRows
  <2>2. AllRows = FlattenSeq(InputRows)
    BY DEF AllRows, InputRows
  <2> HIDE DEF n
  <2> QED BY <2>1, <2>2 DEF Joined
<1> HIDE DEF n
<1>4. AllRows \in Seq(RowsAround)
  BY <1>1, <1>2, <1>3, JoinedType
<1>5. Candidates = Only(AllRows, Places)
  BY DEF Candidates, Places
<1>6. Candidates \in Seq(RowsAround) /\ Len(Candidates) = Met(Len(AllRows))
  BY <1>4, <1>5, OnlyType DEF Met
<1>7. \A r \in RowsAround : RowType(r)
  BY <1>1, RowsInType DEF RowsAround
<1> QED BY <1>1, <1>2, <1>3, <1>4, <1>6, <1>7 DEF n

\* The next row is the next of all rows.
LEMMA NextRow ==
  ASSUME TypeInv, RowsAreTaken, pc = "rows", todo # <<>>
  PROVE  /\ Taken \in Nat /\ Taken + 1 \in 1..Len(AllRows) /\ Len(AllRows) \in Nat
         /\ Head(todo) = AllRows[Taken + 1]
<1> DEFINE n == Len(options.inputs)
           part == Joined(InputRows, file)
<1>1. file \in 1..n /\ todo \in Seq(RowsIn(options.inputs[file]))
  BY RowIsTyped
<1>2. n \in Nat /\ \A i \in 1..n : InputRows[i] \in Seq(RowsAround)
  BY RowsAreTyped
<1>3. /\ Len(part) \in Nat /\ Len(AllRows) \in Nat /\ Len(part) <= Len(AllRows)
      /\ \A a \in 1..Len(part) : AllRows[a] = part[a]
  <2>1. file \in Nat /\ file <= n
    BY <1>1, <1>2
  <2>2. AllRows = Joined(InputRows, n)
    BY RowsAreTyped
  <2> HIDE DEF n
  <2> QED BY <1>2, <2>1, <2>2, JoinedPrefix
<1>4. Len(todo) \in Nat /\ Len(todo) # 0 /\ Head(todo) = todo[1] /\ 1 \in DOMAIN todo
  BY <1>1
<1>5. Taken \in Nat /\ Taken = Len(part) - Len(todo) /\ todo[1] = part[Taken + 1]
  BY <1>4 DEF RowsAreTaken, Taken
<1> HIDE DEF part, n
<1>6. Taken + 1 \in 1..Len(part)
  BY <1>3, <1>4, <1>5
<1> QED BY <1>3, <1>4, <1>5, <1>6

LEMMA StartTakes ==
  ASSUME TypeInv, TypeInv', pc' = "rows", file' = 0, todo' = <<>>
  PROVE  RowsAreTaken' /\ Taken' = 0
<1>1. Joined(InputRows', 0) = <<>>
  BY JoinedSteps
<1>2. Joined(InputRows, file)' = <<>>
  BY <1>1
<1>3. Taken' = 0
  BY <1>2 DEF Taken
<1> QED BY <1>3 DEF RowsAreTaken

LEMMA OpenTakes ==
  ASSUME TypeInv, RowsAreTaken, OpenForRows
  PROVE  RowsAreTaken' /\ (pc' = "rows" => Taken' = Taken)
<1> DEFINE n == Len(options.inputs)
           part == Joined(InputRows, file)
           rows == RowsOf(NextInput)
<1>1. /\ pc = "rows" /\ todo = <<>> /\ file # n /\ file' = file + 1
      /\ UNCHANGED <<scenario, options>>
      /\ \/ pc' = "aborted"
         \/ todo' = rows
  BY DEF OpenForRows, NoMoreInputs, world, Throw
<1>2. CASE pc' = "aborted"
  BY <1>2 DEF RowsAreTaken
<1>3. CASE todo' = rows
  <2>1. file \in Nat /\ file < n /\ n \in Nat /\ \A i \in 1..n : InputRows[i] \in Seq(RowsAround)
    <3>1. file \in 0..n
      BY DEF TypeInv, TypeOK
    <3> QED BY <1>1, <3>1, RowsAreTyped
  <2>2. InputRows[file + 1] = rows
    BY <2>1, RowsAreTyped DEF NextInput
  <2> HIDE DEF n
  <2>3. /\ part \in Seq(RowsAround) /\ rows \in Seq(RowsAround)
        /\ Joined(InputRows, file + 1) = part \o rows
    BY <2>1, <2>2, JoinedNext
  <2>4. Joined(InputRows, file)' = part \o rows
    <3>1. InputRows' = InputRows
      BY <1>1, SameRows
    <3> HIDE DEF part, rows
    <3> QED BY <1>1, <2>3, <3>1
  <2>5. Taken = Len(part)
    <3>1. Len(todo) = 0 /\ Len(part) \in Nat
      BY <1>1, <2>3
    <3> HIDE DEF part
    <3> QED BY <3>1 DEF Taken, part
  <2> HIDE DEF part, rows
  <2>6. Taken' = Len(part)
    <3>1. Taken' = Len(part \o rows) - Len(rows)
      BY <1>3, <2>4 DEF Taken
    <3> QED BY <2>3, <3>1
  <2>7. \A i \in DOMAIN rows : rows[i] = (part \o rows)[Len(part) + i]
    BY <2>3
  <2>8. Len(part) \in Nat
    BY <2>3
  <2>9. \A i \in DOMAIN todo' : todo'[i] = Joined(InputRows, file)'[Taken' + i]
    BY <1>3, <2>4, <2>6, <2>7
  <2> QED BY <2>5, <2>6, <2>8, <2>9 DEF RowsAreTaken
<1> QED BY <1>1, <1>2, <1>3

\* A row is taken, or none is left.
LEMMA RowTakes ==
  ASSUME TypeInv, RowsAreTaken, Row
  PROVE  /\ RowsAreTaken'
         /\ todo' = Tail(todo) /\ UNCHANGED file => Taken' = Taken + 1
<1> DEFINE n == Len(options.inputs)
           part == Joined(InputRows, file)
<1>1. /\ pc = "rows" /\ todo # <<>> /\ UNCHANGED <<scenario, options>>
      /\ \/ todo' = Tail(todo) /\ UNCHANGED file
         \/ todo' = <<>> /\ file' = Len(options.inputs)
  BY RowResult
<1>2. file \in 1..n /\ todo \in Seq(RowsIn(options.inputs[file]))
  BY <1>1, RowIsTyped
<1>3. InputRows' = InputRows
  BY <1>1, SameRows
<1>4. n \in Nat /\ \A i \in 1..n : InputRows[i] \in Seq(RowsAround)
  BY RowsAreTyped
<1>5. Len(part) \in Nat /\ Len(Joined(InputRows, n)) \in Nat
  <2>1. file \in Nat /\ file <= n
    BY <1>2, <1>4
  <2> HIDE DEF n
  <2> QED BY <1>4, <2>1, JoinedPrefix
<1>6. CASE todo' = Tail(todo) /\ UNCHANGED file
  <2>1. /\ 1 \in DOMAIN todo /\ Len(todo) \in Nat /\ Len(todo) # 0
        /\ Len(todo') = Len(todo) - 1
        /\ DOMAIN todo' = 1..(Len(todo) - 1)
        /\ DOMAIN todo = 1..Len(todo)
        /\ \A i \in 1..(Len(todo) - 1) : todo'[i] = todo[i + 1]
    BY <1>1, <1>2, <1>6, TailType
  <2>2. Taken = Len(part) - Len(todo) /\ Taken \in Nat
    BY <1>1 DEF Taken, RowsAreTaken
  <2>3. Joined(InputRows, file)' = part
    BY <1>3, <1>6
  <2> HIDE DEF part
  <2>4. Taken' = Len(part) - Len(todo')
    BY <2>3 DEF Taken
  <2>5. Taken' = Taken + 1
    BY <1>5, <2>1, <2>2, <2>4
  <2>6. PICK k \in Nat : k = Taken
    BY <2>2
  <2>7. ASSUME NEW i \in DOMAIN todo' PROVE todo'[i] = part[Taken' + i]
    <3> DEFINE j == i + 1
    <3>1. j \in DOMAIN todo /\ k + j = (k + 1) + i /\ todo'[i] = todo[j]
      BY <2>1, <2>6
    <3> HIDE DEF j
    <3>2. todo[j] = part[k + j]
      BY <1>1, <2>6, <3>1 DEF RowsAreTaken, part
    <3> QED BY <2>5, <2>6, <3>1, <3>2
  <2> QED BY <2>2, <2>3, <2>5, <2>7 DEF RowsAreTaken
<1>7. CASE todo' = <<>> /\ file' = n
  <2>1. Joined(InputRows, file)' = Joined(InputRows, n)
    BY <1>3, <1>7
  <2>2. Taken' = Len(Joined(InputRows, n)) - 0
    BY <1>7, <2>1 DEF Taken
  <2>3. RowsAreTaken' 
    BY <1>5, <1>7, <2>2 DEF RowsAreTaken
  <2>4. Tail(todo) = <<>> /\ UNCHANGED file => Taken' = Taken + 1
    <3> SUFFICES ASSUME Tail(todo) = <<>>, UNCHANGED file PROVE Taken' = Taken + 1
      OBVIOUS
    <3>1. Len(todo) = 1
      <4> DEFINE t == Tail(todo)
      <4>1. Len(t) = Len(todo) - 1 /\ Len(todo) \in Nat /\ t = <<>>
        BY <1>1, <1>2, TailType
      <4> HIDE DEF t
      <4> QED BY <4>1
    <3>2. file = n
      BY <1>7
    <3>3. Taken = Len(Joined(InputRows, n)) - 1
      BY <3>1, <3>2 DEF Taken
    <3> QED BY <1>5, <2>2, <3>3
  <2> QED BY <1>7, <2>3, <2>4
<1> QED BY <1>1, <1>6, <1>7

----------------------------------------------------------------------------
(* What the backend answers.                                               *)

\* The backend has failed to link one of the first n candidates.
StuckBy(n) ==
  \E j \in 1..n : Compiles(j) /\ FateOf(Candidates[j].key) = "unresolved"

LEMMA FirstUseIs ==
  ASSUME NEW i \in Nat \ {0}, Compiles(i)
  PROVE  LET f == FirstUse(i)
         IN  /\ f \in 1..i /\ Candidates[f].key = Candidates[i].key /\ Compiles(f)
             /\ \A l \in 1..(f - 1) :
                  Candidates[l].key # Candidates[i].key \/ ~ Compiles(l)
<1> DEFINE Is(j) == /\ Candidates[j].key = Candidates[i].key
                    /\ Compiles(j)
                    /\ \A l \in 1..(j - 1) :
                         Candidates[l].key # Candidates[i].key \/ ~ Compiles(l)
           T == {j \in 1..i : Candidates[j].key = Candidates[i].key /\ Compiles(j)}
<1>1. PICK m \in T : \A j \in T : m <= j
  <2>1. i \in T /\ T \subseteq Nat
    OBVIOUS
  <2> HIDE DEF T
  <2> QED BY <2>1, LeastNumber
<1>2. \A l \in 1..(m - 1) : l \notin T /\ l \in 1..i
  BY <1>1
<1>3. Is(m)
  BY <1>1, <1>2
<1>4. FirstUse(i) = CHOOSE j \in 1..i : Is(j)
  BY DEF FirstUse
<1>5. m \in 1..i
  BY <1>1
<1> HIDE DEF Is, T
<1>6. FirstUse(i) \in 1..i /\ Is(FirstUse(i))
  BY <1>3, <1>4, <1>5
<1> QED BY <1>6 DEF Is

\* The candidates of one key are answered alike.
LEMMA SameKeySameAnswer ==
  ASSUME NEW i \in Nat \ {0}, NEW j \in Nat \ {0}, Compiles(i), Compiles(j),
         Candidates[i].key = Candidates[j].key
  PROVE  /\ FirstUse(i) = FirstUse(j) /\ (Unlinked(i) <=> Unlinked(j))
         /\ AnswerTo(i) = AnswerTo(j)
<1> DEFINE f == FirstUse(i)
           g == FirstUse(j)
<1>1. /\ f \in 1..i /\ Candidates[f].key = Candidates[i].key /\ Compiles(f)
      /\ \A l \in 1..(f - 1) : Candidates[l].key # Candidates[i].key \/ ~ Compiles(l)
  BY FirstUseIs
<1>2. /\ g \in 1..j /\ Candidates[g].key = Candidates[j].key /\ Compiles(g)
      /\ \A l \in 1..(g - 1) : Candidates[l].key # Candidates[j].key \/ ~ Compiles(l)
  BY FirstUseIs
<1> HIDE DEF f, g
<1>3. f = g
  <2>1. f \notin 1..(g - 1) /\ g \notin 1..(f - 1)
    BY <1>1, <1>2
  <2> QED BY <1>1, <1>2, <2>1
<1>4. Unlinked(i) <=> Unlinked(j)
  BY <1>3 DEF Unlinked, f, g
<1>5. AnswerTo(i) = AnswerTo(j)
  <2> HIDE DEF Unlinked
  <2> QED BY <1>4 DEF AnswerTo
<1> QED BY <1>3, <1>4, <1>5 DEF f, g

\* What does not link is never in the batch of a run that goes on.
LEMMA UnresolvedIsUnlinked ==
  ASSUME BatchLinks, pc = "rows", NEW i \in Nat \ {0}, Compiles(i),
         FateOf(Candidates[i].key) = "unresolved"
  PROVE  Unlinked(i) /\ AnswerTo(i) = "backend"
<1>1. Candidates[i].key \notin ToSet(batch)
  BY DEF BatchLinks, Compiles
<1>2. LET f == FirstUse(i) IN /\ f \in 1..f /\ Compiles(f)
                              /\ FateOf(Candidates[f].key) = "unresolved"
  BY FirstUseIs
<1>3. Unlinked(i)
  BY <1>1, <1>2 DEF Unlinked
<1> QED BY <1>3 DEF AnswerTo

\* Whether the backend is stuck is known from what it was asked for.
LEMMA StuckIs ==
  ASSUME TypeInv, BatchLinks, pc = "rows", NEW n \in Nat, n <= Len(Candidates),
         AnswersAreRight(n)
  PROVE  Backend!Stuck <=> StuckBy(n)
<1>1. ASSUME Backend!Stuck PROVE StuckBy(n)
  <2>1. PICK k \in Keys : FateOf(k) = "unresolved" /\ answer[k] = "backend"
    BY <1>1 DEF Backend!Stuck, FateOf
  <2>2. PICK i \in 1..n : Compiles(i) /\ Candidates[i].key = k
    BY <2>1 DEF AnswersAreRight
  <2> QED BY <2>1, <2>2 DEF StuckBy
<1>2. ASSUME StuckBy(n) PROVE Backend!Stuck
  <2>1. PICK i \in 1..n : Compiles(i) /\ FateOf(Candidates[i].key) = "unresolved"
    BY <1>2 DEF StuckBy
  <2>2. answer[Candidates[i].key] = AnswerTo(i)
    BY <2>1 DEF AnswersAreRight
  <2>3. AnswerTo(i) = "backend"
    BY <2>1, UnresolvedIsUnlinked
  <2>4. Candidates[i].key \in Keys
    <3>1. Candidates \in Seq(RowsAround) /\ i \in 1..Len(Candidates)
      BY RowsAreTyped
    <3>2. Candidates[i] \in RowsAround
      BY <3>1
    <3> QED BY <3>2, RowsAreTyped DEF RowType
  <2> QED BY <2>1, <2>2, <2>3, <2>4 DEF Backend!Stuck, FateOf
<1> QED BY <1>1, <1>2

\* The answer to the next candidate.
LEMMA DemandAnswers ==
  ASSUME TypeInv, BatchLinks, pc = "rows", ~ scenario.mayFail,
         NEW n \in Nat, n < Len(Candidates), AnswersAreRight(n), Compiles(n + 1),
         Backend!Demand(Candidates[n + 1].key)
  PROVE  /\ answer' = [answer EXCEPT ![Candidates[n + 1].key] = AnswerTo(n + 1)]
         /\ Candidates[n + 1].key \in Keys
<1> DEFINE k == Candidates[n + 1].key
<1>1. PICK a \in {"ready", "unsupported", "backend"} :
        /\ a = "ready" => Backend!IsReady(k)
        /\ a = "unsupported" => Backend!Refused(k)
        /\ a = "backend" => Backend!IsBackendError(k)
        /\ answer' = [answer EXCEPT ![k] = a]
  BY DEF Backend!Demand
<1>2. k \in Keys
  <2>1. Candidates \in Seq(RowsAround) /\ n + 1 \in 1..Len(Candidates)
    BY RowsAreTyped
  <2>2. Candidates[n + 1] \in RowsAround
    BY <2>1
  <2> QED BY <2>2, RowsAreTyped DEF RowType
<1>3. FateOf(k) \in Fates
  BY <1>2, WorldType DEF TypeInv, FateOf
<1>4. options.execute /\ prepared = "done"
  BY DEF Compiles, BatchLinks
<1>5. Backend!Prepared(k) <=> k \in ToSet(batch)
  BY <1>4 DEF Backend!Prepared
<1>6. Backend!Settled(k) <=> k \in ToSet(batch) \/ answer[k] \in {"ready", "unsupported"}
  BY <1>5 DEF Backend!Settled
<1>7. Backend!Stuck <=> StuckBy(n)
  BY StuckIs
<1> DEFINE settled == k \in ToSet(batch) \/ answer[k] \in {"ready", "unsupported"}
<1>8. /\ a = "ready" => FateOf(k) = "ok" /\ (settled \/ ~ StuckBy(n))
      /\ a = "unsupported" => FateOf(k) \in {"decode", "lift"}
      /\ a = "backend" =>
           /\ ~ settled
           /\ FateOf(k) = "unresolved" \/ (FateOf(k) = "ok" /\ StuckBy(n))
  <2>1. a = "ready" => FateOf(k) = "ok" /\ (settled \/ ~ StuckBy(n))
    BY <1>1, <1>6, <1>7 DEF Backend!IsReady, FateOf
  <2>2. a = "unsupported" => FateOf(k) \in {"decode", "lift"}
    BY <1>1 DEF Backend!Refused, FateOf
  <2>3. a = "backend" =>
          /\ ~ settled
          /\ FateOf(k) = "unresolved" \/ (FateOf(k) = "ok" /\ StuckBy(n))
    BY <1>1, <1>6, <1>7 DEF Backend!IsBackendError, FateOf
  <2> QED BY <2>1, <2>2, <2>3
<1>9. CASE FateOf(k) \in {"decode", "lift"}
  <2>1. a = "unsupported" /\ AnswerTo(n + 1) = "unsupported"
    BY <1>8, <1>9 DEF AnswerTo
  <2> QED BY <1>1, <1>2, <2>1
<1>10. CASE FateOf(k) = "unresolved"
  <2>1. a = "backend" /\ AnswerTo(n + 1) = "backend"
    BY <1>8, <1>10, UnresolvedIsUnlinked
  <2> QED BY <1>1, <1>2, <2>1
<1>11. CASE FateOf(k) = "ok"
  <2>1. AnswerTo(n + 1) = IF Unlinked(n + 1) THEN "backend" ELSE "ready"
    BY <1>11 DEF AnswerTo
  <2>2. a = IF ~ settled /\ StuckBy(n) THEN "backend" ELSE "ready"
    <3> HIDE DEF settled
    <3> QED BY <1>8, <1>11
  <2>3. Unlinked(n + 1) <=> ~ settled /\ StuckBy(n)
    <3>1. CASE k \in ToSet(batch)
      BY <3>1 DEF Unlinked
    <3>2. CASE k \notin ToSet(batch) /\ \E i \in 1..n : Compiles(i) /\ Candidates[i].key = k
      <4>1. PICK i \in 1..n : Compiles(i) /\ Candidates[i].key = k
        BY <3>2
      <4>2. Unlinked(i) <=> Unlinked(n + 1)
        BY <4>1, SameKeySameAnswer
      <4>3. answer[k] = IF Unlinked(i) THEN "backend" ELSE "ready"
        BY <1>11, <4>1 DEF AnswersAreRight, AnswerTo
      <4>4. Unlinked(i) => StuckBy(n)
        <5>1. FirstUse(i) \in 1..i
          BY <4>1, FirstUseIs
        <5> QED BY <5>1 DEF Unlinked, StuckBy
      <4> QED BY <3>2, <4>2, <4>3, <4>4
    <3>3. CASE k \notin ToSet(batch) /\ ~ \E i \in 1..n : Compiles(i) /\ Candidates[i].key = k
      <4>1. answer[k] = "none"
        BY <1>2, <3>3 DEF AnswersAreRight
      <4>2. FirstUse(n + 1) = n + 1
        <5>1. /\ FirstUse(n + 1) \in 1..(n + 1)
              /\ Candidates[FirstUse(n + 1)].key = k /\ Compiles(FirstUse(n + 1))
          BY FirstUseIs
        <5>2. FirstUse(n + 1) \notin 1..n
          BY <3>3, <5>1
        <5> QED BY <5>1, <5>2
      <4>3. Unlinked(n + 1) <=> StuckBy(n + 1)
        BY <3>3, <4>2 DEF Unlinked, StuckBy
      <4>4. StuckBy(n + 1) <=> StuckBy(n)
        <5>1. \A j : j \in 1..(n + 1) <=> j \in 1..n \/ j = n + 1
          OBVIOUS
        <5> QED BY <1>11, <5>1 DEF StuckBy
      <4> QED BY <3>3, <4>1, <4>3, <4>4
    <3> QED BY <3>1, <3>2, <3>3
  <2> HIDE DEF settled
  <2>4. a = AnswerTo(n + 1)
    BY <2>1, <2>2, <2>3
  <2> QED BY <1>1, <1>2, <2>4
<1> QED BY <1>3, <1>9, <1>10, <1>11 DEF Fates

LEMMA AnswersGrow ==
  ASSUME TypeInv, BatchLinks, pc = "rows", ~ scenario.mayFail,
         NEW n \in Nat, n < Len(Candidates), AnswersAreRight(n),
         Compile(Candidates[n + 1]), UNCHANGED <<scenario, options, batch>>
  PROVE  /\ AnswersAreRight(n + 1)'
         /\ Compiles(n + 1) => answer'[Candidates[n + 1].key] = AnswerTo(n + 1)
<1> DEFINE k == Candidates[n + 1].key
<1>1. \A j : j \in 1..(n + 1) <=> j \in 1..n \/ j = n + 1
  OBVIOUS
<1>2. answer \in [Keys -> {"none", "ready", "unsupported", "backend"}]
  BY DEF TypeInv, TypeOK
<1>3. /\ \A i : Compiles(i)' = Compiles(i) /\ AnswerTo(i)' = AnswerTo(i)
      /\ Candidates' = Candidates
  BY SameUse, SameRows
<1>4. CASE Compiles(n + 1)
  <2>1. /\ answer' = [answer EXCEPT ![k] = AnswerTo(n + 1)]
        /\ k \in Keys
    BY <1>4, DemandAnswers DEF Compile, Compiles
  <2>2. answer'[k] = AnswerTo(n + 1) /\ \A l \in Keys : l # k => answer'[l] = answer[l]
    BY <1>2, <2>1
  <2>3. ASSUME NEW i \in 1..(n + 1), Compiles(i)
        PROVE  answer'[Candidates[i].key] = AnswerTo(i)
    <3>1. CASE Candidates[i].key = k
      <4>1. AnswerTo(i) = AnswerTo(n + 1)
        BY <1>4, <2>3, <3>1, SameKeySameAnswer
      <4> QED BY <2>2, <3>1, <4>1
    <3>2. CASE Candidates[i].key # k
      <4>1. i \in 1..n
        BY <1>1, <3>2
      <4>2. Candidates[i].key \in Keys
        <5>1. Candidates \in Seq(RowsAround) /\ i \in 1..Len(Candidates)
          BY <4>1, RowsAreTyped
        <5>2. Candidates[i] \in RowsAround
          BY <5>1
        <5> QED BY <5>2, RowsAreTyped DEF RowType
      <4> QED BY <2>2, <2>3, <3>2, <4>1, <4>2 DEF AnswersAreRight
    <3> QED BY <3>1, <3>2
  <2>4. ASSUME NEW l \in Keys, \A i \in 1..(n + 1) : Compiles(i) => Candidates[i].key # l
        PROVE  answer'[l] = "none"
    <3>1. l # k
      BY <1>1, <1>4, <2>4
    <3>2. \A i \in 1..n : Compiles(i) => Candidates[i].key # l
      BY <1>1, <2>4
    <3> QED BY <2>2, <3>1, <3>2 DEF AnswersAreRight
  <2> HIDE DEF k
  <2>5. AnswersAreRight(n + 1)'
    BY <1>3, <2>3, <2>4 DEF AnswersAreRight
  <2> QED BY <2>2, <2>5 DEF k
<1>5. CASE ~ Compiles(n + 1)
  <2>1. answer' = answer
    BY <1>5 DEF Compile, Compiles
  <2>2. \A i \in 1..(n + 1) : Compiles(i) => answer'[Candidates[i].key] = AnswerTo(i)
    BY <1>1, <1>5, <2>1 DEF AnswersAreRight
  <2>3. \A l \in Keys : (\A i \in 1..(n + 1) : Compiles(i) => Candidates[i].key # l)
                          => answer'[l] = "none"
    BY <1>1, <2>1 DEF AnswersAreRight
  <2>4. AnswersAreRight(n + 1)'
    BY <1>3, <2>2, <2>3 DEF AnswersAreRight
  <2> QED BY <1>5, <2>4
<1> QED BY <1>4, <1>5

\* What the row comes to.
LEMMA VerdictIsResult ==
  ASSUME NEW i \in Nat \ {0}, IsRow(Candidates[i].row), NEW a,
         Compiles(i) => a = AnswerTo(i)
  PROVE  Verdict(Candidates[i], a) = Result(i)
<1> DEFINE r == Candidates[i]
<1>1. CASE ~ options.execute
  BY <1>1 DEF Verdict, Result
<1>2. CASE options.execute /\ ~ Compiles(i)
  BY <1>2 DEF Verdict, Result, Compiles
<1>3. CASE options.execute /\ Compiles(i)
  <2>1. /\ SkipOf(r) = NoSkip /\ a = AnswerTo(i) /\ r.row.outcome \in Outcomes
    BY <1>3 DEF Compiles, IsRow
  <2>2. CASE FateOf(r.key) \in {"decode", "lift"}
    BY <1>3, <2>1, <2>2 DEF Verdict, Result, AnswerTo
  <2>3. CASE FateOf(r.key) \notin {"decode", "lift"} /\ Unlinked(i)
    <3>1. a = "backend"
      BY <2>1, <2>3 DEF AnswerTo
    <3> QED BY <1>3, <2>1, <2>3, <3>1 DEF Verdict, Result
  <2>4. CASE FateOf(r.key) \notin {"decode", "lift"} /\ ~ Unlinked(i)
    <3>1. a = "ready"
      BY <2>1, <2>4 DEF AnswerTo
    <3> QED BY <1>3, <2>1, <2>4, <3>1 DEF Verdict, Result, Outcomes, UnsupportedOutcomes
  <2> QED BY <2>2, <2>3, <2>4
<1> QED BY <1>1, <1>2, <1>3

----------------------------------------------------------------------------
(* The candidates and the limits.                                          *)

LEMMA WantedIsAsked ==
  ASSUME OptionsAreAsked, pc \in {"prepare", "rows"}, NEW x
  PROVE  Wanted(x) <=> Asked(x)
  BY DEF OptionsAreAsked, Wanted, Asked

\* The row at place p + 1 is the next candidate, or none.
LEMMA CandidateAt ==
  ASSUME TypeInv, NEW p \in Nat, p < Len(AllRows)
  PROVE  /\ Met(p) \in Nat /\ Len(Candidates) \in Nat
         /\ p + 1 \in Places =>
              /\ Met(p) + 1 \in 1..Len(Candidates)
              /\ Candidates[Met(p) + 1] = AllRows[p + 1]
              /\ Met(p + 1) = Met(p) + 1
         /\ p + 1 \notin Places => Met(p + 1) = Met(p)
<1> DEFINE N == Len(AllRows)
           a == Ascending(Places, N)
<1>1. /\ AllRows \in Seq(RowsAround) /\ Candidates \in Seq(RowsAround)
      /\ Len(Candidates) = Met(N)
  BY RowsAreTyped
<1>2. N \in Nat /\ Len(Candidates) \in Nat
  BY <1>1
<1>3. Candidates = [i \in DOMAIN a |-> AllRows[a[i]]]
  BY DEF Candidates, Only, Places
<1> HIDE DEF N, a
<1>4. Met(p) \in Nat
  BY AscendingPrefix DEF Met
<1>5. ASSUME p + 1 \in Places
      PROVE  /\ Met(p) + 1 \in 1..Len(Candidates)
             /\ Candidates[Met(p) + 1] = AllRows[p + 1]
             /\ Met(p + 1) = Met(p) + 1
  <2>1. /\ Met(p) + 1 \in 1..Len(a) /\ a[Met(p) + 1] = p + 1
        /\ Met(p + 1) = Met(p) + 1
    <3>1. p < N
      BY DEF N
    <3> QED BY <1>2, <1>5, <3>1, AscendingPlace DEF Met, a
  <2>2. Len(Candidates) = Len(a) /\ DOMAIN a = 1..Len(a)
    <3>1. a \in Seq(Places \cap 1..N)
      BY <1>2, AscendingType DEF a
    <3> QED BY <1>1, <3>1 DEF Met, a
  <2> QED BY <1>3, <2>1, <2>2
<1>6. p + 1 \notin Places => Met(p + 1) = Met(p)
  BY AscendingSteps DEF Met
<1> QED BY <1>2, <1>4, <1>5, <1>6

\* A row that is asked for is the next candidate.
LEMMA NextCandidate ==
  ASSUME TypeInv, OptionsAreAsked, RowsAreTaken, pc = "rows", todo # <<>>
  PROVE  /\ Met(Taken) \in Nat
         /\ Wanted(Head(todo)) =>
              /\ Met(Taken) + 1 \in 1..Len(Candidates)
              /\ Candidates[Met(Taken) + 1] = Head(todo)
              /\ Met(Taken + 1) = Met(Taken) + 1
         /\ ~ Wanted(Head(todo)) => Met(Taken + 1) = Met(Taken)
<1>1. /\ Taken \in Nat /\ Taken + 1 \in 1..Len(AllRows) /\ Len(AllRows) \in Nat
      /\ Head(todo) = AllRows[Taken + 1]
  BY NextRow
<1>2. DOMAIN AllRows = 1..Len(AllRows)
  <2>1. AllRows \in Seq(RowsAround)
    BY RowsAreTyped
  <2> QED BY <2>1
<1>3. Taken + 1 \in Places <=> Wanted(Head(todo))
  BY <1>1, <1>2, WantedIsAsked DEF Places
<1>4. PICK p \in Nat : p = Taken
  BY <1>1
<1>5. p < Len(AllRows)
  BY <1>1, <1>4
<1> QED BY <1>1, <1>3, <1>4, <1>5, CandidateAt

\* A function has finitely many values on the numbers up to n.
LEMMA FinitelyMany ==
  ASSUME NEW f, NEW n \in Nat
  PROVE  IsFiniteSet({f[i] : i \in 1..n})
<1> DEFINE T == {m \in Nat : IsFiniteSet({f[i] : i \in 1..m})}
<1>1. 0 \in T
  <2>1. {f[i] : i \in 1..0} = {}
    OBVIOUS
  <2> QED BY <2>1, FS_EmptySet
<1>2. ASSUME NEW m \in Nat, m \in T PROVE m + 1 \in T
  <2>1. \A i : i \in 1..(m + 1) <=> i \in 1..m \/ i = m + 1
    OBVIOUS
  <2>2. {f[i] : i \in 1..(m + 1)} = {f[i] : i \in 1..m} \cup {f[m + 1]}
    BY <2>1
  <2>3. IsFiniteSet({f[i] : i \in 1..m} \cup {f[m + 1]})
    BY <1>2, FS_AddElement
  <2> QED BY <2>2, <2>3
<1> HIDE DEF T
<1>3. n \in T
  BY <1>1, <1>2, NumbersByInduction
<1> QED BY <1>3 DEF T

LEMMA AmongGrow ==
  ASSUME NEW n \in Nat
  PROVE  /\ IsFiniteSet(GroupsAmong(n)) /\ IsFiniteSet(KeysAmong(n))
         /\ GroupsAmong(n + 1) = GroupsAmong(n) \cup {Candidates[n + 1].group}
         /\ KeysAmong(n + 1) = KeysAmong(n) \cup {Candidates[n + 1].key}
         /\ GroupsAmong(0) = {} /\ KeysAmong(0) = {}
<1> DEFINE f == [i \in 1..n |-> Candidates[i].group]
           g == [i \in 1..n |-> Candidates[i].key]
<1>1. GroupsAmong(n) = {f[i] : i \in 1..n} /\ KeysAmong(n) = {g[i] : i \in 1..n}
  BY DEF GroupsAmong, KeysAmong
<1> HIDE DEF f, g
<1>2. IsFiniteSet(GroupsAmong(n)) /\ IsFiniteSet(KeysAmong(n))
  BY <1>1, FinitelyMany
<1>3. \A i : i \in 1..(n + 1) <=> i \in 1..n \/ i = n + 1
  OBVIOUS
<1>4. GroupsAmong(n + 1) = GroupsAmong(n) \cup {Candidates[n + 1].group}
  BY <1>3 DEF GroupsAmong
<1>5. KeysAmong(n + 1) = KeysAmong(n) \cup {Candidates[n + 1].key}
  BY <1>3 DEF KeysAmong
<1>6. GroupsAmong(0) = {} /\ KeysAmong(0) = {}
  BY DEF GroupsAmong, KeysAmong
<1> QED BY <1>2, <1>4, <1>5, <1>6

\* Fewer candidates respect the limits if more do.
LEMMA FewerAreWithin ==
  ASSUME TypeInv, NEW m \in Nat, NEW n \in Nat, m <= n, WithinLimits(n)
  PROVE  WithinLimits(m)
<1>1. options.limitStates \in Nat /\ options.limitInstructions \in Nat
  BY DEF TypeInv, IsOptions
<1>2. GroupsAmong(m) \subseteq GroupsAmong(n)
  <2>1. \A i \in 1..m : i \in 1..n
    OBVIOUS
  <2> QED BY <2>1 DEF GroupsAmong
<1>3. /\ IsFiniteSet(GroupsAmong(n)) /\ IsFiniteSet(GroupsAmong(m))
      /\ Cardinality(GroupsAmong(m)) \in Nat /\ Cardinality(GroupsAmong(n)) \in Nat
      /\ Cardinality(GroupsAmong(m)) <= Cardinality(GroupsAmong(n))
  <2>1. IsFiniteSet(GroupsAmong(n)) /\ IsFiniteSet(GroupsAmong(m))
    BY AmongGrow
  <2> QED BY <1>2, <2>1, FS_Subset, FS_CardinalityType
<1> QED BY <1>1, <1>3 DEF WithinLimits

\* The loop stops where one row more would exceed a limit.
LEMMA LimitIsReached ==
  ASSUME TypeInv, NEW n \in Nat, summary.selectedRows = n, groups = GroupsAmong(n),
         WithinLimits(n)
  PROVE  LimitReached(Candidates[n + 1]) <=> ~ WithinLimits(n + 1)
<1> DEFINE g == Candidates[n + 1].group
           c == Cardinality(groups)
           limit == options.limitInstructions
           states == options.limitStates
<1>1. states \in Nat /\ limit \in Nat
  BY DEF TypeInv, IsOptions
<1>2. /\ c \in Nat /\ GroupsAmong(n + 1) = groups \cup {g}
      /\ Cardinality(groups \cup {g}) = IF g \in groups THEN c ELSE c + 1
  BY AmongGrow, FS_AddElement, FS_CardinalityType
<1>3. (states # 0 => n <= states) /\ (limit # 0 => c <= limit)
  BY DEF WithinLimits
<1>4. LimitReached(Candidates[n + 1]) <=>
        \/ states # 0 /\ n >= states
        \/ g \notin groups /\ limit # 0 /\ c >= limit
  BY DEF LimitReached, Reaches
<1>5. WithinLimits(n + 1) <=>
        /\ states # 0 => n + 1 <= states
        /\ limit # 0 => (IF g \in groups THEN c ELSE c + 1) <= limit
  BY <1>2 DEF WithinLimits
<1> HIDE DEF g, c, limit, states
<1> QED BY <1>1, <1>2, <1>3, <1>4, <1>5

----------------------------------------------------------------------------
(* The counts.                                                             *)

LEMMA OneMoreElement ==
  ASSUME NEW S, IsFiniteSet(S), NEW x, NEW condition \in BOOLEAN
  PROVE  /\ Cardinality(S \cup If(condition, {x})) =
              Cardinality(S) + One(x \notin S /\ condition)
         /\ IsFiniteSet(S \cup If(condition, {x}))
<1> DEFINE A == S \cup If(condition, {x})
           o == One(x \notin S /\ condition)
<1>1. condition => A = S \cup {x}
  BY DEF If
<1>2. ~ condition => A = S
  BY DEF If
<1>3. o = IF condition /\ x \notin S THEN 1 ELSE 0
  BY DEF One
<1>4. /\ IsFiniteSet(S \cup {x}) /\ Cardinality(S) \in Nat
      /\ Cardinality(S \cup {x}) = IF x \in S THEN Cardinality(S) ELSE Cardinality(S) + 1
  BY FS_AddElement, FS_CardinalityType
<1> HIDE DEF A, o
<1>5. CASE condition
  <2>1. A = S \cup {x}
    BY <1>1, <1>5
  <2>2. Cardinality(A) = Cardinality(S) + o /\ IsFiniteSet(A)
    BY <1>3, <1>4, <1>5, <2>1
  <2> QED BY <2>2 DEF A, o
<1>6. CASE ~ condition
  <2>1. A = S
    BY <1>2, <1>6
  <2>2. Cardinality(A) = Cardinality(S) + o /\ IsFiniteSet(A)
    BY <1>3, <1>4, <1>6, <2>1
  <2> QED BY <2>2 DEF A, o
<1> QED BY <1>5, <1>6

LEMMA SameCounts ==
  ASSUME UNCHANGED <<scenario, options, batch, answer, groups, decoded>>,
         \A x \in {"selectedRows", "selectedGroups", "uniqueDecodes", "decodeFailures",
                   "lengthMismatches", "passed", "failed", "skipped"} :
           summary'[x] = summary[x]
  PROVE  \A n : /\ AnswersAreRight(n) => AnswersAreRight(n)'
                /\ CountsAreRight(n) => CountsAreRight(n)'
<1> TAKE n
<1>1. AnswersAreRight(n) => AnswersAreRight(n)'
  BY SameUse, SameRows DEF AnswersAreRight
<1>2. /\ GroupsAmong(n)' = GroupsAmong(n) /\ KeysAmong(n)' = KeysAmong(n)
      /\ \A result : HaveResult(n, result)' = HaveResult(n, result)
      /\ \A keys : Undecodable(keys)' = Undecodable(keys) /\ Longer(keys)' = Longer(keys)
  BY SameSelection
<1>3. Undecodable(decoded)' = Undecodable(decoded) /\ Longer(decoded)' = Longer(decoded)
  BY DEF Undecodable, Longer, Instruction
<1>4. CountsAreRight(n) => CountsAreRight(n)'
  BY <1>2, <1>3 DEF CountsAreRight
<1> QED BY <1>1, <1>4

\* One candidate more.
LEMMA CountsGrow ==
  ASSUME TypeInv, NEW n \in Nat, CountsAreRight(n),
         Account(Candidates[n + 1], Result(n + 1)), UNCHANGED <<scenario, options, batch>>
  PROVE  /\ CountsAreRight(n + 1)'
         /\ summary'.selectedRows = summary.selectedRows + 1
<1> DEFINE r == Candidates[n + 1]
           k == r.key
           v == Result(n + 1)
           bad == ~ Decode(Instruction(k)).ok
           long == LengthDiffers(Instruction(k))
<1>1. summary \in [DOMAIN ZeroSummary -> Nat]
  BY DEF TypeInv, TypeOK
<1>2. /\ groups' = groups \cup {r.group} /\ decoded' = decoded \cup {k}
      /\ summary'.selectedGroups = summary.selectedGroups + One(r.group \notin groups)
      /\ summary'.uniqueDecodes = summary.uniqueDecodes + FirstOf(r, TRUE)
      /\ summary'.decodeFailures = summary.decodeFailures + FirstOf(r, bad)
      /\ summary'.lengthMismatches = summary.lengthMismatches + FirstOf(r, long)
      /\ summary'.selectedRows = summary.selectedRows + 1
      /\ summary'.passed = summary.passed + One(v = "passed")
      /\ summary'.failed = summary.failed + One(v = "failed")
      /\ summary'.skipped = summary.skipped + One(v = "skipped")
  BY <1>1, AccountResult
<1>3. \A condition \in BOOLEAN : FirstOf(r, condition) = One(k \notin decoded /\ condition)
  BY DEF FirstOf, One
<1>4. bad \in BOOLEAN /\ long \in BOOLEAN
  BY DEF LengthDiffers
<1>5. /\ IsFiniteSet(groups) /\ IsFiniteSet(decoded)
      /\ groups = GroupsAmong(n) /\ decoded = KeysAmong(n)
      /\ GroupsAmong(n + 1) = groups \cup {r.group} /\ KeysAmong(n + 1) = decoded \cup {k}
  BY AmongGrow DEF CountsAreRight
<1> HIDE DEF bad, long
<1>6. Undecodable(decoded \cup {k}) = Undecodable(decoded) \cup If(bad, {k})
  BY DEF Undecodable, If, bad
<1>7. Longer(decoded \cup {k}) = Longer(decoded) \cup If(long, {k})
  BY DEF Longer, If, long
<1>8. /\ IsFiniteSet(Undecodable(decoded)) /\ IsFiniteSet(Longer(decoded))
      /\ bad => (k \in Undecodable(decoded) <=> k \in decoded)
      /\ long => (k \in Longer(decoded) <=> k \in decoded)
  <2>1. Undecodable(decoded) \subseteq decoded /\ Longer(decoded) \subseteq decoded
    BY DEF Undecodable, Longer
  <2>2. bad => (k \in Undecodable(decoded) <=> k \in decoded)
    BY DEF Undecodable, bad
  <2>3. long => (k \in Longer(decoded) <=> k \in decoded)
    BY DEF Longer, long
  <2> QED BY <1>5, <2>1, <2>2, <2>3, FS_Subset
<1> HIDE DEF r, k, v
<1>9. /\ Cardinality(groups \cup {r.group}) = Cardinality(groups) + One(r.group \notin groups)
      /\ Cardinality(decoded \cup {k}) = Cardinality(decoded) + One(k \notin decoded)
  <2>1. ASSUME NEW S, IsFiniteSet(S), NEW x
        PROVE  Cardinality(S \cup {x}) = Cardinality(S) + One(x \notin S)
    <3>1. Cardinality(S) \in Nat
      BY <2>1, FS_CardinalityType
    <3>2. Cardinality(S \cup {x}) = IF x \in S THEN Cardinality(S) ELSE Cardinality(S) + 1
      BY <2>1, FS_AddElement
    <3>3. One(x \notin S) = IF x \in S THEN 0 ELSE 1
      BY DEF One
    <3> QED BY <3>1, <3>2, <3>3
  <2> QED BY <1>5, <2>1
<1>10. Cardinality(Undecodable(decoded) \cup If(bad, {k})) =
         Cardinality(Undecodable(decoded)) + One(k \notin decoded /\ bad)
  <2>1. One(k \notin Undecodable(decoded) /\ bad) = One(k \notin decoded /\ bad)
    BY <1>8 DEF One
  <2> QED BY <1>4, <1>8, <2>1, OneMoreElement DEF If
<1>11. Cardinality(Longer(decoded) \cup If(long, {k})) =
         Cardinality(Longer(decoded)) + One(k \notin decoded /\ long)
  <2>1. One(k \notin Longer(decoded) /\ long) = One(k \notin decoded /\ long)
    BY <1>8 DEF One
  <2> QED BY <1>4, <1>8, <2>1, OneMoreElement DEF If
<1>12. \A result : Cardinality(HaveResult(n + 1, result)) =
                     Cardinality(HaveResult(n, result)) + One(v = result)
  <2> TAKE result
  <2>1. \A i : i \in 1..(n + 1) <=> i \in 1..n \/ i = n + 1
    OBVIOUS
  <2>2. HaveResult(n + 1, result) = HaveResult(n, result) \cup If(v = result, {n + 1})
    BY <2>1 DEF HaveResult, If, v
  <2>3. IsFiniteSet(HaveResult(n, result)) /\ n + 1 \notin HaveResult(n, result)
    <3>1. IsFiniteSet(1..n)
      BY FS_Interval
    <3> QED BY <3>1, FS_Subset DEF HaveResult
  <2>4. One(n + 1 \notin HaveResult(n, result) /\ v = result) = One(v = result)
    BY <2>3 DEF One
  <2>5. (v = result) \in BOOLEAN
    OBVIOUS
  <2> QED BY <2>2, <2>3, <2>4, <2>5, OneMoreElement DEF If
<1>13. /\ groups' = GroupsAmong(n + 1) /\ decoded' = KeysAmong(n + 1)
       /\ summary'.selectedGroups = Cardinality(groups')
       /\ summary'.uniqueDecodes = Cardinality(decoded')
       /\ summary'.decodeFailures = Cardinality(Undecodable(decoded'))
       /\ summary'.lengthMismatches = Cardinality(Longer(decoded'))
       /\ summary'.passed = Cardinality(HaveResult(n + 1, "passed"))
       /\ summary'.failed = Cardinality(HaveResult(n + 1, "failed"))
       /\ summary'.skipped = Cardinality(HaveResult(n + 1, "skipped"))
  <2>1. FirstOf(r, TRUE) = One(k \notin decoded)
    BY DEF FirstOf, One, k
  <2>2. groups' = GroupsAmong(n + 1) /\ decoded' = KeysAmong(n + 1)
    BY <1>2, <1>5
  <2>3. /\ summary.selectedGroups = Cardinality(groups)
        /\ summary.uniqueDecodes = Cardinality(decoded)
        /\ summary.decodeFailures = Cardinality(Undecodable(decoded))
        /\ summary.lengthMismatches = Cardinality(Longer(decoded))
        /\ summary.passed = Cardinality(HaveResult(n, "passed"))
        /\ summary.failed = Cardinality(HaveResult(n, "failed"))
        /\ summary.skipped = Cardinality(HaveResult(n, "skipped"))
    BY DEF CountsAreRight
  <2>4. /\ summary'.selectedGroups = Cardinality(groups')
        /\ summary'.uniqueDecodes = Cardinality(decoded')
    BY <1>2, <1>9, <2>1, <2>3
  <2>5. FirstOf(r, bad) = One(k \notin decoded /\ bad)
        /\ FirstOf(r, long) = One(k \notin decoded /\ long)
    BY <1>3, <1>4
  <2>6. summary'.decodeFailures = Cardinality(Undecodable(decoded'))
    BY <1>2, <1>6, <1>10, <2>3, <2>5
  <2>7. summary'.lengthMismatches = Cardinality(Longer(decoded'))
    BY <1>2, <1>7, <1>11, <2>3, <2>5
  <2>8. /\ summary'.passed = Cardinality(HaveResult(n + 1, "passed"))
        /\ summary'.failed = Cardinality(HaveResult(n + 1, "failed"))
        /\ summary'.skipped = Cardinality(HaveResult(n + 1, "skipped"))
    BY <1>2, <1>12, <2>3
  <2> QED BY <2>2, <2>4, <2>6, <2>7, <2>8
<1>14. /\ GroupsAmong(n + 1)' = GroupsAmong(n + 1) /\ KeysAmong(n + 1)' = KeysAmong(n + 1)
       /\ \A result : HaveResult(n + 1, result)' = HaveResult(n + 1, result)
  BY SameSelection
<1>15. Undecodable(decoded)' = Undecodable(decoded') /\ Longer(decoded)' = Longer(decoded')
  BY DEF Undecodable, Longer, Instruction
<1>16. CountsAreRight(n + 1)'
  BY <1>13, <1>14, <1>15 DEF CountsAreRight
<1> QED BY <1>2, <1>16

----------------------------------------------------------------------------
(* The steps.                                                              *)

LEMMA ResultsAreRight == ResultInv => SummaryIsRight
<1> SUFFICES ASSUME ResultInv, pc = "done", ~ scenario.mayFail
             PROVE  /\ ToSet(options.inputs) = AskedFiles
                    /\ summary.selectedRows = SelectedCount
                    /\ summary.selectedGroups = Cardinality(GroupsAmong(SelectedCount))
                    /\ summary.uniqueDecodes = Cardinality(SelectedKeys)
                    /\ summary.decodeFailures =
                         Cardinality({k \in SelectedKeys : ~ Decode(Instruction(k)).ok})
                    /\ summary.lengthMismatches =
                         Cardinality({k \in SelectedKeys : LengthDiffers(Instruction(k))})
                    /\ summary.passed = Results("passed")
                    /\ summary.failed = Results("failed")
                    /\ summary.skipped = Results("skipped")
  BY DEF SummaryIsRight, Failing
<1>1. ToSet(options.inputs) = AskedFiles
  BY DEF ResultInv, OptionsAreAsked
<1>2. summary.selectedRows = SelectedCount /\ CountsAreRight(SelectedCount)
  BY DEF ResultInv, SelectionIsRight
<1>3. SelectedKeys = KeysAmong(SelectedCount)
  BY DEF SelectedKeys, KeysAmong
<1>4. \A result : Results(result) = Cardinality(HaveResult(SelectedCount, result))
  BY DEF Results, HaveResult
<1>5. decoded = SelectedKeys /\ groups = GroupsAmong(SelectedCount)
  BY <1>2, <1>3 DEF CountsAreRight
<1> QED BY <1>1, <1>2, <1>4, <1>5 DEF CountsAreRight, Undecodable, Longer

\* The second pass starts with nothing selected.
LEMMA NothingSelected ==
  ASSUME TypeInv, pc = "rows", file = 0, todo = <<>>, summary = ZeroSummary,
         groups = {}, decoded = {}, answer = [k \in Keys |-> "none"]
  PROVE  RowsAreTaken /\ SelectionIsRight
<1>1. Joined(InputRows, 0) = <<>>
  BY JoinedSteps
<1>2. Taken = 0
  BY <1>1 DEF Taken
<1>3. RowsAreTaken
  BY <1>2 DEF RowsAreTaken
<1>4. summary.selectedRows = 0
  BY DEF ZeroSummary
<1>5. Len(Candidates) \in Nat
  BY RowsAreTyped
<1>6. GroupsAmong(0) = {} /\ KeysAmong(0) = {} /\ Cardinality({}) = 0
  BY AmongGrow, FS_EmptySet
<1>7. WithinLimits(0)
  <2>1. options.limitStates \in Nat /\ options.limitInstructions \in Nat
    BY DEF TypeInv, IsOptions
  <2>2. Cardinality(GroupsAmong(0)) = 0
    BY <1>6
  <2> QED BY <2>1, <2>2 DEF WithinLimits
<1>8. AnswersAreRight(0)
  BY DEF AnswersAreRight
<1>9. CountsAreRight(0)
  <2>1. Undecodable({}) = {} /\ Longer({}) = {} /\ \A result : HaveResult(0, result) = {}
    BY DEF Undecodable, Longer, HaveResult
  <2> QED BY <1>6, <2>1 DEF CountsAreRight, ZeroSummary
<1>10. GoesOn(0)
  <2>1. Met(0) = 0
    BY AscendingSteps DEF Met
  <2> QED BY <1>2, <2>1 DEF GoesOn
<1> QED BY <1>3, <1>4, <1>5, <1>7, <1>8, <1>9, <1>10 DEF SelectionIsRight

LEMMA OpenSelects ==
  ASSUME TypeInv, RowsAreTaken, SelectionIsRight, OpenForRows
  PROVE  SelectionIsRight'
<1>1. /\ pc = "rows" /\ ~ NoMoreInputs
      /\ UNCHANGED <<scenario, options, batch, answer, groups, decoded>>
      /\ pc' \in {"rows", "aborted"}
  BY DEF OpenForRows, world, preparing, backend, Throw
<1>2. CASE pc' # "rows"
  BY <1>1, <1>2 DEF SelectionIsRight
<1>3. CASE pc' = "rows"
  <2>1. \A x \in {"selectedRows", "selectedGroups", "uniqueDecodes", "decodeFailures",
                  "lengthMismatches", "passed", "failed", "skipped"} :
          summary'[x] = summary[x]
    <3>1. summary \in [DOMAIN ZeroSummary -> Nat]
      BY DEF TypeInv, TypeOK
    <3>2. summary' = [summary EXCEPT
                       !.files = @ + 1,
                       !.groups = @ + Len(Corpus(NextInput).groups),
                       !.rows = @ + Len(RowsOf(NextInput)),
                       !.warnings = @ + Warnings(NextInput)]
      BY <1>3 DEF OpenForRows, Throw
    <3> QED BY <3>1, <3>2 DEF ZeroSummary
  <2>2. Taken' = Taken
    BY <1>3, OpenTakes
  <2> SUFFICES ASSUME ~ scenario.mayFail
               PROVE  SelectionIsRight'
    BY <1>1 DEF SelectionIsRight
  <2> DEFINE n == summary.selectedRows
  <2>3. /\ n <= Len(Candidates) /\ WithinLimits(n)
        /\ AnswersAreRight(n) /\ CountsAreRight(n) /\ GoesOn(n)
    BY <1>1 DEF SelectionIsRight, HasStopped
  <2>4. PICK m : m = n
    OBVIOUS
  <2> HIDE DEF n
  <2>5. AnswersAreRight(m)' /\ CountsAreRight(m)'
    BY <1>1, <2>1, <2>3, <2>4, SameCounts
  <2>6. GoesOn(m)' /\ WithinLimits(m)' /\ Candidates' = Candidates
    BY <1>1, <2>2, <2>3, <2>4, SameRows, SameUse, SameSelection DEF GoesOn
  <2>7. summary'.selectedRows = m
    BY <2>1, <2>4 DEF n
  <2> QED BY <1>3, <2>3, <2>4, <2>5, <2>6, <2>7 DEF SelectionIsRight
<1> QED BY <1>2, <1>3

LEMMA RowSelects ==
  ASSUME TypeInv, OptionsAreAsked, RowsAreTaken, BatchLinks, SelectionIsRight, Row
  PROVE  SelectionIsRight'
<1> DEFINE r == Head(todo)
           n == summary.selectedRows
<1>1. /\ pc = "rows" /\ pc' = "rows" /\ todo # <<>>
      /\ UNCHANGED <<scenario, options, batch>>
      /\ Unwanted(r) \/ CutOff(r) \/ Selected(r)
  BY RowResult DEF Row
<1> SUFFICES ASSUME ~ scenario.mayFail PROVE SelectionIsRight'
  BY <1>1 DEF SelectionIsRight
<1>2. /\ n <= Len(Candidates) /\ WithinLimits(n)
      /\ AnswersAreRight(n) /\ CountsAreRight(n) /\ GoesOn(n)
  BY <1>1 DEF SelectionIsRight, HasStopped
<1>3. /\ Met(Taken) \in Nat /\ n = Met(Taken)
      /\ options.stopOnFirstFail => \A i \in 1..n : Result(i) # "failed"
  BY <1>1, <1>2, NextCandidate DEF GoesOn
<1>4. PICK m \in Nat : m = n
  BY <1>3
<1>5. /\ \A i : Met(i)' = Met(i) /\ Result(i)' = Result(i) /\ WithinLimits(i)' = WithinLimits(i)
      /\ Candidates' = Candidates
  BY <1>1, SameRows, SameUse, SameSelection
<1>6. Len(Candidates) \in Nat
  BY RowsAreTyped
<1>7. Wanted(r) => /\ m + 1 \in 1..Len(Candidates) /\ Candidates[m + 1] = r
                   /\ Met(Taken + 1) = m + 1
  BY <1>1, <1>3, <1>4, NextCandidate
<1>8. ASSUME UNCHANGED <<answer, groups, decoded, summary>>
      PROVE  AnswersAreRight(m)' /\ CountsAreRight(m)' /\ summary'.selectedRows = m
  <2>1. \A x \in {"selectedRows", "selectedGroups", "uniqueDecodes", "decodeFailures",
                  "lengthMismatches", "passed", "failed", "skipped"} :
          summary'[x] = summary[x]
    BY <1>8
  <2> HIDE DEF n
  <2>2. AnswersAreRight(m)' /\ CountsAreRight(m)'
    BY <1>1, <1>2, <1>4, <1>8, <2>1, SameCounts
  <2>3. summary'.selectedRows = m
    BY <1>4, <1>8 DEF n
  <2> QED BY <2>2, <2>3
<1> HIDE DEF n, r
<1>9. CASE Unwanted(r)
  <2>1. ~ Wanted(r) /\ todo' = Tail(todo) /\ UNCHANGED file
        /\ UNCHANGED <<answer, groups, decoded, summary>>
    BY <1>9 DEF Unwanted, backend, counting
  <2>2. Taken' = Taken + 1
    BY <2>1, RowTakes
  <2>3. Met(Taken + 1) = m
    BY <1>1, <1>3, <1>4, <2>1, NextCandidate DEF r
  <2>4. GoesOn(m)'
    BY <1>1, <1>3, <1>4, <1>5, <2>2, <2>3 DEF GoesOn
  <2> QED BY <1>1, <1>2, <1>4, <1>5, <1>8, <2>1, <2>4 DEF SelectionIsRight
<1>10. CASE CutOff(r)
  <2>1. /\ Wanted(r) /\ LimitReached(r) /\ todo' = <<>> /\ file' = Len(options.inputs)
        /\ UNCHANGED <<answer, groups, decoded, summary>>
    BY <1>10 DEF CutOff, Stop, backend, counting
  <2>2. ~ WithinLimits(m + 1)
    <3>1. summary.selectedRows = m /\ groups = GroupsAmong(m) /\ WithinLimits(m)
      BY <1>2, <1>4 DEF CountsAreRight, n
    <3> QED BY <1>7, <2>1, <3>1, LimitIsReached
  <2>3. m # Len(Candidates)
    BY <1>6, <1>7, <2>1
  <2>4. \A i \in 1..(m - 1) : i \in 1..m
    OBVIOUS
  <2>5. HasStopped(m)'
    BY <1>1, <1>3, <1>4, <1>5, <2>1, <2>2, <2>3, <2>4 DEF HasStopped, NoMoreInputs
  <2> QED BY <1>1, <1>2, <1>4, <1>5, <1>8, <2>1, <2>5 DEF SelectionIsRight
<1>11. CASE Selected(r)
  <2> DEFINE v == Verdict(r, answer'[r.key])
  <2>1. /\ Wanted(r) /\ ~ LimitReached(r) /\ Compile(r) /\ Account(r, v)
        /\ IF v = "failed" /\ options.stopOnFirstFail
             THEN todo' = <<>> /\ file' = Len(options.inputs)
             ELSE todo' = Tail(todo) /\ UNCHANGED file
    BY <1>11 DEF Selected, Stop
  <2>2. m + 1 \in 1..Len(Candidates) /\ Candidates[m + 1] = r /\ m < Len(Candidates)
    BY <1>6, <1>7, <2>1
  <2>3. WithinLimits(m + 1)
    <3>1. summary.selectedRows = m /\ groups = GroupsAmong(m) /\ WithinLimits(m)
      BY <1>2, <1>4 DEF CountsAreRight, n
    <3> QED BY <2>1, <2>2, <3>1, LimitIsReached
  <2>4. /\ AnswersAreRight(m + 1)'
        /\ Compiles(m + 1) => answer'[r.key] = AnswerTo(m + 1)
    BY <1>1, <1>2, <1>4, <2>1, <2>2, AnswersGrow
  <2>5. v = Result(m + 1)
    <3>1. IsRow(r.row)
      BY <1>1, RowIsTyped DEF RowType, r
    <3>2. PICK a : a = answer'[r.key]
      OBVIOUS
    <3>3. PICK i \in Nat \ {0} : i = m + 1
      OBVIOUS
    <3>4. Candidates[i] = r /\ (Compiles(i) => a = AnswerTo(i))
      BY <2>2, <2>4, <3>2, <3>3
    <3>5. Verdict(Candidates[i], a) = Result(i)
      BY <3>1, <3>4, VerdictIsResult
    <3> QED BY <3>2, <3>3, <3>4, <3>5
  <2> HIDE DEF v
  <2>6. CountsAreRight(m + 1)' /\ summary'.selectedRows = m + 1
    <3>1. summary'.selectedRows = summary.selectedRows + 1 /\ CountsAreRight(m + 1)'
      BY <1>1, <1>2, <1>4, <2>1, <2>2, <2>5, CountsGrow
    <3> QED BY <1>4, <3>1 DEF n
  <2>7. \A i \in 1..(m + 1) : i \in 1..m \/ i = m + 1
    OBVIOUS
  <2>8. CASE v = "failed" /\ options.stopOnFirstFail
    <3>1. m + 1 - 1 = m /\ m + 1 > 0
      OBVIOUS
    <3>2. HasStopped(m + 1)'
      BY <1>1, <1>3, <1>4, <1>5, <2>1, <2>5, <2>8, <3>1 DEF HasStopped, NoMoreInputs
    <3> QED BY <1>1, <1>5, <2>2, <2>3, <2>4, <2>6, <3>2 DEF SelectionIsRight
  <2>9. CASE ~ (v = "failed" /\ options.stopOnFirstFail)
    <3>1. Taken' = Taken + 1
      BY <2>1, <2>9, RowTakes
    <3>2. Met(Taken + 1) = m + 1
      BY <1>7, <2>1
    <3>3. GoesOn(m + 1)'
      BY <1>1, <1>3, <1>4, <1>5, <2>5, <2>7, <2>9, <3>1, <3>2 DEF GoesOn
    <3> QED BY <1>1, <1>5, <2>2, <2>3, <2>4, <2>6, <3>3 DEF SelectionIsRight
  <2> QED BY <2>8, <2>9
<1> QED BY <1>1, <1>9, <1>10, <1>11

\* There is one number of candidates that may be selected.
LEMMA OneSelection ==
  ASSUME TypeInv, NEW n \in 0..Len(Candidates), WithinLimits(n),
         \/ n = Len(Candidates)
         \/ ~ WithinLimits(n + 1)
         \/ n > 0 /\ options.stopOnFirstFail /\ Result(n) = "failed",
         options.stopOnFirstFail => \A i \in 1..(n - 1) : Result(i) # "failed"
  PROVE  n = SelectedCount
<1> DEFINE Is(m) ==
             /\ WithinLimits(m)
             /\ \/ m = Len(Candidates)
                \/ ~ WithinLimits(m + 1)
                \/ m > 0 /\ options.stopOnFirstFail /\ Result(m) = "failed"
             /\ options.stopOnFirstFail => \A i \in 1..(m - 1) : Result(i) # "failed"
<1>1. Len(Candidates) \in Nat
  BY RowsAreTyped
<1>2. Is(n)
  OBVIOUS
<1>3. ASSUME NEW k \in 0..Len(Candidates), NEW m \in 0..Len(Candidates), Is(k), Is(m), k < m
      PROVE  FALSE
  <2>1. k # Len(Candidates) /\ k \in Nat /\ m \in Nat /\ k + 1 <= m
    BY <1>1, <1>3
  <2>2. WithinLimits(k + 1)
    BY <1>3, <2>1, FewerAreWithin
  <2>3. k > 0 /\ options.stopOnFirstFail /\ Result(k) = "failed"
    BY <1>3, <2>1, <2>2
  <2>4. k \in 1..(m - 1)
    BY <2>1, <2>3
  <2> QED BY <1>3, <2>3, <2>4
<1>4. SelectedCount = CHOOSE m \in 0..Len(Candidates) : Is(m)
  BY DEF SelectedCount
<1> HIDE DEF Is
<1>5. SelectedCount \in 0..Len(Candidates) /\ Is(SelectedCount)
  BY <1>2, <1>4
<1>6. ~ (SelectedCount < n) /\ ~ (n < SelectedCount)
  BY <1>2, <1>3, <1>5
<1> QED BY <1>1, <1>5, <1>6

LEMMA FinishSelects ==
  ASSUME TypeInv, RowsAreTaken, SelectionIsRight, Finish
  PROVE  SelectionIsRight'
<1> DEFINE n == summary.selectedRows
<1>1. /\ pc = "rows" /\ pc' = "done" /\ todo = <<>> /\ NoMoreInputs
      /\ UNCHANGED <<scenario, options, batch, answer, groups, decoded, summary>>
  BY DEF Finish, world, preparing, backend, counting
<1> SUFFICES ASSUME ~ scenario.mayFail PROVE SelectionIsRight'
  BY <1>1 DEF SelectionIsRight
<1>2. /\ n <= Len(Candidates) /\ WithinLimits(n)
      /\ AnswersAreRight(n) /\ CountsAreRight(n) /\ (GoesOn(n) \/ HasStopped(n))
  BY <1>1 DEF SelectionIsRight
<1>3. n \in Nat /\ Len(Candidates) \in Nat
  <2>1. summary \in [DOMAIN ZeroSummary -> Nat]
    BY DEF TypeInv, TypeOK
  <2> QED BY <2>1, RowsAreTyped DEF ZeroSummary
<1>4. GoesOn(n) => n = Len(Candidates)
  <2>1. Len(todo) = 0
    BY <1>1
  <2>2. AllRows = Joined(InputRows, file) /\ Len(Candidates) = Met(Len(AllRows))
    BY <1>1, RowsAreTyped DEF NoMoreInputs
  <2>3. Len(AllRows) \in Nat
    BY RowsAreTyped
  <2>4. Taken = Len(AllRows)
    BY <2>1, <2>2, <2>3 DEF Taken
  <2> QED BY <2>2, <2>4 DEF GoesOn
<1> HIDE DEF n
<1>5. /\ \/ n = Len(Candidates)
         \/ ~ WithinLimits(n + 1)
         \/ n > 0 /\ options.stopOnFirstFail /\ Result(n) = "failed"
      /\ options.stopOnFirstFail => \A i \in 1..(n - 1) : Result(i) # "failed"
  <2>1. CASE GoesOn(n)
    <3>1. \A i \in 1..(n - 1) : i \in 1..n
      BY <1>3
    <3> QED BY <1>4, <2>1, <3>1 DEF GoesOn
  <2>2. CASE HasStopped(n)
    BY <2>2 DEF HasStopped
  <2> QED BY <1>2, <2>1, <2>2
<1>6. n = SelectedCount
  <2>1. n \in 0..Len(Candidates)
    BY <1>2, <1>3
  <2> QED BY <1>2, <1>5, <2>1, OneSelection
<1>7. PICK m : m = n
  OBVIOUS
<1>8. AnswersAreRight(m)' /\ CountsAreRight(m)'
  <2>1. \A x \in {"selectedRows", "selectedGroups", "uniqueDecodes", "decodeFailures",
                  "lengthMismatches", "passed", "failed", "skipped"} :
          summary'[x] = summary[x]
    BY <1>1
  <2> QED BY <1>1, <1>2, <1>7, <2>1, SameCounts
<1>9. WithinLimits(m)' /\ Candidates' = Candidates /\ SelectedCount' = m
  BY <1>1, <1>2, <1>6, <1>7, SameRows, SameSelection
<1>10. summary'.selectedRows = m
  BY <1>1, <1>7 DEF n
<1> QED BY <1>1, <1>2, <1>7, <1>8, <1>9, <1>10 DEF SelectionIsRight

----------------------------------------------------------------------------

LEMMA InitResults == Init => ResultInv
<1> SUFFICES ASSUME Init PROVE ResultInv
  OBVIOUS
<1>1. /\ pc = "arguments" /\ todo = scenario.args /\ waiting = ""
      /\ options = DefaultOptions /\ scenario \in Scenarios
  BY DEF Init
<1>2. TypeInv
  BY InitType
<1>3. ArgumentsAreTaken
  <2>0. scenario.args \in Seq(STRING)
    BY <1>1, WorldType
  <2>1. Len(scenario.args) \in Nat /\ Values(scenario.args) \subseteq 1..Len(scenario.args)
    <3>1. Len(scenario.args) \in Nat
      BY <2>0
    <3> QED BY <3>1, ValuesSteps
  <2>2. \A option : GivenAmong(option, 0) = {}
    <3>1. \A i \in Values(scenario.args) : ~ (i <= 0)
      BY <2>1
    <3> QED BY <3>1 DEF GivenAmong
  <2>3. \A option : NamesAmong(option, 0) = {}
    BY <2>2 DEF NamesAmong
  <2>4. PathsAmong(0) = {}
    BY <2>2 DEF PathsAmong
  <2>5. WaitingAt(0) = ""
    BY DEF WaitingAt
  <2>6. Asks(options, 0)
    <3>1. ToSet(<<>>) = {}
      BY DEF ToSet
    <3>2. /\ options.inputs = <<>> /\ options.inputDirs = <<>>
          /\ options.mnemonics = {} /\ options.opcodes = {}
      BY <1>1 DEF DefaultOptions
    <3>3. ToSet(options.inputs) = {} /\ ToSet(options.inputDirs) = {}
      BY <3>1, <3>2
    <3>4. /\ PathsAmong(0) = {} /\ GivenAmong("--input-dir", 0) = {}
          /\ NamesAmong("--mnemonic", 0) = {} /\ NamesAmong("--opcode", 0) = {}
      BY <2>2, <2>3, <2>4
    <3> QED BY <3>2, <3>3, <3>4 DEF Asks
  <2>7. Len(scenario.args) - Len(todo) = 0
    <3>1. Len(todo) = Len(scenario.args)
      BY <1>1
    <3>2. PICK l \in Nat : l = Len(scenario.args)
      BY <2>1
    <3> QED BY <3>1, <3>2
  <2>8. \A i \in DOMAIN todo : todo[i] = scenario.args[0 + i]
    <3>1. \A i \in DOMAIN todo : 0 + i = i
      <4>1. todo \in Seq(STRING)
        BY <1>1, <2>0
      <4> QED BY <4>1
    <3> QED BY <1>1, <3>1
  <2>9. PICK m \in Nat : m = 0
    OBVIOUS
  <2>10. /\ Len(scenario.args) - Len(todo) = m
         /\ \A i \in DOMAIN todo : todo[i] = scenario.args[m + i]
         /\ waiting = WaitingAt(m) /\ Asks(options, m)
    BY <1>1, <2>5, <2>6, <2>7, <2>8, <2>9
  <2> QED BY <2>10 DEF ArgumentsAreTaken
<1> QED BY <1>1, <1>2, <1>3
        DEF ResultInv, OptionsAreAsked, RowsAreTaken, BatchLinks, SelectionIsRight

\* The options are not changed any more once they are known.
LEMMA SameOptions ==
  ASSUME OptionsAreAsked, UNCHANGED <<scenario, options>>,
         pc' \in {"prepare", "compile", "rows", "done"} =>
           pc \in {"prepare", "compile", "rows", "done"}
  PROVE  OptionsAreAsked'
  BY SameQuestion DEF OptionsAreAsked

LEMMA SameBatch ==
  ASSUME BatchLinks, UNCHANGED <<scenario, options, batch, prepared>>,
         pc' \in {"prepare", "compile"} => pc \in {"prepare", "compile"},
         pc' = "rows" => pc = "rows"
  PROVE  BatchLinks'
  BY DEF BatchLinks, FateOf

LEMMA PrepareSteps ==
  ASSUME TypeInv, OptionsAreAsked, BatchLinks,
         OpenForHeaders \/ HeadersEnd \/ PrepareHeader
  PROVE  /\ ArgumentsAreTaken' /\ OptionsAreAsked' /\ BatchLinks'
         /\ RowsAreTaken' /\ SelectionIsRight'
<1>1. /\ pc = "prepare" /\ pc' \in {"prepare", "compile", "aborted"}
      /\ UNCHANGED <<scenario, options>>
  BY DEF OpenForHeaders, HeadersEnd, PrepareHeader, world, Throw
<1>2. OptionsAreAsked'
  BY <1>1, SameOptions
<1>3. BatchLinks'
  BY <1>1 DEF BatchLinks
<1> QED BY <1>1, <1>2, <1>3 DEF ArgumentsAreTaken, RowsAreTaken, SelectionIsRight

LEMMA CompileStep ==
  ASSUME TypeInv, TypeInv', OptionsAreAsked, BatchLinks, PrepareCases
  PROVE  /\ ArgumentsAreTaken' /\ OptionsAreAsked' /\ BatchLinks'
         /\ RowsAreTaken' /\ SelectionIsRight'
<1>1. /\ pc = "compile" /\ todo' = <<>>
      /\ UNCHANGED <<scenario, options, batch, answer, groups, decoded, summary>>
      /\ summary = ZeroSummary /\ groups = {} /\ decoded = {}
      /\ answer = [k \in Keys |-> "none"]
  BY DEF PrepareCases, world, preparing, counting, TypeInv, TodoIsTyped, PhasesKeepOrder
<1>2. \/ pc' = "aborted"
      \/ pc' = "rows" /\ file' = 0 /\ prepared' # "failed"
  BY DEF PrepareCases, Throw
<1>3. OptionsAreAsked'
  BY <1>1, <1>2, SameOptions
<1>4. CASE pc' = "aborted"
  BY <1>3, <1>4 DEF ArgumentsAreTaken, RowsAreTaken, SelectionIsRight, BatchLinks
<1>5. CASE pc' = "rows" /\ file' = 0 /\ prepared' # "failed"
  <2>1. Backend!Prepare(ToSet(batch))
    BY DEF PrepareCases
  <2>2. prepared' = "done" /\ \A k \in ToSet(batch) : FateOf(k) # "unresolved"
    BY <1>5, <2>1 DEF Backend!Prepare, Backend!Links, FateOf
  <2>3. BatchLinks'
    BY <1>1, <1>5, <2>2 DEF BatchLinks, FateOf
  <2>4. (/\ pc = "rows" /\ file = 0 /\ todo = <<>> /\ summary = ZeroSummary
         /\ groups = {} /\ decoded = {} /\ answer = [k \in Keys |-> "none"])'
    BY <1>1, <1>5
  <2>5. RowsAreTaken' /\ SelectionIsRight'
    BY <2>4, NothingSelected, PTL
  <2> QED BY <1>3, <1>5, <2>3, <2>5 DEF ArgumentsAreTaken
<1> QED BY <1>2, <1>4, <1>5

LEMMA LaunchStep ==
  ASSUME TypeInv, TypeInv', ArgumentsAreTaken, Launch
  PROVE  /\ ArgumentsAreTaken' /\ OptionsAreAsked' /\ BatchLinks'
         /\ RowsAreTaken' /\ SelectionIsRight'
<1>1. /\ pc = "arguments" /\ todo = <<>> /\ file = 0 /\ prepared = "no"
      /\ UNCHANGED <<scenario, file, todo, batch, prepared, answer, groups, decoded, summary>>
      /\ summary = ZeroSummary /\ groups = {} /\ decoded = {}
      /\ answer = [k \in Keys |-> "none"]
  BY DEF Launch, preparing, backend, counting, TypeInv, PhasesKeepOrder
<1>2. \/ pc' \in {"aborted", "usage"}
      \/ pc' = IF options.execute THEN "prepare" ELSE "rows"
  BY DEF Launch, Throw, Usage
<1>3. OptionsAreAsked'
  BY LaunchAsks
<1>4. CASE pc' \in {"aborted", "usage"}
  BY <1>3, <1>4 DEF ArgumentsAreTaken, RowsAreTaken, SelectionIsRight, BatchLinks
<1>5. CASE pc' \notin {"aborted", "usage"}
  <2>1. options'.execute = options.execute
    <3>1. options' = WithDirectories(options)
      BY <1>5 DEF Launch, Throw
    <3>2. "execute" \in DOMAIN options
      BY DEF TypeInv, IsOptions, DefaultOptions
    <3> QED BY <3>1, <3>2 DEF WithDirectories
  <2>2. BatchLinks'
    BY <1>1, <1>2, <1>5, <2>1 DEF BatchLinks, TypeInv, IsOptions
  <2>3. CASE pc' = "prepare"
    BY <1>3, <2>2, <2>3 DEF ArgumentsAreTaken, RowsAreTaken, SelectionIsRight
  <2>4. CASE pc' = "rows"
    <3>1. (/\ pc = "rows" /\ file = 0 /\ todo = <<>> /\ summary = ZeroSummary
           /\ groups = {} /\ decoded = {} /\ answer = [k \in Keys |-> "none"])'
      BY <1>1, <2>4
    <3>2. RowsAreTaken' /\ SelectionIsRight'
      BY <3>1, NothingSelected, PTL
    <3> QED BY <1>3, <2>2, <2>4, <3>2 DEF ArgumentsAreTaken
  <2> QED BY <1>2, <1>5, <2>3, <2>4
<1> QED BY <1>4, <1>5

LEMMA StutterResults ==
  ASSUME ResultInv, UNCHANGED vars
  PROVE  ResultInv'
<1>1. UNCHANGED <<scenario, options, waiting, pc, file, todo, batch, prepared, answer,
                  groups, decoded, summary>>
  BY DEF vars, world, preparing, backend, counting
<1>2. TypeInv'
  BY NextType DEF ResultInv
<1>3. ArgumentsAreTaken'
  <2>1. \A m : Asks(options, m)' = Asks(options, m)
    BY <1>1, SameQuestion DEF Asks
  <2> QED BY <1>1, <2>1, SameQuestion DEF ResultInv, ArgumentsAreTaken
<1>4. OptionsAreAsked' /\ BatchLinks'
  BY <1>1, SameOptions, SameBatch DEF ResultInv
<1>5. Taken' = Taken /\ InputRows' = InputRows
  BY <1>1, SameRows DEF Taken
<1>6. RowsAreTaken'
  BY <1>1, <1>5 DEF ResultInv, RowsAreTaken
<1>7. \A n : /\ AnswersAreRight(n) => AnswersAreRight(n)'
             /\ CountsAreRight(n) => CountsAreRight(n)'
  <2>1. \A x \in {"selectedRows", "selectedGroups", "uniqueDecodes", "decodeFailures",
                  "lengthMismatches", "passed", "failed", "skipped"} :
          summary'[x] = summary[x]
    BY <1>1
  <2> QED BY <1>1, <2>1, SameCounts
<1>8. \A n : GoesOn(n)' = GoesOn(n) /\ HasStopped(n)' = HasStopped(n)
  BY <1>1, <1>5, SameRows, SameUse, SameSelection DEF GoesOn, HasStopped, NoMoreInputs
<1>9. SelectionIsRight'
  BY <1>1, <1>7, <1>8, SameRows, SameSelection DEF ResultInv, SelectionIsRight
<1> QED BY <1>2, <1>3, <1>4, <1>6, <1>9 DEF ResultInv

LEMMA NextResults == ResultInv /\ [Next]_vars => ResultInv'
<1> SUFFICES ASSUME ResultInv, [Next]_vars PROVE ResultInv'
  OBVIOUS
<1>1. /\ TypeInv /\ ArgumentsAreTaken /\ OptionsAreAsked /\ RowsAreTaken /\ BatchLinks
      /\ SelectionIsRight
  BY DEF ResultInv
<1>2. TypeInv'
  BY <1>1, NextType
<1>3. CASE ParseArgument
  <2>1. ArgumentsAreTaken'
    BY <1>1, <1>3, ParseArgumentAsks
  <2>2. pc' \in {"arguments", "aborted"}
    BY <1>3 DEF ParseArgument, Throw
  <2> QED BY <1>2, <2>1, <2>2
          DEF ResultInv, OptionsAreAsked, RowsAreTaken, BatchLinks, SelectionIsRight
<1>4. CASE Launch
  BY <1>1, <1>2, <1>4, LaunchStep DEF ResultInv
<1>5. CASE OpenForHeaders \/ HeadersEnd \/ PrepareHeader
  BY <1>1, <1>2, <1>5, PrepareSteps DEF ResultInv
<1>6. CASE PrepareCases
  BY <1>1, <1>2, <1>6, CompileStep DEF ResultInv
<1>7. CASE OpenForRows
  <2>1. /\ pc = "rows" /\ pc' \in {"rows", "aborted"}
        /\ UNCHANGED <<scenario, options, batch, prepared>>
    BY <1>7 DEF OpenForRows, world, preparing, backend, Throw
  <2>2. OptionsAreAsked' /\ BatchLinks'
    BY <1>1, <2>1, SameOptions, SameBatch
  <2>3. RowsAreTaken' /\ SelectionIsRight'
    BY <1>1, <1>7, OpenTakes, OpenSelects
  <2> QED BY <1>2, <2>1, <2>2, <2>3 DEF ResultInv, ArgumentsAreTaken
<1>8. CASE Row
  <2>1. pc = "rows" /\ pc' = "rows" /\ UNCHANGED <<scenario, options, batch, prepared>>
    <3>1. \/ UNCHANGED prepared
          \/ Selected(Head(todo))
      BY <1>1, <1>8, RowResult
    <3>2. UNCHANGED prepared
      BY <3>1 DEF Selected, Compile, Backend!Demand
    <3> QED BY <1>1, <1>8, <3>2, RowResult
  <2>2. OptionsAreAsked' /\ BatchLinks'
    BY <1>1, <2>1, SameOptions, SameBatch
  <2>3. RowsAreTaken' /\ SelectionIsRight'
    BY <1>1, <1>8, RowTakes, RowSelects
  <2> QED BY <1>2, <2>1, <2>2, <2>3 DEF ResultInv, ArgumentsAreTaken
<1>9. CASE Finish
  <2>1. pc = "rows" /\ pc' = "done" /\ UNCHANGED <<scenario, options, batch, prepared>>
    BY <1>9 DEF Finish, world, preparing, backend
  <2>2. OptionsAreAsked' /\ BatchLinks'
    BY <1>1, <2>1, SameOptions, SameBatch
  <2>3. SelectionIsRight'
    BY <1>1, <1>9, FinishSelects
  <2> QED BY <1>2, <2>1, <2>2, <2>3 DEF ResultInv, ArgumentsAreTaken, RowsAreTaken
<1>10. CASE UNCHANGED vars
  BY <1>10, StutterResults
<1> QED BY <1>3, <1>4, <1>5, <1>6, <1>7, <1>8, <1>9, <1>10 DEF Next

LEMMA ResultsInvariant == Spec => []ResultInv
  BY InitResults, NextResults, PTL DEF Spec

\* The summary that a run prints at its end is the one its arguments, its files
\* and its batch determine: as many rows as the filters and the limits of Run
\* select, each counted once, for what comes of it; each key decoded once.
THEOREM SummaryCorrect == Spec => []SummaryIsRight
  BY ResultsInvariant, ResultsAreRight, PTL

\* main returns non-zero after an exception, and when a selected row mismatches:
\* a row that failed is in the summary, and a failure there is in the exit code.
THEOREM ExitCodesCorrect == Spec => []MismatchesReachTheExitCode
<1>1. ResultInv => MismatchesReachTheExitCode
  <2> SUFFICES ASSUME ResultInv PROVE MismatchesReachTheExitCode
    OBVIOUS
  <2>1. SummaryIsRight
    BY ResultsAreRight
  <2>2. pc = "aborted" => exit = 1
    BY DEF ResultInv, TypeInv, PhasesKeepOrder
  <2>3. pc = "done" => (summary.failed > 0 => exit # 0)
    <3>1. pc = "done" => exit = ExitCode
      BY DEF ResultInv, TypeInv, PhasesKeepOrder
    <3> QED BY <3>1 DEF ExitCode, One
  <2>4. pc = "done" /\ ~ scenario.mayFail => summary.failed = Results("failed")
    BY <2>1 DEF SummaryIsRight
  <2> QED BY <2>2, <2>3, <2>4 DEF MismatchesReachTheExitCode
<1> QED BY <1>1, ResultsInvariant, PTL

----------------------------------------------------------------------------
(* The two passes.                                                         *)

HeaderOpen == options.inputs[file]

\* How many headers of the open file have been looked at.
Looked == Len(Corpus(HeaderOpen).groups) - Len(todo)

\* How many rows come with the headers that have been looked at.
RowsPassed ==
  IF file = 0 THEN 0
  ELSE Len(Joined(InputRows, file - 1))
         + Len(Joined(GroupedRows(HeaderOpen), Looked))

HeadersAreTaken ==
  pc = "prepare" =>
    IF file = 0 THEN todo = <<>>
    ELSE /\ Looked \in Nat
         /\ \A i \in DOMAIN todo : todo[i] = Corpus(HeaderOpen).groups[Looked + i]

\* The groups of the first n candidates are of files that have been opened, and
\* of headers that have been looked at.
GroupsArePassed(n) ==
  \A i \in 1..n : \E f \in 1..file :
    /\ Candidates[i].group[1] = options.inputs[f]
    /\ f = file => Candidates[i].group[2] \in 1..Looked

\* What the limits leave of n candidate rows.
Room(n) == IF options.limitStates = 0 \/ n <= options.limitStates
             THEN n ELSE options.limitStates

\* The batch has no key but of candidates within the limits, and all those of
\* the first n within the limits that are not kept out of it.
BatchHasOnly(n) ==
  \A k \in ToSet(batch) :
    \E i \in 1..n : WithinLimits(i) /\ Candidates[i].key = k

BatchHas(n) ==
  \A i \in 1..n :
    WithinLimits(i) => Candidates[i].key \in ToSet(batch) \/ NotForBatch(Candidates[i])

ForeseenSoFar ==
  LET n == Met(RowsPassed)
  IN  /\ GroupsArePassed(n)
      /\ reached.rows = Room(n)
      /\ reached.groups = Cardinality(GroupsAmong(n))
      /\ BatchHasOnly(n) /\ BatchHas(n)

PassesAgree ==
  /\ pc = "arguments" => reached.rows = 0 /\ reached.groups = 0
  /\ pc = "prepare" /\ Foreseeable => ForeseenSoFar
  /\ pc \in {"compile", "rows", "done"} =>
       IF options.execute
         THEN Foreseeable => BatchHasOnly(Len(Candidates)) /\ BatchHas(Len(Candidates))
         ELSE batch = <<>>

\* The selection as far as it does not depend on the backend.
SelectionIsCounted ==
  pc = "rows" =>
    LET n == summary.selectedRows
    IN  /\ groups = GroupsAmong(n) /\ WithinLimits(n)
        /\ n = Met(Taken) \/ (todo = <<>> /\ NoMoreInputs)

PassesInv == ResultInv /\ HeadersAreTaken /\ PassesAgree /\ SelectionIsCounted

----------------------------------------------------------------------------
(* Where the rows of a header are.                                         *)

\* The rows before the (j + 1)-th group of input f.
PassedAt(f, j) ==
  Len(Joined(InputRows, f - 1)) + Len(Joined(GroupedRows(options.inputs[f]), j))

LEMMA PassedNext ==
  ASSUME TypeInv, NEW f \in 1..Len(options.inputs), NEW j \in Nat,
         j < Len(Corpus(options.inputs[f]).groups)
  PROVE  LET p == options.inputs[f]
             d == Len(Corpus(p).groups[j + 1].rows)
         IN  /\ d \in Nat /\ DOMAIN Corpus(p).groups[j + 1].rows = 1..d
             /\ PassedAt(f, j) \in Nat
             /\ PassedAt(f, j + 1) = PassedAt(f, j) + d
             /\ PassedAt(f, j + 1) <= Len(AllRows)
             /\ \A a \in 1..d : AllRows[PassedAt(f, j) + a] = RowAt(p, j + 1, a)
<1> DEFINE p == options.inputs[f]
           gs == Corpus(p).groups
           n == Len(gs)
           N == Len(options.inputs)
           d == Len(gs[j + 1].rows)
           before == Joined(InputRows, f - 1)
           rows == RowsOf(p)
           part == Joined(GroupedRows(p), j)
           more == RowsOfGroup(p, j + 1)
<1>1. scenario \in Scenarios /\ j + 1 \in 1..n /\ n \in Nat /\ N \in Nat
  <2>1. scenario \in Scenarios /\ n \in Nat
    BY RowsOfJoined DEF TypeInv
  <2> QED BY <2>1, RowsAreTyped
<1>2. d \in Nat /\ DOMAIN gs[j + 1].rows = 1..d
  <2>1. gs \in Seq(ToSet(gs))
    BY <1>1, WorldType DEF IsFile
  <2>2. j + 1 \in DOMAIN gs
    BY <1>1, <2>1
  <2>3. gs[j + 1].rows \in Seq(ToSet(gs[j + 1].rows))
    BY <1>1, <2>2, GroupType DEF IsGroup
  <2> HIDE DEF gs
  <2> QED BY <2>3
<1>3. /\ rows = Joined(GroupedRows(p), n)
      /\ \A i \in 1..n : /\ GroupedRows(p)[i] = RowsOfGroup(p, i)
                         /\ GroupedRows(p)[i] \in Seq(RowsIn(p))
  BY <1>1, RowsOfJoined
<1>4. /\ part \in Seq(RowsIn(p)) /\ more \in Seq(RowsIn(p))
      /\ Joined(GroupedRows(p), j + 1) = part \o more
  <2>1. j < n
    BY <1>1
  <2>2. GroupedRows(p)[j + 1] = more
    BY <1>1, <1>3
  <2> HIDE DEF p, n
  <2> QED BY <1>1, <1>3, <2>1, <2>2, JoinedNext
<1>5. Len(more) = d /\ \A a \in 1..d : more[a] = RowAt(p, j + 1, a)
  <2>1. more = [i \in 1..d |-> RowAt(p, j + 1, i)]
    BY <1>2 DEF RowsOfGroup
  <2> HIDE DEF more, d
  <2> QED BY <1>2, <2>1
<1>6. /\ Len(part \o more) \in Nat /\ Len(rows) \in Nat /\ Len(part \o more) <= Len(rows)
      /\ \A a \in 1..Len(part \o more) : rows[a] = (part \o more)[a]
  <2>1. j + 1 \in Nat /\ j + 1 <= n
    BY <1>1
  <2> DEFINE g == GroupedRows(p)
             A == RowsIn(p)
  <2>2. \A i \in 1..n : g[i] \in Seq(A)
    BY <1>3
  <2>3. rows = Joined(g, n) /\ part \o more = Joined(g, j + 1)
    BY <1>3, <1>4
  <2> HIDE DEF p, n, part, more, rows, g, A
  <2>4. /\ Len(Joined(g, j + 1)) \in Nat /\ Len(Joined(g, n)) \in Nat
        /\ Len(Joined(g, j + 1)) <= Len(Joined(g, n))
        /\ \A a \in 1..Len(Joined(g, j + 1)) : Joined(g, n)[a] = Joined(g, j + 1)[a]
    BY <1>1, <2>1, <2>2, JoinedPrefix
  <2> QED BY <2>3, <2>4
<1>7. /\ before \in Seq(RowsAround) /\ rows \in Seq(RowsAround)
      /\ Joined(InputRows, f) = before \o rows
  <2>1. f - 1 \in Nat /\ f - 1 < N /\ f - 1 + 1 = f
    BY <1>1
  <2>2. \A i \in 1..N : InputRows[i] \in Seq(RowsAround)
    BY RowsAreTyped
  <2>3. InputRows[f] = rows
    BY RowsAreTyped
  <2> HIDE DEF N, rows
  <2> QED BY <1>1, <2>1, <2>2, <2>3, JoinedNext
<1>8. /\ Len(before \o rows) \in Nat /\ Len(AllRows) \in Nat
      /\ Len(before \o rows) <= Len(AllRows)
      /\ \A a \in 1..Len(before \o rows) : AllRows[a] = (before \o rows)[a]
  <2>1. f \in Nat /\ f <= N
    BY <1>1
  <2>2. AllRows = Joined(InputRows, N) /\ \A i \in 1..N : InputRows[i] \in Seq(RowsAround)
    BY RowsAreTyped
  <2>3. before \o rows = Joined(InputRows, f)
    BY <1>7
  <2> HIDE DEF N, rows, before
  <2>4. /\ Len(Joined(InputRows, f)) \in Nat /\ Len(Joined(InputRows, N)) \in Nat
        /\ Len(Joined(InputRows, f)) <= Len(Joined(InputRows, N))
        /\ \A a \in 1..Len(Joined(InputRows, f)) :
             Joined(InputRows, N)[a] = Joined(InputRows, f)[a]
    BY <1>1, <2>1, <2>2, JoinedPrefix
  <2> QED BY <2>2, <2>3, <2>4
<1>9. PassedAt(f, j) = Len(before) + Len(part) /\ PassedAt(f, j + 1) = Len(before) + Len(part \o more)
  BY <1>4 DEF PassedAt
<1> HIDE DEF p, gs, n, N, d, before, rows, part, more
<1>10. /\ Len(before) \in Nat /\ Len(part) \in Nat
       /\ Len(part \o more) = Len(part) + d
       /\ Len(before \o rows) = Len(before) + Len(rows)
  <2>1. Len(part) \in Nat /\ Len(part \o more) = Len(part) + Len(more)
    BY <1>4
  <2>2. Len(before) \in Nat /\ Len(before \o rows) = Len(before) + Len(rows)
    BY <1>7
  <2> QED BY <1>5, <2>1, <2>2
<1>11. ASSUME NEW a \in 1..d
       PROVE  AllRows[Len(before) + Len(part) + a] = RowAt(p, j + 1, a)
  <2>1. PICK b \in Nat : b = Len(part) + a
    BY <1>10
  <2>2. b \in 1..Len(part \o more) /\ (part \o more)[b] = more[a]
    BY <1>2, <1>4, <1>5, <1>10, <2>1
  <2>3. rows[b] = more[a] /\ b \in 1..Len(rows)
    BY <1>6, <1>10, <2>2
  <2>4. PICK c \in Nat : c = Len(before) + b
    BY <1>10
  <2>5. c \in 1..Len(before \o rows) /\ (before \o rows)[c] = rows[b]
    BY <1>6, <1>7, <1>10, <2>3, <2>4
  <2>6. AllRows[c] = rows[b]
    BY <1>8, <2>5
  <2>7. c = Len(before) + Len(part) + a
    BY <1>10, <2>1, <2>4
  <2> QED BY <1>5, <2>3, <2>6, <2>7
<1>12. /\ PassedAt(f, j) \in Nat
       /\ PassedAt(f, j + 1) = PassedAt(f, j) + d
       /\ PassedAt(f, j + 1) <= Len(AllRows)
  BY <1>2, <1>6, <1>8, <1>9, <1>10
<1>13. \A a \in 1..d : AllRows[PassedAt(f, j) + a] = RowAt(p, j + 1, a)
  BY <1>9, <1>11
<1> QED BY <1>2, <1>12, <1>13 DEF d, p, gs

LEMMA PassedFile ==
  ASSUME TypeInv, NEW f \in 1..Len(options.inputs)
  PROVE  /\ PassedAt(f, 0) = Len(Joined(InputRows, f - 1))
         /\ PassedAt(f, Len(Corpus(options.inputs[f]).groups)) = Len(Joined(InputRows, f))
<1> DEFINE p == options.inputs[f]
           n == Len(Corpus(p).groups)
           N == Len(options.inputs)
           before == Joined(InputRows, f - 1)
           rows == RowsOf(p)
<1>1. rows = Joined(GroupedRows(p), n)
  BY RowsOfJoined DEF TypeInv
<1>2. /\ before \in Seq(RowsAround) /\ rows \in Seq(RowsAround)
      /\ Joined(InputRows, f) = before \o rows
  <2>0. N \in Nat
    BY RowsAreTyped
  <2>1. f - 1 \in Nat /\ f - 1 < N /\ f - 1 + 1 = f
    BY <2>0
  <2>2. \A i \in 1..N : InputRows[i] \in Seq(RowsAround)
    BY RowsAreTyped
  <2>3. InputRows[f] = rows
    BY RowsAreTyped
  <2> HIDE DEF N, rows
  <2> QED BY <2>0, <2>1, <2>2, <2>3, JoinedNext
<1>3. Joined(GroupedRows(p), 0) = <<>>
  BY JoinedSteps
<1>4. PassedAt(f, 0) = Len(before) + Len(<<>>)
  BY <1>3 DEF PassedAt
<1>5. PassedAt(f, n) = Len(before) + Len(rows)
  BY <1>1 DEF PassedAt
<1> HIDE DEF before, rows, n, p
<1>6. Len(before \o rows) = Len(before) + Len(rows) /\ Len(before) + Len(<<>>) = Len(before)
  BY <1>2
<1> QED BY <1>2, <1>4, <1>5, <1>6 DEF before, n, p


----------------------------------------------------------------------------
(* The candidates of a header.                                             *)

\* Of the rows that come together, all are candidates or none.
LEMMA CandidatesTogether ==
  ASSUME TypeInv, NEW p \in Nat, NEW d \in Nat, p + d <= Len(AllRows)
  PROVE  /\ (\A a \in 1..d : p + a \in Places) =>
              /\ Met(p + d) = Met(p) + d
              /\ \A a \in 1..d : /\ Met(p) + a \in 1..Len(Candidates)
                                 /\ Candidates[Met(p) + a] = AllRows[p + a]
         /\ (\A a \in 1..d : p + a \notin Places) => Met(p + d) = Met(p)
<1> DEFINE All(e) == (\A a \in 1..e : p + a \in Places) =>
                       /\ Met(p + e) = Met(p) + e
                       /\ \A a \in 1..e : /\ Met(p) + a \in 1..Len(Candidates)
                                          /\ Candidates[Met(p) + a] = AllRows[p + a]
           None(e) == (\A a \in 1..e : p + a \notin Places) => Met(p + e) = Met(p)
           T == {e \in Nat : e <= d => All(e) /\ None(e)}
<1>0. Met(p) \in Nat
  BY AscendingPrefix DEF Met
<1>1. 0 \in T
  <2>1. p + 0 = p /\ Met(p) + 0 = Met(p) /\ 1..0 = {}
    BY <1>0
  <2> QED BY <2>1
<1>2. ASSUME NEW e \in Nat, e \in T PROVE e + 1 \in T
  <2> SUFFICES ASSUME e + 1 <= d PROVE All(e + 1) /\ None(e + 1)
    OBVIOUS
  <2>1. All(e) /\ None(e)
    BY <1>2
  <2>2. PICK q \in Nat : q = p + e
    OBVIOUS
  <2>3. q < Len(AllRows)
    <3>1. Len(AllRows) \in Nat
      <4>1. AllRows \in Seq(RowsAround)
        BY RowsAreTyped
      <4> QED BY <4>1
    <3> QED BY <2>2, <3>1
  <2>4. /\ q + 1 \in Places =>
             /\ Met(q) + 1 \in 1..Len(Candidates)
             /\ Candidates[Met(q) + 1] = AllRows[q + 1]
             /\ Met(q + 1) = Met(q) + 1
        /\ q + 1 \notin Places => Met(q + 1) = Met(q)
    BY <2>3, CandidateAt
  <2>5. q + 1 = p + (e + 1) /\ e + 1 \in 1..(e + 1)
    BY <2>2
  <2>6. \A a \in 1..e : a \in 1..(e + 1)
    OBVIOUS
  <2>7. \A a \in 1..(e + 1) : a \in 1..e \/ a = e + 1
    OBVIOUS
  <2>8. All(e + 1)
    <3> SUFFICES ASSUME \A a \in 1..(e + 1) : p + a \in Places
                 PROVE  /\ Met(p + (e + 1)) = Met(p) + (e + 1)
                        /\ \A a \in 1..(e + 1) :
                             /\ Met(p) + a \in 1..Len(Candidates)
                             /\ Candidates[Met(p) + a] = AllRows[p + a]
      OBVIOUS
    <3>1. /\ Met(q) = Met(p) + e
          /\ \A a \in 1..e : /\ Met(p) + a \in 1..Len(Candidates)
                             /\ Candidates[Met(p) + a] = AllRows[p + a]
      BY <2>1, <2>2, <2>6
    <3>2. /\ Met(q) + 1 \in 1..Len(Candidates)
          /\ Candidates[Met(q) + 1] = AllRows[q + 1]
          /\ Met(q + 1) = Met(q) + 1
      BY <2>4, <2>5
    <3>3. Met(q) + 1 = Met(p) + (e + 1)
      BY <1>0, <3>1
    <3> HIDE DEF T, All, None
    <3> QED BY <2>5, <2>7, <3>1, <3>2, <3>3
  <2>9. None(e + 1)
    <3> SUFFICES ASSUME \A a \in 1..(e + 1) : p + a \notin Places
                 PROVE  Met(p + (e + 1)) = Met(p)
      OBVIOUS
    <3>1. Met(q) = Met(p)
      BY <2>1, <2>2, <2>6
    <3>2. Met(q + 1) = Met(q)
      BY <2>4, <2>5
    <3> QED BY <2>5, <3>1, <3>2
  <2> QED BY <2>8, <2>9
<1> HIDE DEF T
<1>3. d \in T
  BY <1>1, <1>2, NumbersByInduction
<1> QED BY <1>3 DEF T

\* The header that is next, and the candidates it stands for.
LEMMA NextHeader ==
  ASSUME TypeInv, OptionsAreAsked, HeadersAreTaken, pc = "prepare", todo # <<>>
  PROVE  LET h == Head(todo)
             j == Looked + 1
             d == Len(h.rows)
             n == Met(RowsPassed)
         IN  /\ file \in 1..Len(options.inputs)
             /\ j \in 1..Len(Corpus(HeaderOpen).groups) /\ j - 1 \in Nat
             /\ h = Corpus(HeaderOpen).groups[j]
             /\ RowsPassed = PassedAt(file, j - 1)
             /\ d \in Nat /\ n \in Nat
             /\ Wanted(h) =>
                  /\ Met(PassedAt(file, j)) = n + d
                  /\ \A a \in 1..d : /\ n + a \in 1..Len(Candidates)
                                     /\ Candidates[n + a] = RowAt(HeaderOpen, j, a)
             /\ ~ Wanted(h) => Met(PassedAt(file, j)) = n
<1> DEFINE h == Head(todo)
           gs == Corpus(HeaderOpen).groups
           j == Looked + 1
           d == Len(h.rows)
           q == RowsPassed
<1>1. file # 0 /\ file \in 1..Len(options.inputs) /\ Looked \in Nat
  <2>1. file \in 0..Len(options.inputs) /\ Len(options.inputs) \in Nat
    BY RowsAreTyped DEF TypeInv, TypeOK
  <2> QED BY <2>1 DEF HeadersAreTaken
<1>2. /\ Len(todo) \in Nat /\ Len(todo) # 0 /\ 1 \in DOMAIN todo
      /\ Head(todo) = todo[1]
  <2>1. todo \in Seq(Headers)
    BY DEF TypeInv, TodoIsTyped
  <2> QED BY <2>1
<1>3. Len(gs) \in Nat /\ DOMAIN gs = 1..Len(gs)
  <2>1. gs \in Seq(ToSet(gs))
    BY WorldType DEF IsFile, TypeInv
  <2> HIDE DEF gs
  <2> QED BY <2>1
<1>4. h = gs[j] /\ j \in 1..Len(gs) /\ j - 1 \in Nat /\ j - 1 = Looked
  <2>1. todo[1] = gs[Looked + 1]
    BY <1>1, <1>2 DEF HeadersAreTaken
  <2>2. Looked = Len(gs) - Len(todo)
    BY DEF Looked
  <2> HIDE DEF gs
  <2> QED BY <1>1, <1>2, <1>3, <2>1, <2>2
<1>5. q = PassedAt(file, j - 1)
  BY <1>1, <1>4 DEF RowsPassed, PassedAt, HeaderOpen
<1> HIDE DEF gs, j, q
<1>6. PICK i \in Nat : i = j - 1
  BY <1>4
<1>7. j = i + 1 /\ i < Len(gs)
  BY <1>3, <1>4, <1>6
<1>8. /\ d \in Nat
      /\ q \in Nat
      /\ PassedAt(file, j) = q + d
      /\ q + d <= Len(AllRows)
      /\ \A a \in 1..d : AllRows[q + a] = RowAt(HeaderOpen, j, a)
  BY <1>1, <1>4, <1>5, <1>6, <1>7, PassedNext DEF gs, HeaderOpen
<1>9. AllRows \in Seq(RowsAround) /\ Len(AllRows) \in Nat /\ DOMAIN AllRows = 1..Len(AllRows)
  <2>1. AllRows \in Seq(RowsAround)
    BY RowsAreTyped
  <2> QED BY <2>1
<1>10. \A a \in 1..d : q + a \in Places <=> Wanted(h)
  <2> SUFFICES ASSUME NEW a \in 1..d PROVE q + a \in Places <=> Wanted(h)
    OBVIOUS
  <2>1. q + a \in DOMAIN AllRows
    BY <1>8, <1>9
  <2>2. AllRows[q + a].key = h.key /\ AllRows[q + a].text = h.text
    <3>1. AllRows[q + a] = RowAt(HeaderOpen, j, a)
      BY <1>8
    <3>2. RowAt(HeaderOpen, j, a).key = gs[j].key /\ RowAt(HeaderOpen, j, a).text = gs[j].text
      BY DEF RowAt, gs
    <3> QED BY <1>4, <3>1, <3>2
  <2>3. Asked(AllRows[q + a]) <=> Asked(h)
    BY <2>2 DEF Asked
  <2>4. Wanted(h) <=> Asked(h)
    BY WantedIsAsked
  <2> QED BY <2>1, <2>3, <2>4 DEF Places
<1>11. Met(q) \in Nat
  BY <1>8, AscendingPrefix DEF Met
<1> HIDE DEF d, h
<1>12. ASSUME Wanted(h)
       PROVE  /\ Met(q + d) = Met(q) + d
              /\ \A a \in 1..d : /\ Met(q) + a \in 1..Len(Candidates)
                                 /\ Candidates[Met(q) + a] = AllRows[q + a]
  BY <1>8, <1>10, <1>12, CandidatesTogether
<1>13. ASSUME ~ Wanted(h) PROVE Met(q + d) = Met(q)
  BY <1>8, <1>10, <1>13, CandidatesTogether
<1> QED BY <1>1, <1>4, <1>5, <1>8, <1>11, <1>12, <1>13 DEF gs, j, q, d, h

\* One header has been looked at more.
LEMMA HeaderTakes ==
  ASSUME TypeInv, HeadersAreTaken, pc = "prepare", todo # <<>>,
         UNCHANGED <<scenario, options, file>>, todo' = Tail(todo)
  PROVE  /\ HeadersAreTaken'
         /\ Looked' = Looked + 1
         /\ RowsPassed' = PassedAt(file, Looked + 1)
         /\ HeaderOpen' = HeaderOpen
<1> DEFINE gs == Corpus(HeaderOpen).groups
<1>1. file # 0 /\ Looked \in Nat /\ \A i \in DOMAIN todo : todo[i] = gs[Looked + i]
  BY DEF HeadersAreTaken
<1>2. HeaderOpen' = HeaderOpen /\ \A p : Corpus(p)' = Corpus(p)
  BY SameRows DEF HeaderOpen
<1>3. /\ Len(todo) \in Nat /\ Len(todo) # 0
      /\ Len(todo') = Len(todo) - 1
      /\ DOMAIN todo' = 1..(Len(todo) - 1) /\ DOMAIN todo = 1..Len(todo)
      /\ \A i \in 1..(Len(todo) - 1) : todo'[i] = todo[i + 1]
  <2>1. todo \in Seq(Headers)
    BY DEF TypeInv, TodoIsTyped
  <2> QED BY <2>1, TailType
<1>4. Len(gs) \in Nat
  <2>1. gs \in Seq(ToSet(gs))
    BY WorldType DEF IsFile, TypeInv
  <2> HIDE DEF gs
  <2> QED BY <2>1
<1>5. gs' = gs
  BY <1>2
<1>6. Looked = Len(gs) - Len(todo) /\ Looked' = Len(gs) - Len(todo')
  BY <1>5 DEF Looked
<1> HIDE DEF gs
<1>7. Looked' = Looked + 1
  BY <1>3, <1>4, <1>6
<1>8. PICK k \in Nat : k = Looked
  BY <1>1
<1>9. \A i \in DOMAIN todo' : todo'[i] = gs[Looked' + i]
  <2> SUFFICES ASSUME NEW i \in DOMAIN todo' PROVE todo'[i] = gs[Looked' + i]
    OBVIOUS
  <2>1. i + 1 \in DOMAIN todo /\ todo'[i] = todo[i + 1]
    BY <1>3
  <2>2. todo[i + 1] = gs[k + (i + 1)] /\ k + (i + 1) = (k + 1) + i
    BY <1>1, <1>3, <1>8, <2>1
  <2> QED BY <1>7, <1>8, <2>1, <2>2
<1>10. HeadersAreTaken'
  <2>1. Looked' \in Nat
    BY <1>1, <1>7
  <2>2. file' # 0
    BY <1>1
  <2>3. \A i \in DOMAIN todo' : todo'[i] = Corpus(HeaderOpen)'.groups[Looked' + i]
    BY <1>5, <1>9 DEF gs
  <2> QED BY <2>1, <2>2, <2>3 DEF HeadersAreTaken
<1>11. RowsPassed' = PassedAt(file, Looked + 1)
  <2>1. InputRows' = InputRows /\ GroupedRows(HeaderOpen)' = GroupedRows(HeaderOpen)
    BY <1>2, SameRows DEF GroupedRows, RowsOfGroup, RowAt
  <2>2. PICK f : f = file - 1
    OBVIOUS
  <2>3. /\ Joined(InputRows, file - 1)' = Joined(InputRows, file - 1)
        /\ Joined(GroupedRows(HeaderOpen), Looked)' = Joined(GroupedRows(HeaderOpen), Looked + 1)
    BY <1>7, <2>1
  <2> QED BY <1>1, <2>3 DEF RowsPassed, PassedAt, HeaderOpen
<1> QED BY <1>2, <1>7, <1>10, <1>11


----------------------------------------------------------------------------
(* The first pass.                                                         *)

LEMMA SameLimits ==
  ASSUME UNCHANGED <<scenario, options>>
  PROVE  /\ \A n : GroupsAmong(n)' = GroupsAmong(n)
         /\ \A n : WithinLimits(n)' = WithinLimits(n)
         /\ \A n : Room(n)' = Room(n)
         /\ \A h : NotForBatch(h)' = NotForBatch(h)
         /\ Foreseeable' = Foreseeable
<1>1. \A n : GroupsAmong(n)' = GroupsAmong(n)
  BY SameRows DEF GroupsAmong
<1>2. \A n : WithinLimits(n)' = WithinLimits(n)
  BY <1>1 DEF WithinLimits
<1>3. \A n : Room(n)' = Room(n)
  BY DEF Room
<1>4. \A h : NotForBatch(h)' = NotForBatch(h)
  BY DEF NotForBatch, IsTrap, Instruction
<1>5. Foreseeable' = Foreseeable
  <2>1. options' = options /\ \A p : Corpus(p)' = Corpus(p)
    BY SameRows
  <2> DEFINE Whole(f) == \A g \in DOMAIN f.groups :
                           /\ f.groups[g].rows # <<>>
                           /\ f.groups[g].declared = Len(f.groups[g].rows)
  <2>2. Foreseeable = (/\ IsInjective(options.inputs)
                       /\ \A i \in DOMAIN options.inputs : Whole(Corpus(options.inputs[i])))
    BY DEF Foreseeable
  <2>3. Foreseeable' = (/\ IsInjective(options'.inputs)
                        /\ \A i \in DOMAIN options'.inputs :
                             Whole(Corpus(options.inputs[i])'))
    BY DEF Foreseeable
  <2> HIDE DEF Whole
  <2> QED BY <2>1, <2>2, <2>3
<1> QED BY <1>1, <1>2, <1>3, <1>4, <1>5

LEMMA SameForeseen ==
  ASSUME UNCHANGED <<scenario, options, batch>>, NEW n
  PROVE  BatchHasOnly(n)' = BatchHasOnly(n) /\ BatchHas(n)' = BatchHas(n)
  BY SameRows, SameLimits DEF BatchHasOnly, BatchHas

\* With no header left, the rows passed are those of the inputs opened.
LEMMA AllPassed ==
  ASSUME TypeInv, HeadersAreTaken, pc = "prepare", todo = <<>>
  PROVE  RowsPassed = Len(Joined(InputRows, file))
<1>1. file \in 0..Len(options.inputs) /\ Len(options.inputs) \in Nat
  BY RowsAreTyped DEF TypeInv, TypeOK
<1>2. CASE file = 0
  <2>1. Joined(InputRows, 0) = <<>>
    BY JoinedSteps
  <2>2. Len(Joined(InputRows, file)) = 0
    BY <1>2, <2>1
  <2> QED BY <1>2, <2>2 DEF RowsPassed
<1>3. CASE file # 0
  <2>1. Looked = Len(Corpus(options.inputs[file]).groups)
    <3>1. Len(Corpus(HeaderOpen).groups) \in Nat
      BY RowsOfJoined DEF TypeInv
    <3> QED BY <3>1 DEF Looked, HeaderOpen
  <2>2. RowsPassed = PassedAt(file, Looked)
    BY <1>3 DEF RowsPassed, PassedAt, HeaderOpen
  <2>3. file \in 1..Len(options.inputs)
    BY <1>1, <1>3
  <2> QED BY <2>1, <2>2, <2>3, PassedFile
<1> QED BY <1>2, <1>3

LEMMA OpenForHeadersAgrees ==
  ASSUME TypeInv, HeadersAreTaken, PassesAgree, OpenForHeaders
  PROVE  HeadersAreTaken' /\ PassesAgree'
<1> DEFINE gs == Corpus(NextInput).groups
<1>1. /\ pc = "prepare" /\ todo = <<>> /\ ~ NoMoreInputs /\ file' = file + 1
      /\ UNCHANGED <<scenario, options, batch, reached>>
      /\ \/ pc' = "aborted"
         \/ pc' = "prepare" /\ todo' = gs
  BY DEF OpenForHeaders, world, preparing, Throw
<1>2. CASE pc' = "aborted"
  BY <1>2 DEF HeadersAreTaken, PassesAgree
<1>3. CASE pc' = "prepare" /\ todo' = gs
  <2>1. /\ file \in Nat /\ file' \in 1..Len(options.inputs) /\ file' # 0
    <3>1. file \in 0..Len(options.inputs) /\ Len(options.inputs) \in Nat
      BY RowsAreTyped DEF TypeInv, TypeOK
    <3> QED BY <1>1, <3>1 DEF NoMoreInputs
  <2>2. HeaderOpen' = NextInput /\ Corpus(HeaderOpen)' = Corpus(NextInput)
    BY <1>1, SameRows DEF HeaderOpen, NextInput
  <2>3. Len(gs) \in Nat /\ DOMAIN gs = 1..Len(gs)
    <3>1. gs \in Seq(ToSet(gs))
      BY WorldType DEF IsFile, TypeInv
    <3> HIDE DEF gs
    <3> QED BY <3>1
  <2>4. Looked' = 0
    <3>1. Looked' = Len(gs) - Len(gs)
      BY <1>3, <2>2 DEF Looked
    <3> HIDE DEF gs
    <3> QED BY <2>3, <3>1
  <2>5. HeadersAreTaken'
    <3>1. \A i \in DOMAIN gs : 0 + i = i
      <4> HIDE DEF gs
      <4> QED BY <2>3
    <3>2. \A i \in DOMAIN todo' : todo'[i] = Corpus(HeaderOpen)'.groups[Looked' + i]
      BY <1>3, <2>2, <2>4, <3>1
    <3> QED BY <2>1, <2>4, <3>2 DEF HeadersAreTaken
  <2>6. RowsPassed' = RowsPassed
    <3>1. RowsPassed = Len(Joined(InputRows, file)) 
      BY <1>1, AllPassed
    <3>2. PICK f \in 1..Len(options.inputs) : f = file'
      BY <2>1
    <3>3. f - 1 = file
      BY <1>1, <2>1, <3>2
    <3>4. RowsPassed' = PassedAt(f, 0)
      <4>1. InputRows' = InputRows
        BY <1>1, SameRows
      <4>2. GroupedRows(HeaderOpen)' = GroupedRows(options.inputs[f])
        BY <1>1, <2>2, <3>2, SameRows DEF GroupedRows, RowsOfGroup, RowAt, HeaderOpen, NextInput
      <4>3. Joined(GroupedRows(HeaderOpen), Looked)' = Joined(GroupedRows(options.inputs[f]), 0)
        BY <2>4, <4>2
      <4>4. Joined(InputRows, file - 1)' = Joined(InputRows, f - 1)
        BY <3>2, <4>1
      <4> QED BY <2>1, <4>3, <4>4 DEF RowsPassed, PassedAt
    <3>5. PassedAt(f, 0) = Len(Joined(InputRows, f - 1))
      BY PassedFile
    <3> QED BY <3>1, <3>3, <3>4, <3>5
  <2>7. ASSUME Foreseeable' PROVE ForeseenSoFar'
    <3> DEFINE n == Met(RowsPassed)
    <3>1. ForeseenSoFar
      BY <1>1, <2>7, SameLimits DEF PassesAgree
    <3>2. PICK m : m = n
      OBVIOUS
    <3>3. Met(RowsPassed)' = m
      BY <1>1, <2>6, <3>2, SameRows
    <3>4. /\ GroupsArePassed(m) /\ reached.rows = Room(m)
          /\ reached.groups = Cardinality(GroupsAmong(m))
          /\ BatchHasOnly(m) /\ BatchHas(m)
      BY <3>1, <3>2 DEF ForeseenSoFar
    <3> HIDE DEF n
    <3>5. GroupsArePassed(m)'
      <4>1. \A f \in 1..file : f \in 1..file' /\ f # file'
        BY <1>1, <2>1
      <4>2. Candidates' = Candidates
        BY <1>1, SameRows
      <4> QED BY <1>1, <3>4, <4>1, <4>2 DEF GroupsArePassed
    <3>6. /\ reached'.rows = Room(m)' /\ reached'.groups = Cardinality(GroupsAmong(m)')
      BY <1>1, <3>4, SameLimits
    <3>7. BatchHasOnly(m)' /\ BatchHas(m)'
      BY <1>1, <3>4, SameForeseen
    <3> QED BY <3>3, <3>5, <3>6, <3>7 DEF ForeseenSoFar
  <2> QED BY <1>3, <2>5, <2>7 DEF PassesAgree
<1> QED BY <1>1, <1>2, <1>3

LEMMA HeadersEndAgrees ==
  ASSUME TypeInv, HeadersAreTaken, PassesAgree, BatchLinks, HeadersEnd
  PROVE  HeadersAreTaken' /\ PassesAgree'
<1>1. /\ pc = "prepare" /\ pc' = "compile" /\ todo = <<>> /\ NoMoreInputs
      /\ UNCHANGED <<scenario, options, batch>>
      /\ options.execute
  BY DEF HeadersEnd, world, preparing, BatchLinks
<1>2. Met(RowsPassed) = Len(Candidates)
  BY <1>1, AllPassed, RowsAreTyped DEF NoMoreInputs
<1>3. PICK m : m = Len(Candidates)
  OBVIOUS
<1>4. ASSUME Foreseeable' PROVE BatchHasOnly(m)' /\ BatchHas(m)'
  <2>1. BatchHasOnly(m) /\ BatchHas(m)
    BY <1>1, <1>2, <1>3, <1>4, SameLimits DEF PassesAgree, ForeseenSoFar
  <2> QED BY <1>1, <2>1, SameForeseen
<1>5. Len(Candidates)' = m /\ options'.execute
  BY <1>1, <1>3, SameRows
<1> QED BY <1>1, <1>4, <1>5 DEF HeadersAreTaken, PassesAgree


\* A header that the limits leave room for: where its rows are.
LEMMA HeaderIsNew ==
  ASSUME TypeInv, OptionsAreAsked, HeadersAreTaken, Foreseeable, ForeseenSoFar,
         pc = "prepare", todo # <<>>, Wanted(Head(todo))
  PROVE  LET h == Head(todo)
             n == Met(RowsPassed)
             d == Len(h.rows)
             g == <<HeaderOpen, Looked + 1>>
         IN  /\ n \in Nat /\ d \in Nat /\ d # 0 /\ h.declared = d
             /\ Looked \in Nat /\ file \in Nat /\ file # 0
             /\ Met(PassedAt(file, Looked + 1)) = n + d
             /\ \A i \in (n + 1)..(n + d) :
                  /\ i \in 1..Len(Candidates)
                  /\ Candidates[i].group = g /\ Candidates[i].key = h.key
                  /\ Candidates[i].text = h.text
             /\ g \notin GroupsAmong(n)
<1> DEFINE h == Head(todo)
           n == Met(RowsPassed)
           d == Len(h.rows)
           j == Looked + 1
           g == <<HeaderOpen, j>>
           gs == Corpus(HeaderOpen).groups
<1>1. /\ file \in 1..Len(options.inputs)
      /\ j \in 1..Len(gs) /\ j - 1 \in Nat
      /\ h = gs[j]
      /\ d \in Nat /\ n \in Nat
      /\ Met(PassedAt(file, j)) = n + d
      /\ \A a \in 1..d : /\ n + a \in 1..Len(Candidates)
                         /\ Candidates[n + a] = RowAt(HeaderOpen, j, a)
  BY NextHeader
<1>2. /\ Looked \in Nat /\ file \in Nat /\ file # 0
      /\ j \in DOMAIN gs /\ file \in DOMAIN options.inputs
  <2>1. Looked \in Nat /\ file # 0
    BY DEF HeadersAreTaken
  <2>2. gs \in Seq(ToSet(gs)) /\ Len(options.inputs) \in Nat
    BY WorldType, RowsAreTyped DEF IsFile, TypeInv
  <2>3. DOMAIN options.inputs = 1..Len(options.inputs)
    BY RowsAreTyped
  <2> HIDE DEF gs, j
  <2> QED BY <1>1, <2>1, <2>2, <2>3
<1>3. h.rows # <<>> /\ h.declared = d
  BY <1>1, <1>2 DEF Foreseeable, HeaderOpen
<1>4. d # 0
  <2>1. IsGroup(gs[j])
    BY <1>2, GroupType DEF TypeInv
  <2>2. h.rows \in Seq(ToSet(h.rows))
    BY <1>1, <2>1 DEF IsGroup
  <2> HIDE DEF h
  <2> QED BY <1>3, <2>2
<1>5. \A a : RowAt(HeaderOpen, j, a).group = g
             /\ RowAt(HeaderOpen, j, a).key = h.key
             /\ RowAt(HeaderOpen, j, a).text = h.text
  BY <1>1 DEF RowAt
<1> HIDE DEF h, n, d, gs
<1>6. ASSUME NEW i \in (n + 1)..(n + d)
      PROVE  /\ i \in 1..Len(Candidates)
             /\ Candidates[i].group = g /\ Candidates[i].key = h.key
             /\ Candidates[i].text = h.text
  <2>1. PICK a : a \in 1..d /\ i = n + a
    <3>1. i - n \in 1..d /\ i = n + (i - n)
      BY <1>1
    <3> QED BY <3>1
  <2>2. i \in 1..Len(Candidates) /\ Candidates[i] = RowAt(HeaderOpen, j, a)
    BY <1>1, <2>1
  <2> QED BY <1>5, <2>2
<1>7. ASSUME g \in GroupsAmong(n) PROVE FALSE
  <2>1. PICK i \in 1..n : Candidates[i].group = g
    BY <1>7 DEF GroupsAmong
  <2>2. PICK f \in 1..file : /\ Candidates[i].group[1] = options.inputs[f]
                             /\ f = file => Candidates[i].group[2] \in 1..Looked
    BY <2>1 DEF ForeseenSoFar, GroupsArePassed, n
  <2>3. options.inputs[f] = options.inputs[file]
    BY <2>1, <2>2 DEF HeaderOpen
  <2>4. f \in DOMAIN options.inputs
    <3>1. DOMAIN options.inputs = 1..Len(options.inputs) /\ Len(options.inputs) \in Nat
      BY RowsAreTyped
    <3> QED BY <1>1, <3>1
  <2>5. f = file
    BY <1>2, <2>3, <2>4 DEF Foreseeable, IsInjective
  <2>6. Looked + 1 \in 1..Looked
    BY <2>1, <2>2, <2>5
  <2> QED BY <1>2, <2>6
<1> QED BY <1>1, <1>2, <1>3, <1>4, <1>6, <1>7 DEF h, n, d

\* The group of a header that is looked at is one more, however many its rows.
LEMMA OneGroupMore ==
  ASSUME NEW n \in Nat, NEW d \in Nat, d # 0, NEW g,
         \A i \in (n + 1)..(n + d) : Candidates[i].group = g,
         g \notin GroupsAmong(n)
  PROVE  /\ Cardinality(GroupsAmong(n)) \in Nat
         /\ Cardinality(GroupsAmong(n + d)) = Cardinality(GroupsAmong(n)) + 1
         /\ Cardinality(GroupsAmong(n + 1)) = Cardinality(GroupsAmong(n)) + 1
<1>1. GroupsAmong(n + d) = GroupsAmong(n) \cup {g}
  <2>1. \A i : i \in 1..(n + d) <=> i \in 1..n \/ i \in (n + 1)..(n + d)
    OBVIOUS
  <2>2. n + 1 \in (n + 1)..(n + d)
    OBVIOUS
  <2> QED BY <2>1, <2>2 DEF GroupsAmong
<1>2. GroupsAmong(n + 1) = GroupsAmong(n) \cup {g}
  <2>1. n + 1 \in (n + 1)..(n + d)
    OBVIOUS
  <2> QED BY <2>1, AmongGrow
<1>3. IsFiniteSet(GroupsAmong(n))
  BY AmongGrow
<1> QED BY <1>1, <1>2, <1>3, FS_AddElement, FS_CardinalityType

\* The first pass stops where the next candidate would exceed a limit.
LEMMA PrepareLimitIs ==
  ASSUME TypeInv, NEW n \in Nat, reached.rows = Room(n),
         reached.groups = Cardinality(GroupsAmong(n)),
         reached.groups \in Nat,
         Cardinality(GroupsAmong(n + 1)) = reached.groups + 1
  PROVE  /\ PrepareLimitReached <=> ~ WithinLimits(n + 1)
         /\ ~ PrepareLimitReached /\ options.limitStates # 0 =>
              reached.rows = n /\ n < options.limitStates
<1>1. options.limitStates \in Nat /\ options.limitInstructions \in Nat
  BY DEF TypeInv, IsOptions
<1> DEFINE limit == options.limitInstructions
           states == options.limitStates
<1>2. PrepareLimitReached <=> \/ states # 0 /\ reached.rows >= states
                              \/ limit # 0 /\ reached.groups >= limit
  BY DEF PrepareLimitReached, Reaches
<1>3. WithinLimits(n + 1) <=> /\ states # 0 => n + 1 <= states
                              /\ limit # 0 => reached.groups + 1 <= limit
  BY DEF WithinLimits
<1>4. reached.rows = IF states = 0 \/ n <= states THEN n ELSE states
  BY DEF Room
<1> HIDE DEF limit, states
<1>5. PrepareLimitReached <=> ~ WithinLimits(n + 1)
  BY <1>1, <1>2, <1>3, <1>4 DEF limit, states
<1>6. ~ PrepareLimitReached /\ states # 0 => reached.rows = n /\ n < states
  BY <1>1, <1>2, <1>4 DEF states
<1> QED BY <1>5, <1>6 DEF states


\* What the batch has of more candidates, all of one header.
LEMMA BatchGrows ==
  ASSUME TypeInv, UNCHANGED <<scenario, options>>, batch \in Seq(Keys),
         NEW h, h.key \in Keys, AddToBatch(h),
         NEW n \in Nat, NEW d \in Nat, d # 0, WithinLimits(n + 1),
         \A i \in (n + 1)..(n + d) : /\ Candidates[i].key = h.key
                                     /\ Candidates[i].text = h.text,
         BatchHasOnly(n), BatchHas(n)
  PROVE  BatchHasOnly(n + d)' /\ BatchHas(n + d)'
<1>1. ToSet(batch') = ToSet(batch) \/ ToSet(batch') = ToSet(batch) \cup {h.key}
  BY SetOfAppended DEF AddToBatch
<1>2. h.key \in ToSet(batch') \/ NotForBatch(h)
  <2>1. CASE NotForBatch(h) \/ h.key \in ToSet(batch)
    BY <2>1 DEF AddToBatch
  <2>2. CASE ~ (NotForBatch(h) \/ h.key \in ToSet(batch))
    BY <2>2, SetOfAppended DEF AddToBatch
  <2> QED BY <2>1, <2>2
<1>3. \A i : i \in 1..(n + d) <=> i \in 1..n \/ i \in (n + 1)..(n + d)
  OBVIOUS
<1>4. n + 1 \in (n + 1)..(n + d) /\ n + 1 \in 1..(n + d)
  OBVIOUS
<1>5. \A k \in ToSet(batch') : \E i \in 1..(n + d) : WithinLimits(i) /\ Candidates[i].key = k
  BY <1>1, <1>3, <1>4 DEF BatchHasOnly
<1>6. \A i \in (n + 1)..(n + d) : NotForBatch(Candidates[i]) <=> NotForBatch(h)
  BY DEF NotForBatch
<1>7. \A i \in 1..(n + d) :
        WithinLimits(i) => Candidates[i].key \in ToSet(batch') \/ NotForBatch(Candidates[i])
  <2> SUFFICES ASSUME NEW i \in 1..(n + d), WithinLimits(i)
               PROVE  Candidates[i].key \in ToSet(batch') \/ NotForBatch(Candidates[i])
    OBVIOUS
  <2>1. CASE i \in 1..n
    BY <1>1, <2>1 DEF BatchHas
  <2>2. CASE i \in (n + 1)..(n + d)
    BY <1>2, <1>6, <2>2
  <2> QED BY <1>3, <2>1, <2>2
<1> QED BY <1>5, <1>7, SameRows, SameLimits DEF BatchHasOnly, BatchHas

LEMMA PrepareHeaderAgrees ==
  ASSUME TypeInv, OptionsAreAsked, HeadersAreTaken, PassesAgree, BatchLinks, PrepareHeader
  PROVE  HeadersAreTaken' /\ PassesAgree'
<1> DEFINE h == Head(todo)
           n == Met(RowsPassed)
           d == Len(h.rows)
           g == <<HeaderOpen, Looked + 1>>
<1>1. /\ pc = "prepare" /\ todo # <<>> /\ options.execute
      /\ UNCHANGED <<scenario, options, file>>
  BY DEF PrepareHeader, world, BatchLinks
<1>2. n \in Nat /\ (~ Wanted(h) => Met(PassedAt(file, Looked + 1)) = n)
  BY <1>1, NextHeader
<1>3. todo' = Tail(todo) => /\ HeadersAreTaken'
                            /\ Looked' = Looked + 1
                            /\ RowsPassed' = PassedAt(file, Looked + 1)
                            /\ HeaderOpen' = HeaderOpen
  BY <1>1, HeaderTakes
<1>4. \A p : Met(p)' = Met(p)
  BY <1>1, SameRows
<1>5. Candidates' = Candidates /\ (Foreseeable' => Foreseeable)
  BY <1>1, SameRows, SameLimits
<1>6. Foreseeable => ForeseenSoFar
  BY <1>1 DEF PassesAgree
<1>7. PICK m \in Nat : m = n
  BY <1>2
<1>8. Foreseeable => /\ GroupsArePassed(m) /\ reached.rows = Room(m)
                     /\ reached.groups = Cardinality(GroupsAmong(m))
                     /\ BatchHasOnly(m) /\ BatchHas(m)
  BY <1>6, <1>7 DEF ForeseenSoFar
<1>9. Looked \in Nat /\ file \in Nat /\ file # 0
  <2>1. file \in 0..Len(options.inputs) /\ Len(options.inputs) \in Nat
    BY RowsAreTyped DEF TypeInv, TypeOK
  <2> QED BY <1>1, <2>1 DEF HeadersAreTaken
<1>10. todo' = Tail(todo) /\ GroupsArePassed(m) => GroupsArePassed(m)'
  <2> SUFFICES ASSUME todo' = Tail(todo), GroupsArePassed(m) PROVE GroupsArePassed(m)'
    OBVIOUS
  <2>1. \A x \in 1..Looked : x \in 1..Looked'
    BY <1>3, <1>9
  <2> QED BY <1>1, <1>5, <2>1 DEF GroupsArePassed
<1>11. CASE ~ Wanted(h)
  <2>1. todo' = Tail(todo) /\ pc' = "prepare" /\ UNCHANGED <<batch, reached>>
    BY <1>1, <1>11 DEF PrepareHeader, preparing
  <2>2. Met(RowsPassed)' = m
    BY <1>2, <1>3, <1>4, <1>7, <1>11, <2>1
  <2>3. ASSUME Foreseeable' PROVE ForeseenSoFar'
    <3>1. Foreseeable
      BY <1>5, <2>3
    <3>2. GroupsArePassed(m)'
      BY <1>8, <1>10, <2>1, <3>1
    <3>3. BatchHasOnly(m)' /\ BatchHas(m)'
      BY <1>1, <1>8, <2>1, <3>1, SameForeseen
    <3>4. reached'.rows = Room(m)' /\ reached'.groups = Cardinality(GroupsAmong(m)')
      BY <1>1, <1>8, <2>1, <3>1, SameLimits
    <3> QED BY <2>2, <3>2, <3>3, <3>4 DEF ForeseenSoFar
  <2> QED BY <1>3, <2>1, <2>3 DEF PassesAgree
<1>12. ASSUME Wanted(h), Foreseeable
       PROVE  /\ d \in Nat /\ d # 0 /\ h.declared = d
              /\ Met(PassedAt(file, Looked + 1)) = m + d
              /\ \A i \in (m + 1)..(m + d) :
                   /\ i \in 1..Len(Candidates)
                   /\ Candidates[i].group = g /\ Candidates[i].key = h.key
                   /\ Candidates[i].text = h.text
              /\ Cardinality(GroupsAmong(m + d)) = reached.groups + 1
              /\ PrepareLimitReached <=> ~ WithinLimits(m + 1)
              /\ ~ PrepareLimitReached /\ options.limitStates # 0 =>
                   reached.rows = m /\ m < options.limitStates
  <2>1. /\ d \in Nat /\ d # 0 /\ h.declared = d
        /\ Met(PassedAt(file, Looked + 1)) = m + d
        /\ \A i \in (m + 1)..(m + d) :
             /\ i \in 1..Len(Candidates)
             /\ Candidates[i].group = g /\ Candidates[i].key = h.key
             /\ Candidates[i].text = h.text
        /\ g \notin GroupsAmong(m)
    BY <1>1, <1>6, <1>7, <1>12, HeaderIsNew
  <2> HIDE DEF n, d, g, h
  <2>2. /\ Cardinality(GroupsAmong(m)) \in Nat
        /\ Cardinality(GroupsAmong(m + d)) = Cardinality(GroupsAmong(m)) + 1
        /\ Cardinality(GroupsAmong(m + 1)) = Cardinality(GroupsAmong(m)) + 1
    BY <2>1, OneGroupMore
  <2>3. reached.rows = Room(m) /\ reached.groups = Cardinality(GroupsAmong(m))
    BY <1>8, <1>12
  <2>4. /\ PrepareLimitReached <=> ~ WithinLimits(m + 1)
        /\ ~ PrepareLimitReached /\ options.limitStates # 0 =>
             reached.rows = m /\ m < options.limitStates
    BY <2>2, <2>3, PrepareLimitIs
  <2> QED BY <2>1, <2>2, <2>3, <2>4
<1>13. CASE Wanted(h) /\ PrepareLimitReached
  <2>1. pc' = "compile" /\ UNCHANGED <<batch, reached>>
    BY <1>13 DEF PrepareHeader, preparing
  <2>2. PICK l : l = Len(Candidates)
    OBVIOUS
  <2>3. ASSUME Foreseeable' PROVE BatchHasOnly(l)' /\ BatchHas(l)'
    <3>1. /\ d \in Nat /\ d # 0 /\ ~ WithinLimits(m + 1)
          /\ \A i \in (m + 1)..(m + d) : i \in 1..Len(Candidates)
      BY <1>5, <1>12, <1>13, <2>3
    <3>2. BatchHasOnly(m) /\ BatchHas(m)
      BY <1>5, <1>8, <2>3
    <3>3. Len(Candidates) \in Nat
      <4>1. Candidates \in Seq(RowsAround)
        BY RowsAreTyped
      <4> QED BY <4>1
    <3> HIDE DEF d
    <3>4. l \in Nat /\ m + 1 <= l
      BY <2>2, <3>1, <3>3
    <3>5. \A i \in 1..m : i \in 1..l
      BY <3>4
    <3>6. BatchHasOnly(l)
      BY <3>2, <3>5 DEF BatchHasOnly
    <3>7. BatchHas(l)
      <4> SUFFICES ASSUME NEW i \in 1..l, WithinLimits(i)
                   PROVE  Candidates[i].key \in ToSet(batch) \/ NotForBatch(Candidates[i])
        BY DEF BatchHas
      <4>1. ~ (m + 1 <= i)
        BY <3>1, <3>4, FewerAreWithin
      <4>2. i \in 1..m
        BY <3>4, <4>1
      <4> QED BY <3>2, <4>2 DEF BatchHas
    <3> QED BY <1>1, <2>1, <3>6, <3>7, SameForeseen
  <2>4. Len(Candidates)' = l /\ options'.execute
    BY <1>1, <1>5, <2>2
  <2> QED BY <2>1, <2>3, <2>4 DEF HeadersAreTaken, PassesAgree
<1>14. CASE Wanted(h) /\ ~ PrepareLimitReached
  <2>1. /\ todo' = Tail(todo) /\ pc' = "prepare"
        /\ reached' = [groups |-> reached.groups + 1, rows |-> reached.rows + RowsLeft(h)]
        /\ AddToBatch(h)
    BY <1>1, <1>14 DEF PrepareHeader
  <2>2. ASSUME Foreseeable' PROVE ForeseenSoFar'
    <3>1. /\ d \in Nat /\ d # 0 /\ h.declared = d
          /\ Met(PassedAt(file, Looked + 1)) = m + d
          /\ \A i \in (m + 1)..(m + d) :
               /\ i \in 1..Len(Candidates)
               /\ Candidates[i].group = g /\ Candidates[i].key = h.key
               /\ Candidates[i].text = h.text
          /\ Cardinality(GroupsAmong(m + d)) = reached.groups + 1
          /\ WithinLimits(m + 1)
          /\ options.limitStates # 0 => reached.rows = m /\ m < options.limitStates
      BY <1>5, <1>12, <1>14, <2>2
    <3>2. /\ GroupsArePassed(m) /\ reached.rows = Room(m)
          /\ BatchHasOnly(m) /\ BatchHas(m)
      BY <1>5, <1>8, <2>2
    <3>3. Met(RowsPassed)' = m + d
      BY <1>3, <1>4, <2>1, <3>1
    <3>4. batch \in Seq(Keys) /\ h.key \in Keys
      <4>1. h \in Headers
        <5>1. todo \in Seq(Headers)
          BY <1>1 DEF TypeInv, TodoIsTyped
        <5> QED BY <1>1, <5>1
      <4>2. HeaderType(h)
        BY <4>1, HeaderIsTyped DEF TypeInv
      <4> QED BY <4>2 DEF HeaderType, TypeInv, TypeOK
    <3>0. PICK e \in Nat : e = d
      BY <3>1
    <3> HIDE DEF d, n, h
    <3>5. BatchHasOnly(m + e)' /\ BatchHas(m + e)'
      <4>1. \A i \in (m + 1)..(m + e) : /\ Candidates[i].key = h.key
                                        /\ Candidates[i].text = h.text
        BY <3>0, <3>1
      <4> QED BY <1>1, <2>1, <3>0, <3>1, <3>2, <3>4, <4>1, BatchGrows
    <3>6. reached'.rows = Room(m + e)'
      <4>1. options.limitStates \in Nat
        BY DEF TypeInv, IsOptions
      <4>2. reached.rows + RowsLeft(h) = Room(m + e)
        BY <3>0, <3>1, <3>2, <4>1 DEF Room, RowsLeft
      <4> QED BY <1>1, <2>1, <4>2, SameLimits
    <3>7. reached'.groups = Cardinality(GroupsAmong(m + e)')
      <4>1. reached'.groups = Cardinality(GroupsAmong(m + e))
        BY <2>1, <3>0, <3>1
      <4> QED BY <1>1, <4>1, SameLimits
    <3>8. GroupsArePassed(m + e)'
      <4> SUFFICES ASSUME NEW i \in 1..(m + e)
                   PROVE  \E f \in 1..file' :
                            /\ Candidates'[i].group[1] = options'.inputs[f]
                            /\ f = file' => Candidates'[i].group[2] \in 1..Looked'
        BY <1>5 DEF GroupsArePassed
      <4>1. CASE i \in 1..m
        BY <1>10, <2>1, <3>2, <4>1 DEF GroupsArePassed
      <4>2. CASE i \in (m + 1)..(m + e)
        <5>1. Candidates'[i].group = g
          BY <1>5, <3>0, <3>1, <4>2
        <5>2. g[1] = options'.inputs[file'] /\ g[2] \in 1..Looked'
          BY <1>1, <1>3, <1>9, <2>1 DEF HeaderOpen
        <5>3. file' \in 1..file'
          BY <1>1, <1>9
        <5> QED BY <5>1, <5>2, <5>3
      <4>3. i \in 1..m \/ i \in (m + 1)..(m + e)
        OBVIOUS
      <4> QED BY <4>1, <4>2, <4>3
    <3>9. Met(RowsPassed)' = m + e
      BY <3>0, <3>3
    <3> QED BY <3>5, <3>6, <3>7, <3>8, <3>9 DEF ForeseenSoFar
  <2> QED BY <1>3, <2>1, <2>2 DEF PassesAgree
<1> QED BY <1>11, <1>13, <1>14


\* The first pass starts with nothing foreseen.
LEMMA NothingPassed ==
  ASSUME TypeInv, pc = "prepare", file = 0, todo = <<>>, batch = <<>>,
         reached.rows = 0, reached.groups = 0
  PROVE  HeadersAreTaken /\ PassesAgree
<1>1. HeadersAreTaken
  BY DEF HeadersAreTaken
<1>2. ForeseenSoFar
  <2>1. RowsPassed = 0 /\ Met(0) = 0
    BY AscendingSteps DEF RowsPassed, Met
  <2>2. GroupsArePassed(0) /\ BatchHas(0)
    BY DEF GroupsArePassed, BatchHas
  <2>3. Room(0) = 0
    <3>1. options.limitStates \in Nat
      BY DEF TypeInv, IsOptions
    <3> QED BY <3>1 DEF Room
  <2>4. Cardinality(GroupsAmong(0)) = 0
    BY AmongGrow, FS_EmptySet
  <2>5. BatchHasOnly(0)
    <3>1. ToSet(batch) = {}
      BY DEF ToSet
    <3> QED BY <3>1 DEF BatchHasOnly
  <2> QED BY <2>1, <2>2, <2>3, <2>4, <2>5 DEF ForeseenSoFar
<1> QED BY <1>1, <1>2 DEF PassesAgree

LEMMA LaunchAgrees ==
  ASSUME TypeInv, TypeInv', PassesAgree, Launch
  PROVE  HeadersAreTaken' /\ PassesAgree'
<1>1. /\ pc = "arguments" /\ todo = <<>> /\ file = 0 /\ batch = <<>>
      /\ reached.rows = 0 /\ reached.groups = 0
      /\ UNCHANGED <<file, todo, batch, reached>>
  BY DEF Launch, preparing, TypeInv, PhasesKeepOrder, PassesAgree
<1>2. CASE pc' \in {"aborted", "usage"}
  BY <1>2 DEF HeadersAreTaken, PassesAgree
<1>3. CASE pc' = "prepare"
  <2>1. (/\ pc = "prepare" /\ file = 0 /\ todo = <<>> /\ batch = <<>>
         /\ reached.rows = 0 /\ reached.groups = 0)'
    BY <1>1, <1>3
  <2> QED BY <2>1, NothingPassed, PTL
<1>4. CASE pc' = "rows"
  <2>1. options'.execute = options.execute /\ ~ options.execute
    <3>1. options' = WithDirectories(options) /\ pc' = IF options.execute THEN "prepare" ELSE "rows"
      BY <1>4 DEF Launch, Throw, Usage
    <3>2. "execute" \in DOMAIN options
      BY DEF TypeInv, IsOptions, DefaultOptions
    <3> QED BY <1>4, <3>1, <3>2 DEF WithDirectories
  <2> QED BY <1>1, <1>4, <2>1 DEF HeadersAreTaken, PassesAgree
<1>5. pc' \in {"aborted", "usage", "prepare", "rows"}
  BY DEF Launch, Throw, Usage
<1> QED BY <1>2, <1>3, <1>4, <1>5

\* The batch is that of the second pass, too.
LEMMA AgreedStays ==
  ASSUME PassesAgree, UNCHANGED <<scenario, options, batch>>,
         pc \in {"compile", "rows", "done"}, pc' \in {"compile", "rows", "done", "aborted"}
  PROVE  HeadersAreTaken' /\ PassesAgree'
<1> DEFINE n == Len(Candidates)
<1>1. n' = n /\ (Foreseeable' => Foreseeable)
  BY SameRows, SameLimits
<1>2. PICK m : m = n
  OBVIOUS
<1>3. Foreseeable' /\ options'.execute => BatchHasOnly(m) /\ BatchHas(m)
  BY <1>1, <1>2 DEF PassesAgree
<1>4. Foreseeable' /\ options'.execute => BatchHasOnly(m)' /\ BatchHas(m)'
  BY <1>3, SameForeseen
<1>5. ~ options'.execute => batch' = <<>>
  BY DEF PassesAgree
<1>6. n' = m
  BY <1>1, <1>2
<1> QED BY <1>4, <1>5, <1>6 DEF HeadersAreTaken, PassesAgree

----------------------------------------------------------------------------
(* The selection of the second pass, whatever the backend does.            *)

LEMMA NothingCounted ==
  ASSUME TypeInv, pc = "rows", file = 0, todo = <<>>, summary = ZeroSummary, groups = {}
  PROVE  SelectionIsCounted
<1>1. Taken = 0
  <2>1. Joined(InputRows, 0) = <<>>
    BY JoinedSteps
  <2> QED BY <2>1 DEF Taken
<1>2. Met(0) = 0
  BY AscendingSteps DEF Met
<1>3. GroupsAmong(0) = {} /\ Cardinality(GroupsAmong(0)) = 0
  BY AmongGrow, FS_EmptySet
<1>4. WithinLimits(0)
  <2>1. options.limitStates \in Nat /\ options.limitInstructions \in Nat
    BY DEF TypeInv, IsOptions
  <2> QED BY <1>3, <2>1 DEF WithinLimits
<1>5. summary.selectedRows = 0
  BY DEF ZeroSummary
<1> QED BY <1>1, <1>2, <1>3, <1>4, <1>5 DEF SelectionIsCounted

LEMMA OpenCounts ==
  ASSUME TypeInv, RowsAreTaken, SelectionIsCounted, OpenForRows
  PROVE  SelectionIsCounted'
<1>1. /\ pc = "rows" /\ ~ NoMoreInputs /\ UNCHANGED <<scenario, options, groups>>
      /\ pc' \in {"rows", "aborted"}
  BY DEF OpenForRows, world, Throw
<1> SUFFICES ASSUME pc' = "rows" PROVE SelectionIsCounted'
  BY <1>1 DEF SelectionIsCounted
<1>2. summary'.selectedRows = summary.selectedRows
  <2>1. summary \in [DOMAIN ZeroSummary -> Nat]
    BY DEF TypeInv, TypeOK
  <2>2. summary' = [summary EXCEPT
                     !.files = @ + 1,
                     !.groups = @ + Len(Corpus(NextInput).groups),
                     !.rows = @ + Len(RowsOf(NextInput)),
                     !.warnings = @ + Warnings(NextInput)]
    BY DEF OpenForRows, Throw
  <2> QED BY <2>1, <2>2 DEF ZeroSummary
<1>3. Taken' = Taken
  BY OpenTakes
<1> DEFINE n == summary.selectedRows
<1>4. groups = GroupsAmong(n) /\ WithinLimits(n) /\ n = Met(Taken)
  BY <1>1 DEF SelectionIsCounted
<1>5. PICK m : m = n
  OBVIOUS
<1>6. Met(Taken)' = Met(Taken)
  BY <1>1, <1>3, SameRows
<1>7. summary'.selectedRows = m
  BY <1>2, <1>5
<1> HIDE DEF n
<1>8. groups' = GroupsAmong(m)' /\ WithinLimits(m)' /\ m = Met(Taken)'
  BY <1>1, <1>4, <1>5, <1>6, SameLimits
<1> QED BY <1>7, <1>8 DEF SelectionIsCounted

\* A row that is selected is a candidate within the limits.
LEMMA SelectedIsWithin ==
  ASSUME TypeInv, OptionsAreAsked, RowsAreTaken, SelectionIsCounted, pc = "rows",
         todo # <<>>, Wanted(Head(todo)), ~ LimitReached(Head(todo))
  PROVE  LET n == summary.selectedRows
         IN  /\ n \in Nat /\ n = Met(Taken)
             /\ n + 1 \in 1..Len(Candidates) /\ Candidates[n + 1] = Head(todo)
             /\ Met(Taken + 1) = n + 1
             /\ WithinLimits(n + 1) /\ groups = GroupsAmong(n)
<1> DEFINE n == summary.selectedRows
<1>1. n = Met(Taken) /\ groups = GroupsAmong(n) /\ WithinLimits(n)
  BY DEF SelectionIsCounted
<1>2. /\ n \in Nat /\ n + 1 \in 1..Len(Candidates) /\ Candidates[n + 1] = Head(todo)
      /\ Met(Taken + 1) = n + 1
  BY <1>1, NextCandidate
<1>3. WithinLimits(n + 1)
  BY <1>1, <1>2, LimitIsReached
<1> QED BY <1>1, <1>2, <1>3

LEMMA RowCounts ==
  ASSUME TypeInv, OptionsAreAsked, RowsAreTaken, SelectionIsCounted, Row
  PROVE  SelectionIsCounted'
<1> DEFINE r == Head(todo)
           n == summary.selectedRows
<1>1. /\ pc = "rows" /\ pc' = "rows" /\ todo # <<>>
      /\ UNCHANGED <<scenario, options>>
      /\ Unwanted(r) \/ CutOff(r) \/ Selected(r)
  BY RowResult DEF Row
<1>2. groups = GroupsAmong(n) /\ WithinLimits(n) /\ n = Met(Taken)
  BY <1>1 DEF SelectionIsCounted
<1>3. PICK m \in Nat : m = n
  <2>1. n \in Nat
    BY <1>1, <1>2, NextCandidate
  <2> QED BY <2>1
<1>4. \A p : /\ Met(p)' = Met(p) /\ GroupsAmong(p)' = GroupsAmong(p)
             /\ WithinLimits(p)' = WithinLimits(p)
  BY <1>1, SameRows, SameLimits
<1> HIDE DEF r
<1>5. CASE Unwanted(r)
  <2>1. ~ Wanted(r) /\ todo' = Tail(todo) /\ UNCHANGED <<file, groups, summary>>
    BY <1>5 DEF Unwanted, counting
  <2>2. Taken' = Taken + 1
    BY <2>1, RowTakes
  <2>3. Met(Taken + 1) = Met(Taken)
    BY <1>1, <2>1, NextCandidate DEF r
  <2>4. m = Met(Taken)'
    BY <1>2, <1>3, <1>4, <2>2, <2>3
  <2>5. groups' = GroupsAmong(m)' /\ WithinLimits(m)' /\ summary'.selectedRows = m
    BY <1>2, <1>3, <1>4, <2>1
  <2> QED BY <2>4, <2>5 DEF SelectionIsCounted
<1>6. CASE CutOff(r)
  <2>1. todo' = <<>> /\ file' = Len(options.inputs) /\ UNCHANGED <<groups, summary>>
    BY <1>6 DEF CutOff, Stop, counting
  <2>2. groups' = GroupsAmong(m)' /\ WithinLimits(m)' /\ summary'.selectedRows = m
    BY <1>2, <1>3, <1>4, <2>1
  <2> QED BY <1>1, <2>1, <2>2 DEF SelectionIsCounted, NoMoreInputs
<1>7. CASE Selected(r)
  <2>1. /\ Wanted(r) /\ ~ LimitReached(r)
        /\ Account(r, Verdict(r, answer'[r.key]))
        /\ \/ todo' = <<>> /\ file' = Len(options.inputs)
           \/ todo' = Tail(todo) /\ UNCHANGED file
    BY <1>7 DEF Selected, Stop
  <2>2. /\ Candidates[m + 1] = r /\ Met(Taken + 1) = m + 1
        /\ WithinLimits(m + 1) /\ groups = GroupsAmong(m)
    BY <1>1, <1>3, <2>1, SelectedIsWithin DEF r
  <2>3. groups' = groups \cup {r.group} /\ summary'.selectedRows = m + 1
    <3>1. summary \in [DOMAIN ZeroSummary -> Nat]
      BY DEF TypeInv, TypeOK
    <3> QED BY <1>3, <2>1, <3>1, AccountResult
  <2>4. groups' = GroupsAmong(m + 1)' /\ WithinLimits(m + 1)'
    <3>1. groups' = GroupsAmong(m + 1)
      BY <2>2, <2>3, AmongGrow
    <3> QED BY <1>4, <2>2, <3>1
  <2>5. CASE todo' = <<>> /\ file' = Len(options.inputs)
    BY <1>1, <2>3, <2>4, <2>5 DEF SelectionIsCounted, NoMoreInputs
  <2>6. CASE todo' = Tail(todo) /\ UNCHANGED file
    <3>1. Taken' = Taken + 1
      BY <2>6, RowTakes
    <3>2. m + 1 = Met(Taken)'
      BY <1>4, <2>2, <3>1
    <3> QED BY <2>3, <2>4, <3>2 DEF SelectionIsCounted
  <2> QED BY <2>1, <2>5, <2>6
<1> QED BY <1>1, <1>5, <1>6, <1>7


----------------------------------------------------------------------------
(* The passes agree.                                                       *)

LEMMA InitPasses == Init => PassesInv
<1> SUFFICES ASSUME Init PROVE PassesInv
  OBVIOUS
<1>1. pc = "arguments" /\ reached.rows = 0 /\ reached.groups = 0
  BY DEF Init
<1> QED BY <1>1, InitResults
        DEF PassesInv, HeadersAreTaken, PassesAgree, SelectionIsCounted

LEMMA StutterPasses ==
  ASSUME PassesInv, UNCHANGED vars
  PROVE  HeadersAreTaken' /\ PassesAgree' /\ SelectionIsCounted'
<1>1. UNCHANGED <<scenario, options, pc, file, todo, batch, reached, groups, summary>>
  BY DEF vars, world, preparing, counting
<1>2. /\ InputRows' = InputRows /\ Candidates' = Candidates
      /\ \A p : Corpus(p)' = Corpus(p) /\ Met(p)' = Met(p)
  BY <1>1, SameRows
<1>3. HeaderOpen' = HeaderOpen /\ Looked' = Looked /\ Taken' = Taken
  BY <1>1, <1>2 DEF HeaderOpen, Looked, Taken
<1>4. RowsPassed' = RowsPassed
  <2>1. GroupedRows(HeaderOpen)' = GroupedRows(HeaderOpen)
    BY <1>2, <1>3 DEF GroupedRows, RowsOfGroup, RowAt
  <2> QED BY <1>1, <1>2, <1>3, <2>1 DEF RowsPassed
<1>5. HeadersAreTaken'
  BY <1>1, <1>2, <1>3 DEF PassesInv, HeadersAreTaken
<1>6. \A n : /\ GroupsArePassed(n)' = GroupsArePassed(n)
             /\ BatchHasOnly(n)' = BatchHasOnly(n) /\ BatchHas(n)' = BatchHas(n)
             /\ Room(n)' = Room(n) /\ GroupsAmong(n)' = GroupsAmong(n)
             /\ WithinLimits(n)' = WithinLimits(n)
  <2>1. \A n : GroupsArePassed(n)' = GroupsArePassed(n)
    BY <1>1, <1>2, <1>3 DEF GroupsArePassed
  <2> QED BY <1>1, <2>1, SameForeseen, SameLimits
<1>7. ForeseenSoFar' = ForeseenSoFar /\ Foreseeable' = Foreseeable
  <2>1. Met(RowsPassed)' = Met(RowsPassed)
    BY <1>2, <1>4
  <2>2. PICK m : m = Met(RowsPassed)
    OBVIOUS
  <2>3. Met(RowsPassed)' = m
    BY <2>1, <2>2
  <2> QED BY <1>1, <1>6, <2>2, <2>3, SameLimits DEF ForeseenSoFar
<1>8. PassesAgree'
  <2>1. PICK m : m = Len(Candidates)
    OBVIOUS
  <2>2. Len(Candidates)' = m
    BY <1>2, <2>1
  <2>3. BatchHasOnly(m)' = BatchHasOnly(m) /\ BatchHas(m)' = BatchHas(m)
    BY <1>6
  <2> QED BY <1>1, <1>7, <2>1, <2>2, <2>3 DEF PassesInv, PassesAgree
<1>9. SelectionIsCounted'
  <2>1. PICK m : m = summary.selectedRows
    OBVIOUS
  <2>2. summary'.selectedRows = m /\ Met(Taken)' = Met(Taken) /\ (NoMoreInputs' <=> NoMoreInputs)
    BY <1>1, <1>2, <1>3, <2>1 DEF NoMoreInputs
  <2>3. GroupsAmong(m)' = GroupsAmong(m) /\ WithinLimits(m)' = WithinLimits(m)
    BY <1>6
  <2> QED BY <1>1, <2>1, <2>2, <2>3 DEF PassesInv, SelectionIsCounted
<1> QED BY <1>5, <1>8, <1>9

LEMMA NextPasses == PassesInv /\ [Next]_vars => PassesInv'
<1> SUFFICES ASSUME PassesInv, [Next]_vars PROVE PassesInv'
  OBVIOUS
<1>1. /\ ResultInv /\ TypeInv /\ OptionsAreAsked /\ RowsAreTaken /\ BatchLinks
      /\ HeadersAreTaken /\ PassesAgree /\ SelectionIsCounted
  BY DEF PassesInv, ResultInv
<1>2. ResultInv' /\ TypeInv'
  BY <1>1, NextResults DEF ResultInv
<1>3. CASE ParseArgument
  <2>1. /\ pc = "arguments" /\ pc' \in {"arguments", "aborted"} /\ UNCHANGED reached
    BY <1>3 DEF ParseArgument, Throw, preparing
  <2> QED BY <1>1, <1>2, <2>1 DEF PassesInv, HeadersAreTaken, PassesAgree, SelectionIsCounted
<1>4. CASE Launch
  <2>1. /\ pc = "arguments" /\ todo = <<>> /\ file = 0
        /\ UNCHANGED <<file, todo, groups, summary>>
        /\ summary = ZeroSummary /\ groups = {}
    BY <1>1, <1>4 DEF Launch, counting, TypeInv, PhasesKeepOrder
  <2>2. HeadersAreTaken' /\ PassesAgree'
    BY <1>1, <1>2, <1>4, LaunchAgrees
  <2>3. CASE pc' = "rows"
    <3>1. (/\ pc = "rows" /\ file = 0 /\ todo = <<>> /\ summary = ZeroSummary
           /\ groups = {})'
      BY <2>1, <2>3
    <3>2. SelectionIsCounted'
      BY <1>2, <3>1, NothingCounted, PTL
    <3> QED BY <1>2, <2>2, <3>2 DEF PassesInv
  <2>4. CASE pc' # "rows"
    BY <1>2, <2>2, <2>4 DEF PassesInv, SelectionIsCounted
  <2> QED BY <2>3, <2>4
<1>5. CASE OpenForHeaders \/ HeadersEnd \/ PrepareHeader
  <2>1. HeadersAreTaken' /\ PassesAgree'
    BY <1>1, <1>5, OpenForHeadersAgrees, HeadersEndAgrees, PrepareHeaderAgrees
  <2>2. pc' \in {"prepare", "compile", "aborted"}
    BY <1>5 DEF OpenForHeaders, HeadersEnd, PrepareHeader, Throw
  <2> QED BY <1>2, <2>1, <2>2 DEF PassesInv, SelectionIsCounted
<1>6. CASE PrepareCases
  <2>1. /\ pc = "compile" /\ todo' = <<>>
        /\ UNCHANGED <<scenario, options, batch, groups, summary>>
        /\ summary = ZeroSummary /\ groups = {}
    BY <1>1, <1>6 DEF PrepareCases, world, preparing, counting, TypeInv, TodoIsTyped,
                      PhasesKeepOrder
  <2>2. \/ pc' = "aborted"
        \/ pc' = "rows" /\ file' = 0
    BY <1>6 DEF PrepareCases, Throw
  <2>3. HeadersAreTaken' /\ PassesAgree'
    BY <1>1, <2>1, <2>2, AgreedStays
  <2>4. CASE pc' = "aborted"
    BY <1>2, <2>3, <2>4 DEF PassesInv, SelectionIsCounted
  <2>5. CASE pc' = "rows" /\ file' = 0
    <3>1. (/\ pc = "rows" /\ file = 0 /\ todo = <<>> /\ summary = ZeroSummary
           /\ groups = {})'
      BY <2>1, <2>5
    <3>2. SelectionIsCounted'
      BY <1>2, <3>1, NothingCounted, PTL
    <3> QED BY <1>2, <2>3, <3>2 DEF PassesInv
  <2> QED BY <2>2, <2>4, <2>5
<1>7. CASE OpenForRows
  <2>1. /\ pc = "rows" /\ pc' \in {"rows", "aborted"} /\ UNCHANGED <<scenario, options, batch>>
    BY <1>7 DEF OpenForRows, world, preparing, Throw
  <2>2. HeadersAreTaken' /\ PassesAgree'
    BY <1>1, <2>1, AgreedStays
  <2>3. SelectionIsCounted'
    BY <1>1, <1>7, OpenCounts
  <2> QED BY <1>2, <2>2, <2>3 DEF PassesInv
<1>8. CASE Row
  <2>1. pc = "rows" /\ pc' = "rows" /\ UNCHANGED <<scenario, options, batch>>
    BY <1>1, <1>8, RowResult
  <2>2. HeadersAreTaken' /\ PassesAgree'
    BY <1>1, <2>1, AgreedStays
  <2>3. SelectionIsCounted'
    BY <1>1, <1>8, RowCounts
  <2> QED BY <1>2, <2>2, <2>3 DEF PassesInv
<1>9. CASE Finish
  <2>1. pc = "rows" /\ pc' = "done" /\ UNCHANGED <<scenario, options, batch>>
    BY <1>9 DEF Finish, world, preparing
  <2>2. HeadersAreTaken' /\ PassesAgree'
    BY <1>1, <2>1, AgreedStays
  <2> QED BY <1>2, <2>1, <2>2 DEF PassesInv, SelectionIsCounted
<1>10. CASE UNCHANGED vars
  BY <1>2, <1>10, StutterPasses DEF PassesInv
<1> QED BY <1>3, <1>4, <1>5, <1>6, <1>7, <1>8, <1>9, <1>10 DEF Next

LEMMA PassesInvariant == Spec => []PassesInv
  BY InitPasses, NextPasses, PTL DEF Spec

\* Without --stop-on-first-fail, what is within the limits is selected.
LEMMA WithinIsSelected ==
  ASSUME TypeInv, ~ options.stopOnFirstFail, NEW i \in 1..Len(Candidates), WithinLimits(i)
  PROVE  i \in 1..SelectedCount
<1> DEFINE N == Len(Candidates)
           T == {m \in Nat : m = N \/ (m < N /\ ~ WithinLimits(m + 1))}
<1>1. N \in Nat
  <2>1. Candidates \in Seq(RowsAround)
    BY RowsAreTyped
  <2> QED BY <2>1
<1>2. PICK m \in T : \A k \in T : m <= k
  <2>1. N \in T /\ T \subseteq Nat
    BY <1>1
  <2> HIDE DEF T
  <2> QED BY <2>1, LeastNumber
<1>3. m \in 0..N /\ (m = N \/ ~ WithinLimits(m + 1))
  BY <1>1, <1>2
<1>4. WithinLimits(m)
  <2>1. CASE m = 0
    <3>1. 0 <= i /\ i \in Nat
      BY <1>1
    <3> QED BY <2>1, <3>1, FewerAreWithin
  <2>2. CASE m # 0
    <3>1. m - 1 \in Nat /\ m - 1 < N /\ m - 1 + 1 = m
      BY <1>1, <1>3, <2>2
    <3>2. m - 1 \notin T
      BY <1>2, <1>3, <3>1
    <3> QED BY <3>1, <3>2
  <2> QED BY <2>1, <2>2
<1> HIDE DEF T
<1>5. m = SelectedCount
  <2>1. \/ m = Len(Candidates)
        \/ ~ WithinLimits(m + 1)
    BY <1>3
  <2>2. m \in 0..Len(Candidates)
    BY <1>3
  <2> HIDE DEF N
  <2> QED BY <1>4, <2>1, <2>2, OneSelection
<1>6. i <= m
  <2> SUFFICES ASSUME m + 1 <= i PROVE FALSE
    BY <1>1, <1>3
  <2>1. m # N
    BY <1>1, <1>3
  <2>2. WithinLimits(m + 1)
    <3>1. m + 1 \in Nat /\ i \in Nat
      BY <1>1, <1>3
    <3> QED BY <3>1, FewerAreWithin
  <2> QED BY <1>3, <2>1, <2>2
<1> QED BY <1>1, <1>3, <1>5, <1>6

\* Every key the first pass puts into the batch has a row that the second pass
\* selects, whatever the filters and limits: the two loops of Run read other
\* things, headers and rows, and count differently, but stop at the same place.
THEOREM BatchSelected == Spec => []BatchIsSelected
<1>1. PassesInv => BatchIsSelected
  <2> SUFFICES ASSUME PassesInv, Foreseeable, ~ options.stopOnFirstFail, pc = "done",
                      NEW k \in ToSet(batch)
               PROVE  k \in SelectedKeys
    BY DEF BatchIsSelected
  <2>1. options.execute
    <3>1. ToSet(<<>>) = {}
      BY DEF ToSet
    <3> QED BY <3>1 DEF PassesInv, PassesAgree
  <2>2. PICK i \in 1..Len(Candidates) : WithinLimits(i) /\ Candidates[i].key = k
    BY <2>1 DEF PassesInv, PassesAgree, BatchHasOnly
  <2>3. i \in 1..SelectedCount
    BY <2>2, WithinIsSelected DEF PassesInv, ResultInv
  <2> QED BY <2>2, <2>3 DEF SelectedKeys
<1> QED BY <1>1, PassesInvariant, PTL

\* An instruction that is skipped for its header is skipped for every row.
LEMMA SkippedForHeader ==
  ASSUME NEW i, NEW text, NEW row, NEW missing \in BOOLEAN,
         PreExecutionSkip(i, text, HeaderOnly, FALSE) # NoSkip
  PROVE  PreExecutionSkip(i, text, row, missing) # NoSkip
<1> DEFINE m == Decode(i)
<1>1. ~ UsesMmxState(HeaderOnly)
  BY DEF UsesMmxState, HeaderOnly
<1>2. ~ IsExpectedExceptionUnsupported(m, HeaderOnly)
  BY DEF IsExpectedExceptionUnsupported, HeaderOnly
<1>3. ~ IsDescriptorStateUnsupported(m, text, HeaderOnly)
  <2>1. HeaderOnly.scalars = <<>> /\ DOMAIN <<>> = {}
    BY DEF HeaderOnly
  <2>2. DescriptorSourceSelector(text, HeaderOnly) = {}
    BY <2>1 DEF DescriptorSourceSelector
  <2>3. {HeaderOnly.scalars[k] : k \in DOMAIN HeaderOnly.scalars} = {}
    BY <2>1
  <2>4. ~ HasVariableDescriptorSelector(text, HeaderOnly)
    BY <2>2, <2>3 DEF HasVariableDescriptorSelector
  <2> QED BY <2>4 DEF IsDescriptorStateUnsupported
<1>4. IsFpuUnsupported(m, HeaderOnly) => IsFpuUnsupported(m, row)
  <2>1. HeaderOnly.stack = {}
    BY DEF HeaderOnly
  <2>2. CASE m.iclass \in MovesStackValues
    <3>1. m.iclass \notin LeavesStackValues
      BY <2>2 DEF MovesStackValues, LeavesStackValues
    <3>2. ~ IsFpuUnsupported(m, HeaderOnly)
      BY <2>1, <2>2, <3>1 DEF IsFpuUnsupported
    <3> QED BY <3>2
  <2>3. CASE m.iclass \notin MovesStackValues
    BY <2>3 DEF IsFpuUnsupported
  <2> QED BY <2>2, <2>3
<1> HIDE DEF m
<1>5. \/ ~ m.ok \/ LengthDiffers(i)
      \/ IsFpuUnsupported(m, row)
      \/ IsPrivilegedOrIoUnsupported(m) \/ IsEnvironmentReadUnsupported(m)
      \/ m.iclass = "CMPXCHG16B" \/ m.iclass = "POPFQ"
  BY <1>1, <1>2, <1>3, <1>4 DEF PreExecutionSkip, NoSkip, m
<1> QED BY <1>5 DEF PreExecutionSkip, NoSkip, m

\* What the second pass has the backend compile on demand was kept out of the
\* batch on purpose: any other key it asks for has been prepared.
THEOREM TrapsCompileOnDemand == Spec => OnlyTrapsCompileOnDemand
<1>1. ASSUME PassesInv, [Next]_vars, pc = "rows", Foreseeable, NEW k \in Keys,
             answer'[k] # answer[k]
      PROVE  Backend!Prepared(k) \/ IsTrap(k)
  <2> DEFINE r == Head(todo)
  <2>1. /\ TypeInv /\ OptionsAreAsked /\ RowsAreTaken /\ BatchLinks
        /\ PassesAgree /\ SelectionIsCounted
    BY <1>1 DEF PassesInv, ResultInv
  <2>2. todo # <<>> /\ Selected(r)
    <3>1. OpenForRows \/ Row \/ Finish
      BY <1>1 DEF Next, vars, backend, ParseArgument, Launch, OpenForHeaders, HeadersEnd,
                  PrepareHeader, PrepareCases
    <3>2. Row
      BY <1>1, <3>1 DEF OpenForRows, Finish, backend
    <3>3. \/ UNCHANGED answer
          \/ todo # <<>> /\ Selected(r)
      BY <2>1, <3>2, RowResult
    <3> QED BY <1>1, <3>3
  <2>3. Wanted(r) /\ ~ LimitReached(r) /\ Compile(r)
    BY <2>2 DEF Selected
  <2>4. options.execute /\ SkipOf(r) = NoSkip /\ Backend!Demand(r.key)
    BY <1>1, <2>3 DEF Compile
  <2>5. k = r.key
    <3>1. answer \in [Keys -> {"none", "ready", "unsupported", "backend"}]
      BY <2>1 DEF TypeInv, TypeOK
    <3>2. PICK a : answer' = [answer EXCEPT ![r.key] = a]
      BY <2>4 DEF Backend!Demand
    <3> QED BY <1>1, <3>1, <3>2
  <2> DEFINE n == summary.selectedRows
  <2>6. /\ n + 1 \in 1..Len(Candidates) /\ Candidates[n + 1] = r /\ WithinLimits(n + 1)
    BY <1>1, <2>1, <2>2, <2>3, SelectedIsWithin
  <2>7. BatchHas(Len(Candidates))
    BY <1>1, <2>1, <2>4 DEF PassesAgree
  <2>8. r.key \in ToSet(batch) \/ NotForBatch(r)
    BY <2>6, <2>7 DEF BatchHas
  <2>9. CASE r.key \in ToSet(batch)
    <3>1. prepared = "done"
      BY <1>1, <2>1, <2>4 DEF BatchLinks
    <3> QED BY <2>5, <2>9, <3>1 DEF Backend!Prepared
  <2>10. CASE NotForBatch(r)
    <3>1. PreExecutionSkip(Instruction(r.key), r.text, HeaderOnly, FALSE) = NoSkip
      <4>1. MemoryStateMissing(r) \in BOOLEAN
        BY DEF MemoryStateMissing
      <4> QED BY <2>4, <4>1, SkippedForHeader DEF SkipOf
    <3> QED BY <2>5, <2>10, <3>1 DEF NotForBatch
  <2> QED BY <2>8, <2>9, <2>10
<1>2. PassesInv /\ [Next]_vars =>
        [pc = "rows" /\ Foreseeable =>
           \A k \in Keys :
             answer'[k] # answer[k] => Backend!Prepared(k) \/ IsTrap(k)]_vars
  BY <1>1
<1> QED BY <1>2, PassesInvariant, PTL DEF Spec, OnlyTrapsCompileOnDemand

=============================================================================
