------------------------------ MODULE TestRun -------------------------------
(***************************************************************************)
(* main and Run (tester_main.cpp): one run of the tester, from its command *)
(* line to its exit code.                                                  *)
(*                                                                         *)
(* With --execute there are two passes over the inputs.  The first reads   *)
(* only instruction headers, guesses from their declared row counts which  *)
(* of them the limits will reach, and has the backend compile those in one *)
(* batch.  The second parses the files, selects rows under the same        *)
(* limits, runs them and does the accounting.  Nothing ties the two        *)
(* selections together but the text of the two loops.                      *)
(*                                                                         *)
(* The backend is CompileService, which JitCache implements.  What a file  *)
(* parses to, what XED makes of an instruction and what a row comes to     *)
(* once it is called are data.                                             *)
(***************************************************************************)
EXTENDS Integers, Sequences, FiniteSets, SequencesExt, CommandLine, SkipRules

CONSTANTS
  Keys,        \* the (address, opcode) pairs
  Paths,       \* the input files
  Unwritable,  \* the paths no report can be written to
  Scenarios    \* the worlds the tester is started in

Fates == {"ok", "decode", "lift", "unresolved"}

(***************************************************************************)
(* What a row comes to when its code is called: equal to its expectation   *)
(* or not, or unsupported, for one of the reasons that UnsupportedReason   *)
(* tells apart.                                                            *)
(***************************************************************************)
Outcomes == {"equal", "different", "stateKey", "stateBytes", "exception"}

IsRow(r) ==
  /\ DOMAIN r = DOMAIN HeaderOnly \cup {"outcome"}
  /\ r.stack \subseteq StackValues
  /\ r.mmx \subseteq StateMaps
  /\ r.cells \in BOOLEAN /\ r.exception \in BOOLEAN
  /\ r.outcome \in Outcomes

IsGroup(g) ==
  /\ g.key \in Keys /\ g.declared \in Nat
  /\ g.rows \in Seq(ToSet(g.rows))
  /\ \A i \in DOMAIN g.rows : IsRow(g.rows[i])

\* A file throws while its headers are read, or only later, or never.
IsFile(f) ==
  /\ f.throws \in {"never", "header", "row"}
  /\ f.groups \in Seq(ToSet(f.groups))
  /\ \A i \in DOMAIN f.groups : IsGroup(f.groups[i])

ASSUME TestRunAssumption ==
  \A s \in Scenarios :
    /\ s.instructions \in [Keys -> Instructions] /\ s.fates \in [Keys -> Fates]
    /\ DOMAIN s.corpus = Paths /\ \A p \in Paths : IsFile(s.corpus[p])
    /\ s.args \in Seq(STRING)
    /\ s.selfTests \in BOOLEAN /\ s.mayFail \in BOOLEAN

VARIABLES
  scenario, \* what is run, on what (external)
  options,  \* Options
  waiting,  \* the option whose value is the next argument
  pc,       \* "arguments", "prepare", "compile", "rows"; "done", "usage", "aborted"
  file,     \* how many inputs the pass in progress has opened
  todo,     \* the arguments, headers or rows of the open file still to come
  batch,    \* prepare_rows, as keys
  reached,  \* prepare_selected_groups and prepare_selected_rows
  prepared, \* what PrepareCases returned
  answer,   \* what RunCase last came to for each key, as far as the compile goes
  groups,   \* selected_groups
  decoded,  \* the keys of decode_cache
  summary,  \* Summary
  report,   \* the rows in the two reports, and skip_reasons
  exit      \* the exit code

\* What a path that names no file comes to: it cannot be opened.
NoFile == [groups |-> <<>>, throws |-> "header"]

Corpus(path) == IF path \in Paths THEN scenario.corpus[path] ELSE NoFile
Instruction(k) == scenario.instructions[k]
FateOf(k) == scenario.fates[k]

world == <<scenario, options, waiting>>
preparing == <<batch, reached>>
backend == <<prepared, answer>>
counting == <<groups, decoded, summary, report>>
vars == <<world, pc, file, todo, preparing, backend, counting, exit>>

Backend ==
  INSTANCE CompileService
    WITH fate <- scenario.fates,
         mayFail <- scenario.mayFail,
         batch <- IF prepared = "no" THEN {} ELSE ToSet(batch),
         verdict <- answer

ZeroSummary ==
  [files |-> 0, groups |-> 0, rows |-> 0, warnings |-> 0,
   selectedGroups |-> 0, selectedRows |-> 0, uniqueDecodes |-> 0,
   decodeFailures |-> 0, lengthMismatches |-> 0, withoutOracle |-> 0,
   passed |-> 0, failed |-> 0, skipped |-> 0]

\* The lines of the two reports, and skip_reasons.
NoLines == [mismatches |-> <<>>, skips |-> <<>>, reasons |-> <<>>]

Init ==
  /\ scenario \in Scenarios
  /\ options = DefaultOptions
  /\ waiting = ""
  /\ pc = "arguments"
  /\ file = 0
  /\ todo = scenario.args
  /\ batch = <<>>
  /\ reached = [groups |-> 0, rows |-> 0]
  /\ prepared = "no"
  /\ answer = [k \in Keys |-> "none"]
  /\ groups = {}
  /\ decoded = {}
  /\ summary = ZeroSummary
  /\ report = NoLines
  /\ exit = 0

\* An exception leaves Run; main prints it and returns 1.
Throw == pc' = "aborted" /\ exit' = 1

Usage(code) == pc' = "usage" /\ exit' = code

NextInput == options.inputs[file + 1]

NoMoreInputs == file = Len(options.inputs)

\* `count' reaches the limit, where 0 is no limit.
Reaches(count, limit) == limit # 0 /\ count >= limit

\* The filters, on the text of a header or a row.
Wanted(x) ==
  /\ options.mnemonics # {} => x.text.mnemonic \in options.mnemonics
  /\ options.opcodes # {} => x.key.opcode \in options.opcodes

----------------------------------------------------------------------------
(* main, and Run up to its loops.                                          *)

\* Both reports are opened, and emptied, before anything is read.
ReportsOpen ==
  {options.reportJsonl, options.reportSkipsJsonl} \cap Unwritable = {}

ParseArgument ==
  /\ pc = "arguments" /\ todo # <<>>
  /\ IF Refuses(waiting, Head(todo))
       THEN Throw /\ UNCHANGED <<options, waiting>>
       ELSE /\ options' = OptionsAfter(options, waiting, Head(todo))
            /\ waiting' = WaitingAfter(waiting, Head(todo))
            /\ UNCHANGED <<pc, exit>>
  /\ todo' = Tail(todo)
  /\ UNCHANGED <<scenario, file, preparing, backend, counting>>

IsMalformed ==
  waiting # "" \/ ~ ToSet(options.inputDirs) \subseteq DOMAIN Directory

\* The directories are opened when all arguments have been seen.
Launch ==
  /\ pc = "arguments" /\ todo = <<>>
  /\ IF IsMalformed
       THEN Throw /\ UNCHANGED options
       ELSE /\ options' = WithDirectories(options)
            /\ IF options.help THEN Usage(0)
               ELSE IF options.selfTest /\ ~ scenario.selfTests THEN Throw
               ELSE IF options'.inputs = <<>> THEN
                 Usage(IF options.selfTest THEN 0 ELSE 2)
               ELSE IF ~ ReportsOpen THEN Throw
               ELSE /\ pc' = IF options.execute THEN "prepare" ELSE "rows"
                    /\ UNCHANGED exit
  /\ UNCHANGED <<scenario, waiting, file, todo, preparing, backend, counting>>

----------------------------------------------------------------------------
(* The first pass.                                                         *)

\* ParseInstructionHeaders.
OpenForHeaders ==
  /\ pc = "prepare" /\ todo = <<>> /\ ~ NoMoreInputs
  /\ file' = file + 1
  /\ IF Corpus(NextInput).throws = "header"
       THEN Throw /\ UNCHANGED todo
       ELSE todo' = Corpus(NextInput).groups /\ UNCHANGED <<pc, exit>>
  /\ UNCHANGED <<world, preparing, backend, counting>>

HeadersEnd ==
  /\ pc = "prepare" /\ todo = <<>> /\ NoMoreInputs
  /\ pc' = "compile"
  /\ UNCHANGED <<world, file, todo, preparing, backend, counting, exit>>

\* The iclasses that are kept out of the batch.
Traps == {"INT", "INT3", "UD2", "SYSCALL", "SYSENTER", "SYSEXIT"}

IsTrap(k) == Decode(Instruction(k)).iclass \in Traps

\* A defect: the cells that a header does not list count as missing.
NotForBatchWithoutCells(h) ==
  \/ PreExecutionSkip(Instruction(h.key), h.text, HeaderOnly,
                      RequiresMemoryOracle(Decode(Instruction(h.key)))) # NoSkip
  \/ IsTrap(h.key)

NotForBatch(h) ==
  \/ PreExecutionSkip(Instruction(h.key), h.text, HeaderOnly, FALSE) # NoSkip
  \/ IsTrap(h.key)

AddToBatch(h) ==
  batch' = IF NotForBatch(h) \/ h.key \in ToSet(batch) THEN batch
                                                      ELSE Append(batch, h.key)

\* remaining: the states of the group that the limit leaves room for.
RowsLeft(h) ==
  LET room == options.limitStates - reached.rows
  IN  IF options.limitStates = 0 \/ h.declared <= room THEN h.declared ELSE room

\* A defect: a limit stops the loop only once it is exceeded.
PrepareLimitExceeded ==
  \/ Reaches(reached.rows - 1, options.limitStates)
  \/ Reaches(reached.groups - 1, options.limitInstructions)

PrepareLimitReached ==
  \/ Reaches(reached.rows, options.limitStates)
  \/ Reaches(reached.groups, options.limitInstructions)

PrepareHeader ==
  /\ pc = "prepare" /\ todo # <<>>
  /\ LET h == Head(todo)
     IN  IF ~ Wanted(h) THEN
           todo' = Tail(todo) /\ UNCHANGED <<pc, preparing>>
         ELSE IF PrepareLimitReached THEN
           pc' = "compile" /\ todo' = <<>> /\ UNCHANGED preparing
         ELSE
           /\ reached' = [groups |-> reached.groups + 1,
                          rows |-> reached.rows + RowsLeft(h)]
           /\ AddToBatch(h)
           /\ todo' = Tail(todo)
           /\ UNCHANGED pc
  /\ UNCHANGED <<world, file, backend, counting, exit>>

PrepareCases ==
  /\ pc = "compile"
  /\ UNCHANGED <<world, todo, preparing, counting>>
  /\ Backend!Prepare(ToSet(batch))
  /\ UNCHANGED answer
  /\ IF prepared' = "failed"
       THEN Throw /\ UNCHANGED file
       ELSE pc' = "rows" /\ file' = 0 /\ UNCHANGED exit

----------------------------------------------------------------------------
(* The second pass.                                                        *)

\* corpus.rows: the rows of a file, each with its group, key and text.
RowsOf(path) ==
  LET gs == Corpus(path).groups
  IN  FlattenSeq([i \in DOMAIN gs |->
        [j \in DOMAIN gs[i].rows |->
          [group |-> <<path, i>>, index |-> j, key |-> gs[i].key,
           text |-> gs[i].text, row |-> gs[i].rows[j]]]])

\* finish_group, for every group of a file.
Warnings(path) ==
  Cardinality({i \in DOMAIN Corpus(path).groups :
    Corpus(path).groups[i].declared # Len(Corpus(path).groups[i].rows)})

OpenForRows ==
  /\ pc = "rows" /\ todo = <<>> /\ ~ NoMoreInputs
  /\ file' = file + 1
  /\ IF Corpus(NextInput).throws # "never"
       THEN Throw /\ UNCHANGED <<todo, summary>>
       ELSE /\ todo' = RowsOf(NextInput)
            /\ summary' = [summary EXCEPT
                 !.files = @ + 1,
                 !.groups = @ + Len(Corpus(NextInput).groups),
                 !.rows = @ + Len(RowsOf(NextInput)),
                 !.warnings = @ + Warnings(NextInput)]
            /\ UNCHANGED <<pc, exit>>
  /\ UNCHANGED <<world, preparing, backend, groups, decoded, report>>

MemoryStateMissing(r) ==
  RequiresMemoryOracle(Decode(Instruction(r.key))) /\ ~ r.row.cells

SkipOf(r) ==
  PreExecutionSkip(Instruction(r.key), r.text, r.row, MemoryStateMissing(r))

\* RunCase, as far as the compile goes.
Compile(r) ==
  /\ UNCHANGED prepared
  /\ IF options.execute /\ SkipOf(r) = NoSkip
       THEN Backend!Demand(r.key)
       ELSE UNCHANGED answer

UnsupportedOutcomes == Outcomes \ {"equal", "different"}

\* What the row comes to when its compile comes to a.
Verdict(r, a) ==
  IF ~ options.execute THEN "none"
  ELSE IF SkipOf(r) # NoSkip \/ a = "unsupported" THEN "skipped"
  ELSE IF a = "backend" THEN "failed"
  ELSE CASE r.row.outcome \in UnsupportedOutcomes -> "skipped"
         [] r.row.outcome = "different"           -> "failed"
         [] r.row.outcome = "equal"               -> "passed"

\* UnsupportedReason, and the reason of PreExecutionSkip if there is one.
Reason(r) ==
  IF SkipOf(r) # NoSkip THEN SkipOf(r)
  ELSE CASE FateOf(r.key) = "lift"                -> "unsupported:remill_lift"
         [] FateOf(r.key) = "decode"              -> "unsupported:remill_decode"
         [] OTHER -> CASE r.row.outcome = "stateKey"   -> "unsupported:state_key"
                       [] r.row.outcome = "stateBytes" -> "unsupported:state_bytes"
                       [] r.row.outcome = "exception"  -> "unsupported:exception"

\* decode_cache: a key is decoded, and its failure counted, once per run.
FirstOf(r, condition) == IF r.key \notin decoded /\ condition THEN 1 ELSE 0

One(condition) == IF condition THEN 1 ELSE 0

Account(r, verdict) ==
  /\ groups' = groups \cup {r.group}
  /\ decoded' = decoded \cup {r.key}
  /\ summary' = [summary EXCEPT
       !.selectedGroups = @ + One(r.group \notin groups),
       !.uniqueDecodes = @ + FirstOf(r, TRUE),
       !.decodeFailures = @ + FirstOf(r, ~ Decode(Instruction(r.key)).ok),
       !.lengthMismatches = @ + FirstOf(r, LengthDiffers(Instruction(r.key))),
       !.selectedRows = @ + 1,
       !.withoutOracle = @ + One(MemoryStateMissing(r)),
       !.passed = @ + One(verdict = "passed"),
       !.failed = @ + One(verdict = "failed"),
       !.skipped = @ + One(verdict = "skipped")]

IdOf(r) == <<r.group, r.index>>

Counted(reasons, reason) ==
  [x \in DOMAIN reasons \cup {reason} |->
     IF x \in DOMAIN reasons THEN reasons[x] + One(x = reason) ELSE 1]

WithLine(lines, path, line) == IF path = NoPath THEN lines ELSE Append(lines, line)

\* A defect: only the skips before execution are written to the report.
OnlySkipsBefore(r) == IF SkipOf(r) = NoSkip THEN report.skips
                      ELSE WithLine(report.skips, options.reportSkipsJsonl,
                                    [id |-> IdOf(r), reason |-> Reason(r)])

SkipLines(r) == WithLine(report.skips, options.reportSkipsJsonl,
                         [id |-> IdOf(r), reason |-> Reason(r)])

\* RecordSkip and WriteSkipJson, or WriteMismatchJson, of which one line per
\* row is kept.
WriteReport(r, verdict) ==
  report' =
    CASE verdict = "skipped" ->
           [report EXCEPT !.reasons = Counted(@, Reason(r)), !.skips = SkipLines(r)]
      [] verdict = "failed" ->
           [report EXCEPT !.mismatches = WithLine(@, options.reportJsonl, IdOf(r))]
      [] OTHER -> report

\* A defect: a row of a group that is selected already is cut off too.
LimitReachedByAnyRow(r) ==
  \/ Reaches(summary.selectedRows, options.limitStates)
  \/ Reaches(Cardinality(groups), options.limitInstructions)

LimitReached(r) ==
  \/ Reaches(summary.selectedRows, options.limitStates)
  \/ r.group \notin groups /\ Reaches(Cardinality(groups), options.limitInstructions)

\* A defect: the next file is passed over, not all of them.
StopThisFile == todo' = <<>> /\ file' = file + 1

\* stop: neither another row nor another file.
Stop == todo' = <<>> /\ file' = Len(options.inputs)

\* A defect: the loop is continued before it has moved on.
UnwantedAgain(r) == ~ Wanted(r) /\ UNCHANGED <<todo, file, backend, counting>>

Unwanted(r) ==
  /\ ~ Wanted(r)
  /\ todo' = Tail(todo)
  /\ UNCHANGED <<file, backend, counting>>

CutOff(r) ==
  /\ Wanted(r) /\ LimitReached(r)
  /\ Stop
  /\ UNCHANGED <<backend, counting>>

Selected(r) ==
  /\ Wanted(r) /\ ~ LimitReached(r)
  /\ Compile(r)
  /\ LET verdict == Verdict(r, answer'[r.key])
     IN  /\ Account(r, verdict)
         /\ WriteReport(r, verdict)
         /\ IF verdict = "failed" /\ options.stopOnFirstFail
              THEN Stop
              ELSE todo' = Tail(todo) /\ UNCHANGED file

Row ==
  /\ pc = "rows" /\ todo # <<>>
  /\ UNCHANGED <<world, pc, preparing, exit>>
  /\ Unwanted(Head(todo)) \/ CutOff(Head(todo)) \/ Selected(Head(todo))

\* A defect: mismatches do not reach the exit code.
ExitCodeOfDecodes ==
  One(~ (summary.decodeFailures = 0 /\ summary.lengthMismatches = 0))

ExitCode ==
  One(~ (/\ summary.decodeFailures = 0
         /\ summary.lengthMismatches = 0
         /\ summary.failed = 0))

Finish ==
  /\ pc = "rows" /\ todo = <<>> /\ NoMoreInputs
  /\ pc' = "done"
  /\ exit' = ExitCode
  /\ UNCHANGED <<world, file, todo, preparing, backend, counting>>

Next ==
  \/ ParseArgument \/ Launch
  \/ OpenForHeaders \/ HeadersEnd \/ PrepareHeader \/ PrepareCases
  \/ OpenForRows \/ Row \/ Finish

\* The run is sequential, and waits for nothing.
Spec == Init /\ [][Next]_vars /\ WF_vars(Next)

(***************************************************************************)
(* The result of a run, from the arguments, the files and the batch alone. *)
(***************************************************************************)

\* The places of the arguments that are the value of the one before.
Values(args) ==
  LET isValue[i \in 1..Len(args)] ==
        i > 1 /\ args[i - 1] \in Valued /\ ~ isValue[i - 1]
  IN  {i \in 1..Len(args) : isValue[i]}

\* The values an option is given, wherever it stands.
Given(option) ==
  {scenario.args[i] : i \in {i \in Values(scenario.args) :
                               scenario.args[i - 1] = option}}

Names(option) == UNION {Csv[arg] : arg \in Given(option)}

\* The files that are named, and those of the directories whose name is one of
\* the mnemonics.
AskedFiles ==
  {scenario.args[i] : i \in {i \in DOMAIN scenario.args :
                               /\ i \notin Values(scenario.args)
                               /\ scenario.args[i] \notin Dashed}}
    \cup Given("--input")
    \cup {entry.path : entry \in
            {e \in UNION {Directory[d] : d \in Given("--input-dir")} :
               e.txt /\ (Names("--mnemonic") # {} =>
                           e.stem \in Names("--mnemonic"))}}

Asked(x) ==
  /\ Names("--mnemonic") # {} => x.text.mnemonic \in Names("--mnemonic")
  /\ Names("--opcode") # {} => x.key.opcode \in Names("--opcode")

\* The rows of all inputs in order, and those the filters let through.
AllRows ==
  FlattenSeq([i \in DOMAIN options.inputs |-> RowsOf(options.inputs[i])])
Candidates ==
  LET rows == AllRows IN Only(rows, {i \in DOMAIN rows : Asked(rows[i])})

GroupsAmong(n) == {Candidates[i].group : i \in 1..n}

\* The first n candidates respect both limits.
WithinLimits(n) ==
  /\ options.limitStates # 0 => n <= options.limitStates
  /\ options.limitInstructions # 0 =>
       Cardinality(GroupsAmong(n)) <= options.limitInstructions

Compiles(i) == options.execute /\ SkipOf(Candidates[i]) = NoSkip

\* The first candidate of i's key that gets as far as the compiler.
FirstUse(i) ==
  CHOOSE j \in 1..i :
    /\ Candidates[j].key = Candidates[i].key
    /\ Compiles(j)
    /\ \A l \in 1..(j - 1) : Candidates[l].key # Candidates[i].key \/ ~ Compiles(l)

\* Candidate i cannot be compiled on demand: its key was not in the batch and
\* by the time it was first needed some key had failed to link.
Unlinked(i) ==
  /\ Candidates[i].key \notin ToSet(batch)
  /\ \E j \in 1..FirstUse(i) :
       Compiles(j) /\ FateOf(Candidates[j].key) = "unresolved"

Result(i) ==
  LET r == Candidates[i]
  IN  IF ~ options.execute THEN "none"
      ELSE IF ~ Compiles(i) \/ FateOf(r.key) \in {"decode", "lift"} THEN "skipped"
      ELSE IF Unlinked(i) \/ r.row.outcome = "different" THEN "failed"
      ELSE IF r.row.outcome = "equal" THEN "passed" ELSE "skipped"

\* The candidates that are selected: as many as the limits allow, up to the
\* first that fails if the run stops there.
SelectedCount ==
  CHOOSE n \in 0..Len(Candidates) :
    /\ WithinLimits(n)
    /\ \/ n = Len(Candidates)
       \/ ~ WithinLimits(n + 1)
       \/ n > 0 /\ options.stopOnFirstFail /\ Result(n) = "failed"
    /\ options.stopOnFirstFail => \A i \in 1..(n - 1) : Result(i) # "failed"

Results(result) ==
  Cardinality({i \in 1..SelectedCount : Result(i) = result})

SelectedKeys == {Candidates[i].key : i \in 1..SelectedCount}

Failing(Condition(_)) ==
  Cardinality({k \in SelectedKeys : Condition(Instruction(k))})

(* Properties.                                                             *)

HeaderType(h) == h.key \in Keys /\ h.declared \in Nat

RowType(r) == r.group \in Paths \X Nat /\ r.key \in Keys /\ IsRow(r.row)

TypeOK ==
  /\ pc \in {"arguments", "prepare", "compile", "rows", "done", "usage", "aborted"}
  /\ DOMAIN options = DOMAIN DefaultOptions
  /\ options.inputs \in Seq(STRING)
  /\ file \in 0..Len(options.inputs)
  /\ \A i \in DOMAIN todo : CASE pc = "rows"    -> RowType(todo[i])
                              [] pc = "prepare" -> HeaderType(todo[i])
                              [] OTHER          -> todo[i] \in STRING
  /\ batch \in Seq(Keys)
  /\ reached \in [groups : Nat, rows : Nat]
  /\ prepared \in {"no", "done", "failed"}
  /\ answer \in [Keys -> {"none", "ready", "unsupported", "backend"}]
  /\ groups \subseteq Paths \X Nat
  /\ decoded \subseteq Keys
  /\ summary \in [DOMAIN ZeroSummary -> Nat]
  /\ \A x \in DOMAIN report.reasons : report.reasons[x] \in Nat
  /\ exit \in {0, 1, 2}

\* The summary a completed run prints accounts for exactly the rows that the
\* filters, the limits and --stop-on-first-fail select: each once, as passed,
\* failed or skipped, the undecodable keys once each; and the files and filters
\* are those of the command line, in whatever order it gives them.
SummaryIsRight ==
  pc = "done" /\ ~ scenario.mayFail =>
    /\ ToSet(options.inputs) = AskedFiles
    /\ summary.selectedRows = SelectedCount
    /\ summary.selectedGroups = Cardinality(GroupsAmong(SelectedCount))
    /\ summary.uniqueDecodes = Cardinality(SelectedKeys)
    /\ summary.decodeFailures = Failing(LAMBDA i : ~ Decode(i).ok)
    /\ summary.lengthMismatches = Failing(LengthDiffers)
    /\ summary.passed = Results("passed")
    /\ summary.failed = Results("failed")
    /\ summary.skipped = Results("skipped")

\* `--execute` exits non-zero when any selected row that is not skipped
\* mismatches (README.md), and a run that ends early does too.
MismatchesReachTheExitCode ==
  /\ pc = "aborted" => exit # 0
  /\ pc = "done" => (summary.failed > 0 => exit # 0)
  /\ pc = "done" /\ ~ scenario.mayFail => (Results("failed") > 0 => exit # 0)

LinesFor(reason) ==
  Cardinality({i \in DOMAIN report.skips : report.skips[i].reason = reason})

IsRepeated(lines) == \E i, j \in DOMAIN lines : i # j /\ lines[i] = lines[j]

\* Every row that is not run has one explicit reason (PLAN.md, "Supported/skip
\* policy"), and the reports say of every row what the summary counts, at every
\* moment of the run and so also when it is cut short by an exception: the
\* reasons add up to the skips, each has its lines, and no row is in both
\* reports or twice in one, unless its file is named twice.
ReportsMatchTheSummary ==
  /\ FoldFunction(+, 0, report.reasons) = summary.skipped
  /\ options.reportJsonl # NoPath => Len(report.mismatches) = summary.failed
  /\ options.reportSkipsJsonl # NoPath =>
       \A x \in DOMAIN report.reasons : LinesFor(x) = report.reasons[x]
  /\ NoSkip \notin DOMAIN report.reasons
  /\ IsInjective(options.inputs) =>
       /\ ~ IsRepeated(report.skips) /\ ~ IsRepeated(report.mismatches)
       /\ \A i \in DOMAIN report.skips :
            report.skips[i].id \notin ToSet(report.mismatches)

\* What a file has to be like for the first pass to foresee the second: no
\* group is empty or declares another number of rows than it has, and no file
\* is named twice.
Foreseeable ==
  /\ IsInjective(options.inputs)
  /\ \A i \in DOMAIN options.inputs :
       LET gs == Corpus(options.inputs[i]).groups
       IN  \A g \in DOMAIN gs :
             gs[g].rows # <<>> /\ gs[g].declared = Len(gs[g].rows)

\* The two passes agree, one way: what the second asks the backend for is in
\* the batch, but for the iclasses that are kept out of it.  It takes more than
\* equal limits: an instruction that is skipped for its header alone must be
\* skipped for every row.
OnlyTrapsCompileOnDemand ==
  [][pc = "rows" /\ Foreseeable =>
       \A k \in Keys :
         answer'[k] # answer[k] => Backend!Prepared(k) \/ IsTrap(k)]_vars

\* And the other way: a key that no selected row has never costs a compile,
\* nor does its failing to link end a run that would not have used it.
BatchIsSelected ==
  Foreseeable /\ ~ options.stopOnFirstFail /\ pc = "done" =>
    ToSet(batch) \subseteq SelectedKeys

\* A run comes to its end: it prints its summary or its usage, or throws.
RunEnds == <>(pc \in {"done", "usage", "aborted"})

(***************************************************************************)
(* What README.md says of skipped rows: they are reported separately, and  *)
(* it is a mismatch of a row that was not skipped that makes `--execute'   *)
(* exit non-zero.                                                          *)
(***************************************************************************)
SkipsDoNotFailTheRun ==
  pc = "done" /\ options.execute /\ summary.skipped = summary.selectedRows
    => exit = 0

=============================================================================
