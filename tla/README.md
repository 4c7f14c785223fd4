# A verification development for remill-tester

remill-tester runs hardware-made test vectors through Remill: it parses corpus
files, decodes each instruction with XED, lifts it with Remill, compiles it with
LLVM's JIT, executes it on a private guest memory and compares registers, flags
and memory with what the hardware did. What it prints is a number of passed,
failed and skipped rows and an exit code. This directory holds TLA+ models of
the parts that decide those numbers, and of the two programs that make the
corpus files, TLC configurations that check them on small instances, and TLAPS
proofs of every safety and action property that is checked: about the memory,
the compile caches, the execution of a row, its registers, the parser, the run
as a whole and the converters.

The question behind all of it: **is a verdict the tester prints the one the row
deserves?** A tester can be wrong in two ways that no failing test reveals: it
can pass a row without having tested it, and it can blame the instruction for a
fault of its own.

Paths below are relative to the root of the repository; `src/` in a path is the
directory of the C++ sources in it. Contents:

1. [The system](#1-the-system)
2. [Modules and code](#2-modules-and-code)
3. [What is checked](#3-what-is-checked)
4. [Fairness and deadlock](#4-fairness-and-deadlock)
5. [What is proved](#5-what-is-proved)
6. [Where code and documents disagree](#6-where-code-and-documents-disagree)
7. [What is not modelled](#7-what-is-not-modelled)
8. [Plan](#8-plan)
9. [Running it](#9-running-it)

## 1. The system

The tester is one sequential process. Nothing runs concurrently and nothing is
persisted, so what is hard about it is not interleaving but long loops with
early exits, errors that are remembered or forgotten, several caches, the same
decision taken in two places, and foreign code (the lifted function, LLVM) that
may do anything in between.

| component | state | operations | hard behaviour |
|---|---|---|---|
| Guest memory (`guest_memory.cpp`) | pages with bytes and rights, first fault | `Map`, `Read`, `Write`, `SetUnsupported`, `SetBackendError`, `ClearStatus`, `Reset` | accesses over page ends and at the end of the address space; two loops per access; only the first fault counts |
| JIT backend, compilation (`remill_backend.cpp`) | pending module, list of symbols to look up, two caches, id counter, the JIT | `PrepareCases`, `RunCase` up to the compiled function | many keys share a module; failure at any point leaves caches half done; retries |
| JIT backend, execution (`remill_backend.cpp`, `remill_intrinsics.cpp`) | a memory and a result per row | set-up, intrinsics, classification | results of the set-up are ignored; lifted code cannot be stopped |
| State bridge (`remill_state_bridge.cpp`) | Remill's `State` | `ApplyInitialState`, `SnapshotState`, `SnapshotBytes` | flags and x87 status kept twice; registers that share storage; order of the keys |
| Comparator (`comparator.cpp`, `flag_masks.*`) | none | `CompareExecutionResult` | which flags a shift or rotate determines; keys nobody compares |
| Test run (`tester_main.cpp`, `Run`) | two passes' counters, decode cache, summary | prepare pass, main pass, report | two copies of the selection; limits; stop; exceptions; exit code |
| Corpus parser (`x86tester_parser.cpp`) | value pool, header, counters, rows | `ParseFile`, `ParseInstructionHeaders` | two parsers for one format; position-dependent lines; bad files |
| XED metadata and skip rules (`xed_metadata.cpp`, `tester_main.cpp`) | none | `Decode`, `PreExecutionSkip` | a dozen predicates in order, asked once about a header and once about a row |
| Command line (`ParseOptions`) | the options so far | one argument at a time | an option takes the next argument whatever it is; directories come last |
| Reports (`WriteMismatchJson`, `WriteSkipJson`) | two files | a line per mismatch, a line per skip | they must agree with counters kept elsewhere |
| Converters (`tools/*.py`) | the corpora in progress: pool, groups, rows; the files on disk | read the rows of a query, write files of pool and groups | names that collide; rows that cannot be converted; limits inside a test case |
| Self-tests, helper libraries, build | none | | see section 7 |

Interactions: the converters write the files that the parser reads. `Run` calls
the parser (headers, then rows), `Decode` through a
cache, `PrepareCases` once and then `RunCase` per row. `RunCase` compiles or
takes from a cache, asks the state bridge for a `State`, fills a memory, calls
the lifted function, which calls the intrinsics back, which call the memory, and
hands registers and memory to the comparator, whose answer `Run` counts. All of
these are calls; the only state shared across rows is that of the backend, the
decode cache and the summary.

What makes each correct:

- **Guest memory**: to its callers it is a flat array of bytes whose accesses
  are all or nothing (`ImplementsFlatMemory`), and no loop leaves its range.
- **Compilation**: a key runs its own code, no key is forgotten, verdicts tell
  what Remill and the JIT really make of the key, and stay.
- **Execution**: the function finds the memory its row lists, and the verdict
  follows from the first thing that went wrong.
- **Bridge and comparator**: registers go in and come out whole; a row passes
  exactly when everything it determines agrees.
- **Run**: the summary counts each selected row once, under every limit; both
  passes agree on what is selected; mismatches reach the exit code.
- **Skip rules and reports**: a row that is not run has one reason, the passes
  agree on it, and the reports say what the summary counts.
- **Parser**: it accepts exactly the well-formed files, each row means what its
  line and header say, and both parsers see the same groups.
- **Converters**: a file that is written holds all rows of its name, and each,
  read back through pool and header, is the row of the table it was made from;
  no row is left out; what is reported is on disk.

## 2. Modules and code

| module | models | extends or uses |
|---|---|---|
| `GuestAddress` | addresses, pages, the overflow test, faults | |
| `FlatMemory` | what the memory promises (abstract) | `GuestAddress` |
| `GuestMemory` | `guest_memory.cpp`, one loop iteration per step | `GuestAddress`, `FlatMemory` by refinement |
| `CompileService` | what the backend promises about compiling (abstract) | |
| `JitCache` | `EnsureInitialized`, `PrepareCases`, `DefineInPendingModule`, `FinalizePendingModule`, `Compile`, `RunCase` to the compiled function | `CompileService` by refinement |
| `RowExecution` | the rest of `RunCase`, the intrinsics, outcome and memory in the comparator | `FlatMemory` |
| `RowRegisters` | `AddStateBytes`, the state bridge, the hyper calls that set a flag, registers and flags in the comparator | |
| `SkipRules` | `XedDecoder::Decode`, `PreExecutionSkip` and its predicates | |
| `CommandLine` | what an argument does to the options, `AddInputDirectory` | |
| `TestRun` | `main`, `ParseOptions`, both passes of `Run`, the report lines | `CommandLine`, `SkipRules`, `CompileService` |
| `CorpusParser` | `ParseFile`, `ParseInstructionHeaders` | |
| `Converters` | `convert_test_vectors.py`, `convert_public_parquet.py` | |
| `SequenceParts` | sequences of whatever, the elements of one at chosen places | |
| `MC*` | the instances TLC checks | |
| `GuestMemoryProofs`, `JitCacheProofs`, `RowExecutionProofs`, `RowRegistersProofs`, `CorpusParserProofs`, `TestRunProofs`, `ConvertersProofs` | theorems about the module of that name | the module, TLAPS |
| `DataTheorems` | what these proofs share: least numbers and induction, division, parts and joins of sequences, how often an element occurs, sums | TLAPS |

The models meet where the code does. `RowExecution` is built on `FlatMemory`,
which `GuestMemory` is shown to implement; `TestRun` is built on
`CompileService`, which `JitCache` is shown to implement: its steps that compile
are `Backend!Prepare` and `Backend!Demand`, under the same fates and the same
environment. The outcomes of a row in `TestRun` are the verdicts of
`RowExecution` and `RowRegisters`; the groups of a file are those of
`CorpusParser`.

Definitions marked `A defect:` in the modules are plausible bugs next to the
definition they are a bug in; no specification uses them. Each property is known
to fail when one of them takes the place of the real definition.

### GuestMemory and FlatMemory

`pages` is `pages_`, `fault` is `last_fault_`. A call begins with its early
returns (size 0, overflow test) and then sits at a loop (`pc`): `MapPage` is one
round of `Map`, `CheckChunk` one of `CheckAccess`, `CopyChunk` one of the copy
loops of `Read` and `Write`; `cur` and `left` are `current_address` and
`remaining`. 64-bit arithmetic is arithmetic modulo `MaxAddress + 1`. The tests
for null buffers are left out: no caller passes a null pointer with a size.

`FlatMemory` has no loops and no pages except that `Map` maps whole ones. The
refinement mapping places the effect of a call where the code commits to it: at
the refusal, at the end of `CheckAccess`, at the end of `Map`'s overflow test.

### JitCache

A key is an address and an opcode. `fate` says what Remill and the JIT will make
of it and is never read by the code except through the results of their calls.
`pending`, `pendingCompiled`, `cache`, `failed` and `nextId` are the members of
`RemillBackend`; `dylib` is what the JIT holds. `PrepareCases` takes a step per
row, and finalization a step for `addIRModule` and one for the lookups. The JIT
links a module as a whole, so one helper it lacks makes every symbol of the
module fail. With `EnvironmentMayFail`, LLVM, Remill's tables and `addIRModule`
may fail at any attempt. Over-approximated: after a failed set-up the code calls
`InitGoogleLogging` again, which ends the process; the model lets it go on.

`CompileService` is what remains for a caller: the batch links as a whole or
fails, a key is ready, unsupported or a backend error, the first two are
final, and once a key was met that does not link (`Stuck`) no further key
does. The refinement mapping takes the answer of a request where `RunCase`
returns it and the batch where `PrepareCases` returns.

### RowExecution

`MapArea` and `FillArea` are the set-up, whose results go unread. `Intrinsic` is
any call the lifted function may make: loads and stores, fetch-and-op and
compare-exchange (a checked read, then a checked write), `__remill_error`, the
missing block, port and hyper calls that mark the row unsupported, and those that
do nothing to the memory.
`Collect` and `Classify` are the end of `RunCase`, `Judge` is
`CompareExecutionResult`. `problems` is a history variable that records what
went wrong and lets the properties say what the verdict should have been.
Registers are one bit here; `RowRegisters` has them.

### RowRegisters

A word is its set of 1 bits, and only the bits that flags and x87 status tell
apart are there. `AddStateBytes` files a value as a number, as bytes or as both;
`ApplyScalar` and `ApplyBytes` take one key each in the order of a `std::map`:
`todo` is the set of keys still to come, `First` the one the map gives next.
`Longest` is the size of the widest vector register.
`rflag` and `aflag` are the two homes of the flags, `swd` and `sw` those of the
x87 status, `wide` the storage that `xmm`, `ymm` and `zmm` of one index share.
The lifted function writes one register where Remill's semantics keep it, or
makes the hyper call of VERR or VERW, which writes both copies of ZF. The
masks for shifts and rotates follow `DynamicUndefinedFlagMask` case by case.

### SkipRules, CommandLine and TestRun

`SkipRules` has the predicates of `PreExecutionSkip`, which asks them in order:
the first that holds is the reason. An instruction is what XED makes of it, a
row the few things the rules look at. `HeaderOnly` is the row that the first
pass makes up from a header, with no state and no memory.

`CommandLine` says what one argument does to the options. Arguments are strings;
what the code reads off the text of one (a number, a list of names) is a
constant. In `TestRun`, `ParseArgument` is one round of the loop of
`ParseOptions`, with `waiting` the option whose value is next, and `Launch` is
what follows up to the two passes: usage, help, self-tests, report files.
`PrepareHeader` is one header of the first pass, `Compile` is `PrepareCases`,
`Row` one row of the second, with its filters, limits, skip, decode cache,
verdict, counters and report lines in the order of the code. `Throw` is an
exception that leaves `Run`. `RowsOf` and `Warnings` are what the parser gives
for a file. The tallies by mnemonic and by flag are left out.

### CorpusParser

`ParseFile` reads the file one line per step, and the file is chosen line by
line while it is read; `ScanLine` is the same file through
`ParseInstructionHeaders`. Trimming, hex and numbers are abstracted to lines
that are valid and lines that are not. `Pooled` looks the values of a row up in
the pool and splits them into registers and memory, each in the order of the
header; `ParsedIsRight` and the definitions before it say the same of the file
as a whole, without state.

### Converters

One model for both programs, which share their form: rows in the order of a
query, values interned in a pool, groups under a header, files. `job` is a
command line with its tables, `disk` the text files, `open` the corpora in
memory. A value is a size and its 1 bits, an item a key and a value.

`PrepareOutputDir`, `VectorRow` and `EndOfInput` are `convert_one`: a file is
written when the name changes, so at most one is in memory. `Enter`,
`PublicRow`, `CaseEnds`, `LastCase` and `Exit` are `OutputManager` and
`convert`: all files are in memory until the end. `WriteGroup` merges the keys
of a test case's rows into one header and fills what a row lacks;
`HiddenMemory` is the element that a bit test reaches outside the memory cell.
DuckDB is external: the rows come filtered, sorted and limited.

## 3. What is checked

| run | distinct states | question |
|---|---|---|
| `guest_memory` | 251,636 | do the page loops implement a flat memory? |
| `jit_cache` | 143,248 | are the verdicts of the backend true, final and its caches consistent, and is it the compile service? |
| `row_execution` | 32,258 | does the verdict follow from the first thing that went wrong? |
| `row_registers` | 64,677 | do registers and flags go in and out whole, and is what is compared what is determined? |
| `test_run` | 403,058 | is the summary that of the selection, do the passes agree, do the reports? |
| `corpus_parser` | 607,925 | does the parser accept exactly what is well formed, and do both parsers agree? |
| `converters` | 32,588 | is a file that is written whole, and does it hold the rows of the table? |
| `jit_gaps`, `row_exception_kind`, `byte_vectors`, `test_run_skips`, `converters_lost_rows` | | five statements of the documents that the code does not keep (section 6) |

**guest_memory.** Three pages of two bytes; every sequence of calls, every
address, every size up to four, buffers of none and four bytes, two masks of
rights. Three pages are the fewest in which an access has a first, a middle and a
last page; a size of four covers two pages when aligned and touches three when
not, and reaches past the end of the address space. With two bytes per page
every offset is a first or a last one. `LoopInRange`, `CopyIsAuthorised` and
`MapKeepsToItsPages` say that the loops stay within their call, dereference only
pages that were found, and map exactly the pages touched; `IInv` is the
inductive invariant of the proof; `ImplementsFlatMemory` is the refinement;
`CallsReturn` that each call returns, which the loop of `Map`, ending on
equality, makes worth saying.

**jit_cache.** Three keys, two of which share an opcode, every batch of distinct
keys, every fate of each, an environment that may fail at any attempt and one
that may not, and any number of `RunCase` calls. Three keys allow one that fails before, one that is
being compiled and one that is compiled already. `OwnCode`, `NoKeyIsForgotten`
and `VerdictsAreTrue` are about the caches; `PreparedNeverBackend` and
`PreparedKeysAnswerAtOnce` say what a successful `PrepareCases` buys;
`VerdictsAreFinal` that a second row of a key meets the same answer;
`RequestsEnd` that a request ends; `ImplementsCompileService` is the refinement
on which `TestRun` rests.

**row_execution.** Eight rows: code inside a page and over a page end, cells
over each other, over the code, across pages, past the end of the address space,
expected cells that are mapped and that are not, an expected exception. Two
intrinsic calls allow a fault and something after it, a write that a later read
sees, and a read-modify-write after a fault. `SetUpIsSilent` says the ignored
results never hide a failure for a row that fits; `RowIsLoaded` what the
function finds; `ReadModifyWriteIsWhole` that read and write of one operation
are refused together; `VerdictIsWarranted` recomputes the verdict from the
history.

**row_registers.** About eight thousand rows of five kinds: numbers and flags
under two names and in any order, vector registers that overlap, shifts and
rotates of four widths with counts on either side of the masks and periods, keys
and sizes that do not fit, and VERR and VERW. `InputsAreLoaded` compares the State with the list
of the row; `VerdictIsRight` recomputes the verdict from the list, the effect of
the instruction and what it determines. `Plain` restricts both to rows that do
not contradict themselves. It is sequential with one step per key, so the rows,
not the interleavings, are the instance.

**test_run.** Two keys and two files of one directory, in four kinds of worlds.
For the loops: the first file has one or two groups of up to two rows, among
them an empty group and groups that declare too few and too many rows, under
every combination of both limits around the sizes of the files, with and without
stop on first failure, and every fate of the key. For the rules: every
instruction and every row that some rule looks at, in pairs. For the command
line: two dozen of them, with options in several orders, a missing value, an
option taken as a value, a file named twice, a directory, a path that cannot be
written. And an environment that may fail at any time.

`SummaryIsRight` compares the counters with a definition that knows neither
passes nor loops nor the order of the arguments: the candidates in order, the
longest prefix the limits allow, cut at the first failure. `BatchIsSelected` and
`OnlyTrapsCompileOnDemand` tie the two selections together where the headers are
true (`Foreseeable`); the second of them rests on every skip rule that fires
for a header alone firing for every row as well. `ReportsMatchTheSummary` holds at every
moment, so also when an exception cuts the run short.
`MismatchesReachTheExitCode` ties the summary to what the caller of the program
sees.

**corpus_parser.** Every file of up to seven lines over three headers, four rows
and pools of up to two values: a pool, two groups and two rows fit, and so does
a short pool that turns a header into a value. `ParsedIsRight` defines from the whole
file whether it is well formed and what each row means; `HeadersAgree` ties both
parsers together.

**converters.** For `convert_test_vectors.py` one or two inputs out of eight
tables and one that cannot be read: rows that share values, names or headers, or
do not, headers that alternate, two mnemonics of one file name, and rows that
cannot be converted at the beginning, in the middle and at the end; two inputs
may have one stem. For `convert_public_parquet.py` test cases whose rows list
different keys, limits at and inside a case, one file or many; and pairs of bit
tests of three element sizes and three register widths, at offsets on either
side of every boundary. Old files lie in the output directories or not, with and
without `--overwrite`. `FilesHoldTheirRows` reads every written file back
through pool and header and compares it with the table, in every state, so
whatever failed: the file has all rows of its name and no others. For the test
vectors that is stated where names come together (`NamesComeTogether`); where
they do not, a file is one whole stretch of rows of its name. For a bit test
outside the cell it asks that the bit the processor would read is listed and set
if the row expects a carry, and not listed as set if it does not. It does not ask
for a cell there, and without a carry there is none (section 6). `ReportIsOnDisk`
ties the printed totals to the files and the limit and says that every row has
its file, `FilesStay` that without `--overwrite` no file is lost; both are stated
where names come together. What happens where they do not is
`converters_lost_rows` (section 6), over the same jobs. The programs are
sequential and the tables small, so the jobs, not the interleavings, are the
instance.

Each cfg gives the constants their values; no bound is hidden elsewhere.
`MaxSize`, `MaxCalls` and `MaxLines` are the bounds that exist only for TLC, and
`Batches` in `JitCache` limits a batch to three keys.

## 4. Fairness and deadlock

The program is sequential and waits for nothing, so a step that can be taken is
taken: weak fairness of the loops (`GuestMemory`), of a request that has begun
(`JitCache`) and of the whole next-state relation (`TestRun`, `RowExecution`).
Callers are free: nothing obliges them to call. For `RowExecution` this assumes
that the lifted function of one instruction returns, which the bound on its calls
makes explicit. `CallsReturn`, `RequestsEnd`, `RunEnds` and `RowEnds` are the
liveness properties; `RowRegisters`, `CorpusParser` and `Converters` claim none
and state no fairness.

`GuestMemory` is checked for deadlock: its caller can always call. The others
stop by design (`CHECK_DEADLOCK FALSE`): a run, a row, a file and a conversion
come to their end, and after `PrepareCases` has failed the tester calls the backend no more.

## 5. What is proved

| theorem | module | states |
|---|---|---|
| `Invariance` | `GuestMemoryProofs` | `Spec => []IInv` |
| `TypeCorrect` | | `TypeOK` |
| `LoopsStayInRange` | | `LoopInRange` |
| `CopyAuthorised` | | `CopyIsAuthorised` |
| `MapStaysOnItsPages` | | `MapKeepsToItsPages` |
| `ReadsCopyContents` | | `Spec => []RInv` |
| `Refinement` | | `ImplementsFlatMemory` |
| `Invariance` | `JitCacheProofs` | `Spec => []IInv` |
| `TypeCorrect` | | `TypeOK` |
| `CodeIsOwn` | | `OwnCode` |
| `KeysAreNotForgotten` | | `NoKeyIsForgotten` |
| `VerdictsTrue` | | `VerdictsAreTrue` |
| `PreparedIsSafe` | | `PreparedNeverBackend` |
| `PreparedAnswers` | | `PreparedKeysAnswerAtOnce` |
| `VerdictsFinal` | | `VerdictsAreFinal`, an action property |
| `ListKeepsItsCauses` | | `Spec => []RInv` |
| `Refinement` | | `ImplementsCompileService` |
| `Invariance` | `RowExecutionProofs` | `Spec => []IInv` |
| `TypeCorrect` | | `TypeOK` |
| `SetUpNeverFails` | | `SetUpIsSilent` |
| `ReadModifyWriteNeverHalf` | | `ReadModifyWriteIsWhole` |
| `VerdictsWarranted` | | `VerdictIsWarranted` |
| `RowsAreLoaded` | | `RowIsLoaded` |
| `Invariance` | `RowRegistersProofs` | `Spec => []IInv` |
| `TypeCorrect` | | `TypeOK` |
| `InputsLoaded` | | `InputsAreLoaded` |
| `VerdictsRight` | | `VerdictIsRight` |
| `Invariance` | `CorpusParserProofs` | `Spec => []IInv` |
| `TypeCorrect` | | `TypeOK` |
| `ParsedRight` | | `ParsedIsRight` |
| `HeadersAgreeAlways` | | `HeadersAgree` |
| `TypesCorrect` | `TestRunProofs` | `TypeOK` |
| `ReportsCorrect` | | `ReportsMatchTheSummary` |
| `SummaryCorrect` | | `SummaryIsRight` |
| `ExitCodesCorrect` | | `MismatchesReachTheExitCode` |
| `BatchSelected` | | `BatchIsSelected` |
| `TrapsCompileOnDemand` | | `OnlyTrapsCompileOnDemand`, an action property |
| `Invariance` | `ConvertersProofs` | `Spec => []IInv` |
| `TypeCorrect` | | `TypeOK` |
| `FilesHold` | | `FilesHoldTheirRows` |
| `ReportsOnDisk` | | `ReportIsOnDisk` |
| `FilesAreKept` | | `FilesStay`, an action property |

**Guest memory**, for every page size, every address space the page size
divides, every set of buffers and rights and every bound on sizes; the
assumptions are those of `GuestAddress` and `CallerAssumption`. None of the
three safety invariants is inductive: that the copy loop only meets authorised
pages follows from what `CheckAccess` has seen so far (`CheckedSoFar`), that
`Map` stops follows from its range having passed the overflow test (`CallFits`),
and the bytes of a read are as many as the loop has passed (`BufferFits`).
`IInv` is their conjunction with the type invariant, and there is one lemma per
action. Underneath are lemmas on pages: base and offset of an address are
unique, the next page base is one page on, a chunk stays on its page, and no
wrap occurs inside a range that passed the test. Division and remainder are
nonlinear for the prover, so `Quotient` and `Remainder` in `DataTheorems` isolate
them, and the lemmas there on multiples of a number carry the rest.

`Refinement` shows of each action which step of `FlatMemory` it is: the refusal
and the last chunk of `CheckAccess`, the overflow test of `Map` and the calls
without a loop are the operation; every other chunk is a stutter, because the
flat memory sees a `Map` from the moment it is bound to succeed, and a write
from the moment it is authorised. The bytes still to be copied are seen through
the mapping as copied already, so a chunk moves a byte from the call to the page
and changes nothing to the caller. `RInv` adds that what a read has copied so
far is what the memory holds, and that the call is one of the callers'.

**Compilation**, for every set of keys, every fate and with or without failures
of the environment; the assumptions say that a key has an address and an opcode
and that the flag is Boolean. `Batches` bounds a batch in the theorems too. The
invariants are not inductive because a name, not a key, ties a pointer to its
code: `NamesAreSpent` (ids below the counter only), `NamesDenoteTheirKey` and
`ModulesAreWhole` carry that; `CachesTellFates` and `VerdictsHaveGrounds` tie
verdicts to fates through the caches; `BatchInProgress` and `BatchIsReady` follow
a batch to its end. The part about caches alone, `CacheInv`, is proved once for
`DefineInPendingModule`, which both `PrepareCases` and `RunCase` use.
`VerdictsFinal` then needs, besides `IInv`, that initialization once done is
never undone.

For `Refinement` every step is a step of the service or leaves its variables
alone; the work is in the guards, which say when the service may answer
"backend". `RInv` has what is needed: the JIT never refuses a module for a name
(`NamesDoNotClash`), without failures of the environment no listed key loses its
code (`ListedAreDefined`), and between two requests the list of lookups is empty
or begins with a key that does not link and was asked for before
(`ListHasCauses`). That is what makes `Stuck` the whole of what the caches
remember of earlier failures.

**Execution of a row**, for every address space, all rows, and any bound on the
calls of the lifted function; assumed are the shape of a row and that no kind of
exception has the name of an outcome (`ExceptionsAssumption`). `IInv` says what
the memory reports in terms of the history (`ReportIsFirstProblem`), what is
mapped while an area is filled, what the memory holds after so many areas
(`AreasAreLoaded`) and what a verdict still to come rests on (`OutcomeIsRight`).
That read and write of one operation agree rests on `MappedIsReadWrite`: no page
of a row may be read and not written. `RowIsLoaded` then names the last area
that covers an address, which exists because a set of numbers has a largest.

**Registers**, for all names, keys, registers, bits, sizes and rows. The
assumptions say that `Key` has the keys the code names, that vector registers fit
`Longest`, that the two fixed flags are bits and that no key is named like a
system call. `IInv` follows the row: what the parser files of a list
(`ListsAreFiled`, by induction along the list), which keys have been taken and
what the State holds of them (`ScalarsAreApplied`, `BytesAreApplied`), what it
holds when the function returns (`EndIsReached`) and what the comparison is
given (`EndIsRead`). For `VerdictIsRight` the lemma `CareIsDetermined` goes
through the masks of the shifts and rotates case by case.

**The parser**, for all headers, rows, values and files of any length. What a file
means is defined on the whole of it, `ParseFile` goes line by line, so `IInv`
says of the lines read so far what `ParsedIsRight` says of all of them:
the pool is a prefix of what its header announces (`PoolIsRead`), the header in
force is the last one (`HeaderIsLast`), each row is what its line says
(`RowsAreMeant`), and each wrong group but the one in progress has its warning
(`WarningsAreRight`). The lemmas say what one line more changes of each part of
the meaning; most of it is nothing, which is what has to be shown. `PassesAgree`
is the same about the second pass, on the lines it has reached.

**The run**, for all files, command lines, limits and instructions, every fate
of every key and a backend that is any `CompileService`; assumed is the shape of
the data (`TestRunAssumption`, `CommandLineAssumption`). There are four
invariants, one on the other.

- `TypeInv` says of each phase what it works on and what it has not touched.
- `ReportInv` says that the lines and the reasons add up to the counters, that
  each line is of a row of an input that has been opened, and that no row still
  to come has one; for this the rows of a file must differ (`RowsOfApart`). An
  exception only stops the run, so it breaks nothing.
- `ResultInv` ties the loops to the definitions that know no loops: the options
  are what the arguments so far ask for (`Asks`), in whatever order they stand;
  the rows taken are a prefix of `AllRows` (`RowsAreTaken`); the next wanted row
  is the next candidate (`NextCandidate`); the backend's answer to a candidate
  follows from its key, the batch and the first candidate that did not link
  (`AnswersAreRight`); and the loop stops exactly where `WithinLimits` or the
  first failure says. `OneSelection` shows that only one number of candidates
  fits that description, so the counters are those of `SelectedCount`. This is
  about runs whose environment does not fail (`mayFail`), as `SummaryIsRight` is.
- `PassesInv` follows the first pass in terms of the second: the headers it has
  looked at stand for rows, and so for candidates (`NextHeader`); what it counts
  is what the limits leave of these (`Room`), and its batch has the keys of those
  within the limits and no other. A header's group is new each time, because no
  file is named twice, and has a row, because no group is empty: both parts of
  `Foreseeable` are used. `TrapsCompileOnDemand` needs besides that an
  instruction skipped for its header is skipped for every row
  (`SkippedForHeader`), which goes through the rules.

**The converters**, for all command lines and all tables. `ConvertersAssumption`
has the shape of both; `PublicAssumption` has what `validate_inputs` and the
query see to (a test case is of one instruction, a row that raises has no final
state), and what is said of the data: register values have 64 bits, and
`row.offset` is the number in the register of a bit test, which is what
`TestedBit` is stated with. TLC evaluates both on the tables of the run. A file
is not looked at again once it is written, so nothing of `FilesHoldTheirRows` is
inductive: the work is in what memory holds, in five parts.

- `TypesInv` says that every text can be read back (`IsWhole`): the indices of a
  row stay right because a pool only grows at its end (`PoolGrows`).
- `VectorsInv`: the rows still to come are those after the n-th, and the text in
  memory holds the rows from the last change of name up to there. Rows are put
  under the header they share, which changes their order, so this is about how
  often each row occurs (`StretchGrows`).
- `DirectoriesInv`: what is written is counted, the directories of the inputs
  that are done hold nothing else, and a file in the directory in progress is of
  a name that has passed. It is about tables whose names come together: only
  then does a name that comes up have no file yet (`NameIsNew`), which is why
  `FilesStay` and `ReportIsOnDisk` need it.
- `NamesInv`: every row of the inputs that are done has a file of its name, and
  each row read of the input in progress has one or its corpus is in memory. It
  needs that no later input empties the directory (`OtherDirectory`).
- `PublicInv`: the rows are in three parts, those in the texts, in their order
  and each under its name (`Mine`), those of the test case in progress, and
  those to come; the limit is never passed. It gives that `LastCase` never has
  to cut a test case (`LastRows`).

A file of test vectors is a stretch of rows whatever the names
(`FilesHoldStretches`, a part of `IInv`). Where names come together a stretch is
all rows of its name, because a row of that name further off would have one of
another name in between (`StretchIsAll`), which gives `FilesHoldTheirRows`.

`RowsIn` of a text with one more group is proved to be the old rows and then
those of the group (`GroupWritten`), each read back as the row it was made from
(`RowIsMade`). For that, the cell of `HiddenMemory` is shown to be there exactly
when the row tests a bit outside its own cell and expects a carry, and to have
that bit (`HiddenElement`), from the quotient and remainder of the offset; cells
of the other rows of a group are filled with zero.

TLC checks the inductive invariants on the instances of the runs: `IInv` of the
first two as an invariant of their runs, the others through a cfg with a line
more for each (that of `Converters` holds in all 32,588 states).

Recursive functions and folds are proved about by induction on a number:
`NumbersByInduction` takes a set that has 0 and with each number the next one,
so no operator is a parameter. `DataTheorems` has what follows for the parts of a
sequence (`Ascending`, `Only`), for sequences joined to one (`Joined`, which is
`FlattenSeq`), for how often an element occurs (`Times`, which is what `ToBag`
counts) and for the sum of a function (`Total`, which is the fold).

Only model-checked: liveness, which is out of reach of the prover: `CallsReturn`,
`RequestsEnd`, `RunEnds` and `RowEnds` rest on the fairness of section 4. The
five statements of section 6 do not hold, and have a counterexample instead.

## 6. Where code and documents disagree

Five runs are expected to find a violation; each checks what a document or a
comment of the repository says.

- `GapsStayApart`: README.md promises to keep coverage gaps separate from
  mismatches. After one failed lookup its symbol stays on `pending_compiled_`,
  and every key compiled later fails with it (`src/remill_backend.cpp:348`).
- `ExceptionKindMatches`: PLAN.md wants the kind of an expected exception
  matched. The kind compared is a copy of the expected one
  (`src/remill_backend.cpp:214`).
- `ByteVectorsAreCompared`: PLAN.md wants every expected byte vector compared.
  One under a key that is no byte register for the bridge is passed over
  (`src/comparator.cpp:215`).
- `SkipsDoNotFailTheRun`: README.md says the exit code is about rows that were
  not skipped. A skipped row that could not be decoded sets it too
  (`src/tester_main.cpp:1068`).
- `EveryRowIsConverted`: README.md converts a parquet into a corpus directory,
  and every parquet when there are several. `convert_test_vectors.py` sorts by
  mnemonic and writes a file when the file name changes
  (`tools/convert_test_vectors.py:310`), so of two mnemonics that map to one
  name with another in between only the rows of the second are in the file, and
  of two inputs with one stem, which go to one directory, `--overwrite` removes
  what the first has written (`:216`). Both count all rows.

Also seen while modelling, and not a run: an unresolved JIT helper symbol, which
PLAN.md lists among the skips, is a backend error, counted as a failed row, or
the end of the run when met in the batch (`src/remill_backend.cpp:157`); ROL and
ROR by a multiple of a width below 32 do set CF, but the mask takes them to
leave it (`src/comparator.cpp:98`) when the row gives no flags; the summary and
busy bits of the x87 status are not kept (`src/remill_state_bridge.cpp:167`);
PLAN.md wants a row that expects flags of an instruction without written flags
reported as a metadata mismatch, and the comparator compares no bit of it and
says nothing (`src/comparator.cpp:199`).

In the command line: one path for both reports is opened twice, and the files
overwrite each other (`src/tester_main.cpp:808`); a file named twice, or once
and again through its directory, is run twice; `std::stoull` accepts `-1` and
`3x` for a limit (`src/tester_main.cpp:590`). LAR and LSL with a selector in
memory are not skipped for it, whatever the memory holds
(`src/tester_main.cpp:315`).

In the converters: a comment of `convert_public_parquet.py` says that each
converted row stays "independently executable", but no hidden cell is written for
a bit test that expects a clear carry (`tools/convert_public_parquet.py:252`).
Memory is mapped by pages, so the row reads zeros on the page of its own cell and
faults on any other. `--overwrite` removes the old files before the columns of
the input are looked at (`tools/convert_test_vectors.py:267`). `FilesStay` and
`ReportIsOnDisk` fail without `NamesComeTogether`, in the jobs in which
`EveryRowIsConverted` does.

## 7. What is not modelled

- XED, Remill, LLVM: external. What XED says of a key and what Remill and the
  JIT make of it is data of the instances; the lifted function is any sequence of
  intrinsic calls in `RowExecution` and one effect in `RowRegisters`.
- The lists of symbols in `DefineRemillIntrinsicSymbols` and
  `RegisterRemillIntrinsicSymbols`: whether a symbol is there is part of a key's
  fate.
- MMX registers: `PreExecutionSkip` skips rows that list them, so the instance
  of `RowRegisters` leaves the keys out.
- `RunSelfTests` is a straight sequence of assertions on one input each. Of the
  reports, `TestRun` has which line is written when, and nothing of its text; the
  tallies by mnemonic and by undefined flag are printed and read by nobody.
- Of the converters: downloading, reading and validating the parquet files (what
  the validation sees to is in `PublicAssumption`), the queries, and the syntax of
  what is written.
- `helpers/*/RemillHelpers.cpp` are compiled for other projects; build scripts and
  the query for the program's path hold no logic of the tester.
- Multi-threading: there is none.

## 8. Plan

In order of weight; all of it is done. The order was chosen so that what a verdict
rests on comes before what counts it, and what makes the input last.

1. Guest memory against a flat memory, with proofs. *Done.*
2. The compile caches, with proofs. *Done.*
3. The row: memory, intrinsics, classification. *Done.*
4. The run: two passes, limits, accounting. *Done.*
5. Registers and flags from list to verdict. *Done.*
6. The two parsers. *Done.*
7. The compile service: what `JitCache` implements and `TestRun` is built on, so
   that the two compose. *Done.*
8. The skip rules, the command line and the report lines, as parts of the run.
   *Done.*
9. The converters. *Done.*
10. The refinements of `FlatMemory` and `CompileService` as theorems. *Done.*
11. Theorems about `RowExecution`: all its safety invariants. *Done.*
12. Theorems about `RowRegisters` and `CorpusParser`: all their safety
    invariants. *Done.*
13. Theorems about `TestRun`: all its safety properties. *Done.*
14. Theorems about `Converters`: all its safety properties. *Done.*

## 9. Running it

    tlc -workers 2 -config GuestMemory.cfg MCGuestMemory
    tlapm GuestMemoryProofs.tla

and likewise for the others; `PROJECT.json` lists every run with its module and
cfg, the defects that show each property can fail, the lines each definition
models, the hazards and the theorems. The largest run takes about two minutes.
