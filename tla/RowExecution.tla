---------------------------- MODULE RowExecution ----------------------------
(***************************************************************************)
(* One row from its compiled function to its verdict: the rest of RunCase  *)
(* (remill_backend.cpp), the intrinsics the lifted function calls          *)
(* (remill_intrinsics.cpp) and what the comparator makes of the result     *)
(* (comparator.cpp).                                                       *)
(*                                                                         *)
(* A row starts in a memory of its own: the page of its code and the pages *)
(* of its cells are mapped and filled, and nothing looks at whether that   *)
(* worked.  Then the lifted function runs.  It is external: it makes any   *)
(* MaxCalls calls of the intrinsics, which have no way to stop it.  Only   *)
(* when it has returned is the memory asked for the first thing that went  *)
(* wrong, and that alone decides what the row comes to.                    *)
(*                                                                         *)
(* The memory is FlatMemory, which GuestMemory implements.  Registers and  *)
(* flags are one bit here, whether those the row lists came out equal.     *)
(***************************************************************************)
EXTENDS GuestAddress

CONSTANTS
  Exceptions,  \* the kinds of exception a row may expect
  Rows,        \* the rows
  Values,      \* the byte strings the lifted function writes
  MaxCalls     \* how often it calls an intrinsic

\* A memory cell, given or expected.
Cell == [address : Address, bytes : Seq(Byte)]

ASSUME RowsAssumption ==
  /\ Values \subseteq Seq(Byte) \ {<<>>}
  /\ MaxCalls \in Nat
  /\ Rows \subseteq [address : Address, opcode : Seq(Byte), cells : Seq(Cell),
                     exception : Exceptions \cup {"none"}, expected : Seq(Cell)]

\* A kind of exception is none of the other names a result or a problem has.
ASSUME ExceptionsAssumption ==
  Exceptions \cap {"none", "fault", "refused", "unsupported"} = {}

VARIABLES
  row,        \* the row
  accepted,   \* whether the state bridge knows its keys (external)
  registers,  \* whether its registers and flags come out equal (external)
  mapped, rights, byte, report, ret,  \* the memory, see FlatMemory
  byError,    \* whether the fault it reports has the detail __remill_error
  pc,         \* what RunCase is doing
  area,       \* which page or cell the set-up is at
  calls,      \* how many calls the lifted function has made
  pending,    \* the read-modify-write that has read and not yet written
  observed,   \* final_memory
  outcome,    \* outcome_class
  detail,     \* exception_detail: a kind of exception, or "fault"
  verdict,    \* what the comparison comes to
  problems    \* history: everything that went wrong, in order

memory == <<mapped, rights, byte, report, ret>>
inputs == <<row, accepted, registers>>
result == <<observed, outcome, detail, verdict>>
vars == <<inputs, memory, byError, pc, area, calls, pending, result, problems>>

Mem == INSTANCE FlatMemory
         WITH Buffers <- Values, MaxSize <- PageSize, MapRights <- SUBSET Right

NoPending == [op |-> "none", address |-> 0, expected |-> <<>>]

Init ==
  /\ row \in Rows
  /\ accepted \in BOOLEAN
  /\ registers \in {"equal", "different"}
  /\ Mem!Init
  /\ byError = FALSE
  /\ pc = "apply"
  /\ area = 1
  /\ calls = 0
  /\ pending = NoPending
  /\ observed = <<>>
  /\ outcome = "none" /\ detail = "none" /\ verdict = "none"
  /\ problems = <<>>

\* The call of the memory in this step succeeds, or is the next problem.
Noting(phase) ==
  problems' = IF ret'.is = "refused"
                THEN Append(problems, [phase |-> phase, what |-> "refused"])
                ELSE problems

----------------------------------------------------------------------------
(* The state and the memory of the row.                                    *)

ApplyInitialState ==
  /\ pc = "apply"
  /\ IF accepted
       THEN pc' = "map" /\ UNCHANGED outcome
       ELSE pc' = "judge" /\ outcome' = "Unsupported"
  /\ UNCHANGED <<inputs, memory, byError, area, calls, pending, observed,
                 detail, verdict, problems>>

\* A defect: data pages are not writable.
ReadOnly == {"read"}

\* ReadWrite, since the parser leaves the permissions of a cell at 0.
ReadWrite == {"read", "write"}

CodeArea == [base |-> PageBase(row.address), size |-> PageSize, granted |-> Right,
             address |-> row.address, bytes |-> row.opcode]

CellArea(cell) == [base |-> cell.address, size |-> Len(cell.bytes),
                   granted |-> ReadWrite,
                   address |-> cell.address, bytes |-> cell.bytes]

\* A defect: the code is written over the cells.
CodeLast == [i \in 1..(Len(row.cells) + 1) |->
               IF i > Len(row.cells) THEN CodeArea ELSE CellArea(row.cells[i])]

\* The page of the code first, then the cells.
Areas == [i \in 1..(Len(row.cells) + 1) |->
            IF i = 1 THEN CodeArea ELSE CellArea(row.cells[i - 1])]

\* A defect: one round too many.
PastLastArea == Len(Areas) + 1

LastArea == Len(Areas)

MapArea ==
  /\ pc = "map"
  /\ Mem!Map(Areas[area].base, Areas[area].size, Areas[area].granted)
  /\ Noting("setup")
  /\ pc' = "fill"
  /\ UNCHANGED <<inputs, byError, area, calls, pending, result>>

FillArea ==
  /\ pc = "fill"
  /\ Mem!Write(Areas[area].address, Areas[area].bytes)
  /\ Noting("setup")
  /\ IF area = LastArea
       THEN pc' = "run" /\ UNCHANGED area
       ELSE pc' = "map" /\ area' = area + 1
  /\ UNCHANGED <<inputs, byError, calls, pending, result>>

----------------------------------------------------------------------------
(* The intrinsics.                                                         *)

Call ==
  /\ pc = "run" /\ calls < MaxCalls
  /\ calls' = calls + 1
  /\ UNCHANGED <<inputs, area, result>>

\* Barriers, flag computations, calls, jumps: they leave the memory alone.
Inert == Call /\ UNCHANGED <<memory, byError, pc, pending, problems>>

ReadMemory(a, n) ==
  /\ Call
  /\ Mem!Read(a, n)
  /\ Noting("run")
  /\ UNCHANGED <<byError, pc, pending>>

WriteMemory(a, value) ==
  /\ Call
  /\ Mem!Write(a, value)
  /\ Noting("run")
  /\ UNCHANGED <<byError, pc, pending>>

\* FetchAndOp and CompareExchange read; if they may, they go on to write.
ReadToModify(op, a, expected) ==
  /\ Call
  /\ Mem!Read(a, Len(expected))
  /\ Noting("run")
  /\ pending' = [op |-> op, address |-> a, expected |-> expected]
  /\ pc' = "modify"
  /\ UNCHANGED byError

\* A defect: what the read returned is not looked at.
Unchecked == TRUE

ReadSucceeded == ret.is = "ok"

\* FetchAndOp always writes, CompareExchange if it read what it expected.
Writes ==
  /\ ReadSucceeded
  /\ pending.op = "fetch" \/ ret.out = pending.expected

Modify ==
  /\ pc = "modify"
  /\ pc' = "run" /\ pending' = NoPending
  /\ \/ /\ Writes
        /\ \E value \in Values :
             Len(value) = Len(pending.expected) /\ Mem!Write(pending.address, value)
        /\ Noting("modify")
     \/ /\ ~ Writes
        /\ UNCHANGED <<memory, problems>>
  /\ UNCHANGED <<inputs, byError, area, calls, result>>

MarkUnsupported(a) ==
  /\ Call
  /\ Mem!SetUnsupported(a)
  /\ problems' = Append(problems, [phase |-> "run", what |-> "unsupported"])
  /\ UNCHANGED <<byError, pc, pending>>

MissingBlock(a) == MarkUnsupported(a)

AsyncHyperCall(a) == MarkUnsupported(a)

\* VERR and VERW write a flag (RowRegisters); of any other call the selector is
\* reported as the address.
SyncHyperCall(selector) == Inert \/ MarkUnsupported(selector)

\* Reading or writing a port of any width.
AccessPort(a) == MarkUnsupported(a)

\* The lifted code raises an exception; which one it does not say.
RemillError(a, exception) ==
  /\ Call
  /\ Mem!SetUnsupported(a)
  /\ byError' = (byError \/ report = NoFault)
  /\ problems' = Append(problems, [phase |-> "run", what |-> exception])
  /\ UNCHANGED <<pc, pending>>

Intrinsic ==
  \/ Inert
  \/ \E a \in Address :
       \/ \E value \in Values :
            \/ ReadMemory(a, Len(value))
            \/ WriteMemory(a, value)
            \/ \E op \in {"fetch", "exchange"} : ReadToModify(op, a, value)
       \/ MissingBlock(a) \/ AsyncHyperCall(a) \/ SyncHyperCall(a) \/ AccessPort(a)
       \/ \E e \in Exceptions : RemillError(a, e)
  \/ Modify

----------------------------------------------------------------------------
(* The result.                                                             *)

ok == report = NoFault

LiftedFunctionReturns ==
  /\ pc = "run"
  /\ pc' = IF ok THEN "collect" ELSE "classify"
  /\ UNCHANGED <<inputs, memory, byError, area, calls, pending, result, problems>>

\* A defect: the loop goes on to the next expectation only after a failure.
SameCells(bytes) == IF ret'.is = "refused" THEN Append(observed, bytes) ELSE observed

Observed(bytes) == Append(observed, bytes)

\* Every expectation is read, after one that could not be read too.
Collect ==
  /\ pc = "collect"
  /\ IF Len(observed) = Len(row.expected)
       THEN pc' = "classify" /\ UNCHANGED <<memory, observed, problems>>
       ELSE LET cell == row.expected[Len(observed) + 1]
            IN  /\ Mem!Read(cell.address, Len(cell.bytes))
                /\ observed' = Observed(ret'.out)
                /\ Noting("collect")
                /\ UNCHANGED pc
  /\ UNCHANGED <<inputs, byError, area, calls, pending, outcome, detail, verdict>>

\* A defect: any unsupported helper passes for the exception.
AnyUnsupported == report.kind = "Unsupported" /\ row.exception # "none"

Raised == report.kind = "Unsupported" /\ byError /\ row.exception # "none"

Classify ==
  /\ pc = "classify"
  /\ pc' = "judge"
  /\ outcome' = IF ok THEN "Normal"
                ELSE IF Raised THEN "Exception"
                ELSE IF report.kind = "Unsupported" THEN "Unsupported"
                ELSE "Exception"
  /\ detail' = IF ok THEN "none" ELSE IF Raised THEN row.exception ELSE "fault"
  /\ UNCHANGED <<inputs, memory, byError, area, calls, pending, observed, verdict,
                 problems>>

CellsAgree == \A i \in DOMAIN row.expected : observed[i] = row.expected[i].bytes

\* CompareExecutionResult.
Passes ==
  IF row.exception # "none"
    THEN outcome = "Exception" /\ detail = row.exception
    ELSE outcome = "Normal" /\ registers = "equal" /\ CellsAgree

Judge ==
  /\ pc = "judge"
  /\ pc' = "done"
  /\ verdict' = IF outcome = "Unsupported" THEN "skipped"
                ELSE IF Passes THEN "passed" ELSE "failed"
  /\ UNCHANGED <<inputs, memory, byError, area, calls, pending, observed, outcome,
                 detail, problems>>

Next ==
  \/ ApplyInitialState \/ MapArea \/ FillArea
  \/ Intrinsic \/ LiftedFunctionReturns
  \/ Collect \/ Classify \/ Judge

\* RunCase is sequential, and the lifted code of one instruction returns.
Spec == Init /\ [][Next]_vars /\ WF_vars(Next)

(* Properties.                                                             *)

Problem == [phase : {"setup", "run", "modify", "collect"},
            what : {"refused", "unsupported"} \cup Exceptions]

TypeOK ==
  /\ row \in Rows
  /\ accepted \in BOOLEAN
  /\ registers \in {"equal", "different"}
  /\ Mem!TypeOK
  /\ byError \in BOOLEAN
  /\ pc \in {"apply", "map", "fill", "run", "modify", "collect", "classify",
             "judge", "done"}
  /\ area \in DOMAIN Areas
  /\ calls \in 0..MaxCalls
  /\ pending \in [op : {"none", "fetch", "exchange"}, address : Address,
                  expected : Seq(Byte)]
  /\ observed \in Seq(Seq(Byte))
  /\ Len(observed) <= Len(row.expected)
  /\ outcome \in {"none", "Normal", "Exception", "Unsupported"}
  /\ detail \in {"none", "fault"} \cup Exceptions
  /\ verdict \in {"none", "passed", "failed", "skipped"}
  /\ problems \in Seq(Problem)

\* What a row has to be like for its set-up to succeed: the code lies on one
\* page, and no cell runs past the end of the address space.
Fits ==
  /\ PageOffset(row.address) + Len(row.opcode) <= PageSize
  /\ \A i \in DOMAIN row.cells :
       row.cells[i].address + Len(row.cells[i].bytes) - 1 <= MaxAddress

\* The results of Map and Write are ignored, and a fault in the set-up would be
\* taken for one of the instruction.  For a row that fits there is none,
\* wherever its cells lie and however they overlap its code and each other.
SetUpIsSilent ==
  Fits => \A i \in DOMAIN problems : problems[i].phase # "setup"

\* When the lifted function is entered it finds what the row lists: in every
\* byte of a cell the value of the last cell that covers it, and zeros in what
\* is mapped and neither listed nor code.
Covers(cell, a) == a \in RangeOf(cell.address, Len(cell.bytes))

LoadedWith(a, cells) ==
  IF \E i \in DOMAIN cells : Covers(cells[i], a)
    THEN LET last == CHOOSE i \in DOMAIN cells :
                       /\ Covers(cells[i], a)
                       /\ \A j \in DOMAIN cells : Covers(cells[j], a) => j <= i
         IN  cells[last].bytes[a - cells[last].address + 1]
    ELSE 0

RowIsLoaded ==
  pc = "run" /\ calls = 0 /\ Fits =>
    LET code == [address |-> row.address, bytes |-> row.opcode]
    IN  \A a \in Address : byte[a] = LoadedWith(a, <<code>> \o row.cells)

\* A read-modify-write is never left half done: when its read was allowed its
\* write is, although the two are checked one after the other.
ReadModifyWriteIsWhole ==
  \A i \in DOMAIN problems : problems[i].phase # "modify"

\* The verdict from what went wrong, by definition: only the first problem
\* counts, whatever came after it.
Warranted ==
  IF ~ accepted THEN "skipped"
  ELSE IF problems # <<>> THEN
    CASE problems[1].what = "refused"     -> "failed"
      [] problems[1].what = "unsupported" -> "skipped"
      [] OTHER -> IF row.exception = "none" THEN "skipped" ELSE "passed"
  ELSE IF /\ row.exception = "none"
          /\ registers = "equal"
          /\ \A i \in DOMAIN row.expected :
               row.expected[i].bytes
                 = Mem!Contents(row.expected[i].address, Len(row.expected[i].bytes))
    THEN "passed" ELSE "failed"

\* A row passes only when nothing at all went wrong and the memory holds what
\* it expects, or when an exception it expects was the first thing that went
\* wrong; it is skipped only when the bridge, the lifted code or a helper is at
\* its limits.
VerdictIsWarranted == pc = "done" => verdict = Warranted

\* Every row comes to a verdict.
RowEnds == <>(pc = "done")

(***************************************************************************)
(* What the design says of rows that expect an exception: the kind has to  *)
(* match (PLAN.md, "Comparator plan").                                     *)
(***************************************************************************)
ExceptionKindMatches ==
  verdict = "passed" /\ row.exception # "none" => problems[1].what = row.exception

=============================================================================
