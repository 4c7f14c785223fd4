------------------------- MODULE RowExecutionProofs -------------------------
(***************************************************************************)
(* Theorems about RowExecution, for every address space, every set of rows *)
(* and any number of calls of the intrinsics.                              *)
(*                                                                         *)
(* The invariants of RowExecution are not inductive: what a step may do to *)
(* the memory depends on what is mapped, and the verdict on which problem  *)
(* came first.  IInv adds what is missing, one named part for each part of *)
(* a row's life.                                                           *)
(***************************************************************************)
EXTENDS RowExecution, DataTheorems

----------------------------------------------------------------------------
(* Pages.                                                                  *)

\* An address lies on its page, at most a page size above its base.
LEMMA BaseAndOffset ==
  ASSUME NEW a \in Nat
  PROVE  /\ PageOffset(a) \in Offset
         /\ PageBase(a) \in Nat
         /\ PageBase(a) <= a
         /\ a < PageBase(a) + PageSize
         /\ a = PageBase(a) + PageOffset(a)
  BY FloorAndRest, PageSizeAssumption DEF PageOffset, PageBase, Floor, Offset

\* The base of a page is aligned.
LEMMA BaseIsAligned ==
  ASSUME NEW a \in Nat
  PROVE  PageOffset(PageBase(a)) = 0
  BY FloorIsMultiple, PageSizeAssumption DEF PageOffset, PageBase, Floor

\* Moving inside a page changes the offset and not the page.
LEMMA SamePage ==
  ASSUME NEW a \in Nat, NEW d \in Nat, PageOffset(a) + d < PageSize
  PROVE  /\ PageOffset(a + d) = PageOffset(a) + d
         /\ PageBase(a + d) = PageBase(a)
  BY SameFloor, PageSizeAssumption DEF PageOffset, PageBase, Floor

\* Pages are ordered as their addresses are.
LEMMA BaseIsMonotone ==
  ASSUME NEW a \in Nat, NEW b \in Nat, a <= b
  PROVE  PageBase(a) <= PageBase(b)
  BY FloorIsMonotone, PageSizeAssumption DEF PageOffset, PageBase, Floor

\* Every page lies inside the address space, whole.
LEMMA PageFits ==
  ASSUME NEW a \in Address
  PROVE  /\ PageBase(a) \in PageBases
         /\ PageBase(a) + PageSize <= MaxAddress + 1
<1>1. a \in Nat /\ PageBase(a) \in Nat /\ PageBase(a) <= a
      /\ PageBase(a) % PageSize = 0 /\ a <= MaxAddress /\ MaxAddress \in Nat
  BY BaseAndOffset, BaseIsAligned, MaxAddressAssumption DEF Address, PageOffset
<1>2. (MaxAddress + 1) % PageSize = 0
  BY MaxAddressAssumption
<1>3. PageBase(a) + PageSize <= MaxAddress + 1
  BY <1>1, <1>2, MultiplesApart, PageSizeAssumption
<1> QED BY <1>1, <1>3 DEF PageBases, Address, PageOffset

----------------------------------------------------------------------------
(* The inductive invariant.                                                *)

\* The memory reports the first problem, and byError says whether that was a
\* call of __remill_error.
ReportIsFirstProblem ==
  /\ (report = NoFault) <=> (problems = <<>>)
  /\ problems = <<>> => ~ byError
  /\ problems # <<>> =>
       /\ (report.kind = "Unsupported") <=> (problems[1].what # "refused")
       /\ byError <=> (problems[1].what \in Exceptions)

\* RunCase maps no page that may be read and not written.
MappedIsReadWrite == \A a \in mapped : {"read", "write"} \subseteq rights[a]

\* Between the read and the write of a read-modify-write nothing runs.
ModifyFollowsRead ==
  pc = "modify" =>
    /\ calls # 0
    /\ pending.expected # <<>>
    /\ ret.is = "ok" =>
         Mem!Allowed(pending.address, Len(pending.expected), "read")

\* When an area is filled, it has just been mapped.
AreaIsMapped ==
  pc = "fill" /\ Fits =>
    \A a \in RangeOf(Areas[area].address, Len(Areas[area].bytes)) :
      a \in mapped /\ "write" \in rights[a]

\* Every byte is what the last of the first n areas that covers it has there.
LastCovers(n, i, a) ==
  Covers(Areas[i], a) /\ \A j \in 1..n : Covers(Areas[j], a) => j <= i

LoadedBy(n) ==
  \A a \in Address :
    \/ byte[a] = 0 /\ \A i \in 1..n : ~ Covers(Areas[i], a)
    \/ \E i \in 1..n : /\ LastCovers(n, i, a)
                       /\ byte[a] = Areas[i].bytes[a - Areas[i].address + 1]

AreasAreLoaded ==
  Fits =>
    /\ pc \in {"apply", "map", "fill"} => LoadedBy(area - 1)
    /\ pc = "run" /\ calls = 0 => LoadedBy(LastArea)

\* What was collected is what the memory holds, as long as nothing went wrong.
CollectedIsContents ==
  /\ pc \in {"apply", "map", "fill", "run", "modify"} => observed = <<>>
  /\ pc \notin {"apply", "judge", "done"} => accepted
  /\ problems = <<>> =>
       \A i \in DOMAIN observed :
         observed[i] = Mem!Contents(row.expected[i].address, Len(row.expected[i].bytes))
  /\ pc \in {"classify", "judge", "done"} /\ accepted /\ problems = <<>> =>
       Len(observed) = Len(row.expected)

\* What the first problem makes of the row.
OutcomeIsRight ==
  pc \in {"judge", "done"} =>
    IF ~ accepted THEN outcome = "Unsupported"
    ELSE IF problems = <<>> THEN outcome = "Normal" /\ detail = "none"
    ELSE IF problems[1].what = "refused"
      THEN outcome = "Exception" /\ detail = "fault"
    ELSE IF problems[1].what = "unsupported" \/ row.exception = "none"
      THEN outcome = "Unsupported"
    ELSE outcome = "Exception" /\ detail = row.exception

IInv ==
  /\ TypeOK
  /\ ReportIsFirstProblem
  /\ MappedIsReadWrite
  /\ ModifyFollowsRead
  /\ AreaIsMapped
  /\ AreasAreLoaded
  /\ CollectedIsContents
  /\ OutcomeIsRight
  /\ SetUpIsSilent
  /\ ReadModifyWriteIsWhole
  /\ VerdictIsWarranted

----------------------------------------------------------------------------
(* The memory.                                                             *)

\* A set of naturals that is not empty has a lowest member.
LEMMA LowestIsMember ==
  ASSUME NEW S \in SUBSET Nat, S # {}
  PROVE  Mem!Lowest(S) \in S
<1>1. PICK x \in S : \A y \in S : x <= y
  BY LeastNumber
<1> QED
  BY <1>1 DEF Mem!Lowest

\* What a refused access leaves behind: a fault of the guest or of the address
\* space, never the fault of an unsupported helper.
Complains ==
  \E kind \in {"Unmapped", "Permission", "BackendError"}, a \in Address :
    Mem!Remember(kind, a)

\* An access that is refused is refused at an address of the address space.
LEMMA RefuseComplains ==
  ASSUME NEW a \in Address, NEW n \in Nat \ {0}, NEW right,
         ~ Mem!Allowed(a, n, right), Mem!Refuse(a, n, right)
  PROVE  Complains
<1>1. CASE Mem!OutOfSpace(a, n)
  BY <1>1 DEF Mem!Refuse, Complains
<1>2. CASE ~ Mem!OutOfSpace(a, n)
  <2> DEFINE S == Mem!Refused(a, n, right)
             low == Mem!Lowest(S)
  <2>1. S # {}
    BY <1>2 DEF Mem!Allowed
  <2>2. S \subseteq RangeOf(a, n)
    BY DEF Mem!Refused, Mem!RangeOf, RangeOf
  <2>3. RangeOf(a, n) \subseteq Address /\ Address \subseteq Nat
    BY <1>2, MaxAddressAssumption DEF RangeOf, Address, Mem!OutOfSpace
  <2>4. low \in Address
    <3> HIDE DEF S
    <3> QED
      BY <2>1, <2>2, <2>3, LowestIsMember
  <2>5. Mem!Remember(IF low \in mapped THEN "Permission" ELSE "Unmapped", low)
    BY <1>2 DEF Mem!Refuse
  <2> QED
    BY <2>4, <2>5 DEF Complains
<1> QED
  BY <1>1, <1>2

\* What a call of the memory returns, and the fault it leaves if it is refused.
Answers ==
  /\ ret' \in [is : {"ok", "refused"}, out : Seq(Byte)]
  /\ ret'.is = "ok" => report' = report
  /\ ret'.is = "refused" => Complains

\* A read moves every byte it was asked for, and only where all are allowed.
LEMMA ReadFacts ==
  ASSUME Mem!TypeOK, NEW a \in Address, NEW n \in Nat, Mem!Read(a, n)
  PROVE  /\ Answers
         /\ UNCHANGED <<mapped, rights, byte>>
         /\ ret'.is = "ok" => /\ ret'.out = Mem!Contents(a, n)
                              /\ n # 0 => Mem!Allowed(a, n, "read")
<1>1. CASE n = 0
  <2>1. ret' = [is |-> "ok", out |-> <<>>] /\ UNCHANGED <<mapped, rights, byte, report>>
    BY <1>1 DEF Mem!Read, Mem!Returned
  <2>2. Mem!Contents(a, n) = <<>>
    BY <1>1 DEF Mem!Contents
  <2>3. <<>> \in Seq(Byte)
    OBVIOUS
  <2> QED
    BY <1>1, <2>1, <2>2, <2>3 DEF Answers
<1>2. CASE n # 0 /\ Mem!Allowed(a, n, "read")
  <2>1. /\ ret' = [is |-> "ok", out |-> Mem!Contents(a, n)]
        /\ UNCHANGED <<mapped, rights, byte, report>>
    BY <1>2 DEF Mem!Read, Mem!Returned
  <2>2. Mem!Contents(a, n) \in Seq(Byte)
    <3>1. a + n - 1 <= MaxAddress /\ a \in Nat /\ MaxAddress \in Nat
      BY <1>2, MaxAddressAssumption DEF Mem!Allowed, Mem!OutOfSpace, Address
    <3>2. \A i \in 1..n : a + i - 1 \in Address
      BY <3>1 DEF Address
    <3>3. \A i \in 1..n : byte[a + i - 1] \in Byte
      BY <3>2 DEF Mem!TypeOK, Mem!Address, Address
    <3>4. Mem!Contents(a, n) = [i \in 1..n |-> byte[a + i - 1]]
      BY DEF Mem!Contents
    <3> QED
      BY <3>3, <3>4
  <2> QED
    BY <1>2, <2>1, <2>2 DEF Answers
<1>3. CASE n # 0 /\ ~ Mem!Allowed(a, n, "read")
  <2>1. /\ ret' = [is |-> "refused", out |-> Mem!Zeros(n)]
        /\ Mem!Refuse(a, n, "read")
        /\ UNCHANGED <<mapped, rights, byte>>
    BY <1>3 DEF Mem!Read, Mem!Returned
  <2>2. Mem!Zeros(n) \in Seq(Byte)
    BY ByteAssumption DEF Mem!Zeros
  <2>3. Complains
    BY <1>3, <2>1, RefuseComplains
  <2> QED
    BY <2>1, <2>2, <2>3 DEF Answers
<1> QED
  BY <1>1, <1>2, <1>3

\* A write that is allowed replaces the bytes of its range and no other, and
\* one that is not replaces none.
LEMMA WriteFacts ==
  ASSUME Mem!TypeOK, NEW a \in Address, NEW bytes \in Seq(Byte), Mem!Write(a, bytes)
  PROVE  /\ Answers
         /\ UNCHANGED <<mapped, rights>>
         /\ byte' \in [Address -> Byte]
         /\ Mem!Allowed(a, Len(bytes), "write") =>
              /\ ret'.is = "ok"
              /\ \A b \in Address :
                   byte'[b] = IF b \in RangeOf(a, Len(bytes))
                                THEN bytes[b - a + 1] ELSE byte[b]
<1>0. <<>> \in Seq(Byte) /\ Len(bytes) \in Nat /\ a \in Nat
      /\ byte \in [Address -> Byte]
  BY DEF Address, Mem!TypeOK, Mem!Address
<1>1. CASE bytes = <<>>
  <2>1. /\ ret' = [is |-> "ok", out |-> <<>>]
        /\ UNCHANGED <<mapped, rights, byte, report>>
    BY <1>1 DEF Mem!Write, Mem!Returned
  <2>2. RangeOf(a, Len(bytes)) = {}
    BY <1>0, <1>1 DEF RangeOf
  <2> QED
    BY <1>0, <2>1, <2>2 DEF Answers
<1>2. CASE bytes # <<>> /\ Mem!Allowed(a, Len(bytes), "write")
  <2>1. /\ ret' = [is |-> "ok", out |-> <<>>]
        /\ byte' = [b \in Address |-> IF b \in RangeOf(a, Len(bytes))
                                        THEN bytes[b - a + 1] ELSE byte[b]]
        /\ UNCHANGED <<mapped, rights, report>>
    BY <1>2 DEF Mem!Write, Mem!Returned, Mem!Address, Address, Mem!RangeOf, RangeOf
  <2>2. \A b \in RangeOf(a, Len(bytes)) : b - a + 1 \in 1..Len(bytes)
    BY <1>0 DEF RangeOf
  <2>3. \A b \in RangeOf(a, Len(bytes)) : bytes[b - a + 1] \in Byte
    BY <2>2
  <2> QED
    BY <1>0, <2>1, <2>3 DEF Answers
<1>3. CASE bytes # <<>> /\ ~ Mem!Allowed(a, Len(bytes), "write")
  <2>1. /\ ret' = [is |-> "refused", out |-> <<>>]
        /\ Mem!Refuse(a, Len(bytes), "write")
        /\ UNCHANGED <<mapped, rights, byte>>
    BY <1>3 DEF Mem!Write, Mem!Returned
  <2>2. Len(bytes) \in Nat \ {0}
    BY <1>0, <1>3
  <2>3. Complains
    BY <1>3, <2>1, <2>2, RefuseComplains
  <2> QED
    BY <1>0, <1>3, <2>1, <2>3 DEF Answers
<1> QED
  BY <1>1, <1>2, <1>3

\* A map grants its rights to whole pages, or fails and does nothing.
LEMMA MapFacts ==
  ASSUME Mem!TypeOK, NEW a \in Address, NEW n \in Nat, NEW granted \in SUBSET Right,
         Mem!Map(a, n, granted)
  PROVE  /\ Answers
         /\ UNCHANGED byte
         /\ mapped' \subseteq Address
         /\ rights' \in [Address -> SUBSET Right]
         /\ mapped \subseteq mapped'
         /\ \A b \in mapped' : \/ b \in mapped /\ rights'[b] = rights[b]
                               \/ rights'[b] = granted
         /\ n # 0 /\ ~ Mem!OutOfSpace(a, n) =>
              \A b \in Mem!Touched(a, n) : b \in mapped' /\ rights'[b] = granted
         /\ n = 0 \/ ~ Mem!OutOfSpace(a, n) => ret'.is = "ok"
<1>0. /\ <<>> \in Seq(Byte) /\ mapped \subseteq Address
      /\ rights \in [Address -> SUBSET Right]
  BY DEF Mem!TypeOK, Mem!Address, Address, Mem!Right, Right
<1>1. CASE n = 0
  <2>1. /\ ret' = [is |-> "ok", out |-> <<>>]
        /\ UNCHANGED <<mapped, rights, byte, report>>
    BY <1>1 DEF Mem!Map, Mem!Returned
  <2> QED
    BY <1>0, <1>1, <2>1 DEF Answers
<1>2. CASE n # 0 /\ Mem!OutOfSpace(a, n)
  <2>1. /\ ret' = [is |-> "refused", out |-> <<>>]
        /\ Mem!Remember("BackendError", a)
        /\ UNCHANGED <<mapped, rights, byte>>
    BY <1>2 DEF Mem!Map, Mem!Returned
  <2> QED
    BY <1>0, <1>2, <2>1 DEF Answers, Complains
<1>3. CASE n # 0 /\ ~ Mem!OutOfSpace(a, n)
  <2> DEFINE T == Mem!Touched(a, n)
  <2>1. /\ ret' = [is |-> "ok", out |-> <<>>]
        /\ mapped' = mapped \cup T
        /\ rights' = [b \in Address |-> IF b \in T THEN granted ELSE rights[b]]
        /\ UNCHANGED <<byte, report>>
    BY <1>3 DEF Mem!Map, Mem!Returned, Mem!Address, Address
  <2>2. T \subseteq Address
    BY DEF Mem!Touched, Mem!Address, Address
  <2> HIDE DEF T
  <2>3. mapped' \subseteq Address /\ rights' \in [Address -> SUBSET Right]
    BY <1>0, <2>1, <2>2
  <2>4. \A b \in T : b \in mapped' /\ rights'[b] = granted
    BY <2>1, <2>2
  <2>5. \A b \in mapped' : \/ b \in mapped /\ rights'[b] = rights[b]
                           \/ rights'[b] = granted
    BY <1>0, <2>1, <2>2
  <2> USE DEF T
  <2> QED
    BY <1>0, <2>1, <2>3, <2>4, <2>5 DEF Answers
<1> QED
  BY <1>1, <1>2, <1>3

----------------------------------------------------------------------------
(* The problems.                                                           *)

\* The fault that is there stays; without one, the new one is reported.
LEMMA RememberFacts ==
  ASSUME report \in Faults, NEW kind \in FaultKind \ {"None"}, NEW a \in Address,
         Mem!Remember(kind, a)
  PROVE  /\ report' \in Faults /\ report' # NoFault
         /\ report # NoFault => report' = report
         /\ report = NoFault => report'.kind = kind
  BY DEF Mem!Remember, Mem!Fault, Mem!NoFault, Fault, NoFault, Faults

\* The list of problems grows at its end.
ProblemsGrow ==
  /\ problems' \in Seq(Problem)
  /\ problems # <<>> => problems' # <<>> /\ problems'[1] = problems[1]

\* What can go wrong first.
LEMMA FirstProblemType ==
  ASSUME problems \in Seq(Problem), problems # <<>>
  PROVE  problems[1].what \in {"refused", "unsupported"} \cup Exceptions
<1>1. problems[1] \in Problem
  OBVIOUS
<1> QED
  BY <1>1 DEF Problem

\* A new problem is the first one if there was none.
LEMMA AppendProblem ==
  ASSUME problems \in Seq(Problem), NEW p \in Problem,
         problems' = Append(problems, p)
  PROVE  /\ ProblemsGrow /\ problems' # <<>>
         /\ problems = <<>> => problems'[1] = p
         /\ \A i \in DOMAIN problems' :
              problems'[i] = p \/ (i \in DOMAIN problems /\ problems'[i] = problems[i])
<1>1. problems' \in Seq(Problem) /\ problems' # <<>>
  OBVIOUS
<1>2. \A i \in DOMAIN problems' :
        problems'[i] = p \/ (i \in DOMAIN problems /\ problems'[i] = problems[i])
  <2> DEFINE s == problems
             n == Len(s)
  <2>1. /\ DOMAIN s = 1..n /\ n \in Nat
        /\ DOMAIN Append(s, p) = 1..(n + 1)
        /\ \A i \in 1..n : Append(s, p)[i] = s[i]
        /\ Append(s, p)[n + 1] = p
    OBVIOUS
  <2> HIDE DEF n
  <2>2. \A i \in 1..(n + 1) : i \in 1..n \/ i = n + 1
    BY <2>1
  <2>3. ASSUME NEW i \in DOMAIN problems'
        PROVE  problems'[i] = p \/ (i \in DOMAIN problems /\ problems'[i] = problems[i])
    <3>1. i \in 1..n \/ i = n + 1
      BY <2>1, <2>2
    <3> QED
      BY <2>1, <3>1
  <2> QED
    BY <2>3
<1>3. problems # <<>> => problems'[1] = problems[1]
  OBVIOUS
<1>4. problems = <<>> => problems'[1] = p
  OBVIOUS
<1> QED
  BY <1>1, <1>2, <1>3, <1>4 DEF ProblemsGrow

\* Noting the answer of a call keeps the report at the first problem.
LEMMA NotingFirst ==
  ASSUME TypeOK, ReportIsFirstProblem, Answers, UNCHANGED byError,
         NEW phase \in {"setup", "run", "modify", "collect"}, Noting(phase)
  PROVE  /\ report' \in Faults
         /\ ReportIsFirstProblem'
         /\ ProblemsGrow
         /\ ret'.is = "ok" => UNCHANGED problems
         /\ \A i \in DOMAIN problems' :
              \/ problems'[i].phase = phase
              \/ i \in DOMAIN problems /\ problems'[i] = problems[i]
<1> DEFINE p == [phase |-> phase, what |-> "refused"]
<1>1. report \in Faults /\ problems \in Seq(Problem)
  BY DEF TypeOK, Mem!TypeOK, Mem!Faults, Faults, Mem!FaultKind, FaultKind,
         Mem!Address, Address
<1>2. CASE ret'.is = "ok"
  <2>1. UNCHANGED <<problems, report>>
    BY <1>2 DEF Noting, Answers
  <2> QED
    BY <1>1, <1>2, <2>1 DEF ReportIsFirstProblem, ProblemsGrow
<1>3. CASE ret'.is = "refused"
  <2>1. p \in Problem /\ p.phase = phase /\ p.what = "refused"
    BY DEF Problem
  <2>2. problems' = Append(problems, p)
    BY <1>3 DEF Noting
  <2>3. PICK kind \in {"Unmapped", "Permission", "BackendError"}, a \in Address :
          Mem!Remember(kind, a)
    BY <1>3 DEF Answers, Complains
  <2>4. /\ report' \in Faults /\ report' # NoFault
        /\ report # NoFault => report' = report
        /\ report = NoFault => report'.kind = kind
    BY <1>1, <2>3, RememberFacts DEF FaultKind
  <2>5. /\ ProblemsGrow /\ problems' # <<>>
        /\ problems = <<>> => problems'[1] = p
        /\ \A i \in DOMAIN problems' :
             problems'[i] = p \/ (i \in DOMAIN problems /\ problems'[i] = problems[i])
    BY <1>1, <2>1, <2>2, AppendProblem
  <2>6. "refused" \notin Exceptions
    BY ExceptionsAssumption
  <2> HIDE DEF p
  <2>7. CASE problems = <<>>
    <3>1. report = NoFault /\ report'.kind # "Unsupported" /\ ~ byError
          /\ problems'[1].what = "refused"
      BY <2>1, <2>3, <2>4, <2>5, <2>7 DEF ReportIsFirstProblem
    <3>2. byError' = byError /\ ~ byError
      BY <3>1
    <3>3. ReportIsFirstProblem'
      BY <2>4, <2>5, <2>6, <3>1, <3>2 DEF ReportIsFirstProblem
    <3> QED
      BY <1>3, <2>1, <2>4, <2>5, <3>3
  <2>8. CASE problems # <<>>
    <3>1. report' = report /\ problems'[1] = problems[1]
      BY <2>4, <2>5, <2>8 DEF ReportIsFirstProblem, ProblemsGrow
    <3>2. ReportIsFirstProblem'
      BY <2>4, <2>5, <2>8, <3>1 DEF ReportIsFirstProblem
    <3> QED
      BY <1>3, <2>1, <2>4, <2>5, <3>2
  <2> QED
    BY <2>7, <2>8
<1> QED
  BY <1>2, <1>3 DEF Answers

----------------------------------------------------------------------------
(* The areas of a row.                                                     *)

\* The row as the assumption describes it.
LEMMA RowType ==
  ASSUME row \in Rows
  PROVE  /\ row.address \in Address /\ row.opcode \in Seq(Byte)
         /\ row.cells \in Seq(Cell) /\ row.expected \in Seq(Cell)
         /\ row.exception \in Exceptions \cup {"none"}
  BY RowsAssumption

\* An area may be read and written, whatever the row says.
LEMMA AreaType ==
  ASSUME row \in Rows, NEW i \in DOMAIN Areas
  PROVE  /\ Areas[i].base \in Address /\ Areas[i].size \in Nat
         /\ Areas[i].granted \in SUBSET Right
         /\ {"read", "write"} \subseteq Areas[i].granted
         /\ Areas[i].address \in Address /\ Areas[i].bytes \in Seq(Byte)
<1>1. CASE i = 1
  <2>1. Areas[i] = CodeArea
    BY <1>1 DEF Areas
  <2>2. PageBase(row.address) \in Address
    BY RowType, PageFits DEF PageBases
  <2> QED
    BY <2>1, <2>2, RowType, PageSizeAssumption DEF CodeArea, Right
<1>2. CASE i # 1
  <2>1. i - 1 \in 1..Len(row.cells)
    BY <1>2, RowType DEF Areas
  <2>2. Areas[i] = CellArea(row.cells[i - 1]) /\ row.cells[i - 1] \in Cell
    BY <1>2, <2>1, RowType DEF Areas
  <2> QED
    BY <2>2 DEF CellArea, ReadWrite, Right, Cell
<1> QED
  BY <1>1, <1>2

\* An area that fits is mapped where it is going to be filled.
LEMMA AreaFits ==
  ASSUME row \in Rows, Fits, NEW i \in DOMAIN Areas
  PROVE  /\ Areas[i].size = 0 \/ ~ Mem!OutOfSpace(Areas[i].base, Areas[i].size)
         /\ ~ Mem!OutOfSpace(Areas[i].address, Len(Areas[i].bytes))
         /\ \A a \in RangeOf(Areas[i].address, Len(Areas[i].bytes)) :
              Areas[i].size # 0 /\ a \in Mem!Touched(Areas[i].base, Areas[i].size)
<1> DEFINE A == Areas[i]
           n == Len(A.bytes)
<1>0. /\ A.base \in Address /\ A.base \in Nat /\ A.size \in Nat
      /\ A.address \in Address /\ A.address \in Nat /\ n \in Nat
      /\ MaxAddress \in Nat
  BY AreaType, MaxAddressAssumption DEF Address
<1>1. CASE i = 1
  <2>1. /\ A.base = PageBase(row.address) /\ A.size = PageSize
        /\ A.address = row.address /\ n = Len(row.opcode)
    BY <1>1 DEF Areas, CodeArea
  <2>2. /\ PageBase(A.address) + PageSize <= MaxAddress + 1
        /\ PageBase(A.address) \in Nat
        /\ A.address = PageBase(A.address) + PageOffset(A.address)
        /\ PageOffset(A.address) \in Offset
        /\ PageOffset(A.address) + n <= PageSize
    BY <1>0, <2>1, PageFits, BaseAndOffset DEF Fits
  <2>3. ~ Mem!OutOfSpace(A.base, A.size) /\ ~ Mem!OutOfSpace(A.address, n)
    <3> HIDE DEF A, n
    <3> QED
      BY <1>0, <2>1, <2>2, PageSizeAssumption DEF Mem!OutOfSpace, Offset
  <2>4. ASSUME NEW a \in RangeOf(A.address, n)
        PROVE  A.size # 0 /\ a \in Mem!Touched(A.base, A.size)
    <3> HIDE DEF A, n
    <3>1. /\ a - A.address \in Nat /\ a = A.address + (a - A.address)
          /\ PageOffset(A.address) + (a - A.address) < PageSize
          /\ a \in Address
      BY <1>0, <2>2, PageSizeAssumption DEF RangeOf, Offset, Address
    <3>2. PageBase(a) = PageBase(A.address)
      BY <1>0, <3>1, SamePage
    <3>3. PageBase(A.base) = A.base
      <4>1. PageOffset(A.base) = 0
        BY <1>0, <2>1, BaseIsAligned
      <4> QED
        BY <1>0, <4>1 DEF PageBase
    <3>4. PageBase(A.base) <= PageBase(A.base + A.size - 1)
      <4>1. A.base + A.size - 1 \in Nat /\ A.base <= A.base + A.size - 1
        BY <1>0, <2>1, PageSizeAssumption
      <4> QED
        BY <1>0, <4>1, BaseIsMonotone
    <3>5. PageBase(a) = A.base
      BY <2>1, <3>2
    <3>6. PageBase(a) >= PageBase(A.base) /\ PageBase(a) <= PageBase(A.base + A.size - 1)
      BY <1>0, <3>3, <3>4, <3>5
    <3> QED
      BY <2>1, <3>1, <3>6, PageSizeAssumption
         DEF Mem!Touched, Mem!Address, Address, Mem!PageBase, PageBase,
             Mem!PageOffset, PageOffset
  <2> QED
    BY <2>3, <2>4
<1>2. CASE i # 1
  <2> DEFINE cell == row.cells[i - 1]
  <2>1. i - 1 \in DOMAIN row.cells
    BY <1>2, RowType DEF Areas
  <2>2. A = CellArea(cell)
    BY <1>2, <2>1 DEF Areas
  <2>3. /\ A.base = A.address /\ A.size = n
        /\ A.address = cell.address /\ n = Len(cell.bytes)
    BY <2>2 DEF CellArea
  <2>4. A.address + n - 1 <= MaxAddress
    BY <2>1, <2>3 DEF Fits
  <2>5. ~ Mem!OutOfSpace(A.base, A.size) /\ ~ Mem!OutOfSpace(A.address, n)
    <3> HIDE DEF A, n
    <3> QED
      BY <1>0, <2>3, <2>4 DEF Mem!OutOfSpace
  <2>6. ASSUME NEW a \in RangeOf(A.address, n)
        PROVE  A.size # 0 /\ a \in Mem!Touched(A.base, A.size)
    <3> HIDE DEF A, n
    <3>1. /\ a \in Nat /\ A.address <= a /\ a <= A.address + n - 1 /\ n # 0
          /\ a \in Address /\ A.address + n - 1 \in Nat
      BY <1>0, <2>4 DEF RangeOf, Address
    <3>2. /\ PageBase(a) >= PageBase(A.base)
          /\ PageBase(a) <= PageBase(A.base + A.size - 1)
      <4>1. PageBase(A.address) <= PageBase(a)
        BY <1>0, <3>1, BaseIsMonotone
      <4>2. PageBase(a) <= PageBase(A.address + n - 1)
        BY <3>1, BaseIsMonotone
      <4>3. PageBase(a) \in Nat /\ PageBase(A.address) \in Nat
        BY <1>0, <3>1, BaseAndOffset
      <4> QED
        BY <2>3, <4>1, <4>2, <4>3
    <3> QED
      BY <2>3, <3>1, <3>2
         DEF Mem!Touched, Mem!Address, Address, Mem!PageBase, PageBase,
             Mem!PageOffset, PageOffset
  <2> QED
    BY <2>5, <2>6
<1> QED
  BY <1>1, <1>2

\* Filling one more area makes it the last one that counts.
LEMMA LoadedStep ==
  ASSUME row \in Rows, NEW n \in DOMAIN Areas, LoadedBy(n - 1), UNCHANGED row,
         \A a \in Address :
           byte'[a] = IF a \in RangeOf(Areas[n].address, Len(Areas[n].bytes))
                        THEN Areas[n].bytes[a - Areas[n].address + 1] ELSE byte[a]
  PROVE  LoadedBy(n)'
<1>1. Areas' = Areas
  BY DEF Areas, CodeArea, CellArea
<1>2. n \in Nat \ {0} /\ \A j \in 1..n : j \in 1..(n - 1) \/ j = n
  BY RowType DEF Areas
<1>3. ASSUME NEW a \in Address
      PROVE  \/ byte'[a] = 0 /\ \A i \in 1..n : ~ Covers(Areas[i], a)
             \/ \E i \in 1..n :
                  /\ LastCovers(n, i, a)
                  /\ byte'[a] = Areas[i].bytes[a - Areas[i].address + 1]
  <2>1. CASE Covers(Areas[n], a)
    <3>1. n \in 1..n /\ \A j \in 1..n : j <= n
      BY <1>2
    <3>2. byte'[a] = Areas[n].bytes[a - Areas[n].address + 1]
      BY <2>1 DEF Covers
    <3>3. LastCovers(n, n, a)
      BY <2>1, <3>1 DEF LastCovers
    <3> QED
      BY <3>1, <3>2, <3>3
  <2>2. CASE ~ Covers(Areas[n], a)
    <3>1. byte'[a] = byte[a]
      BY <2>2 DEF Covers
    <3>2. CASE byte[a] = 0 /\ \A i \in 1..(n - 1) : ~ Covers(Areas[i], a)
      BY <1>2, <2>2, <3>1, <3>2
    <3>3. CASE \E i \in 1..(n - 1) :
                 /\ LastCovers(n - 1, i, a)
                 /\ byte[a] = Areas[i].bytes[a - Areas[i].address + 1]
      <4>1. PICK i \in 1..(n - 1) :
              /\ LastCovers(n - 1, i, a)
              /\ byte[a] = Areas[i].bytes[a - Areas[i].address + 1]
        BY <3>3
      <4>2. LastCovers(n, i, a)
        BY <1>2, <2>2, <4>1 DEF LastCovers
      <4>3. i \in 1..n
        BY <1>2
      <4> QED
        BY <3>1, <4>1, <4>2, <4>3
    <3> QED
      BY <3>2, <3>3 DEF LoadedBy
  <2> QED
    BY <2>1, <2>2
<1> QED
  BY <1>1, <1>3 DEF LoadedBy, LastCovers, Covers

----------------------------------------------------------------------------
(* The steps.                                                              *)

\* The variables of the memory have their types: the view of TypeOK the lemmas
\* about the memory use, and back.
LEMMA MemoryType ==
  ASSUME TypeOK
  PROVE  /\ Mem!TypeOK /\ mapped \subseteq Address
         /\ rights \in [Address -> SUBSET Right] /\ byte \in [Address -> Byte]
         /\ report \in Faults
         /\ ret \in [is : {"none", "ok", "refused"}, out : Seq(Byte)]
  BY DEF TypeOK, Mem!TypeOK, Mem!Address, Address, Mem!Right, Right, Mem!Faults,
         Faults, Mem!FaultKind, FaultKind

LEMMA MemoryTypeAfter ==
  ASSUME mapped' \subseteq Address, rights' \in [Address -> SUBSET Right],
         byte' \in [Address -> Byte], report' \in Faults,
         ret' \in [is : {"none", "ok", "refused"}, out : Seq(Byte)]
  PROVE  Mem!TypeOK'
  BY DEF Mem!TypeOK, Mem!Address, Address, Mem!Right, Right, Mem!Faults,
         Faults, Mem!FaultKind, FaultKind

LEMMA InitIInv == Init => IInv
<1> SUFFICES ASSUME Init PROVE IInv
  OBVIOUS
<1>1. /\ row \in Rows /\ Mem!Init /\ byError = FALSE /\ pc = "apply" /\ area = 1
      /\ calls = 0 /\ pending = NoPending /\ observed = <<>> /\ outcome = "none"
      /\ detail = "none" /\ verdict = "none" /\ problems = <<>>
      /\ accepted \in BOOLEAN /\ registers \in {"equal", "different"}
  BY DEF Init
<1>2. /\ mapped = {} /\ rights = [a \in Address |-> {}]
      /\ byte = [a \in Address |-> 0] /\ report = NoFault
      /\ ret = [is |-> "none", out |-> <<>>]
  BY <1>1 DEF Mem!Init, Mem!Address, Address, Mem!NoReturn, Mem!Returned,
              Mem!NoFault, NoFault, Mem!Fault, Fault
<1>3. 0 \in Address /\ <<>> \in Seq(Byte)
  BY MaxAddressAssumption DEF Address
<1>4. Mem!TypeOK
  BY <1>2, <1>3, ByteAssumption
     DEF Mem!TypeOK, Mem!Address, Address, Mem!Right, Right, Mem!Faults, Faults,
         Mem!FaultKind, FaultKind, NoFault, Fault
<1>5. TypeOK
  <2>1. area \in DOMAIN Areas
    BY <1>1, RowType DEF Areas
  <2>2. observed \in Seq(Seq(Byte)) /\ Len(observed) <= Len(row.expected)
    BY <1>1, RowType
  <2>3. calls \in 0..MaxCalls
    BY <1>1, RowsAssumption
  <2>4. pending \in [op : {"none", "fetch", "exchange"}, address : Address,
                     expected : Seq(Byte)]
    BY <1>1, <1>3 DEF NoPending
  <2>5. problems \in Seq(Problem)
    BY <1>1
  <2> QED
    BY <1>1, <1>4, <2>1, <2>2, <2>3, <2>4, <2>5 DEF TypeOK
<1>6. ReportIsFirstProblem /\ MappedIsReadWrite /\ ModifyFollowsRead /\ AreaIsMapped
  BY <1>1, <1>2 DEF ReportIsFirstProblem, MappedIsReadWrite, ModifyFollowsRead,
                    AreaIsMapped
<1>7. AreasAreLoaded
  <2>1. LoadedBy(0)
    BY <1>2 DEF LoadedBy
  <2>2. area - 1 = 0
    BY <1>1
  <2> QED
    BY <1>1, <2>1, <2>2 DEF AreasAreLoaded
<1>8. DOMAIN problems = {} /\ DOMAIN observed = {}
  BY <1>1
<1>9. CollectedIsContents /\ OutcomeIsRight
  BY <1>1, <1>8 DEF CollectedIsContents, OutcomeIsRight
<1>10. SetUpIsSilent /\ ReadModifyWriteIsWhole /\ VerdictIsWarranted
  BY <1>1, <1>8 DEF SetUpIsSilent, ReadModifyWriteIsWhole, VerdictIsWarranted
<1> QED
  BY <1>5, <1>6, <1>7, <1>9, <1>10 DEF IInv

\* The bridge may turn the row down before anything else happens.
LEMMA ApplyIInv ==
  ASSUME IInv, ApplyInitialState
  PROVE  IInv'
<1>1. /\ pc = "apply" /\ UNCHANGED <<inputs, memory, byError, area, calls, pending,
                                     observed, detail, verdict, problems>>
      /\ \/ accepted /\ pc' = "map" /\ UNCHANGED outcome
         \/ ~ accepted /\ pc' = "judge" /\ outcome' = "Unsupported"
  BY DEF ApplyInitialState
<1>2. UNCHANGED <<row, accepted, registers, mapped, rights, byte, report, ret>>
  BY <1>1 DEF inputs, memory
<1>3. Areas' = Areas /\ Fits' = Fits
  BY <1>2 DEF Areas, CodeArea, CellArea, Fits
<1>4. TypeOK'
  <2>1. Mem!TypeOK'
    BY <1>2, MemoryType, MemoryTypeAfter DEF IInv
  <2> QED
    BY <1>1, <1>2, <1>3, <2>1 DEF IInv, TypeOK
<1>5. AreasAreLoaded'
  <2>1. Fits => LoadedBy(area - 1)
    BY <1>1 DEF IInv, AreasAreLoaded
  <2>2. (Fits => LoadedBy(area - 1))'
    BY <1>1, <1>2, <1>3, <2>1 DEF LoadedBy, LastCovers, Covers
  <2> QED
    BY <1>1, <2>2 DEF AreasAreLoaded
<1>6. (ReportIsFirstProblem /\ MappedIsReadWrite /\ ModifyFollowsRead /\ AreaIsMapped)'
  BY <1>1, <1>2 DEF IInv, ReportIsFirstProblem, MappedIsReadWrite, ModifyFollowsRead,
                    AreaIsMapped
<1>7. (CollectedIsContents /\ OutcomeIsRight)'
  BY <1>1, <1>2 DEF IInv, CollectedIsContents, OutcomeIsRight, Mem!Contents
<1>8. (SetUpIsSilent /\ ReadModifyWriteIsWhole /\ VerdictIsWarranted)'
  BY <1>1, <1>2, <1>3 DEF IInv, SetUpIsSilent, ReadModifyWriteIsWhole,
                          VerdictIsWarranted
<1> QED
  BY <1>4, <1>5, <1>6, <1>7, <1>8 DEF IInv

\* What is mapped for the row is mapped where it will be filled, or the row
\* does not fit.
LEMMA MapAreaIInv ==
  ASSUME IInv, MapArea
  PROVE  IInv'
<1> DEFINE A == Areas[area]
<1>1. /\ pc = "map" /\ pc' = "fill"
      /\ Mem!Map(A.base, A.size, A.granted) /\ Noting("setup")
      /\ UNCHANGED <<inputs, byError, area, calls, pending, result>>
  BY DEF MapArea
<1>2. UNCHANGED <<row, accepted, registers, observed, outcome, detail, verdict>>
  BY <1>1 DEF inputs, result
<1>3. Areas' = Areas /\ Fits' = Fits
  BY <1>2 DEF Areas, CodeArea, CellArea, Fits
<1>4. row \in Rows /\ area \in DOMAIN Areas /\ TypeOK /\ Mem!TypeOK
  BY DEF IInv, TypeOK
<1>5. /\ A.base \in Address /\ A.size \in Nat /\ A.granted \in SUBSET Right
      /\ {"read", "write"} \subseteq A.granted
  BY <1>4, AreaType
<1>6. /\ Answers
      /\ UNCHANGED byte
      /\ mapped' \subseteq Address
      /\ rights' \in [Address -> SUBSET Right]
      /\ mapped \subseteq mapped'
      /\ \A b \in mapped' : \/ b \in mapped /\ rights'[b] = rights[b]
                            \/ rights'[b] = A.granted
      /\ A.size # 0 /\ ~ Mem!OutOfSpace(A.base, A.size) =>
           \A b \in Mem!Touched(A.base, A.size) :
             b \in mapped' /\ rights'[b] = A.granted
      /\ A.size = 0 \/ ~ Mem!OutOfSpace(A.base, A.size) => ret'.is = "ok"
  BY <1>1, <1>4, <1>5, MapFacts
<1>7. /\ report' \in Faults
      /\ ReportIsFirstProblem'
      /\ ProblemsGrow
      /\ ret'.is = "ok" => UNCHANGED problems
      /\ \A i \in DOMAIN problems' :
           \/ problems'[i].phase = "setup"
           \/ i \in DOMAIN problems /\ problems'[i] = problems[i]
  BY <1>1, <1>4, <1>6, NotingFirst DEF IInv
<1>8. TypeOK'
  <2>1. Mem!TypeOK'
    BY <1>4, <1>6, <1>7, MemoryType, MemoryTypeAfter DEF Answers
  <2> QED
    BY <1>1, <1>2, <1>3, <1>4, <1>7, <2>1 DEF TypeOK, ProblemsGrow
<1>9. MappedIsReadWrite'
  BY <1>5, <1>6 DEF IInv, MappedIsReadWrite
<1>10. AreaIsMapped'
  <2>1. ASSUME Fits, NEW a \in RangeOf(A.address, Len(A.bytes))
        PROVE  a \in mapped' /\ "write" \in rights'[a]
    BY <1>4, <1>5, <1>6, <2>1, AreaFits
  <2> QED
    BY <1>1, <1>3, <2>1 DEF AreaIsMapped
<1>11. AreasAreLoaded'
  <2>1. Fits => LoadedBy(area - 1)
    BY <1>1 DEF IInv, AreasAreLoaded
  <2>2. (Fits => LoadedBy(area - 1))'
    BY <1>1, <1>3, <1>6, <2>1 DEF LoadedBy, LastCovers, Covers
  <2> QED
    BY <1>1, <2>2 DEF AreasAreLoaded
<1>12. SetUpIsSilent'
  <2>1. Fits => UNCHANGED problems
    BY <1>4, <1>6, <1>7, AreaFits
  <2> QED
    BY <1>3, <2>1 DEF IInv, SetUpIsSilent
<1>13. ReadModifyWriteIsWhole'
  BY <1>7 DEF IInv, ReadModifyWriteIsWhole
<1>14. (ModifyFollowsRead /\ OutcomeIsRight /\ VerdictIsWarranted)'
  BY <1>1 DEF ModifyFollowsRead, OutcomeIsRight, VerdictIsWarranted
<1>15. CollectedIsContents'
  <2>1. observed' = <<>> /\ DOMAIN observed' = {} /\ accepted'
    BY <1>1, <1>2 DEF IInv, CollectedIsContents
  <2> QED
    BY <1>1, <2>1 DEF CollectedIsContents
<1> QED
  BY <1>7, <1>8, <1>9, <1>10, <1>11, <1>12, <1>13, <1>14, <1>15 DEF IInv

\* Filling an area that fits succeeds and adds it to what is loaded.
LEMMA FillAreaIInv ==
  ASSUME IInv, FillArea
  PROVE  IInv'
<1> DEFINE A == Areas[area]
<1>1. /\ pc = "fill" /\ Mem!Write(A.address, A.bytes) /\ Noting("setup")
      /\ \/ area = LastArea /\ pc' = "run" /\ UNCHANGED area
         \/ area # LastArea /\ pc' = "map" /\ area' = area + 1
      /\ UNCHANGED <<inputs, byError, calls, pending, result>>
  BY DEF FillArea
<1>2. UNCHANGED <<row, accepted, registers, observed, outcome, detail, verdict>>
  BY <1>1 DEF inputs, result
<1>3. Areas' = Areas /\ Fits' = Fits /\ LastArea' = LastArea
  BY <1>2 DEF Areas, CodeArea, CellArea, Fits, LastArea
<1>4. row \in Rows /\ area \in DOMAIN Areas /\ TypeOK /\ Mem!TypeOK
  BY DEF IInv, TypeOK
<1>5. A.address \in Address /\ A.bytes \in Seq(Byte)
  BY <1>4, AreaType
<1>6. /\ Answers
      /\ UNCHANGED <<mapped, rights>>
      /\ byte' \in [Address -> Byte]
      /\ Mem!Allowed(A.address, Len(A.bytes), "write") =>
           /\ ret'.is = "ok"
           /\ \A b \in Address :
                byte'[b] = IF b \in RangeOf(A.address, Len(A.bytes))
                             THEN A.bytes[b - A.address + 1] ELSE byte[b]
  BY <1>1, <1>4, <1>5, WriteFacts
<1>7. /\ report' \in Faults
      /\ ReportIsFirstProblem'
      /\ ProblemsGrow
      /\ ret'.is = "ok" => UNCHANGED problems
      /\ \A i \in DOMAIN problems' :
           \/ problems'[i].phase = "setup"
           \/ i \in DOMAIN problems /\ problems'[i] = problems[i]
  BY <1>1, <1>4, <1>6, NotingFirst DEF IInv
<1>8. Fits => Mem!Allowed(A.address, Len(A.bytes), "write")
  <2>1. Fits => \A a \in RangeOf(A.address, Len(A.bytes)) :
                  a \in mapped /\ "write" \in rights[a]
    BY <1>1 DEF IInv, AreaIsMapped
  <2>2. Fits => ~ Mem!OutOfSpace(A.address, Len(A.bytes))
    BY <1>4, AreaFits
  <2> QED
    BY <2>1, <2>2 DEF Mem!Allowed, Mem!Refused, Mem!RangeOf, RangeOf
<1>9. TypeOK'
  <2>1. Mem!TypeOK'
    BY <1>4, <1>6, <1>7, MemoryType, MemoryTypeAfter DEF Answers
  <2>2. area' \in DOMAIN Areas'
    BY <1>1, <1>3, <1>4, RowType DEF Areas, LastArea
  <2> QED
    BY <1>1, <1>2, <1>4, <1>7, <2>1, <2>2 DEF TypeOK, ProblemsGrow
<1>10. AreasAreLoaded'
  <2>1. Fits => LoadedBy(area - 1)
    BY <1>1 DEF IInv, AreasAreLoaded
  <2>2. ASSUME Fits, NEW n, n = area PROVE LoadedBy(n)'
    BY <1>2, <1>4, <1>6, <1>8, <2>1, <2>2, LoadedStep
  <2>3. CASE area = LastArea
    BY <1>1, <1>3, <2>2, <2>3 DEF AreasAreLoaded
  <2>4. CASE area # LastArea
    <3>1. area' - 1 = area
      BY <1>1, <1>4, <2>4, RowType DEF Areas
    <3> QED
      BY <1>1, <1>3, <2>2, <2>4, <3>1 DEF AreasAreLoaded
  <2> QED
    BY <2>3, <2>4
<1>11. SetUpIsSilent'
  BY <1>3, <1>6, <1>7, <1>8 DEF IInv, SetUpIsSilent
<1>12. ReadModifyWriteIsWhole'
  BY <1>7 DEF IInv, ReadModifyWriteIsWhole
<1>13. MappedIsReadWrite'
  BY <1>6 DEF IInv, MappedIsReadWrite
<1>14. (ModifyFollowsRead /\ AreaIsMapped /\ OutcomeIsRight /\ VerdictIsWarranted)'
  BY <1>1 DEF ModifyFollowsRead, AreaIsMapped, OutcomeIsRight, VerdictIsWarranted
<1>15. CollectedIsContents'
  <2>1. observed' = <<>> /\ DOMAIN observed' = {} /\ accepted'
    BY <1>1, <1>2 DEF IInv, CollectedIsContents
  <2> QED
    BY <1>1, <2>1 DEF CollectedIsContents
<1> QED
  BY <1>7, <1>9, <1>10, <1>11, <1>12, <1>13, <1>14, <1>15 DEF IInv

----------------------------------------------------------------------------
(* The intrinsics.                                                         *)

\* What any call of the lifted function keeps: it maps nothing, it is past the
\* set-up, and its problems are those of the run.
LEMMA RunStep ==
  ASSUME IInv, pc \in {"run", "modify"}, pc' \in {"run", "modify"},
         calls' \in 0..MaxCalls, calls' # 0,
         UNCHANGED <<inputs, area, result, mapped, rights>>,
         byte' \in [Address -> Byte], report' \in Faults, byError' \in BOOLEAN,
         ret' \in [is : {"none", "ok", "refused"}, out : Seq(Byte)],
         pending' \in [op : {"none", "fetch", "exchange"}, address : Address,
                       expected : Seq(Byte)],
         ModifyFollowsRead', ReportIsFirstProblem', ProblemsGrow,
         \A i \in DOMAIN problems' :
           \/ problems'[i].phase = "run"
           \/ i \in DOMAIN problems /\ problems'[i] = problems[i]
  PROVE  IInv'
<1>1. UNCHANGED <<row, accepted, registers, observed, outcome, detail, verdict>>
  BY DEF inputs, result
<1>2. Areas' = Areas /\ Fits' = Fits
  BY <1>1 DEF Areas, CodeArea, CellArea, Fits
<1>3. TypeOK'
  <2>1. Mem!TypeOK'
    BY MemoryType, MemoryTypeAfter DEF IInv
  <2> QED
    BY <1>1, <1>2, <2>1 DEF IInv, TypeOK, ProblemsGrow
<1>4. MappedIsReadWrite'
  BY DEF IInv, MappedIsReadWrite
<1>5. (AreaIsMapped /\ AreasAreLoaded /\ OutcomeIsRight /\ VerdictIsWarranted)'
  BY DEF AreaIsMapped, AreasAreLoaded, OutcomeIsRight, VerdictIsWarranted
<1>6. (SetUpIsSilent /\ ReadModifyWriteIsWhole)'
  BY <1>2 DEF IInv, SetUpIsSilent, ReadModifyWriteIsWhole
<1>7. CollectedIsContents'
  <2>1. observed' = <<>> /\ DOMAIN observed' = {} /\ accepted'
    BY <1>1 DEF IInv, CollectedIsContents
  <2> QED
    BY <2>1 DEF CollectedIsContents
<1> QED
  BY <1>3, <1>4, <1>5, <1>6, <1>7 DEF IInv

\* Call counts, and leaves alone all that RunStep wants left alone but the
\* memory's pages.
LEMMA CallFacts ==
  ASSUME IInv, Call
  PROVE  /\ pc = "run" /\ calls' \in 0..MaxCalls /\ calls' # 0
         /\ UNCHANGED <<inputs, area, result>>
  BY RowsAssumption DEF Call, IInv, TypeOK

LEMMA InertIInv ==
  ASSUME IInv, Inert
  PROVE  IInv'
<1>1. Call /\ UNCHANGED <<memory, byError, pc, pending, problems>>
  BY DEF Inert
<1>2. UNCHANGED <<mapped, rights, byte, report, ret>>
  BY <1>1 DEF memory
<1>3. pc = "run" /\ calls' \in 0..MaxCalls /\ calls' # 0
      /\ UNCHANGED <<inputs, area, result>>
  BY <1>1, CallFacts
<1>4. ReportIsFirstProblem' /\ ModifyFollowsRead'
  BY <1>1, <1>2, <1>3 DEF IInv, ReportIsFirstProblem, ModifyFollowsRead
<1>5. ProblemsGrow
  BY <1>1 DEF IInv, TypeOK, ProblemsGrow
<1>6. byte' \in [Address -> Byte] /\ report' \in Faults
      /\ ret' \in [is : {"none", "ok", "refused"}, out : Seq(Byte)]
  BY <1>2, MemoryType DEF IInv
<1>7. byError' \in BOOLEAN
      /\ pending' \in [op : {"none", "fetch", "exchange"}, address : Address,
                       expected : Seq(Byte)]
  BY <1>1 DEF IInv, TypeOK
<1> QED
  BY <1>1, <1>2, <1>3, <1>4, <1>5, <1>6, <1>7, RunStep

\* A read or a write of the lifted function, up to what it waits for.
LEMMA AccessStep ==
  ASSUME IInv, Call, Answers, UNCHANGED <<mapped, rights, byError>>,
         byte' \in [Address -> Byte], Noting("run"), pc' \in {"run", "modify"},
         pending' \in [op : {"none", "fetch", "exchange"}, address : Address,
                       expected : Seq(Byte)],
         ModifyFollowsRead'
  PROVE  IInv'
<1>1. pc = "run" /\ calls' \in 0..MaxCalls /\ calls' # 0
      /\ UNCHANGED <<inputs, area, result>>
  BY CallFacts
<1>2. /\ report' \in Faults
      /\ ReportIsFirstProblem'
      /\ ProblemsGrow
      /\ \A i \in DOMAIN problems' :
           \/ problems'[i].phase = "run"
           \/ i \in DOMAIN problems /\ problems'[i] = problems[i]
  BY NotingFirst DEF IInv
<1>3. ret' \in [is : {"none", "ok", "refused"}, out : Seq(Byte)]
  BY DEF Answers
<1>4. byError' \in BOOLEAN
  BY DEF IInv, TypeOK
<1> QED
  BY <1>1, <1>2, <1>3, <1>4, RunStep

LEMMA ReadMemoryIInv ==
  ASSUME IInv, NEW a \in Address, NEW n \in Nat, ReadMemory(a, n)
  PROVE  IInv'
<1>1. /\ Call /\ Mem!Read(a, n) /\ Noting("run") /\ UNCHANGED <<byError, pc, pending>>
  BY DEF ReadMemory
<1>2. Answers /\ UNCHANGED <<mapped, rights, byte>>
  BY <1>1, MemoryType, ReadFacts DEF IInv
<1>3. pc' = "run" /\ byte' \in [Address -> Byte] /\ ModifyFollowsRead'
  BY <1>1, <1>2, CallFacts, MemoryType DEF IInv, ModifyFollowsRead
<1>4. pending' \in [op : {"none", "fetch", "exchange"}, address : Address,
                    expected : Seq(Byte)]
  BY <1>1 DEF IInv, TypeOK
<1> QED
  BY <1>1, <1>2, <1>3, <1>4, AccessStep

LEMMA WriteMemoryIInv ==
  ASSUME IInv, NEW a \in Address, NEW value \in Values, WriteMemory(a, value)
  PROVE  IInv'
<1>1. /\ Call /\ Mem!Write(a, value) /\ Noting("run")
      /\ UNCHANGED <<byError, pc, pending>>
  BY DEF WriteMemory
<1>2. value \in Seq(Byte)
  BY RowsAssumption
<1>3. Answers /\ UNCHANGED <<mapped, rights>> /\ byte' \in [Address -> Byte]
  BY <1>1, <1>2, MemoryType, WriteFacts DEF IInv
<1>4. pc' = "run" /\ ModifyFollowsRead'
  BY <1>1, CallFacts DEF ModifyFollowsRead
<1>5. pending' \in [op : {"none", "fetch", "exchange"}, address : Address,
                    expected : Seq(Byte)]
  BY <1>1 DEF IInv, TypeOK
<1> QED
  BY <1>1, <1>3, <1>4, <1>5, AccessStep

\* The read half of a read-modify-write leaves behind what its write needs.
LEMMA ReadToModifyIInv ==
  ASSUME IInv, NEW op \in {"fetch", "exchange"}, NEW a \in Address,
         NEW expected \in Values, ReadToModify(op, a, expected)
  PROVE  IInv'
<1>1. /\ Call /\ Mem!Read(a, Len(expected)) /\ Noting("run") /\ pc' = "modify"
      /\ pending' = [op |-> op, address |-> a, expected |-> expected]
      /\ UNCHANGED byError
  BY DEF ReadToModify
<1>2. expected \in Seq(Byte) /\ expected # <<>> /\ Len(expected) \in Nat \ {0}
  BY RowsAssumption
<1>3. /\ Answers /\ UNCHANGED <<mapped, rights, byte>>
      /\ ret'.is = "ok" => Mem!Allowed(a, Len(expected), "read")
  BY <1>1, <1>2, MemoryType, ReadFacts DEF IInv
<1>4. byte' \in [Address -> Byte]
  BY <1>3, MemoryType DEF IInv
<1>5. ModifyFollowsRead'
  <2>1. /\ pending'.expected = expected /\ pending'.address = a
    BY <1>1
  <2>2. calls' # 0
    BY <1>1, CallFacts
  <2>3. ret'.is = "ok" => Mem!Allowed(pending.address, Len(pending.expected), "read")'
    BY <1>3, <2>1 DEF Mem!Allowed, Mem!Refused, Mem!OutOfSpace
  <2> QED
    BY <1>2, <2>1, <2>2, <2>3 DEF ModifyFollowsRead
<1>6. pending' \in [op : {"none", "fetch", "exchange"}, address : Address,
                    expected : Seq(Byte)]
  BY <1>1, <1>2
<1> QED
  BY <1>1, <1>3, <1>4, <1>5, <1>6, AccessStep

\* What may be read may be written, so the write half is not refused.
LEMMA ModifyIInv ==
  ASSUME IInv, Modify
  PROVE  IInv'
<1>1. /\ pc = "modify" /\ pc' = "run" /\ pending' = NoPending
      /\ UNCHANGED <<inputs, byError, area, calls, result>>
  BY DEF Modify
<1>2. calls' \in 0..MaxCalls /\ calls' # 0 /\ byError' \in BOOLEAN
  BY <1>1 DEF IInv, TypeOK, ModifyFollowsRead
<1>3. 0 \in Address /\ <<>> \in Seq(Byte)
  BY MaxAddressAssumption DEF Address
<1>4. pending' \in [op : {"none", "fetch", "exchange"}, address : Address,
                    expected : Seq(Byte)]
  BY <1>1, <1>3 DEF NoPending
<1>5. ModifyFollowsRead'
  BY <1>1 DEF ModifyFollowsRead
<1>6. CASE ~ Writes
  <2>1. UNCHANGED <<mapped, rights, byte, report, ret, problems>>
    BY <1>6 DEF Modify, memory
  <2>2. byte' \in [Address -> Byte] /\ report' \in Faults
        /\ ret' \in [is : {"none", "ok", "refused"}, out : Seq(Byte)]
    BY <2>1, MemoryType DEF IInv
  <2>3. ReportIsFirstProblem' /\ ProblemsGrow
    BY <1>1, <2>1 DEF IInv, TypeOK, ReportIsFirstProblem, ProblemsGrow
  <2> QED
    BY <1>1, <1>2, <1>4, <1>5, <2>1, <2>2, <2>3, RunStep
<1>7. CASE Writes
  <2>1. PICK value \in Values : /\ Len(value) = Len(pending.expected)
                                /\ Mem!Write(pending.address, value)
    BY <1>7 DEF Modify
  <2>2. Noting("modify")
    BY <1>7 DEF Modify
  <2>3. value \in Seq(Byte) /\ pending.address \in Address
    BY RowsAssumption DEF IInv, TypeOK
  <2>4. Mem!Allowed(pending.address, Len(value), "write")
    <3>1. Mem!Allowed(pending.address, Len(value), "read")
      BY <1>1, <1>7, <2>1 DEF IInv, ModifyFollowsRead, Writes, ReadSucceeded
    <3>2. \A b : b \in mapped /\ "read" \in rights[b] => "write" \in rights[b]
      BY DEF IInv, MappedIsReadWrite
    <3> QED
      BY <3>1, <3>2 DEF Mem!Allowed, Mem!Refused
  <2>5. /\ Answers /\ UNCHANGED <<mapped, rights>> /\ byte' \in [Address -> Byte]
        /\ ret'.is = "ok"
    BY <2>1, <2>3, <2>4, MemoryType, WriteFacts DEF IInv
  <2>6. /\ report' \in Faults
        /\ ReportIsFirstProblem'
        /\ ProblemsGrow
        /\ UNCHANGED problems
    BY <1>1, <2>2, <2>5, NotingFirst DEF IInv
  <2>7. ret' \in [is : {"none", "ok", "refused"}, out : Seq(Byte)]
    BY <2>5 DEF Answers
  <2> QED
    BY <1>1, <1>2, <1>4, <1>5, <2>5, <2>6, <2>7, RunStep
<1> QED
  BY <1>6, <1>7

\* A helper that is not supported, and __remill_error, are problems of the run;
\* only the second sets byError, and only if it is the first.
LEMMA UnsupportedStep ==
  ASSUME IInv, Call, NEW a \in Address, Mem!SetUnsupported(a),
         NEW what \in {"unsupported"} \cup Exceptions,
         problems' = Append(problems, [phase |-> "run", what |-> what]),
         byError' = (byError \/ (what \in Exceptions /\ report = NoFault)),
         UNCHANGED <<pc, pending>>
  PROVE  IInv'
<1> DEFINE p == [phase |-> "run", what |-> what]
<1>1. pc = "run" /\ calls' \in 0..MaxCalls /\ calls' # 0
      /\ UNCHANGED <<inputs, area, result>>
  BY CallFacts
<1>2. Mem!Remember("Unsupported", a) /\ UNCHANGED <<mapped, rights, byte, ret>>
  BY DEF Mem!SetUnsupported
<1>3. byte' \in [Address -> Byte] /\ report \in Faults
      /\ ret' \in [is : {"none", "ok", "refused"}, out : Seq(Byte)]
  BY <1>2, MemoryType DEF IInv
<1>4. /\ report' \in Faults /\ report' # NoFault
      /\ report # NoFault => report' = report
      /\ report = NoFault => report'.kind = "Unsupported"
  BY <1>2, <1>3, RememberFacts DEF FaultKind
<1>5. p \in Problem /\ p.phase = "run" /\ p.what = what /\ what # "refused"
  BY ExceptionsAssumption DEF Problem
<1>6. problems \in Seq(Problem) /\ byError \in BOOLEAN
  BY DEF IInv, TypeOK
<1>7. /\ ProblemsGrow /\ problems' # <<>>
      /\ problems = <<>> => problems'[1] = p
      /\ \A i \in DOMAIN problems' :
           problems'[i] = p \/ (i \in DOMAIN problems /\ problems'[i] = problems[i])
  BY <1>5, <1>6, AppendProblem
<1> HIDE DEF p
<1>8. ReportIsFirstProblem'
  <2>1. CASE problems = <<>>
    <3>1. report = NoFault /\ ~ byError
      BY <2>1 DEF IInv, ReportIsFirstProblem
    <3>2. byError' <=> what \in Exceptions
      BY <3>1
    <3>3. problems'[1].what = what
      BY <1>5, <1>7, <2>1
    <3> QED
      BY <1>4, <1>5, <1>7, <3>1, <3>2, <3>3 DEF ReportIsFirstProblem
  <2>2. CASE problems # <<>>
    <3>1. report # NoFault
      BY <2>2 DEF IInv, ReportIsFirstProblem
    <3>2. report' = report /\ problems'[1] = problems[1]
      BY <1>4, <1>7, <2>2, <3>1 DEF ProblemsGrow
    <3>3. byError' <=> byError
      BY <3>1
    <3> QED
      BY <1>4, <1>7, <2>2, <3>1, <3>2, <3>3 DEF IInv, ReportIsFirstProblem
  <2> QED
    BY <2>1, <2>2
<1>9. byError' \in BOOLEAN
  OBVIOUS
<1>10. ModifyFollowsRead'
  BY <1>1 DEF ModifyFollowsRead
<1>11. pending' \in [op : {"none", "fetch", "exchange"}, address : Address,
                     expected : Seq(Byte)]
  BY DEF IInv, TypeOK
<1> QED
  BY <1>1, <1>2, <1>3, <1>4, <1>5, <1>7, <1>8, <1>9, <1>10, <1>11, RunStep

LEMMA IntrinsicIInv ==
  ASSUME IInv, Intrinsic
  PROVE  IInv'
<1>1. CASE Inert
  BY <1>1, InertIInv
<1>2. ASSUME NEW a \in Address, NEW value \in Values,
             \/ ReadMemory(a, Len(value))
             \/ WriteMemory(a, value)
             \/ \E op \in {"fetch", "exchange"} : ReadToModify(op, a, value)
      PROVE  IInv'
  <2>1. Len(value) \in Nat
    BY RowsAssumption
  <2> QED
    BY <1>2, <2>1, ReadMemoryIInv, WriteMemoryIInv, ReadToModifyIInv
<1>3. ASSUME NEW a \in Address, MarkUnsupported(a) PROVE IInv'
  <2>1. /\ Call /\ Mem!SetUnsupported(a) /\ UNCHANGED <<byError, pc, pending>>
        /\ problems' = Append(problems, [phase |-> "run", what |-> "unsupported"])
    BY <1>3 DEF MarkUnsupported
  <2>2. "unsupported" \notin Exceptions /\ byError \in BOOLEAN
    BY ExceptionsAssumption DEF IInv, TypeOK
  <2>3. byError' = (byError \/ ("unsupported" \in Exceptions /\ report = NoFault))
    BY <2>1, <2>2
  <2> QED
    BY <2>1, <2>3, UnsupportedStep
<1>4. ASSUME NEW a \in Address, NEW e \in Exceptions, RemillError(a, e)
      PROVE  IInv'
  <2>1. /\ Call /\ Mem!SetUnsupported(a) /\ UNCHANGED <<pc, pending>>
        /\ problems' = Append(problems, [phase |-> "run", what |-> e])
        /\ byError' = (byError \/ report = NoFault)
    BY <1>4 DEF RemillError
  <2>2. byError' = (byError \/ (e \in Exceptions /\ report = NoFault))
    BY <2>1
  <2> QED
    BY <2>1, <2>2, UnsupportedStep
<1>5. CASE Modify
  BY <1>5, ModifyIInv
<1> QED
  BY <1>1, <1>2, <1>3, <1>4, <1>5
     DEF Intrinsic, MissingBlock, AsyncHyperCall, SyncHyperCall, AccessPort

----------------------------------------------------------------------------
(* From the return of the lifted function to the verdict.                  *)

\* What is left of IInv' when a step touches neither the memory nor the
\* problems, once the row has run.
LEMMA LateStep ==
  ASSUME IInv, pc' \in {"collect", "classify", "judge", "done"},
         UNCHANGED <<row, accepted, registers, mapped, rights, byte, report, ret>>,
         UNCHANGED <<byError, area, calls, pending, observed, problems>>,
         outcome' \in {"none", "Normal", "Exception", "Unsupported"},
         detail' \in {"none", "fault"} \cup Exceptions,
         verdict' \in {"none", "passed", "failed", "skipped"},
         CollectedIsContents', OutcomeIsRight', VerdictIsWarranted'
  PROVE  IInv'
<1>1. Areas' = Areas /\ Fits' = Fits
  BY DEF Areas, CodeArea, CellArea, Fits
<1>2. TypeOK'
  <2>1. Mem!TypeOK'
    BY MemoryType, MemoryTypeAfter DEF IInv
  <2> QED
    BY <1>1, <2>1 DEF IInv, TypeOK
<1>3. (ReportIsFirstProblem /\ MappedIsReadWrite)'
  BY DEF IInv, ReportIsFirstProblem, MappedIsReadWrite
<1>4. (ModifyFollowsRead /\ AreaIsMapped /\ AreasAreLoaded)'
  BY DEF ModifyFollowsRead, AreaIsMapped, AreasAreLoaded
<1>5. (SetUpIsSilent /\ ReadModifyWriteIsWhole)'
  BY <1>1 DEF IInv, SetUpIsSilent, ReadModifyWriteIsWhole
<1> QED
  BY <1>2, <1>3, <1>4, <1>5 DEF IInv

LEMMA ReturnsIInv ==
  ASSUME IInv, LiftedFunctionReturns
  PROVE  IInv'
<1>1. /\ pc = "run" /\ pc' = IF report = NoFault THEN "collect" ELSE "classify"
      /\ UNCHANGED <<inputs, memory, byError, area, calls, pending, result, problems>>
  BY DEF LiftedFunctionReturns, ok
<1>2. /\ UNCHANGED <<row, accepted, registers, mapped, rights, byte, report, ret>>
      /\ UNCHANGED <<observed, outcome, detail, verdict>>
  BY <1>1 DEF inputs, memory, result
<1>3. pc' \in {"collect", "classify"}
  BY <1>1
<1>4. CollectedIsContents'
  <2>1. observed' = <<>> /\ DOMAIN observed' = {} /\ accepted'
    BY <1>1, <1>2 DEF IInv, CollectedIsContents
  <2>2. pc' = "classify" => problems' # <<>>
    BY <1>1 DEF IInv, ReportIsFirstProblem
  <2> QED
    BY <1>3, <2>1, <2>2 DEF CollectedIsContents
<1>5. OutcomeIsRight' /\ VerdictIsWarranted'
  BY <1>3 DEF OutcomeIsRight, VerdictIsWarranted
<1>6. /\ outcome' \in {"none", "Normal", "Exception", "Unsupported"}
      /\ detail' \in {"none", "fault"} \cup Exceptions
      /\ verdict' \in {"none", "passed", "failed", "skipped"}
  BY <1>2 DEF IInv, TypeOK
<1> QED
  BY <1>1, <1>2, <1>3, <1>4, <1>5, <1>6, LateStep

\* An expectation that can be read is read as the memory has it; one that cannot
\* is a problem, and the bytes collected decide nothing any more.
LEMMA CollectIInv ==
  ASSUME IInv, Collect
  PROVE  IInv'
<1>1. /\ pc = "collect"
      /\ UNCHANGED <<inputs, byError, area, calls, pending, outcome, detail, verdict>>
  BY DEF Collect
<1>2. UNCHANGED <<row, accepted, registers>> /\ accepted
  BY <1>1 DEF inputs, IInv, CollectedIsContents
<1>3. TypeOK /\ Mem!TypeOK /\ row \in Rows /\ observed \in Seq(Seq(Byte))
      /\ Len(observed) <= Len(row.expected)
  BY DEF IInv, TypeOK
<1>4. CASE Len(observed) = Len(row.expected)
  <2>1. pc' = "classify" /\ UNCHANGED <<mapped, rights, byte, report, ret>>
        /\ UNCHANGED <<observed, problems>>
    BY <1>4 DEF Collect, memory
  <2>2. CollectedIsContents'
    BY <1>1, <1>2, <1>4, <2>1 DEF IInv, CollectedIsContents, Mem!Contents
  <2>3. OutcomeIsRight' /\ VerdictIsWarranted'
    BY <2>1 DEF OutcomeIsRight, VerdictIsWarranted
  <2>4. /\ outcome' \in {"none", "Normal", "Exception", "Unsupported"}
        /\ detail' \in {"none", "fault"} \cup Exceptions
        /\ verdict' \in {"none", "passed", "failed", "skipped"}
    BY <1>1 DEF IInv, TypeOK
  <2> QED
    BY <1>1, <1>2, <2>1, <2>2, <2>3, <2>4, LateStep
<1>5. CASE Len(observed) # Len(row.expected)
  <2> DEFINE k == Len(observed) + 1
             cell == row.expected[k]
  <2>1. /\ Mem!Read(cell.address, Len(cell.bytes))
        /\ observed' = Append(observed, ret'.out)
        /\ Noting("collect")
        /\ pc' = "collect"
    BY <1>1, <1>5 DEF Collect, Observed
  <2>2. /\ row.expected \in Seq(Cell) /\ Len(row.expected) \in Nat
        /\ k \in 1..Len(row.expected)
    BY <1>3, <1>5, RowType
  <2>3. cell.address \in Address /\ cell.bytes \in Seq(Byte) /\ Len(cell.bytes) \in Nat
    <3> HIDE DEF k
    <3>1. cell \in Cell
      BY <2>2
    <3> HIDE DEF cell
    <3> QED
      BY <3>1 DEF Cell
  <2>4. /\ Answers
        /\ UNCHANGED <<mapped, rights, byte>>
        /\ ret'.is = "ok" => ret'.out = Mem!Contents(cell.address, Len(cell.bytes))
    <3> HIDE DEF cell
    <3> QED
      BY <1>3, <2>1, <2>3, ReadFacts
  <2>5. /\ report' \in Faults
        /\ ReportIsFirstProblem'
        /\ ProblemsGrow
        /\ \A i \in DOMAIN problems' :
             \/ problems'[i].phase = "collect"
             \/ i \in DOMAIN problems /\ problems'[i] = problems[i]
    BY <1>1, <1>3, <2>1, <2>4, NotingFirst DEF IInv
  <2>6. /\ observed' \in Seq(Seq(Byte)) /\ Len(observed') = k
        /\ DOMAIN observed' = 1..k
        /\ observed'[k] = ret'.out
        /\ \A i \in 1..k : i # k => i \in DOMAIN observed /\ observed'[i] = observed[i]
    <3>1. ret'.out \in Seq(Byte)
      BY <2>4 DEF Answers
    <3> QED
      BY <1>3, <2>1, <3>1
  <2> HIDE DEF k
  <2>7. TypeOK'
    <3>1. Mem!TypeOK'
      BY <1>3, <2>4, <2>5, MemoryType, MemoryTypeAfter DEF Answers
    <3>2. Areas' = Areas
      BY <1>2 DEF Areas, CodeArea, CellArea
    <3>3. Len(observed') <= Len(row'.expected)
      BY <1>2, <2>2, <2>6
    <3> QED
      BY <1>1, <1>2, <1>3, <2>1, <2>5, <2>6, <3>1, <3>2, <3>3 DEF TypeOK, ProblemsGrow
  <2>8. CollectedIsContents'
    <3>1. ASSUME problems' = <<>>, NEW i \in DOMAIN observed'
          PROVE  observed'[i] = Mem!Contents(row.expected[i].address,
                                             Len(row.expected[i].bytes))
      <4>1. problems = <<>>
        BY <3>1, <2>5 DEF ProblemsGrow
      <4>2. ret'.is = "ok"
        <5>1. CASE ret'.is = "refused"
          <6>1. problems' = Append(problems, [phase |-> "collect", what |-> "refused"])
            BY <2>1, <5>1 DEF Noting
          <6> QED
            BY <3>1, <4>1, <6>1
        <5> QED
          BY <2>4, <5>1 DEF Answers
      <4>3. CASE i = k
        BY <2>4, <2>6, <4>2, <4>3
      <4>4. CASE i # k
        BY <2>6, <3>1, <4>1, <4>4 DEF IInv, CollectedIsContents
      <4> QED
        BY <4>3, <4>4
    <3>2. problems' = <<>> =>
            \A i \in DOMAIN observed' :
              observed'[i] = Mem!Contents(row.expected[i].address,
                                          Len(row.expected[i].bytes))'
      BY <1>2, <2>4, <3>1 DEF Mem!Contents
    <3> QED
      BY <1>2, <2>1, <3>2 DEF CollectedIsContents
  <2>9. MappedIsReadWrite'
    BY <2>4 DEF IInv, MappedIsReadWrite
  <2>10. (ModifyFollowsRead /\ AreaIsMapped /\ AreasAreLoaded)'
    BY <2>1 DEF ModifyFollowsRead, AreaIsMapped, AreasAreLoaded
  <2>11. (OutcomeIsRight /\ VerdictIsWarranted)'
    BY <2>1 DEF OutcomeIsRight, VerdictIsWarranted
  <2>12. (SetUpIsSilent /\ ReadModifyWriteIsWhole)'
    BY <1>2, <2>5 DEF IInv, SetUpIsSilent, ReadModifyWriteIsWhole, Fits
  <2> QED
    BY <2>5, <2>7, <2>8, <2>9, <2>10, <2>11, <2>12 DEF IInv
<1> QED
  BY <1>4, <1>5

\* The class of the outcome is read off the report, which is the first problem.
LEMMA ClassifyIInv ==
  ASSUME IInv, Classify
  PROVE  IInv'
<1>1. /\ pc = "classify" /\ pc' = "judge"
      /\ outcome' = IF report = NoFault THEN "Normal"
                    ELSE IF Raised THEN "Exception"
                    ELSE IF report.kind = "Unsupported" THEN "Unsupported"
                    ELSE "Exception"
      /\ detail' = IF report = NoFault THEN "none"
                   ELSE IF Raised THEN row.exception ELSE "fault"
      /\ UNCHANGED <<inputs, memory, byError, area, calls, pending, observed, verdict,
                     problems>>
  BY DEF Classify, ok
<1>2. UNCHANGED <<row, accepted, registers, mapped, rights, byte, report, ret>>
  BY <1>1 DEF inputs, memory
<1>3. row.exception \in Exceptions \cup {"none"} /\ accepted
      /\ problems \in Seq(Problem)
  BY <1>1, RowType DEF IInv, TypeOK, CollectedIsContents
<1>4. OutcomeIsRight'
  <2>1. CASE problems = <<>>
    <3>1. outcome' = "Normal" /\ detail' = "none"
      BY <1>1, <2>1 DEF IInv, ReportIsFirstProblem
    <3> QED
      BY <1>1, <1>2, <1>3, <2>1, <3>1 DEF OutcomeIsRight
  <2>2. CASE problems # <<>>
    <3>1. /\ report # NoFault
          /\ (report.kind = "Unsupported") <=> (problems[1].what # "refused")
          /\ byError <=> (problems[1].what \in Exceptions)
      BY <2>2 DEF IInv, ReportIsFirstProblem
    <3>2. problems[1].what \in {"refused", "unsupported"} \cup Exceptions
      BY <1>3, <2>2, FirstProblemType
    <3>3. CASE problems[1].what = "refused"
      <4>1. outcome' = "Exception" /\ detail' = "fault"
        BY <1>1, <3>1, <3>3 DEF Raised
      <4> QED
        BY <1>1, <1>2, <1>3, <2>2, <3>3, <4>1 DEF OutcomeIsRight
    <3>4. CASE problems[1].what = "unsupported" \/
               (problems[1].what \in Exceptions /\ row.exception = "none")
      <4>1. outcome' = "Unsupported" /\ problems[1].what # "refused"
        BY <1>1, <3>1, <3>4, ExceptionsAssumption DEF Raised
      <4> QED
        BY <1>1, <1>2, <1>3, <2>2, <3>4, <4>1 DEF OutcomeIsRight
    <3>5. CASE problems[1].what \in Exceptions /\ row.exception # "none"
      <4>1. /\ problems[1].what # "refused" /\ problems[1].what # "unsupported"
            /\ outcome' = "Exception" /\ detail' = row.exception
        BY <1>1, <3>1, <3>5, ExceptionsAssumption DEF Raised
      <4> QED
        BY <1>1, <1>2, <1>3, <2>2, <3>5, <4>1 DEF OutcomeIsRight
    <3> QED
      BY <3>2, <3>3, <3>4, <3>5
  <2> QED
    BY <2>1, <2>2
<1>5. CollectedIsContents'
  BY <1>1, <1>2 DEF IInv, CollectedIsContents, Mem!Contents
<1>6. VerdictIsWarranted'
  BY <1>1 DEF VerdictIsWarranted
<1>7. /\ outcome' \in {"none", "Normal", "Exception", "Unsupported"}
      /\ detail' \in {"none", "fault"} \cup Exceptions
      /\ verdict' \in {"none", "passed", "failed", "skipped"}
  BY <1>1, <1>3 DEF IInv, TypeOK
<1> QED
  BY <1>1, <1>2, <1>4, <1>5, <1>6, <1>7, LateStep

\* What the comparison comes to is what the first problem, or else the memory,
\* warrants.
LEMMA JudgeIInv ==
  ASSUME IInv, Judge
  PROVE  IInv'
<1>1. /\ pc = "judge" /\ pc' = "done"
      /\ verdict' = IF outcome = "Unsupported" THEN "skipped"
                    ELSE IF Passes THEN "passed" ELSE "failed"
      /\ UNCHANGED <<inputs, memory, byError, area, calls, pending, observed, outcome,
                     detail, problems>>
  BY DEF Judge
<1>2. UNCHANGED <<row, accepted, registers, mapped, rights, byte, report, ret>>
  BY <1>1 DEF inputs, memory
<1>3. /\ row.exception \in Exceptions \cup {"none"} /\ problems \in Seq(Problem)
      /\ row.expected \in Seq(Cell) /\ observed \in Seq(Seq(Byte))
      /\ accepted \in BOOLEAN
  BY RowType DEF IInv, TypeOK
<1>4. Warranted' = Warranted
  BY <1>1, <1>2 DEF Warranted, Mem!Contents
<1>5. verdict' = Warranted
  <2>1. CASE ~ accepted
    BY <1>1, <2>1 DEF IInv, OutcomeIsRight, Warranted
  <2>2. CASE accepted /\ problems = <<>>
    <3>1. outcome = "Normal" /\ detail = "none" /\ Len(observed) = Len(row.expected)
      BY <1>1, <2>2 DEF IInv, OutcomeIsRight, CollectedIsContents
    <3>2. DOMAIN observed = DOMAIN row.expected
      BY <1>3, <3>1
    <3>3. CellsAgree <=>
            \A i \in DOMAIN row.expected :
              row.expected[i].bytes
                = Mem!Contents(row.expected[i].address, Len(row.expected[i].bytes))
      BY <2>2, <3>2 DEF IInv, CollectedIsContents, CellsAgree
    <3> QED
      BY <1>1, <2>2, <3>1, <3>3 DEF Warranted, Passes
  <2>3. CASE accepted /\ problems # <<>>
    <3>1. problems[1].what \in {"refused", "unsupported"} \cup Exceptions
      BY <1>3, <2>3, FirstProblemType
    <3>2. CASE problems[1].what = "refused"
      <4>1. outcome = "Exception" /\ detail = "fault"
        BY <1>1, <2>3, <3>2 DEF IInv, OutcomeIsRight
      <4>2. detail # row.exception \/ row.exception = "none"
        BY <1>3, <4>1, ExceptionsAssumption
      <4> QED
        BY <1>1, <2>3, <3>2, <4>1, <4>2 DEF Warranted, Passes
    <3>3. CASE problems[1].what = "unsupported"
      <4>1. outcome = "Unsupported"
        BY <1>1, <2>3, <3>3 DEF IInv, OutcomeIsRight
      <4> QED
        BY <1>1, <2>3, <3>3, <4>1 DEF Warranted
    <3>4. CASE problems[1].what \in Exceptions
      <4>1. problems[1].what # "refused" /\ problems[1].what # "unsupported"
        BY <3>4, ExceptionsAssumption
      <4>2. CASE row.exception = "none"
        <5>1. outcome = "Unsupported"
          BY <1>1, <2>3, <4>1, <4>2 DEF IInv, OutcomeIsRight
        <5> QED
          BY <1>1, <2>3, <4>1, <4>2, <5>1 DEF Warranted
      <4>3. CASE row.exception # "none"
        <5>1. outcome = "Exception" /\ detail = row.exception
          BY <1>1, <2>3, <4>1, <4>3 DEF IInv, OutcomeIsRight
        <5> QED
          BY <1>1, <2>3, <4>1, <4>3, <5>1 DEF Warranted, Passes
      <4> QED
        BY <4>2, <4>3
    <3> QED
      BY <3>1, <3>2, <3>3, <3>4
  <2> QED
    BY <1>3, <2>1, <2>2, <2>3
<1>6. VerdictIsWarranted'
  BY <1>4, <1>5 DEF VerdictIsWarranted
<1>7. CollectedIsContents' /\ OutcomeIsRight'
  BY <1>1, <1>2 DEF IInv, CollectedIsContents, OutcomeIsRight, Mem!Contents
<1>8. /\ outcome' \in {"none", "Normal", "Exception", "Unsupported"}
      /\ detail' \in {"none", "fault"} \cup Exceptions
      /\ verdict' \in {"none", "passed", "failed", "skipped"}
  BY <1>1 DEF IInv, TypeOK
<1> QED
  BY <1>1, <1>2, <1>6, <1>7, <1>8, LateStep

----------------------------------------------------------------------------
(* The theorems.                                                           *)

LEMMA NextIInv == IInv /\ [Next]_vars => IInv'
<1> SUFFICES ASSUME IInv, [Next]_vars PROVE IInv'
  OBVIOUS
<1>1. CASE Next
  BY <1>1, ApplyIInv, MapAreaIInv, FillAreaIInv, IntrinsicIInv, ReturnsIInv,
     CollectIInv, ClassifyIInv, JudgeIInv DEF Next
<1>2. CASE UNCHANGED vars
  <2>1. /\ UNCHANGED <<row, accepted, registers, mapped, rights, byte, report, ret>>
        /\ UNCHANGED <<byError, pc, area, calls, pending, problems>>
        /\ UNCHANGED <<observed, outcome, detail, verdict>>
    BY <1>2 DEF vars, inputs, memory, result
  <2>2. Areas' = Areas /\ Fits' = Fits /\ LastArea' = LastArea /\ Warranted' = Warranted
    BY <2>1 DEF Areas, CodeArea, CellArea, Fits, LastArea, Warranted, Mem!Contents
  <2>3. TypeOK'
    <3>1. Mem!TypeOK'
      BY <2>1, MemoryType, MemoryTypeAfter DEF IInv
    <3> QED
      BY <2>1, <2>2, <3>1 DEF IInv, TypeOK
  <2>4. (ReportIsFirstProblem /\ MappedIsReadWrite /\ AreaIsMapped)'
    BY <2>1, <2>2 DEF IInv, ReportIsFirstProblem, MappedIsReadWrite, AreaIsMapped
  <2>5. ModifyFollowsRead'
    BY <2>1 DEF IInv, ModifyFollowsRead, Mem!Allowed, Mem!Refused, Mem!OutOfSpace
  <2>6. AreasAreLoaded'
    BY <2>1, <2>2 DEF IInv, AreasAreLoaded, LoadedBy, LastCovers, Covers
  <2>7. (CollectedIsContents /\ OutcomeIsRight)'
    BY <2>1 DEF IInv, CollectedIsContents, OutcomeIsRight, Mem!Contents
  <2>8. (SetUpIsSilent /\ ReadModifyWriteIsWhole /\ VerdictIsWarranted)'
    BY <2>1, <2>2 DEF IInv, SetUpIsSilent, ReadModifyWriteIsWhole, VerdictIsWarranted
  <2> QED
    BY <2>3, <2>4, <2>5, <2>6, <2>7, <2>8 DEF IInv
<1> QED
  BY <1>1, <1>2

\* The invariant holds in every reachable state.
THEOREM Invariance == Spec => []IInv
<1> QED
  BY InitIInv, NextIInv, PTL DEF Spec

\* The variables of RunCase keep their types; the fault the memory reports is
\* always at an address of the address space.
THEOREM TypeCorrect == Spec => []TypeOK
<1>1. IInv => TypeOK
  BY DEF IInv
<1> QED
  BY <1>1, Invariance, PTL

\* RunCase ignores what MapMemory and WriteMemory return while it sets a row
\* up, and may: for a row that fits, none of those calls is refused.
THEOREM SetUpNeverFails == Spec => []SetUpIsSilent
<1>1. IInv => SetUpIsSilent
  BY DEF IInv
<1> QED
  BY <1>1, Invariance, PTL

\* FetchAndOp and CompareExchange check their read and their write apart, and
\* the write of one whose read was allowed is never refused.
THEOREM ReadModifyWriteNeverHalf == Spec => []ReadModifyWriteIsWhole
<1>1. IInv => ReadModifyWriteIsWhole
  BY DEF IInv
<1> QED
  BY <1>1, Invariance, PTL

\* What RunCase, the fault kept by the memory and CompareExecutionResult make
\* of a row is what the first thing that went wrong warrants, for any sequence
\* of calls the lifted function makes.
THEOREM VerdictsWarranted == Spec => []VerdictIsWarranted
<1>1. IInv => VerdictIsWarranted
  BY DEF IInv
<1> QED
  BY <1>1, Invariance, PTL

\* The cell that LoadedWith picks is the last area that covers the address.
LEMMA LoadedIsLast ==
  ASSUME row \in Rows, NEW a \in Address, LoadedBy(LastArea)
  PROVE  byte[a] = LoadedWith(a, <<[address |-> row.address, bytes |-> row.opcode]>>
                                   \o row.cells)
<1> DEFINE code == [address |-> row.address, bytes |-> row.opcode]
           cells == <<code>> \o row.cells
<1>1. /\ DOMAIN cells = 1..LastArea /\ DOMAIN Areas = 1..LastArea /\ LastArea \in Nat
      /\ \A i \in 1..LastArea : /\ cells[i].address = Areas[i].address
                                /\ cells[i].bytes = Areas[i].bytes
  <2>1. row.cells \in Seq(Cell) /\ Len(row.cells) \in Nat
    BY RowType
  <2>2. /\ DOMAIN Areas = 1..(Len(row.cells) + 1) /\ LastArea = Len(row.cells) + 1
        /\ Areas[1] = CodeArea
        /\ \A i \in 1..(Len(row.cells) + 1) :
             i # 1 => Areas[i] = CellArea(row.cells[i - 1])
    BY <2>1 DEF Areas, LastArea
  <2>3. /\ DOMAIN cells = 1..(Len(row.cells) + 1)
        /\ cells[1] = code
        /\ \A i \in 1..(Len(row.cells) + 1) : i # 1 => cells[i] = row.cells[i - 1]
    <3> HIDE DEF code
    <3> QED
      BY <2>1
  <2> HIDE DEF cells
  <2>4. ASSUME NEW i \in 1..LastArea
        PROVE  /\ cells[i].address = Areas[i].address
               /\ cells[i].bytes = Areas[i].bytes
    <3>1. CASE i = 1
      BY <2>2, <2>3, <3>1 DEF CodeArea
    <3>2. CASE i # 1
      <4>1. Areas[i] = CellArea(row.cells[i - 1]) /\ cells[i] = row.cells[i - 1]
        BY <2>2, <2>3, <3>2
      <4> QED
        BY <4>1 DEF CellArea
    <3> QED
      BY <3>1, <3>2
  <2> QED
    BY <2>1, <2>2, <2>3, <2>4
<1> HIDE DEF cells
<1>2. \A i \in 1..LastArea : Covers(cells[i], a) <=> Covers(Areas[i], a)
  BY <1>1 DEF Covers
<1>3. CASE byte[a] = 0 /\ \A i \in 1..LastArea : ~ Covers(Areas[i], a)
  BY <1>1, <1>2, <1>3 DEF LoadedWith, cells
<1>4. CASE \E i \in 1..LastArea :
             /\ LastCovers(LastArea, i, a)
             /\ byte[a] = Areas[i].bytes[a - Areas[i].address + 1]
  <2>1. PICK i \in 1..LastArea :
          /\ LastCovers(LastArea, i, a)
          /\ byte[a] = Areas[i].bytes[a - Areas[i].address + 1]
    BY <1>4
  <2> DEFINE IsLast(k) == /\ Covers(cells[k], a)
                          /\ \A j \in DOMAIN cells : Covers(cells[j], a) => j <= k
             last == CHOOSE k \in DOMAIN cells : IsLast(k)
  <2>2. IsLast(i) /\ i \in DOMAIN cells
    BY <1>1, <1>2, <2>1 DEF LastCovers
  <2>3. IsLast(last) /\ last \in DOMAIN cells
    <3> HIDE DEF IsLast
    <3> QED
      BY <2>2
  <2>4. last = i
    <3> HIDE DEF last
    <3> QED
      BY <1>1, <2>2, <2>3
  <2>5. LoadedWith(a, cells) = cells[last].bytes[a - cells[last].address + 1]
    BY <2>2 DEF LoadedWith
  <2> QED
    BY <1>1, <2>1, <2>4, <2>5 DEF cells
<1> QED
  BY <1>3, <1>4 DEF LoadedBy

\* When the lifted function is entered, every byte of guest memory is what the
\* last of the row's cells that covers it says, the code counting as the first,
\* however many cells there are and wherever they lie.
THEOREM RowsAreLoaded == Spec => []RowIsLoaded
<1>1. IInv => RowIsLoaded
  BY LoadedIsLast DEF IInv, TypeOK, AreasAreLoaded, RowIsLoaded
<1> QED
  BY <1>1, Invariance, PTL

=============================================================================
