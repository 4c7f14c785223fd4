---------------------------- MODULE CorpusParser ----------------------------
(***************************************************************************)
(* X86TesterParser (x86tester_parser.cpp) reads a corpus file twice:       *)
(* ParseFile line by line, keeping the pool of values, the header of the   *)
(* group it is in and the counters; and ParseInstructionHeaders, which     *)
(* looks for headers only and knows nothing of pool and rows.  The program *)
(* selects what to compile from the second and what to run from the first. *)
(*                                                                         *)
(* A line is what Trim and Split leave of it: a blank, the header of the   *)
(* pool, a value of the pool, the header of a group, a row or something    *)
(* else.  The file is chosen line by line while ParseFile reads it; the    *)
(* headers are read from the same file afterwards, which makes no          *)
(* difference because neither pass changes it or the other's state.        *)
(***************************************************************************)
EXTENDS Integers, FiniteSets, Sequences, SequencesExt, SequenceParts

CONSTANTS
  Register,  \* the state keys
  Address,   \* the addresses of memory keys
  Bytes,     \* the values
  Counts,    \* the numbers of values a file may declare
  Headers,   \* the headers of groups
  Kinds,     \* the exceptions of rows
  RowLines,  \* the rows
  MaxLines   \* bound on the length of a file

Memory == [mem : Address]
SchemaKey == [reg : Register] \cup Memory

ASSUME ParserAssumption ==
  /\ Counts \subseteq Nat /\ MaxLines \in Nat
  /\ Headers \subseteq [count : Nat, in : Seq(SchemaKey), out : Seq(SchemaKey)]
  /\ RowLines \subseteq [in : Seq(Nat), out : Seq(Nat), exception : Kinds \cup {"none"}]

Line ==
  [is : {"blank", "other", "bad header"}]
  \cup [is : {"data"}, count : Counts]
  \cup [is : {"value"}, bytes : Bytes]
  \cup [is : {"instr"}, header : Headers]
  \cup [is : {"row"}, row : RowLines]

VARIABLES
  file,       \* the lines read so far
  status,     \* of ParseFile: "reading", "parsed" or "failed"
  remaining,  \* data_values_remaining, -1 before the header of the pool
  pool,       \* data_pool
  header,     \* current_header, or NoHeader
  group,      \* instruction_id
  caseId,     \* next_test_case_id
  inGroup,    \* state_index and rows_in_group
  rows,       \* corpus.rows
  warnings,   \* corpus.parse_warnings
  at,         \* the lines ParseInstructionHeaders has read
  headers,    \* what it has collected
  scan        \* of ParseInstructionHeaders: "reading", "parsed" or "failed"

counters == <<group, caseId, inGroup>>
corpus == <<rows, warnings>>
pass1 == <<file, status, remaining, pool, header, counters, corpus>>
pass2 == <<at, headers, scan>>
vars == <<pass1, pass2>>

NoHeader == [count |-> -1, in |-> <<>>, out |-> <<>>]

Init ==
  /\ file = <<>> /\ status = "reading"
  /\ remaining = -1 /\ pool = <<>>
  /\ header = NoHeader
  /\ group = 0 /\ caseId = 0 /\ inGroup = 0
  /\ rows = <<>> /\ warnings = 0
  /\ at = 0 /\ headers = <<>> /\ scan = "reading"

----------------------------------------------------------------------------
(* ParseFile.                                                              *)

\* The next line is read.
GetLine(line) ==
  /\ status = "reading" /\ Len(file) < MaxLines
  /\ file' = Append(file, line)
  /\ UNCHANGED pass2

Fail ==
  /\ status' = "failed"
  /\ UNCHANGED <<remaining, pool, header, counters, corpus>>

BlankLine(line) ==
  /\ GetLine(line)
  /\ line.is = "blank"
  /\ UNCHANGED <<status, remaining, pool, header, counters, corpus>>

DataHeader(line) ==
  /\ GetLine(line)
  /\ line.is = "data" /\ remaining = -1
  /\ remaining' = line.count
  /\ UNCHANGED <<status, pool, header, counters, corpus>>

DataPoolValue(line) ==
  /\ GetLine(line)
  /\ line.is = "value" /\ remaining > 0
  /\ pool' = Append(pool, line.bytes)
  /\ remaining' = remaining - 1
  /\ UNCHANGED <<status, header, counters, corpus>>

\* A defect: a group without rows is not looked at.
AnyShort == IF inGroup > 0 /\ inGroup # header.count THEN 1 ELSE 0

\* What finish_group adds.
FinishGroup == IF header # NoHeader /\ inGroup # header.count THEN 1 ELSE 0

InstructionHeader(line) ==
  /\ GetLine(line)
  /\ line.is = "instr" /\ remaining = 0
  /\ warnings' = warnings + FinishGroup
  /\ header' = line.header
  /\ group' = group + 1
  /\ inGroup' = 0
  /\ UNCHANGED <<status, remaining, pool, caseId, rows>>

\* ParseIndexList does not throw.
ValidIndices(list, schema) ==
  /\ Len(list) = Len(schema)
  /\ \A i \in DOMAIN list : list[i] < Len(pool)

\* ApplySchemaValues: the values of the registers and those of the memory.
Pooled(schema, list) ==
  LET listed == [i \in DOMAIN schema |-> <<schema[i], pool[list[i] + 1]>>]
      in == {i \in DOMAIN schema : schema[i] \in Memory}
  IN  [registers |-> Only(listed, DOMAIN schema \ in), memory |-> Only(listed, in)]

NothingPooled == [registers |-> <<>>, memory |-> <<>>]

\* A defect: the number is taken after it was counted up.
CountedCaseId == caseId + 1

TestCaseId == caseId

ValidRow(row) ==
  /\ ValidIndices(row.in, header.in)
  /\ row.exception = "none" => ValidIndices(row.out, header.out)

StateRow(line) ==
  /\ GetLine(line)
  /\ line.is = "row" /\ remaining = 0 /\ header # NoHeader
  /\ ValidRow(line.row)
  /\ rows' = Append(rows,
       [case |-> TestCaseId, group |-> group, index |-> inGroup,
        total |-> header.count,
        initial |-> Pooled(header.in, line.row.in),
        exception |-> line.row.exception,
        expected |-> IF line.row.exception = "none"
                       THEN Pooled(header.out, line.row.out)
                       ELSE NothingPooled])
  /\ caseId' = caseId + 1
  /\ inGroup' = inGroup + 1
  /\ UNCHANGED <<status, remaining, pool, header, group, warnings>>

\* Everything else a line may be, where it stands, throws.
BadLine(line) ==
  /\ GetLine(line)
  /\ line.is # "blank"
  /\ CASE remaining = -1 -> line.is # "data"
       [] remaining > 0 -> line.is # "value"
       [] OTHER ->
            \/ line.is \notin {"instr", "row"}
            \/ line.is = "row" /\ (header = NoHeader \/ ~ ValidRow(line.row))
  /\ Fail

EndOfFile ==
  /\ status = "reading"
  /\ UNCHANGED <<file, pass2>>
  /\ IF remaining # 0
       THEN Fail
       ELSE /\ status' = "parsed"
            /\ warnings' = warnings + FinishGroup
            /\ UNCHANGED <<remaining, pool, header, counters, rows>>

ReadLine(line) ==
  \/ BlankLine(line) \/ DataHeader(line) \/ DataPoolValue(line)
  \/ InstructionHeader(line) \/ StateRow(line) \/ BadLine(line)

----------------------------------------------------------------------------
(* ParseInstructionHeaders.                                                *)

\* A defect: groups without rows are left out.
WithRows(h) == h.count > 0

Collects(h) == TRUE

ScanLine ==
  /\ status # "reading" /\ scan = "reading" /\ at < Len(file)
  /\ at' = at + 1
  /\ LET line == file[at + 1]
     IN  CASE line.is = "instr" /\ Collects(line.header) ->
                /\ headers' = Append(headers, [group |-> Len(headers) + 1,
                                               count |-> line.header.count])
                /\ UNCHANGED scan
           [] line.is = "bad header" -> scan' = "failed" /\ UNCHANGED headers
           [] OTHER -> UNCHANGED <<headers, scan>>
  /\ UNCHANGED pass1

ScanEnds ==
  /\ status # "reading" /\ scan = "reading" /\ at = Len(file)
  /\ scan' = "parsed"
  /\ UNCHANGED <<pass1, at, headers>>

Next ==
  \/ \E line \in Line : ReadLine(line)
  \/ EndOfFile
  \/ ScanLine \/ ScanEnds

Spec == Init /\ [][Next]_vars

(* Properties.                                                             *)

Values == [registers : Seq([reg : Register] \X Bytes), memory : Seq(Memory \X Bytes)]

ParsedRow == [case : 0..(Len(rows) - 1), group : 1..group, index : 0..(Len(rows) - 1),
              total : Nat, initial : Values, exception : Kinds \cup {"none"},
              expected : Values]

TypeOK ==
  /\ file \in Seq(Line) /\ Len(file) <= MaxLines
  /\ status \in {"reading", "parsed", "failed"}
  /\ remaining \in Nat \cup {-1}
  /\ pool \in Seq(Bytes)
  /\ header \in Headers \cup {NoHeader}
  /\ group \in Nat /\ caseId \in Nat /\ inGroup \in Nat
  /\ rows \in Seq(ParsedRow)
  /\ warnings \in 0..group
  /\ at \in 0..Len(file)
  /\ headers \in Seq([group : Nat, count : Nat])
  /\ scan \in {"reading", "parsed", "failed"}

(***************************************************************************)
(* What a file means, from its lines other than blanks.                    *)
(***************************************************************************)
LinesOf(text) == Only(text, {i \in DOMAIN text : text[i].is # "blank"})

PoolSize(lines) == lines[1].count

Body(lines) == PoolSize(lines) + 2

\* The lines up to line i that start groups.
HeadersUpTo(lines, i) == {h \in Body(lines)..i : lines[h].is = "instr"}

\* The group, counted from 1, and the header a row at line i belongs to.
GroupAt(lines, i) == Cardinality(HeadersUpTo(lines, i))

HeaderAt(lines, i) ==
  LET above == HeadersUpTo(lines, i)
  IN  lines[CHOOSE h \in above : \A g \in above : g <= h].header

InPool(lines, list, schema) ==
  Len(list) = Len(schema) /\ \A i \in DOMAIN list : list[i] < PoolSize(lines)

\* Line i of the body is in order.
IsBodyLine(lines, i) ==
  /\ lines[i].is \in {"instr", "row"}
  /\ lines[i].is = "row" =>
       /\ HeadersUpTo(lines, i) # {}
       /\ InPool(lines, lines[i].row.in, HeaderAt(lines, i).in)
       /\ lines[i].row.exception = "none" =>
            InPool(lines, lines[i].row.out, HeaderAt(lines, i).out)

WellFormed(lines) ==
  /\ lines # <<>> /\ lines[1].is = "data"
  /\ PoolSize(lines) < Len(lines)
  /\ \A i \in 2..(PoolSize(lines) + 1) : lines[i].is = "value"
  /\ \A i \in Body(lines)..Len(lines) : IsBodyLine(lines, i)

RowsAt(lines) == Ascending({i \in DOMAIN lines : lines[i].is = "row"}, Len(lines))

\* The values a schema names, those of memory or those of registers.
Meant(lines, schema, list, set) ==
  LET chosen == Ascending({i \in DOMAIN schema : schema[i] \in set}, Len(schema))
  IN  [n \in DOMAIN chosen |->
         <<schema[chosen[n]], lines[list[chosen[n]] + 2].bytes>>]

MeantValues(lines, schema, list) ==
  [registers |-> Meant(lines, schema, list, SchemaKey \ Memory),
   memory |-> Meant(lines, schema, list, Memory)]

\* The n-th row of the corpus is what its line and its header say.
RowIsMeant(lines, n, row) ==
  LET place == RowsAt(lines)
      h == HeaderAt(lines, place[n])
      line == lines[place[n]].row
      g == GroupAt(lines, place[n])
  IN  /\ row.case = n - 1
      /\ row.group = g
      /\ row.index = Cardinality({m \in 1..n : GroupAt(lines, place[m]) = g}) - 1
      /\ row.total = h.count
      /\ row.initial = MeantValues(lines, h.in, line.in)
      /\ row.exception = line.exception
      /\ row.expected = IF line.exception = "none"
                          THEN MeantValues(lines, h.out, line.out)
                          ELSE NothingPooled

\* The groups that do not have the number of rows they declare.
WrongGroups(lines, read) ==
  {g \in 1..GroupAt(lines, Len(lines)) :
     \E h \in HeadersUpTo(lines, Len(lines)) :
       /\ GroupAt(lines, h) = g
       /\ Cardinality({n \in DOMAIN read : read[n].group = g}) # lines[h].header.count}

\* ParseFile succeeds exactly on the files that are well formed, with the rows
\* they list, each in its group, and a warning for each group that declares
\* another number of rows than it has, the last and the empty ones included.
ParsedIsRight ==
  LET lines == LinesOf(file)
  IN  /\ status = "parsed" =>
           /\ WellFormed(lines)
           /\ Len(rows) = Len(RowsAt(lines))
           /\ \A n \in DOMAIN rows : RowIsMeant(lines, n, rows[n])
           /\ group = GroupAt(lines, Len(lines))
           /\ warnings = Cardinality(WrongGroups(lines, rows))
      /\ status = "failed" => ~ WellFormed(lines)

\* Of a file that ParseFile accepts the two passes see the same groups, under
\* the same numbers: what is compiled in advance is what is run.
HeadersAgree ==
  /\ scan = "parsed" /\ status = "parsed" =>
       /\ Len(headers) = group
       /\ \A n \in DOMAIN rows : headers[rows[n].group].count = rows[n].total
  /\ scan = "failed" => status = "failed"

=============================================================================
