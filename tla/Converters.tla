----------------------------- MODULE Converters ------------------------------
(***************************************************************************)
(* The two programs that make corpus files: tools/convert_test_vectors.py  *)
(* ("vectors") and tools/convert_public_parquet.py ("public").  Both read  *)
(* rows in the order of a query and write text files whose rows refer to a *)
(* pool of values by index.                                                *)
(*                                                                         *)
(* The first opens one file at a time, writes it when the name changes,    *)
(* and repeats this for every input; the second keeps all its files until  *)
(* it has come to the end.  DuckDB, which reads the tables, is external:   *)
(* what it yields, filtered, sorted and limited in number, is data.        *)
(***************************************************************************)
EXTENDS Integers, Sequences, FiniteSets, FiniteSetsExt, SequencesExt, SequenceParts

CONSTANTS
  FileName,  \* output_filename and handle_for: mnemonic -> name of a file
  Mem0,      \* --mem0-addr
  Jobs       \* the command lines, with what they are run on

(***************************************************************************)
(* A value is a number of bytes and the set of its 1 bits.  A key is       *)
(* <<register>> or <<"mem", address>>, and items are a sequence of         *)
(* [key, value].  A row of the public corpus has one memory cell, under    *)
(* the key mem0_value.                                                     *)
(***************************************************************************)
Value(size, bits) == [size |-> size, bits |-> bits]

Item(key, value) == [key |-> key, value |-> value]

MemoryKey(address) == <<"mem", address>>

IsMemoryKey(key) == Len(key) = 2

\* The paths of --output-dir are those of its .txt files: directory and name.
ASSUME ConvertersAssumption ==
  /\ Mem0 \in Nat
  /\ \A j \in Jobs :
       /\ j.tool \in {"vectors", "public"}
       /\ j.overwrite \in BOOLEAN
       /\ j.limit \in Nat  \* --limit-states; 0 is none
       /\ j.single \in BOOLEAN  \* --output
       /\ \A path \in j.existing : path = <<path[1], path[2]>>
       /\ IsList(j.inputs) /\ j.inputs # <<>>
       /\ j.tool = "public" => Len(j.inputs) = 1
       /\ \A i \in DOMAIN j.inputs :
            /\ IsList(j.inputs[i].rows)
            /\ \A row \in ToSet(j.inputs[i].rows) :
                 /\ row.mnemonic \in DOMAIN FileName
                 /\ IsList(row.inputs) /\ IsList(row.outputs)

VARIABLES
  job,     \* what is converted (external)
  disk,    \* the .txt files: <<directory, name>> -> contents
  pc,      \* "prepare", "rows"; "done", "failed"
  input,   \* the number of the input in progress
  todo,    \* its rows still to come
  open,    \* the corpora in memory: name -> contents
  case,    \* public: the rows of the test case in progress
  totals   \* the counts that are printed

vars == <<job, disk, pc, input, todo, open, case, totals>>

NoText == [pool |-> <<>>, groups |-> <<>>]

Old == [age |-> "old", text |-> NoText]

New(text) == [age |-> "new", text |-> text]

Init ==
  /\ job \in Jobs
  /\ disk = [path \in job.existing |-> Old]
  /\ pc = "prepare"
  /\ input = 1
  /\ todo = <<>>
  /\ open = <<>>
  /\ case = <<>>
  /\ totals = [files |-> 0, groups |-> 0, rows |-> 0]

With(f, x, y) == [z \in DOMAIN f \cup {x} |-> IF z = x THEN y ELSE f[z]]

Text(name) == IF name \in DOMAIN open THEN open[name] ELSE NoText

Fail == pc' = "failed" /\ UNCHANGED <<todo, open, case, totals>>

----------------------------------------------------------------------------
(* The pool (pool_index and intern): a value is added when it is new.      *)

IsNew(pool, values, i) ==
  values[i] \notin ToSet(pool) /\ \A j \in 1..(i - 1) : values[j] # values[i]

WithValues(pool, values) ==
  pool \o Only(values, {i \in DOMAIN values : IsNew(pool, values, i)})

\* A defect: indices count from one.
IndexFromOne(pool, value) == CHOOSE i \in DOMAIN pool : pool[i] = value

PoolIndex(pool, value) == (CHOOSE i \in DOMAIN pool : pool[i] = value) - 1

Indices(pool, values) == [i \in DOMAIN values |-> PoolIndex(pool, values[i])]

Schema(items) == [i \in DOMAIN items |-> items[i].key]

Values(items) == [i \in DOMAIN items |-> items[i].value]

HasDuplicate(items) == ~ IsInjective(Schema(items))

NormalizeStateKey(key) ==
  IF key \in {<<"flag">>, <<"flags">>, <<"eflags">>, <<"rflags">>}
    THEN <<"flags">> ELSE key

----------------------------------------------------------------------------
(* vectors: one input after the other, one file after the other.           *)

Input == job.inputs[input]

\* With several inputs each has a directory of its own, named after its stem.
OutputDir == IF Len(job.inputs) > 1 THEN Input.stem ELSE "."

Existing(dir) == {path \in DOMAIN disk : path[1] = dir}

\* A defect: a single file is not looked for.
RefusedDirectory(existing) == existing # {} /\ ~ job.overwrite /\ ~ job.single

Refused(existing) == existing # {} /\ ~ job.overwrite

Remaining(removed) == [path \in DOMAIN disk \ removed |-> disk[path]]

\* Old files are removed before the input has been looked at.
PrepareOutputDir ==
  /\ job.tool = "vectors" /\ pc = "prepare"
  /\ IF Refused(Existing(OutputDir))
       THEN Fail /\ UNCHANGED disk
       ELSE /\ disk' = Remaining(Existing(OutputDir))
            /\ IF ~ Input.readable THEN Fail
               ELSE /\ pc' = "rows" /\ todo' = Input.rows
                    /\ UNCHANGED <<open, case, totals>>
  /\ UNCHANGED <<job, input>>

\* parse_state_json.
Normalized(items) ==
  [i \in DOMAIN items |->
     Item(NormalizeStateKey(items[i].key), items[i].value)]

OutputsOf(row) == IF row.exception # "none" THEN <<>> ELSE Normalized(row.outputs)

IsConvertible(row) ==
  /\ row.readable
  /\ ~ HasDuplicate(Normalized(row.inputs)) /\ ~ HasDuplicate(OutputsOf(row))

\* The group of a row; it is created when there is none.
GroupKey(row) == [code |-> row.code, in |-> Schema(Normalized(row.inputs)),
                  out |-> Schema(OutputsOf(row))]

KeyOf(group) == [code |-> group.code, in |-> group.in, out |-> group.out]

WithRow(groups, row, text) ==
  LET at == {i \in DOMAIN groups : KeyOf(groups[i]) = GroupKey(row)}
      key == GroupKey(row)
      new == [code |-> key.code, in |-> key.in, out |-> key.out, rows |-> <<text>>]
  IN  IF at = {} THEN Append(groups, new)
      ELSE [i \in DOMAIN groups |->
              IF i \in at THEN [groups[i] EXCEPT !.rows = Append(@, text)]
                          ELSE groups[i]]

AddRow(text, row) ==
  LET pool == WithValues(text.pool,
                         Values(Normalized(row.inputs)) \o Values(OutputsOf(row)))
  IN  [pool |-> pool,
       groups |-> WithRow(text.groups, row,
         [in |-> Indices(pool, Values(Normalized(row.inputs))),
          out |-> Indices(pool, Values(OutputsOf(row))),
          exception |-> row.exception])]

RowCount(text) ==
  FoldFunction(+, 0, [i \in DOMAIN text.groups |-> Len(text.groups[i].rows)])

\* The totals when this text has been written.
Counting(text) ==
  [files |-> totals.files + 1, groups |-> totals.groups + Len(text.groups),
   rows |-> totals.rows + RowCount(text)]

\* flush: what is in memory, if anything, is written.
Flushed ==
  IF open = <<>> THEN UNCHANGED <<disk, totals>>
  ELSE \E name \in DOMAIN open :
         /\ disk' = With(disk, <<OutputDir, name>>, New(open[name]))
         /\ totals' = Counting(open[name])

VectorRow ==
  /\ job.tool = "vectors" /\ pc = "rows" /\ todo # <<>>
  /\ LET row == Head(todo)
         name == FileName[row.mnemonic]
     IN  IF ~ row.named THEN
           Fail /\ UNCHANGED disk
         ELSE
           /\ IF name \in DOMAIN open THEN UNCHANGED <<disk, totals>> ELSE Flushed
           /\ IF IsConvertible(row)
                THEN /\ open' = [n \in {name} |-> AddRow(Text(name), row)]
                     /\ todo' = Tail(todo) /\ UNCHANGED pc
                ELSE pc' = "failed" /\ UNCHANGED <<open, todo>>
           /\ UNCHANGED case
  /\ UNCHANGED <<job, input>>

EndOfInput ==
  /\ job.tool = "vectors" /\ pc = "rows" /\ todo = <<>>
  /\ Flushed
  /\ open' = <<>>
  /\ IF input = Len(job.inputs)
       THEN pc' = "done" /\ UNCHANGED input
       ELSE pc' = "prepare" /\ input' = input + 1
  /\ UNCHANGED <<job, todo, case>>

----------------------------------------------------------------------------
(* public: one input, all files at the end.                                *)

SingleFile == <<".", "all">>

\* OutputManager.__enter__.  A single file is left alone until it is written.
Enter ==
  /\ job.tool = "public" /\ pc = "prepare"
  /\ LET existing == IF job.single THEN {SingleFile} \cap DOMAIN disk
                                   ELSE Existing(".")
     IN  IF Refused(existing)
           THEN Fail /\ UNCHANGED disk
           ELSE /\ disk' = IF job.single THEN disk ELSE Remaining(existing)
                /\ open' = IF job.single THEN [n \in {SingleFile[2]} |-> NoText]
                                         ELSE open
                /\ pc' = "rows" /\ todo' = Input.rows
                /\ UNCHANGED <<case, totals>>
  /\ UNCHANGED <<job, input>>

\* state_value_hex and mem0_value.
StateItem(raw) ==
  LET key == NormalizeStateKey(raw.key)
  IN  CASE key = <<"mem0_value">> -> Item(MemoryKey(Mem0), raw.value)
        [] key = <<"flags">> -> Item(key, Value(4, raw.value.bits \cap 0..31))
        [] OTHER -> Item(key, raw.value)

StateItems(state) == [i \in DOMAIN state |-> StateItem(state[i])]

BitTests == {"BT", "BTC", "BTR", "BTS"}

Raw(state, key) == {state[i].value.bits : i \in {i \in DOMAIN state :
                                                   state[i].key = key}}

Sum(bits) == MapThenSumSet(LAMBDA b : 2 ^ b, bits)

\* The low `width' bits as a signed number.
SignExtend(bits, width) ==
  IF width - 1 \in bits THEN -1 - Sum(0..(width - 2) \ bits)
                        ELSE Sum(bits \cap 0..(width - 2))

\* public_bit_test_hidden_memory, as a sequence of at most one item: where the
\* bit that is tested lies outside mem0 and the row expects a carry, the element
\* that holds it.  An operand that is not in memory has element size 0, one
\* that is not a register has width 0.
HiddenMemory(row) ==
  IF \/ row.mnemonic \notin BitTests \/ row.element = 0 \/ row.width = 0
     \/ Raw(row.inputs, <<"rbx">>) = {} \/ Raw(row.outputs, <<"flag">>) = {}
    THEN <<>>
    ELSE LET bits == 8 * row.element
             offset == SignExtend(UNION Raw(row.inputs, <<"rbx">>), row.width)
             address == Mem0 + (offset \div bits) * row.element
             inMem0 == address \in Mem0..(Mem0 + 8 - row.element)
             carry == 0 \in UNION Raw(row.outputs, <<"flag">>)
         IN  IF inMem0 \/ ~ carry THEN <<>>
             ELSE <<Item(MemoryKey(address), Value(row.element, {offset % bits}))>>

(***************************************************************************)
(* What validate_inputs and the query see to: a test case is of one        *)
(* instruction, a row that raises has no final state.  The states list     *)
(* 64-bit registers and one cell of memory, which has no address there; a  *)
(* bit test lists its register, and row.offset is the number in it.        *)
(***************************************************************************)
IsPublicRow(row) ==
  /\ \A item \in ToSet(row.inputs) :
       ~ IsMemoryKey(item.key) /\ item.value.bits \subseteq 0..63
  /\ row.exception # "none" => row.outputs = <<>>
  /\ row.element \in {0, 2, 4, 8} /\ row.width \in {0, 16, 32, 64}
  /\ row.mnemonic \in BitTests /\ row.element # 0 /\ row.width # 0 =>
       /\ row.offset \in Int
       /\ Raw(row.inputs, <<"rbx">>) # {}
       /\ row.offset = SignExtend(UNION Raw(row.inputs, <<"rbx">>), row.width)

ASSUME PublicAssumption ==
  \A j \in Jobs : j.tool = "public" =>
    \A row \in ToSet(j.inputs[1].rows) :
      /\ IsPublicRow(row)
      /\ \A other \in ToSet(j.inputs[1].rows) : other.case = row.case =>
           other.mnemonic = row.mnemonic /\ other.code = row.code

InputItems(row) == StateItems(row.inputs) \o HiddenMemory(row)

OutputItems(row) ==
  IF row.exception # "none" THEN <<>> ELSE StateItems(row.outputs)

\* append_schema: the keys in the order in which they are first seen.
UnionSchema(lists) == WithValues(<<>>, FlattenSeq(lists))

Lookup(items, key) == {items[i].value : i \in {i \in DOMAIN items : items[i].key = key}}

\* A defect: memory that a row does not list is filled from another row.
FirstListed(rows, key) ==
  LET items == SelectSeq(FlattenSeq([i \in DOMAIN rows |-> InputItems(rows[i])]),
                         LAMBDA item : item.key = key)
  IN  items[1].value

\* Memory a row does not list is zero, of the size of the first that does.
InputDefault(rows, key) == Value(FirstListed(rows, key).size, {})

\* The inputs of one of a group's rows, in the order of the schema.
FilledIn(rows, i, schema) ==
  [n \in DOMAIN schema |->
     LET found == Lookup(InputItems(rows[i]), schema[n])
     IN  IF found # {} THEN CHOOSE v \in found : TRUE
                       ELSE InputDefault(rows, schema[n])]

InSchema(rows) == UnionSchema([i \in DOMAIN rows |-> Schema(InputItems(rows[i]))])

OutSchema(rows) == UnionSchema([i \in DOMAIN rows |-> Schema(OutputItems(rows[i]))])

\* items_to_map and schema_indices raise nothing.
IsWritable(rows) ==
  \A i \in DOMAIN rows :
    /\ rows[i].readable
    /\ ~ HasDuplicate(InputItems(rows[i])) /\ ~ HasDuplicate(OutputItems(rows[i]))
    /\ \A key \in ToSet(InSchema(rows)) :
         IsMemoryKey(key) \/ key \in ToSet(Schema(InputItems(rows[i])))
    /\ rows[i].exception = "none" =>
         ToSet(OutSchema(rows)) = ToSet(Schema(OutputItems(rows[i])))

\* write_group, for a group that is writable.
WithGroup(text, rows) ==
  LET in(i) == FilledIn(rows, i, InSchema(rows))
      out(i) == IF rows[i].exception # "none" THEN <<>>
                ELSE [n \in DOMAIN OutSchema(rows) |->
                        CHOOSE v \in Lookup(OutputItems(rows[i]), OutSchema(rows)[n]) :
                          TRUE]
      pool == WithValues(text.pool,
                         FlattenSeq([i \in DOMAIN rows |-> in(i) \o out(i)]))
  IN  [pool |-> pool,
       groups |-> Append(text.groups,
         [code |-> rows[1].code, in |-> InSchema(rows), out |-> OutSchema(rows),
          rows |-> [i \in DOMAIN rows |->
                      [in |-> Indices(pool, in(i)), out |-> Indices(pool, out(i)),
                       exception |-> rows[i].exception]]])]

HandleFor(row) == IF job.single THEN SingleFile[2] ELSE FileName[row.mnemonic]

WriteGroup(rows) ==
  IF ~ IsWritable(rows) THEN pc' = "failed" /\ UNCHANGED <<open, totals>>
  ELSE LET name == HandleFor(rows[1])
       IN  /\ open' = With(open, name, WithGroup(Text(name), rows))
           /\ totals' = [totals EXCEPT !.groups = @ + 1, !.rows = @ + Len(rows)]
           /\ UNCHANGED pc

IsSameCase(row) == \A i \in DOMAIN case : case[i].case = row.case

LimitReached(count) == job.limit # 0 /\ count >= job.limit

\* The row belongs to the next test case: the one in progress is written.
CaseEnds ==
  /\ job.tool = "public" /\ pc = "rows" /\ todo # <<>>
  /\ ~ IsSameCase(Head(todo))
  /\ WriteGroup(case)
  /\ case' = <<>>
  /\ todo' = IF LimitReached(totals.rows + Len(case)) THEN <<>> ELSE todo
  /\ UNCHANGED <<job, disk, input>>

\* A defect: the rows of the test case in progress are not counted.
RowsWritten == totals.rows

RowsSoFar == totals.rows + Len(case)

PublicRow ==
  /\ job.tool = "public" /\ pc = "rows" /\ todo # <<>>
  /\ IsSameCase(Head(todo))
  /\ IF LimitReached(RowsSoFar)
       THEN todo' = <<>> /\ UNCHANGED case
       ELSE todo' = Tail(todo) /\ case' = Append(case, Head(todo))
  /\ UNCHANGED <<job, disk, pc, input, open, totals>>

\* The last case, as far as the limit goes.
LastCase ==
  /\ job.tool = "public" /\ pc = "rows" /\ todo = <<>> /\ case # <<>>
  /\ LET room == job.limit - totals.rows
         rows == IF job.limit # 0 /\ Len(case) > room THEN SubSeq(case, 1, room)
                                                      ELSE case
     IN  WriteGroup(rows)
  /\ case' = <<>>
  /\ UNCHANGED <<job, disk, input, todo>>

\* OutputManager.__exit__, reached without an exception.
Exit ==
  /\ job.tool = "public" /\ pc = "rows" /\ todo = <<>> /\ case = <<>>
  /\ disk' = [path \in DOMAIN disk \cup {<<".", name>> : name \in DOMAIN open} |->
                IF path[1] = "." /\ path[2] \in DOMAIN open THEN New(open[path[2]])
                                                            ELSE disk[path]]
  /\ totals' = [totals EXCEPT !.files = Cardinality(DOMAIN open)]
  /\ pc' = "done"
  /\ UNCHANGED <<job, input, todo, open, case>>

Next ==
  \/ PrepareOutputDir \/ VectorRow \/ EndOfInput
  \/ Enter \/ PublicRow \/ CaseEnds \/ LastCase \/ Exit

Spec == Init /\ [][Next]_vars

(* Properties.                                                             *)

Texts == {disk[path].text : path \in DOMAIN disk} \cup {open[n] : n \in DOMAIN open}

\* Every index of a text is one of its pool, in which no value is twice, and
\* every row has as many as its header has keys.
IsText(text) ==
  /\ IsInjective(text.pool)
  /\ \A i \in DOMAIN text.groups :
       LET g == text.groups[i]
       IN  \A j \in DOMAIN g.rows :
             /\ g.rows[j].in \in [DOMAIN g.in -> 0..(Len(text.pool) - 1)]
             /\ g.rows[j].exception = "none" =>
                  g.rows[j].out \in [DOMAIN g.out -> 0..(Len(text.pool) - 1)]

TypeOK ==
  /\ pc \in {"prepare", "rows", "done", "failed"}
  /\ input \in DOMAIN job.inputs
  /\ \A i \in DOMAIN todo : todo[i] \in ToSet(Input.rows)
  /\ \A i \in DOMAIN case : case[i] \in ToSet(Input.rows)
  /\ \A path \in DOMAIN disk : disk[path].age \in {"old", "new"}
  /\ \A text \in Texts : IsText(text)
  /\ totals \in [files : Nat, groups : Nat, rows : Nat]

\* The rows of a text, read back through its pool.
ItemsOf(text, keys, indices) ==
  [n \in DOMAIN indices |-> Item(keys[n], text.pool[indices[n] + 1])]

GroupRows(text, g) ==
  [j \in DOMAIN g.rows |->
     [code |-> g.code, exception |-> g.rows[j].exception,
      in |-> ItemsOf(text, g.in, g.rows[j].in),
      out |-> ItemsOf(text, g.out, g.rows[j].out)]]

RowsIn(text) ==
  FlattenSeq([i \in DOMAIN text.groups |-> GroupRows(text, text.groups[i])])

Written == {path \in DOMAIN disk : disk[path].age = "new"}

\* In tools/convert_test_vectors.py two mnemonics that map to one name may come
\* apart in the order of the query, or two inputs may share a stem: then the
\* second file of the name replaces the first, or its directory is emptied.
NamesComeTogether ==
  job.tool = "vectors" =>
    /\ \A i \in DOMAIN job.inputs :
         LET rows == job.inputs[i].rows
         IN  \A a, b \in DOMAIN rows : \A n \in a..b :
               FileName[rows[a].mnemonic] = FileName[rows[b].mnemonic] =>
                 FileName[rows[n].mnemonic] = FileName[rows[a].mnemonic]
    /\ \A i, j \in DOMAIN job.inputs :
         job.inputs[i].stem = job.inputs[j].stem => i = j

DirOf(i) == IF Len(job.inputs) > 1 THEN job.inputs[i].stem ELSE "."

\* The rows from the a-th to the b-th go into one file, those around them not.
IsStretch(rows, a, b, name) ==
  /\ \A n \in a..b : FileName[rows[n].mnemonic] = name
  /\ a > 1 => FileName[rows[a - 1].mnemonic] # name
  /\ b < Len(rows) => FileName[rows[b + 1].mnemonic] # name

AsRead(row) == [code |-> row.code, exception |-> row.exception,
                in |-> Normalized(row.inputs), out |-> OutputsOf(row)]

HoldsAStretch(path) ==
  \E i \in DOMAIN job.inputs :
    LET rows == job.inputs[i].rows
    IN  /\ DirOf(i) = path[1]
        /\ \E a, b \in DOMAIN rows :
             /\ a <= b /\ IsStretch(rows, a, b, path[2])
             /\ ToBag(RowsIn(disk[path].text))
                  = ToBag([n \in 1..(b - a + 1) |-> AsRead(rows[a + n - 1])])

RowsOf(rows, name) ==
  Only(rows, {n \in DOMAIN rows : FileName[rows[n].mnemonic] = name})

\* The rows are not in the order of the table: a group collects its own.
HoldsItsName(path) ==
  \E i \in DOMAIN job.inputs :
    LET rows == RowsOf(job.inputs[i].rows, path[2])
    IN  /\ DirOf(i) = path[1]
        /\ ToBag(RowsIn(disk[path].text))
             = ToBag([n \in DOMAIN rows |-> AsRead(rows[n])])

\* The rows of the public corpus that --limit-states lets through.
Converted ==
  IF LimitReached(Len(Input.rows)) THEN SubSeq(Input.rows, 1, job.limit)
                                   ELSE Input.rows

\* The bit that a bit test reads: row.offset bits from the first of mem0.
TestsOutside(row) ==
  /\ row.mnemonic \in BitTests /\ row.element # 0 /\ row.width # 0
  /\ row.exception = "none" /\ row.offset \notin 0..63

TestedBit(items, row) ==
  \E i \in DOMAIN items :
    /\ IsMemoryKey(items[i].key)
    /\ 8 * Mem0 + row.offset - 8 * items[i].key[2] \in items[i].value.bits

Carry(row) == 0 \in UNION Raw(row.outputs, <<"flag">>)

\* A row that was read is the one it was made from: it has all its items, and
\* besides them only memory, which is zero unless the row is a bit test that
\* reaches outside mem0.  Of such a test the bit it reads is listed and set if it
\* expects a carry, and otherwise clear or not listed at all: not that it has a
\* cell to read from, which it has not if it expects no carry.
IsMadeFrom(read, row) ==
  LET listed == ToSet(StateItems(row.inputs))
  IN  /\ read.code = row.code /\ read.exception = row.exception
      /\ ~ HasDuplicate(read.in)
      /\ listed \subseteq ToSet(read.in)
      /\ \A item \in ToSet(read.in) \ listed :
           /\ IsMemoryKey(item.key)
           /\ item.value.bits = {} \/ TestsOutside(row)
      /\ TestsOutside(row) => (TestedBit(read.in, row) <=> Carry(row))
      /\ ToSet(read.out) = ToSet(OutputItems(row))

HoldsItsRows(path) ==
  LET rows == Only(Converted, {i \in DOMAIN Converted :
                                 HandleFor(Converted[i]) = path[2]})
      read == RowsIn(disk[path].text)
  IN  Len(read) = Len(rows) /\ \A i \in DOMAIN rows : IsMadeFrom(read[i], rows[i])

\* Whatever fails and whenever: a corpus file that the converters have written
\* holds all rows of its name and no others, and each row, read back through pool
\* and schema, is the row of the table (see IsMadeFrom for the public corpus).
\* convert_test_vectors.py keeps that only where names come together; where they
\* do not, a file holds one whole stretch of rows of its name.
FilesHoldTheirRows ==
  \A path \in Written :
    /\ job.tool = "public" => HoldsItsRows(path)
    /\ job.tool = "vectors" => HoldsAStretch(path)
    /\ job.tool = "vectors" /\ NamesComeTogether => HoldsItsName(path)

\* Every row that convert_test_vectors.py was given has a file of its name.
RowsHaveFiles ==
  \A i \in DOMAIN job.inputs : \A row \in ToSet(job.inputs[i].rows) :
    <<DirOf(i), FileName[row.mnemonic]>> \in Written

\* Where names come together, what a completed run reports is on disk, nothing
\* else is in the directories it has filled, and no row has been left out: each
\* has its file (vectors), or as many are there as the limit lets through (public).
ReportIsOnDisk ==
  pc = "done" /\ NamesComeTogether =>
    /\ totals.files = Cardinality(Written)
    /\ totals.groups =
         FoldFunction(+, 0, [path \in Written |-> Len(disk[path].text.groups)])
    /\ totals.rows =
         FoldFunction(+, 0, [path \in Written |-> RowCount(disk[path].text)])
    /\ \A i \in DOMAIN job.inputs :
         ~ job.single => Existing(DirOf(i)) \subseteq Written
    /\ job.tool = "vectors" => RowsHaveFiles
    /\ job.tool = "public" => totals.rows = Len(Converted)

\* Without --overwrite no file is removed or replaced, neither one that was
\* there before nor one that the same run has written, where names come together.
FilesStay ==
  [][~ job.overwrite /\ NamesComeTogether =>
       \A path \in DOMAIN disk :
         path \in DOMAIN disk' /\ disk'[path] = disk[path]]_vars

(***************************************************************************)
(* What README.md says of convert_test_vectors.py: it converts a parquet   *)
(* into a corpus directory, and every parquet when it is given several.    *)
(* So when it is done every row is in the directory of its input.          *)
(***************************************************************************)
EveryRowIsConverted ==
  pc = "done" /\ job.tool = "vectors" =>
    \A i \in DOMAIN job.inputs : \A row \in ToSet(job.inputs[i].rows) :
      LET path == <<DirOf(i), FileName[row.mnemonic]>>
      IN  path \in Written /\ AsRead(row) \in ToSet(RowsIn(disk[path].text))

=============================================================================
