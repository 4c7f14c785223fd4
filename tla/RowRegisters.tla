---------------------------- MODULE RowRegisters ----------------------------
(***************************************************************************)
(* The registers of a row, from the values the corpus lists to the verdict *)
(* on them.  AddStateBytes (x86tester_parser.cpp) files every value under  *)
(* a canonical key, as a number, as bytes or as both; ApplyInitialState    *)
(* (remill_state_bridge.cpp) walks the two maps in the order of their keys *)
(* and loads Remill's State; the lifted function changes it; SnapshotState *)
(* and SnapshotBytes read it back, and CompareExecutionResult              *)
(* (comparator.cpp) looks at what the row lists.                           *)
(*                                                                         *)
(* A value is a sequence of words: of one word, a number; of more, bytes.  *)
(* A word is the set of its 1 bits.  Flags are kept twice in the State, in *)
(* rflag and, the arithmetic ones, in aflag; the x87 status too, in the    *)
(* word swd and bit by bit in sw.  A vector register of some name is the   *)
(* low end of its storage, which it shares with the others of its index.   *)
(***************************************************************************)
EXTENDS Integers, FiniteSets, Sequences, SequencesExt

CONSTANTS
  Bit,           \* the bits of a word
  Name,          \* the keys as the corpus writes them
  Canonical,     \* CanonicalStateKey, a function from Name to keys
  KeyOrder,      \* the canonical keys in the order of a std::map
  General,       \* the scalar registers
  ByteStateKey,  \* the keys IsByteStateKey takes for byte registers
  ByteRegister,  \* a function from the byte registers to [cell, size]
  Longest,       \* the size of the largest storage
  Rows           \* the rows

Word == SUBSET Bit
Key == {KeyOrder[i] : i \in DOMAIN KeyOrder}
Cell == {ByteRegister[k].cell : k \in DOMAIN ByteRegister}

Status == {"flag", "cr0", "x87status"}

ASSUME NamesAssumption ==
  /\ Canonical \in [Name -> Key]
  /\ KeyOrder \in Seq(Key)
  /\ General \cup Status \subseteq Key
  /\ "rip" \in General /\ General \cap Status = {}
  /\ DOMAIN ByteRegister \subseteq (Key \cap ByteStateKey) \ (General \cup Status)
  /\ Longest \in Nat
  /\ \A k \in DOMAIN ByteRegister : ByteRegister[k].size \in 1..Longest

(* Bit positions (flag_masks.hpp, remill_state_bridge.cpp).                *)
CF == 0
ZF == 6
FixedFlag == 1
ArithmeticFlag == {0, 2, 4, 6, 7, 10, 11}
UserFlag == {0, 2, 4, 6, 7, 8, 9, 10, 11, 12, 13, 14, 16, 18, 21}
StatusMask == (0..14) \ {7}
StatusTop == {11, 12, 13}
StatusBit == StatusMask \ StatusTop

ASSUME BitsAssumption == {FixedFlag, ZF} \subseteq Bit

\* The selectors that the system calls of VERR and VERW accept, 0x20 and 0x28.
Verified == [verr |-> {5}, verw |-> {3, 5}]

ASSUME CallsAssumption == Key \cap DOMAIN Verified = {}

\* What a row lists, and what XED says of its instruction; count is where the
\* last operand takes the count from; effect is what the instruction writes, the
\* bits of the x87 status that Remill keeps among it, or asks of a system call.
Entry == [name : Name, value : Seq(Word)]
Class == {"shift", "rotate", "rotate through carry", "other"}

IsRow(r) ==
  /\ r.inputs \in Seq(Entry) /\ r.outputs \in Seq(Entry)
  /\ r.address \in Word \ {{}}
  /\ r.class \in Class
  /\ r.width \in {0, 8, 16, 32, 64}
  /\ r.written \subseteq Bit /\ r.undefined \subseteq Bit
  /\ r.count \in [from : {"none", "cl", "immediate"}, n : Nat]
  /\ r.effect.key \in General \cup DOMAIN ByteRegister \cup DOMAIN Verified
                     \cup {"flag", "x87status"}
  /\ r.effect.value \in Seq(Word)
  /\ Len(r.effect.value) = IF r.effect.key \in DOMAIN ByteRegister
                             THEN ByteRegister[r.effect.key].size ELSE 1
  /\ r.effect.key = "x87status" => r.effect.value[1] \subseteq StatusMask

ASSUME RowsAssumption == \A r \in Rows : IsRow(r)

VARIABLES
  row,      \* the row
  pc,       \* where RunCase is
  todo,     \* the keys ApplyInitialState has still to take
  initial,  \* initial_state and initial_bytes
  expected, \* expected_final_state and expected_final_bytes
  gpr, rflag, aflag, swd, sw, wide, \* the State
  final,    \* final_state and final_bytes
  verdict   \* what the row comes to

state == <<gpr, rflag, aflag, swd, sw, wide>>
vars == <<row, pc, todo, initial, expected, state, final, verdict>>

NoValues == [scalars |-> <<>>, bytes |-> <<>>]

Init ==
  /\ row \in Rows
  /\ pc = "parse" /\ todo = {}
  /\ initial = NoValues /\ expected = NoValues
  /\ gpr = [k \in General |-> {}]
  /\ rflag = {FixedFlag} /\ aflag = {}
  /\ swd = {} /\ sw = {}
  /\ wide = [c \in Cell |-> [i \in 1..Longest |-> {}]]
  /\ final = NoValues
  /\ verdict = "none"

----------------------------------------------------------------------------
(* The parser.                                                             *)

Put(f, k, v) == [x \in DOMAIN f \cup {k} |-> IF x = k THEN v ELSE f[x]]

KeptAsBytes(key, value) == key \in ByteStateKey \/ Len(value) > 1

AddStateBytes(values, entry) ==
  LET key == Canonical[entry.name]
  IN  [scalars |-> IF Len(entry.value) = 1
                     THEN Put(values.scalars, key, entry.value[1])
                     ELSE values.scalars,
       bytes |-> IF KeptAsBytes(key, entry.value)
                   THEN Put(values.bytes, key, entry.value)
                   ELSE values.bytes]


ParseStateRow ==
  /\ pc = "parse"
  /\ initial' = FoldLeft(AddStateBytes, NoValues, row.inputs)
  /\ expected' = FoldLeft(AddStateBytes, NoValues, row.outputs)
  /\ pc' = "scalars" /\ todo' = DOMAIN initial'.scalars
  /\ UNCHANGED <<row, state, final, verdict>>

----------------------------------------------------------------------------
(* ApplyInitialState.                                                      *)

\* The key a std::map comes to next.
First(keys) == KeyOrder[Min({i \in DOMAIN KeyOrder : KeyOrder[i] \in keys})]

IsByteRegister(key) == key \in DOMAIN ByteRegister

\* A defect: the split flags keep what they had.
OneCopy(flags) == aflag

Split(flags) == flags \cap ArithmeticFlag

SetFlags(flags) == rflag' = flags \cup {FixedFlag} /\ aflag' = Split(flags)

\* A defect: the word is stored as it comes.
SetRawStatus(value) == swd' = value /\ sw' = value \cap StatusBit

SetX87Status(value) ==
  swd' = value \cap StatusMask /\ sw' = value \cap StatusBit

\* The next key is taken.
Advance ==
  /\ todo' = todo \ {First(todo)}
  /\ UNCHANGED <<row, pc, initial, expected, final, verdict>>

\* A key the State has no place for: the row is unsupported.
Reject ==
  /\ pc' = "done" /\ verdict' = "skipped"
  /\ UNCHANGED <<row, todo, initial, expected, state, final>>

ApplyFlags ==
  /\ First(todo) = "flag"
  /\ SetFlags(initial.scalars["flag"])
  /\ Advance
  /\ UNCHANGED <<gpr, swd, sw, wide>>

ApplyX87Status ==
  /\ First(todo) = "x87status"
  /\ SetX87Status(initial.scalars["x87status"])
  /\ Advance
  /\ UNCHANGED <<gpr, rflag, aflag, wide>>

SetScalarRegister ==
  /\ First(todo) \in General
  /\ gpr' = [gpr EXCEPT ![First(todo)] = initial.scalars[First(todo)]]
  /\ Advance
  /\ UNCHANGED <<rflag, aflag, swd, sw, wide>>

PassOver ==
  /\ First(todo) = "cr0" \/ IsByteRegister(First(todo))
  /\ Advance
  /\ UNCHANGED state

UnsupportedScalar ==
  /\ First(todo) \notin General \cup DOMAIN ByteRegister \cup Status
  /\ Reject

ApplyScalar ==
  /\ pc = "scalars" /\ todo # {}
  /\ \/ ApplyFlags \/ ApplyX87Status \/ SetScalarRegister
     \/ PassOver \/ UnsupportedScalar

ScalarsApplied ==
  /\ pc = "scalars" /\ todo = {}
  /\ pc' = "bytes" /\ todo' = DOMAIN initial.bytes
  /\ UNCHANGED <<row, initial, expected, state, final, verdict>>

\* The number of a register is taken from the scalars, whatever its bytes say.
IsScalarKey(key) == key \in General \cup Status

\* memcpy to the low end of the storage.
Overlay(storage, value) ==
  [i \in 1..Longest |-> IF i \in DOMAIN value THEN value[i] ELSE storage[i]]

Fits(key, value) == Len(value) = ByteRegister[key].size

SetByteRegister ==
  LET key == First(todo)
  IN  /\ IsByteRegister(key)
      /\ Fits(key, initial.bytes[key])
      /\ wide' = [wide EXCEPT ![ByteRegister[key].cell] =
                    Overlay(@, initial.bytes[key])]
      /\ Advance
      /\ UNCHANGED <<gpr, rflag, aflag, swd, sw>>

PassOverScalar ==
  /\ IsScalarKey(First(todo))
  /\ Advance
  /\ UNCHANGED state

UnsupportedBytes ==
  LET key == First(todo)
  IN  /\ ~ IsScalarKey(key)
      /\ IsByteRegister(key) => ~ Fits(key, initial.bytes[key])
      /\ Reject

ApplyBytes ==
  /\ pc = "bytes" /\ todo # {}
  /\ SetByteRegister \/ PassOverScalar \/ UnsupportedBytes

\* A row that does not say where it starts, starts at the address of its code.
BytesApplied ==
  /\ pc = "bytes" /\ todo = {}
  /\ pc' = "run"
  /\ gpr' = IF gpr["rip"] = {} THEN [gpr EXCEPT !["rip"] = row.address] ELSE gpr
  /\ UNCHANGED <<row, todo, initial, expected, rflag, aflag, swd, sw, wide,
                 final, verdict>>

----------------------------------------------------------------------------
(* The lifted function.  It writes one register, the flags and the status  *)
(* where Remill's semantics keep them, or makes a system call.             *)

LiftedFunction ==
  LET key == row.effect.key
      value == row.effect.value
  IN  /\ pc = "run" /\ pc' = "snapshot"
      /\ key \notin DOMAIN Verified
      /\ gpr' = IF key \in General THEN [gpr EXCEPT ![key] = value[1]] ELSE gpr
      /\ rflag' = IF key = "flag"
                    THEN (rflag \cap ArithmeticFlag) \cup (value[1] \ ArithmeticFlag)
                    ELSE rflag
      /\ aflag' = IF key = "flag" THEN value[1] \cap ArithmeticFlag ELSE aflag
      /\ swd' = IF key = "x87status"
                  THEN (swd \ StatusTop) \cup (value[1] \cap StatusTop)
                  ELSE swd
      /\ sw' = IF key = "x87status" THEN value[1] \cap StatusBit ELSE sw
      /\ wide' = IF IsByteRegister(key)
                   THEN [wide EXCEPT ![ByteRegister[key].cell] = Overlay(@, value)]
                   ELSE wide
      /\ UNCHANGED <<row, todo, initial, expected, final, verdict>>

WithZF(flags, zf) == (flags \ {ZF}) \cup (IF zf THEN {ZF} ELSE {})

\* __remill_sync_hyper_call: the flag is written in both of its copies.
SyncHyperCall ==
  /\ pc = "run" /\ pc' = "snapshot"
  /\ row.effect.key \in DOMAIN Verified
  /\ LET zf == row.effect.value[1] = Verified[row.effect.key]
     IN  rflag' = WithZF(rflag, zf) /\ aflag' = WithZF(aflag, zf)
  /\ UNCHANGED <<gpr, swd, sw, wide, row, todo, initial, expected, final, verdict>>

----------------------------------------------------------------------------
(* The snapshot.                                                           *)

GetScalarRegister(key) == gpr[key]

GetFlags == (rflag \ ArithmeticFlag) \cup aflag \cup {FixedFlag}

GetX87Status == (swd \cap StatusTop) \cup sw

GetByteRegister(key) ==
  SubSeq(wide[ByteRegister[key].cell], 1, ByteRegister[key].size)

SnapshotState ==
  [k \in DOMAIN expected.scalars \cap (General \cup {"flag", "x87status"}) |->
     CASE k = "flag" -> GetFlags
       [] k = "x87status" -> GetX87Status
       [] OTHER -> GetScalarRegister(k)]

SnapshotBytes ==
  [k \in DOMAIN expected.bytes \cap DOMAIN ByteRegister |-> GetByteRegister(k)]

Snapshot ==
  /\ pc = "snapshot" /\ pc' = "compare"
  /\ final' = [scalars |-> SnapshotState, bytes |-> SnapshotBytes]
  /\ UNCHANGED <<row, todo, initial, expected, state, verdict>>

----------------------------------------------------------------------------
(* CompareExecutionResult.                                                 *)

\* The low byte of a word.
LowByte(word) ==
  LET Digit(b, value) == IF b \in word THEN value ELSE 0
  IN  Digit(0, 1) + Digit(1, 2) + Digit(2, 4) + Digit(3, 8)
        + Digit(4, 16) + Digit(5, 32) + Digit(6, 64) + Digit(7, 128)

NoCount == -1

ParseCountOperand ==
  CASE row.count.from = "none" -> NoCount
    [] row.count.from = "cl" -> IF "rcx" \in DOMAIN initial.scalars
                                  THEN LowByte(initial.scalars["rcx"]) ELSE NoCount
    [] OTHER -> row.count.n

MaskedCount ==
  IF ParseCountOperand = NoCount THEN NoCount
  ELSE ParseCountOperand % (IF row.width = 64 THEN 64 ELSE 32)

\* A defect: the carry is not one of the bits that go round.
WidthOfRotate == row.width

CarryPeriod == row.width + 1

RotateEffectiveCount ==
  IF MaskedCount = NoCount THEN NoCount
  ELSE CASE row.class = "rotate" -> MaskedCount % row.width
         [] row.class = "rotate through carry" /\ row.width < 32 ->
              MaskedCount % CarryPeriod
         [] OTHER -> MaskedCount

InitialFlagsProvided == "flag" \in DOMAIN initial.scalars

Comparable == (row.written \ row.undefined) \cap UserFlag

DynamicUndefinedFlagMask ==
  IF row.width = 0 THEN {}
  ELSE CASE row.class = "shift" ->
              IF MaskedCount = 0 /\ ~ InitialFlagsProvided THEN Comparable
              ELSE IF MaskedCount >= row.width THEN {CF}
              ELSE {}
         [] row.class \in {"rotate", "rotate through carry"} ->
              IF RotateEffectiveCount = 0 /\ ~ InitialFlagsProvided
                THEN Comparable ELSE {}
         [] OTHER -> {}

CareMask == Comparable \ DynamicUndefinedFlagMask

ScalarAgrees(key) ==
  \/ IsByteRegister(key)
  \/ /\ key \in DOMAIN final.scalars
     /\ IF key = "flag"
          THEN expected.scalars[key] \cap CareMask = final.scalars[key] \cap CareMask
          ELSE expected.scalars[key] = final.scalars[key]

BytesAgree(key) ==
  IsByteRegister(key) => final.bytes[key] = expected.bytes[key]

Compare ==
  /\ pc = "compare" /\ pc' = "done"
  /\ verdict' = IF /\ \A k \in DOMAIN expected.scalars : ScalarAgrees(k)
                   /\ \A k \in DOMAIN expected.bytes : BytesAgree(k)
                  THEN "passed" ELSE "failed"
  /\ UNCHANGED <<row, todo, initial, expected, state, final>>

Next ==
  \/ ParseStateRow
  \/ ApplyScalar \/ ScalarsApplied
  \/ ApplyBytes \/ BytesApplied
  \/ LiftedFunction \/ SyncHyperCall
  \/ Snapshot \/ Compare

Spec == Init /\ [][Next]_vars

(* Properties.                                                             *)

WellTyped(values) ==
  /\ DOMAIN values.scalars \cup DOMAIN values.bytes \subseteq Key
  /\ \A k \in DOMAIN values.scalars : values.scalars[k] \in Word
  /\ \A k \in DOMAIN values.bytes : values.bytes[k] \in Seq(Word)

TypeOK ==
  /\ IsRow(row)
  /\ pc \in {"parse", "scalars", "bytes", "run", "snapshot", "compare", "done"}
  /\ todo \subseteq Key
  /\ WellTyped(initial) /\ WellTyped(expected) /\ WellTyped(final)
  /\ gpr \in [General -> Word]
  /\ rflag \in Word
  /\ aflag \in SUBSET ArithmeticFlag
  /\ swd \in SUBSET StatusMask /\ sw \in SUBSET StatusBit
  /\ wide \in [Cell -> [1..Longest -> Word]]
  /\ verdict \in {"none", "passed", "failed", "skipped"}

\* What the State can hold, and what can be read back from it.
Known(key) == IsScalarKey(key) \/ IsByteRegister(key)
Readable(key) == Known(key) /\ key # "cr0"

Keys(entries) == {Canonical[entries[i].name] : i \in DOMAIN entries}
Lists(entry, key) == Canonical[entry.name] = key

\* The i-th word of a vector register's storage is part of what is listed.
Covers(key, cell, i) ==
  IsByteRegister(key) /\ ByteRegister[key].cell = cell /\ i <= ByteRegister[key].size

\* Every known register is listed with its own size, and what is listed twice,
\* under two names or as part of two registers, is listed with one value.
Plain(entries) ==
  /\ \A i \in DOMAIN entries :
       LET key == Canonical[entries[i].name]
       IN  /\ entries[i].value # <<>>
           /\ Known(key) =>
                Len(entries[i].value) =
                  (IF IsByteRegister(key) THEN ByteRegister[key].size ELSE 1)
  /\ \A i, j \in DOMAIN entries :
       LET a == Canonical[entries[i].name]
           b == Canonical[entries[j].name]
       IN  /\ a = b => entries[i].value = entries[j].value
           /\ \A c \in Cell, n \in 1..Longest :
                Covers(a, c, n) /\ Covers(b, c, n) =>
                  entries[i].value[n] = entries[j].value[n]

\* The contents of the registers a row starts with, straight from its list.
Listed(key) ==
  IF key \in Keys(row.inputs)
    THEN LET i == CHOOSE i \in DOMAIN row.inputs : Lists(row.inputs[i], key)
         IN  row.inputs[i].value[1]
    ELSE {}

ListedWord(cell, n) ==
  LET at == {i \in DOMAIN row.inputs : Covers(Canonical[row.inputs[i].name], cell, n)}
  IN  IF at = {} THEN {} ELSE row.inputs[CHOOSE i \in at : TRUE].value[n]

StartOf(key) ==
  CASE key = "flag" -> Listed("flag") \cup {FixedFlag}
    [] key = "x87status" -> Listed("x87status") \cap StatusMask
    [] key = "rip" /\ Listed("rip") = {} -> row.address
    [] OTHER -> Listed(key)

\* The lifted function is entered with the registers the row lists, under any
\* of their names and in any order, and with zeros in the others: the two
\* copies of flags and status agree, and a vector register is not lost to
\* another of its index.
InputsAreLoaded ==
  pc = "run" /\ Plain(row.inputs) =>
    /\ \A k \in General : gpr[k] = StartOf(k)
    /\ GetFlags = StartOf("flag")
    /\ GetX87Status = StartOf("x87status")
    /\ \A c \in Cell, n \in 1..Longest : wide[c][n] = ListedWord(c, n)

\* What the registers hold in the end, by definition.
EndOf(key) ==
  CASE row.effect.key = key -> row.effect.value[1]
    [] key = "flag" /\ row.effect.key \in DOMAIN Verified ->
         {b \in StartOf("flag") \cup {ZF} :
            b = ZF => row.effect.value[1] = Verified[row.effect.key]}
    [] OTHER -> StartOf(key)

EndWord(cell, n) ==
  IF Covers(row.effect.key, cell, n) THEN row.effect.value[n] ELSE ListedWord(cell, n)

\* A shift or rotate by this many leaves the flags as they were: the bits have
\* gone round a whole number of times, the carry with them if it takes part.
TurnsRound(count, period) == \E turns \in 0..count : count = turns * period

LeavesFlags ==
  /\ row.width # 0
  /\ CASE row.class = "shift" -> MaskedCount = 0
       [] row.class = "rotate" -> TurnsRound(MaskedCount, row.width)
       [] row.class = "rotate through carry" -> TurnsRound(MaskedCount, row.width + 1)
       [] OTHER -> FALSE

ShiftsAllOut == row.width # 0 /\ row.class = "shift" /\ MaskedCount >= row.width

\* The flags the row determines: those the instruction writes and defines,
\* unless it leaves them and the row does not say what they were.
Determined ==
  IF LeavesFlags /\ "flag" \notin Keys(row.inputs) THEN {}
  ELSE {b \in Comparable : b = CF => ~ ShiftsAllOut}

Right(entry) ==
  LET key == Canonical[entry.name]
  IN  CASE key = "flag" ->
             \A b \in Determined : b \in entry.value[1] <=> b \in EndOf("flag")
        [] IsByteRegister(key) ->
             \A n \in 1..ByteRegister[key].size :
               entry.value[n] = EndWord(ByteRegister[key].cell, n)
        [] OTHER -> entry.value[1] = EndOf(key)

PlainRow ==
  /\ Plain(row.inputs) /\ Plain(row.outputs)
  /\ \A k \in Keys(row.outputs) : Readable(k)

\* A row passes exactly when every register it expects holds what it expects,
\* and of the flags those it determines; it is skipped exactly when it gives a
\* register the State does not have.
VerdictIsRight ==
  pc = "done" /\ PlainRow =>
    verdict = IF \E k \in Keys(row.inputs) : ~ Known(k) THEN "skipped"
              ELSE IF \A i \in DOMAIN row.outputs : Right(row.outputs[i])
                THEN "passed" ELSE "failed"

(***************************************************************************)
(* What the design says of the comparison: every byte vector in            *)
(* expected_final_bytes is compared (PLAN.md, "Comparator plan").          *)
(***************************************************************************)
ByteVectorsAreCompared ==
  verdict = "passed" =>
    \A k \in DOMAIN expected.bytes :
      k \in DOMAIN final.bytes /\ final.bytes[k] = expected.bytes[k]

=============================================================================
