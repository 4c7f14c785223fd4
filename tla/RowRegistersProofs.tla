------------------------- MODULE RowRegistersProofs -------------------------
(***************************************************************************)
(* Proofs about RowRegisters, for any registers, names, rows and sizes: the *)
(* lifted function is entered with what a plain row lists, and the verdict  *)
(* is right.  The inductive invariant follows the row through parser, State *)
(* and snapshot; CareIsDetermined is about the masks for shifts and rotates.*)
(***************************************************************************)
EXTENDS RowRegisters, DataTheorems, SequenceTheorems

----------------------------------------------------------------------------
(* What AddStateBytes makes of a list.                                     *)

\* The values of the entries I of a list: which keys have one, and from where.
FiledFrom(values, entries, I) ==
  /\ \A i \in I : Len(entries[i].value) = 1 =>
       Canonical[entries[i].name] \in DOMAIN values.scalars
  /\ \A i \in I : KeptAsBytes(Canonical[entries[i].name], entries[i].value) =>
       Canonical[entries[i].name] \in DOMAIN values.bytes
  /\ \A k \in DOMAIN values.scalars : \E i \in I :
       /\ Lists(entries[i], k) /\ Len(entries[i].value) = 1
       /\ values.scalars[k] = entries[i].value[1]
  /\ \A k \in DOMAIN values.bytes : \E i \in I :
       /\ Lists(entries[i], k) /\ KeptAsBytes(k, entries[i].value)
       /\ values.bytes[k] = entries[i].value

Filed(values, entries) == FiledFrom(values, entries, DOMAIN entries)

\* One entry more.
LEMMA AddFiles ==
  ASSUME NEW entries \in Seq(Entry), NEW i \in DOMAIN entries,
         NEW I \in SUBSET DOMAIN entries, NEW values,
         WellTyped(values), FiledFrom(values, entries, I)
  PROVE  /\ WellTyped(AddStateBytes(values, entries[i]))
         /\ FiledFrom(AddStateBytes(values, entries[i]), entries, I \cup {i})
<1> DEFINE key == Canonical[entries[i].name]
           value == entries[i].value
           new == AddStateBytes(values, entries[i])
<1>1. entries[i] \in Entry
  BY ElementOfSeq
<1>2. key \in Key /\ value \in Seq(Word) /\ (Len(value) = 1 => value[1] \in Word)
  BY <1>1, NamesAssumption DEF Entry
<1> DEFINE sc == Put(values.scalars, key, value[1])
           by == Put(values.bytes, key, value)
<1>3. /\ new.scalars = IF Len(value) = 1 THEN sc ELSE values.scalars
      /\ new.bytes = IF KeptAsBytes(key, value) THEN by ELSE values.bytes
  BY DEF AddStateBytes
<1>4. /\ DOMAIN sc = DOMAIN values.scalars \cup {key} /\ sc[key] = value[1]
      /\ \A x \in DOMAIN values.scalars : x # key => sc[x] = values.scalars[x]
  BY DEF Put
<1>5. /\ DOMAIN by = DOMAIN values.bytes \cup {key} /\ by[key] = value
      /\ \A x \in DOMAIN values.bytes : x # key => by[x] = values.bytes[x]
  BY DEF Put
<1>6. /\ DOMAIN values.scalars \subseteq Key /\ DOMAIN values.bytes \subseteq Key
      /\ \A k \in DOMAIN values.scalars : values.scalars[k] \in Word
      /\ \A k \in DOMAIN values.bytes : values.bytes[k] \in Seq(Word)
  BY DEF WellTyped
<1> HIDE DEF new, sc, by
<1>7. WellTyped(new)
  <2>1. /\ DOMAIN new.scalars \subseteq Key
        /\ \A k \in DOMAIN new.scalars : new.scalars[k] \in Word
    <3> HIDE DEF key, value
    <3>1. CASE Len(value) = 1
      BY <3>1, <1>2, <1>3, <1>4, <1>6
    <3>2. CASE Len(value) # 1
      BY <3>2, <1>3, <1>6
    <3> QED BY <3>1, <3>2
  <2>2. /\ DOMAIN new.bytes \subseteq Key
        /\ \A k \in DOMAIN new.bytes : new.bytes[k] \in Seq(Word)
    <3> HIDE DEF key, value
    <3>1. CASE KeptAsBytes(key, value)
      BY <3>1, <1>2, <1>3, <1>5, <1>6
    <3>2. CASE ~ KeptAsBytes(key, value)
      BY <3>2, <1>3, <1>6
    <3> QED BY <3>1, <3>2
  <2> QED BY <2>1, <2>2 DEF WellTyped
<1>8. FiledFrom(new, entries, I \cup {i})
  <2>1. ASSUME NEW j \in I \cup {i}, Len(entries[j].value) = 1
        PROVE  Canonical[entries[j].name] \in DOMAIN new.scalars
    <3>1. CASE j = i
      BY <2>1, <3>1, <1>3, <1>4
    <3>2. CASE j \in I
      <4>1. Canonical[entries[j].name] \in DOMAIN values.scalars
        BY <2>1, <3>2 DEF FiledFrom
      <4> QED BY <4>1, <1>3, <1>4
    <3> QED BY <3>1, <3>2
  <2>2. ASSUME NEW j \in I \cup {i},
               KeptAsBytes(Canonical[entries[j].name], entries[j].value)
        PROVE  Canonical[entries[j].name] \in DOMAIN new.bytes
    <3>1. CASE j = i
      BY <2>2, <3>1, <1>3, <1>5
    <3>2. CASE j \in I
      <4>1. Canonical[entries[j].name] \in DOMAIN values.bytes
        BY <2>2, <3>2 DEF FiledFrom
      <4> QED BY <4>1, <1>3, <1>5
    <3> QED BY <3>1, <3>2
  <2>3. ASSUME NEW k \in DOMAIN new.scalars
        PROVE  \E j \in I \cup {i} :
                 /\ Lists(entries[j], k) /\ Len(entries[j].value) = 1
                 /\ new.scalars[k] = entries[j].value[1]
    <3>1. CASE Len(value) = 1 /\ k = key
      BY <3>1, <1>3, <1>4 DEF Lists
    <3>2. CASE ~ (Len(value) = 1 /\ k = key)
      <4>1. k \in DOMAIN values.scalars /\ new.scalars[k] = values.scalars[k]
        BY <3>2, <1>3, <1>4
      <4> QED BY <4>1 DEF FiledFrom
    <3> QED BY <3>1, <3>2
  <2>4. ASSUME NEW k \in DOMAIN new.bytes
        PROVE  \E j \in I \cup {i} :
                 /\ Lists(entries[j], k) /\ KeptAsBytes(k, entries[j].value)
                 /\ new.bytes[k] = entries[j].value
    <3>1. CASE KeptAsBytes(key, value) /\ k = key
      BY <3>1, <1>3, <1>5 DEF Lists
    <3>2. CASE ~ (KeptAsBytes(key, value) /\ k = key)
      <4>1. k \in DOMAIN values.bytes /\ new.bytes[k] = values.bytes[k]
        BY <3>2, <1>3, <1>5
      <4> QED BY <4>1 DEF FiledFrom
    <3> QED BY <3>1, <3>2
  <2> QED BY <2>1, <2>2, <2>3, <2>4 DEF FiledFrom
<1> QED BY <1>7, <1>8 DEF new

\* The largest of the first n + 1 numbers, where it is among them.
LEMMA MaxOfPrefix ==
  ASSUME NEW n \in Nat, NEW t \in SUBSET (1..(n + 1)), n + 1 \in t
  PROVE  Max(t) = n + 1
<1>1. \A y \in t : n + 1 >= y
  OBVIOUS
<1>2. \A x \in t : (\A y \in t : x >= y) => x = n + 1
  OBVIOUS
<1> QED BY <1>1, <1>2 DEF Max

\* Folding AddStateBytes over a list files all of it.
LEMMA FoldFiles ==
  ASSUME NEW s \in Seq(Entry)
  PROVE  LET values == FoldLeft(AddStateBytes, NoValues, s)
         IN  WellTyped(values) /\ Filed(values, s)
<1> DEFINE Step(f, t) == IF t = {} THEN NoValues
                         ELSE AddStateBytes(f[t \ {Max(t)}], s[Max(t)])
           IsFold(f, n) == f = [t \in SUBSET (1..n) |-> Step(f, t)]
           fold == CHOOSE f : IsFold(f, Len(s))
<1>1. Len(s) \in Nat /\ DOMAIN s = 1..Len(s)
  OBVIOUS
<1>2. FoldLeft(AddStateBytes, NoValues, s) = fold[1..Len(s)]
  BY <1>1 DEF FoldLeft, MapThenFoldSet
<1>3. \A n \in Nat : n \in {m \in Nat : \E f : IsFold(f, m)}
  <2> DEFINE T == {m \in Nat : \E f : IsFold(f, m)}
  <2>1. 0 \in T
    <3> DEFINE f == [t \in SUBSET (1..0) |-> NoValues]
    <3>1. \A t \in SUBSET (1..0) : t = {}
      OBVIOUS
    <3>2. IsFold(f, 0)
      BY <3>1
    <3>3. \E g : IsFold(g, 0)
      <4> HIDE DEF IsFold, f
      <4> QED BY <3>2
    <3> QED BY <3>3
  <2>2. ASSUME NEW n \in Nat, n \in T PROVE n + 1 \in T
    <3>1. PICK f : IsFold(f, n)
      BY <2>2
    <3> DEFINE g == [t \in SUBSET (1..(n + 1)) |->
                       IF n + 1 \in t THEN AddStateBytes(f[t \ {n + 1}], s[n + 1])
                                      ELSE f[t]]
    <3>2. ASSUME NEW t \in SUBSET (1..(n + 1)), n + 1 \in t
          PROVE  g[t] = Step(g, t)
      <4>1. Max(t) = n + 1 /\ t # {}
        BY <3>2, MaxOfPrefix
      <4>2. t \ {n + 1} \in SUBSET (1..(n + 1)) /\ n + 1 \notin t \ {n + 1}
        OBVIOUS
      <4>3. g[t \ {n + 1}] = f[t \ {n + 1}]
        BY <4>2
      <4> QED BY <3>2, <4>1, <4>3
    <3>3. ASSUME NEW t \in SUBSET (1..(n + 1)), n + 1 \notin t
          PROVE  g[t] = Step(g, t)
      <4>1. t \in SUBSET (1..n) /\ g[t] = f[t]
        BY <3>3
      <4>2. f[t] = Step(f, t)
        BY <3>1, <4>1
      <4>3. t \ {Max(t)} \in SUBSET (1..(n + 1)) /\ n + 1 \notin t \ {Max(t)}
        BY <3>3
      <4>4. g[t \ {Max(t)}] = f[t \ {Max(t)}]
        BY <4>3
      <4> QED BY <4>1, <4>2, <4>4
    <3>4. IsFold(g, n + 1)
      <4> DEFINE h == [t \in SUBSET (1..(n + 1)) |-> Step(g, t)]
      <4>1. \A t \in SUBSET (1..(n + 1)) : g[t] = h[t]
        <5> HIDE DEF g, Step
        <5> QED BY <3>2, <3>3
      <4> QED BY <4>1
    <3>5. \E h : IsFold(h, n + 1)
      <4> HIDE DEF IsFold, g
      <4> QED BY <3>4
    <3> HIDE DEF IsFold, g
    <3> QED BY <3>5
  <2> HIDE DEF T
  <2>3. \A n \in Nat : n \in T
    BY <2>1, <2>2, NumbersByInduction
  <2> QED BY <2>3 DEF T
<1>4. IsFold(fold, Len(s))
  <2> HIDE DEF IsFold
  <2>1. \E f : IsFold(f, Len(s))
    BY <1>1, <1>3
  <2> QED BY <2>1
<1> HIDE DEF fold
<1> DEFINE Q == {n \in Nat : n <= Len(s) =>
                    /\ WellTyped(fold[1..n])
                    /\ FiledFrom(fold[1..n], s, 1..n)}
<1>5. 0 \in Q
  <2>1. 1..0 = {} /\ {} \in SUBSET (1..Len(s))
    OBVIOUS
  <2>2. fold[1..0] = NoValues
    BY <1>4, <2>1
  <2> QED BY <2>1, <2>2 DEF NoValues, WellTyped, FiledFrom
<1>6. ASSUME NEW n \in Nat, n \in Q PROVE n + 1 \in Q
  <2> SUFFICES ASSUME n + 1 <= Len(s)
               PROVE  /\ WellTyped(fold[1..(n + 1)])
                      /\ FiledFrom(fold[1..(n + 1)], s, 1..(n + 1))
    OBVIOUS
  <2>1. WellTyped(fold[1..n]) /\ FiledFrom(fold[1..n], s, 1..n)
    BY <1>1, <1>6
  <2>2. /\ n + 1 \in 1..(n + 1) /\ 1..(n + 1) \in SUBSET (1..Len(s))
        /\ (1..(n + 1)) \ {n + 1} = 1..n /\ (1..n) \cup {n + 1} = 1..(n + 1)
    BY <1>1
  <2>3. Max(1..(n + 1)) = n + 1
    BY <2>2, MaxOfPrefix
  <2>4. fold[1..(n + 1)] = AddStateBytes(fold[1..n], s[n + 1])
    BY <1>4, <2>2, <2>3
  <2>5. n + 1 \in DOMAIN s /\ 1..n \in SUBSET DOMAIN s
    BY <1>1
  <2>6. /\ WellTyped(AddStateBytes(fold[1..n], s[n + 1]))
        /\ FiledFrom(AddStateBytes(fold[1..n], s[n + 1]), s, (1..n) \cup {n + 1})
    BY <2>1, <2>5, AddFiles
  <2> QED BY <2>2, <2>4, <2>6
<1>7. Len(s) \in Q
  <2> HIDE DEF Q
  <2> QED BY <1>1, <1>5, <1>6, NumbersByInduction
<1> QED BY <1>1, <1>2, <1>7 DEF Filed

----------------------------------------------------------------------------
(* The inductive invariant.                                                *)

\* The State is in Word where TypeOK says what is kept of a word.
StateIsWords == swd \in Word /\ sw \in Word /\ aflag \in Word

\* The two pairs of maps hold what the row lists.
ListsAreFiled ==
  IF pc = "parse" THEN initial = NoValues /\ expected = NoValues
  ELSE Filed(initial, row.inputs) /\ Filed(expected, row.outputs)

\* The keys that have been taken from each of the maps.
TakenScalars ==
  IF pc = "scalars" THEN DOMAIN initial.scalars \ todo ELSE DOMAIN initial.scalars

TakenBytes ==
  CASE pc \in {"parse", "scalars"} -> {}
    [] pc = "bytes" -> DOMAIN initial.bytes \ todo
    [] OTHER -> DOMAIN initial.bytes

Taken(key) ==
  IF key \in TakenScalars THEN initial.scalars[key] ELSE {}

Applying == pc \in {"parse", "scalars", "bytes"}

\* What has been taken from the scalars is in the State, the rest of it is zero.
ScalarsAreApplied ==
  Applying =>
    /\ \A k \in TakenScalars : Known(k)
    /\ \A k \in General : gpr[k] = Taken(k)
    /\ rflag = Taken("flag") \cup {FixedFlag}
    /\ aflag = Split(Taken("flag"))
    /\ swd = Taken("x87status") \cap StatusMask
    /\ sw = Taken("x87status") \cap StatusBit

\* So is what has been taken from the bytes; of a word that belongs to several
\* of them a plain row has one value.
BytesAreApplied ==
  Applying =>
    /\ \A k \in TakenBytes : Known(k) /\ (IsByteRegister(k) => Fits(k, initial.bytes[k]))
    /\ Plain(row.inputs) =>
         \A c \in Cell, n \in 1..Longest :
           /\ \A k \in TakenBytes : Covers(k, c, n) => wide[c][n] = initial.bytes[k][n]
           /\ (\A k \in TakenBytes : ~ Covers(k, c, n)) => wide[c][n] = {}

\* A row that has come to run gives no register the State does not have.
InputsAreKnown ==
  (~ Applying /\ verdict # "skipped") /\ Plain(row.inputs) =>
    \A k \in Keys(row.inputs) : Known(k)

\* What the registers of the State hold when the lifted function has returned.
EndIsReached ==
  pc = "snapshot" /\ Plain(row.inputs) =>
    /\ \A k \in General : gpr[k] = EndOf(k)
    /\ \A b \in UserFlag : b \in GetFlags <=> b \in EndOf("flag")
    /\ GetX87Status = EndOf("x87status")
    /\ \A c \in Cell, n \in 1..Longest : wide[c][n] = EndWord(c, n)

\* What the comparison is given.
EndIsRead ==
  pc = "compare" /\ Plain(row.inputs) =>
    /\ DOMAIN final.scalars =
         DOMAIN expected.scalars \cap (General \cup {"flag", "x87status"})
    /\ \A k \in DOMAIN final.scalars :
         IF k = "flag" THEN \A b \in UserFlag : b \in final.scalars[k] <=> b \in EndOf(k)
                       ELSE final.scalars[k] = EndOf(k)
    /\ DOMAIN final.bytes = DOMAIN expected.bytes \cap DOMAIN ByteRegister
    /\ \A k \in DOMAIN final.bytes :
         final.bytes[k] =
           [n \in 1..ByteRegister[k].size |-> EndWord(ByteRegister[k].cell, n)]

\* Where the row is in its course.
CourseIsKept ==
  /\ pc = "scalars" => todo \subseteq DOMAIN initial.scalars
  /\ pc = "bytes" => todo \subseteq DOMAIN initial.bytes
  /\ verdict = "none" <=> pc # "done"

IInv ==
  /\ TypeOK /\ StateIsWords /\ ListsAreFiled /\ CourseIsKept
  /\ ScalarsAreApplied /\ BytesAreApplied /\ InputsAreKnown
  /\ InputsAreLoaded /\ EndIsReached /\ EndIsRead /\ VerdictIsRight

----------------------------------------------------------------------------
(* Types.                                                                  *)

\* The key that comes next is one of those still to come.
LEMMA FirstIsOne ==
  ASSUME NEW keys \in SUBSET Key, keys # {}
  PROVE  First(keys) \in keys
<1> DEFINE I == {i \in DOMAIN KeyOrder : KeyOrder[i] \in keys}
<1>1. I \subseteq Nat /\ I # {}
  BY NamesAssumption DEF Key
<1>2. \E m \in I : \A k \in I : m <= k
  <2> HIDE DEF I
  <2> QED BY <1>1, LeastNumber
<1>3. Min(I) \in I
  BY <1>2 DEF Min
<1> QED BY <1>3 DEF First

TypeInv == TypeOK /\ StateIsWords /\ CourseIsKept

LEMMA InitType == Init => TypeInv
<1> SUFFICES ASSUME Init PROVE TypeInv
  OBVIOUS
<1>1. {FixedFlag} \in Word /\ {} \in Word
  BY BitsAssumption DEF Word
<1>2. IsRow(row)
  BY RowsAssumption DEF Init
<1>3. WellTyped(NoValues)
  BY DEF NoValues, WellTyped
<1>4. gpr \in [General -> Word] /\ wide \in [Cell -> [1..Longest -> Word]]
  BY <1>1 DEF Init
<1> QED BY <1>1, <1>2, <1>3, <1>4
        DEF Init, TypeInv, TypeOK, StateIsWords, CourseIsKept

LEMMA ParseType ==
  ASSUME TypeInv, ParseStateRow
  PROVE  TypeInv'
<1>1. row.inputs \in Seq(Entry) /\ row.outputs \in Seq(Entry)
  BY DEF TypeInv, TypeOK, IsRow
<1>2. WellTyped(initial') /\ WellTyped(expected')
  BY <1>1, FoldFiles DEF ParseStateRow
<1>3. todo' \subseteq Key /\ todo' \subseteq DOMAIN initial'.scalars
  BY <1>2 DEF ParseStateRow, WellTyped
<1> QED BY <1>2, <1>3
        DEF ParseStateRow, state, TypeInv, TypeOK, StateIsWords, CourseIsKept

LEMMA ScalarTaken ==
  ASSUME TypeInv, pc = "scalars", todo # {}
  PROVE  /\ First(todo) \in todo /\ First(todo) \in DOMAIN initial.scalars
         /\ initial.scalars[First(todo)] \in Word
<1>1. First(todo) \in todo
  BY FirstIsOne DEF TypeInv, TypeOK
<1> QED BY <1>1 DEF TypeInv, TypeOK, CourseIsKept, WellTyped

LEMMA BytesTaken ==
  ASSUME TypeInv, pc = "bytes", todo # {}
  PROVE  /\ First(todo) \in todo /\ First(todo) \in DOMAIN initial.bytes
         /\ initial.bytes[First(todo)] \in Seq(Word)
<1>1. First(todo) \in todo
  BY FirstIsOne DEF TypeInv, TypeOK
<1> QED BY <1>1 DEF TypeInv, TypeOK, CourseIsKept, WellTyped

LEMMA ApplyScalarType ==
  ASSUME TypeInv, ApplyScalar
  PROVE  TypeInv'
<1> DEFINE key == First(todo)
           value == initial.scalars[key]
<1>1. key \in todo /\ value \in Word
  BY ScalarTaken DEF ApplyScalar
<1>2. CASE ApplyFlags
  <2>1. rflag' \in Word /\ aflag' \in Word /\ aflag' \subseteq ArithmeticFlag
    BY <1>1, <1>2, BitsAssumption DEF ApplyFlags, SetFlags, Split, Word
  <2> QED BY <2>1, <1>2 DEF ApplyScalar, ApplyFlags, Advance, TypeInv, TypeOK,
                            StateIsWords, CourseIsKept
<1>3. CASE ApplyX87Status
  <2>1. /\ swd' \in Word /\ swd' \subseteq StatusMask
        /\ sw' \in Word /\ sw' \subseteq StatusBit
    BY <1>1, <1>3 DEF ApplyX87Status, SetX87Status, Word
  <2> QED BY <2>1, <1>3 DEF ApplyScalar, ApplyX87Status, Advance, TypeInv, TypeOK,
                            StateIsWords, CourseIsKept
<1>4. CASE SetScalarRegister
  <2>1. gpr' \in [General -> Word]
    BY <1>1, <1>4 DEF SetScalarRegister, TypeInv, TypeOK
  <2> QED BY <2>1, <1>4 DEF ApplyScalar, SetScalarRegister, Advance, TypeInv, TypeOK,
                            StateIsWords, CourseIsKept
<1>5. CASE PassOver
  BY <1>5 DEF ApplyScalar, PassOver, Advance, state, TypeInv, TypeOK,
              StateIsWords, CourseIsKept
<1>6. CASE UnsupportedScalar
  BY <1>6 DEF ApplyScalar, UnsupportedScalar, Reject, state, TypeInv, TypeOK,
              StateIsWords, CourseIsKept
<1> QED BY <1>2, <1>3, <1>4, <1>5, <1>6 DEF ApplyScalar

\* Where a value is laid over a storage of words, there are words.
LEMMA OverlayType ==
  ASSUME NEW storage \in [1..Longest -> Word], NEW value \in Seq(Word)
  PROVE  Overlay(storage, value) \in [1..Longest -> Word]
<1>1. \A i \in DOMAIN value : value[i] \in Word
  OBVIOUS
<1> QED BY <1>1 DEF Overlay

LEMMA ApplyBytesType ==
  ASSUME TypeInv, ApplyBytes
  PROVE  TypeInv'
<1> DEFINE key == First(todo)
<1>1. key \in todo /\ initial.bytes[key] \in Seq(Word)
  BY BytesTaken DEF ApplyBytes
<1>2. CASE SetByteRegister
  <2>1. ByteRegister[key].cell \in Cell
    BY <1>2 DEF SetByteRegister, IsByteRegister, Cell
  <2>2. wide \in [Cell -> [1..Longest -> Word]]
    BY DEF TypeInv, TypeOK
  <2>3. Overlay(wide[ByteRegister[key].cell], initial.bytes[key])
          \in [1..Longest -> Word]
    BY <1>1, <2>1, <2>2, OverlayType
  <2>4. wide' \in [Cell -> [1..Longest -> Word]]
    BY <1>2, <2>2, <2>3 DEF SetByteRegister
  <2> QED BY <2>4, <1>2 DEF ApplyBytes, SetByteRegister, Advance, TypeInv, TypeOK,
                            StateIsWords, CourseIsKept
<1>3. CASE PassOverScalar
  BY <1>3 DEF ApplyBytes, PassOverScalar, Advance, state, TypeInv, TypeOK,
              StateIsWords, CourseIsKept
<1>4. CASE UnsupportedBytes
  BY <1>4 DEF ApplyBytes, UnsupportedBytes, Reject, state, TypeInv, TypeOK,
              StateIsWords, CourseIsKept
<1> QED BY <1>2, <1>3, <1>4 DEF ApplyBytes

LEMMA TurnType ==
  ASSUME TypeInv, ScalarsApplied \/ BytesApplied
  PROVE  TypeInv'
<1>1. CASE ScalarsApplied
  BY <1>1 DEF ScalarsApplied, state, TypeInv, TypeOK, StateIsWords, CourseIsKept,
              WellTyped
<1>2. CASE BytesApplied
  <2>1. row.address \in Word
    BY DEF TypeInv, TypeOK, IsRow
  <2>2. gpr' \in [General -> Word]
    BY <1>2, <2>1 DEF BytesApplied, TypeInv, TypeOK
  <2> QED BY <2>2, <1>2 DEF BytesApplied, TypeInv, TypeOK, StateIsWords, CourseIsKept
<1> QED BY <1>1, <1>2

\* What an instruction writes is as long as what it writes to.
LEMMA EffectType ==
  ASSUME IsRow(row)
  PROVE  /\ row.effect.value \in Seq(Word)
         /\ row.effect.key \in DOMAIN ByteRegister =>
              Len(row.effect.value) = ByteRegister[row.effect.key].size
         /\ row.effect.key \notin DOMAIN ByteRegister => Len(row.effect.value) = 1
         /\ row.effect.value[1] \in Word
<1>1. /\ row.effect.value \in Seq(Word)
      /\ Len(row.effect.value) = IF row.effect.key \in DOMAIN ByteRegister
                                   THEN ByteRegister[row.effect.key].size ELSE 1
  BY DEF IsRow
<1>2. Len(row.effect.value) \in Nat \ {0}
  BY <1>1, NamesAssumption
<1>3. row.effect.value[1] \in Word
  BY <1>1, <1>2
<1> QED BY <1>1, <1>3

LEMMA RunType ==
  ASSUME TypeInv, LiftedFunction \/ SyncHyperCall
  PROVE  TypeInv'
<1> DEFINE key == row.effect.key
           value == row.effect.value
<1>1. IsRow(row)
  BY DEF TypeInv, TypeOK
<1>2. value \in Seq(Word) /\ value[1] \in Word
  BY <1>1, EffectType
<1>3. CASE LiftedFunction
  <2>1. gpr' \in [General -> Word]
    BY <1>2, <1>3 DEF LiftedFunction, TypeInv, TypeOK
  <2>2. rflag' \in Word /\ aflag' \in Word /\ aflag' \subseteq ArithmeticFlag
    BY <1>2, <1>3 DEF LiftedFunction, TypeInv, TypeOK, StateIsWords, Word
  <2>3. /\ swd' \in Word /\ swd' \subseteq StatusMask
        /\ sw' \in Word /\ sw' \subseteq StatusBit
    <3>1. StatusTop \subseteq StatusMask
      BY DEF StatusTop, StatusMask
    <3>2. /\ swd \in Word /\ swd \subseteq StatusMask
          /\ sw \in Word /\ sw \subseteq StatusBit
      BY DEF TypeInv, TypeOK, StateIsWords
    <3>3. /\ swd' \in {swd, (swd \ StatusTop) \cup (value[1] \cap StatusTop)}
          /\ sw' \in {sw, value[1] \cap StatusBit}
      BY <1>3 DEF LiftedFunction
    <3> QED BY <1>2, <3>1, <3>2, <3>3 DEF Word
  <2>4. wide' \in [Cell -> [1..Longest -> Word]]
    <3>1. wide \in [Cell -> [1..Longest -> Word]]
      BY DEF TypeInv, TypeOK
    <3>2. CASE IsByteRegister(key)
      <4>1. ByteRegister[key].cell \in Cell
        BY <3>2 DEF IsByteRegister, Cell
      <4>2. Overlay(wide[ByteRegister[key].cell], value) \in [1..Longest -> Word]
        BY <1>2, <3>1, <4>1, OverlayType
      <4> QED BY <1>3, <3>1, <3>2, <4>2 DEF LiftedFunction
    <3>3. CASE ~ IsByteRegister(key)
      BY <1>3, <3>1, <3>3 DEF LiftedFunction
    <3> QED BY <3>2, <3>3
  <2> QED BY <2>1, <2>2, <2>3, <2>4, <1>3
          DEF LiftedFunction, TypeInv, TypeOK, StateIsWords, CourseIsKept
<1>4. CASE SyncHyperCall
  <2>1. rflag' \in Word /\ aflag' \in Word /\ aflag' \subseteq ArithmeticFlag
    BY <1>4, BitsAssumption DEF SyncHyperCall, WithZF, TypeInv, TypeOK,
                                StateIsWords, Word, ZF, ArithmeticFlag
  <2> QED BY <2>1, <1>4 DEF SyncHyperCall, TypeInv, TypeOK, StateIsWords, CourseIsKept
<1> QED BY <1>3, <1>4

\* The low end of a storage.
LEMMA GetByteRegisterIs ==
  ASSUME wide \in [Cell -> [1..Longest -> Word]], NEW k \in DOMAIN ByteRegister
  PROVE  /\ GetByteRegister(k) = [n \in 1..ByteRegister[k].size |->
                                    wide[ByteRegister[k].cell][n]]
         /\ GetByteRegister(k) \in Seq(Word)
<1>1. ByteRegister[k].cell \in Cell /\ ByteRegister[k].size \in 1..Longest
  BY NamesAssumption DEF Cell
<1>2. wide[ByteRegister[k].cell] \in [1..Longest -> Word]
  BY <1>1
<1> DEFINE s == wide[ByteRegister[k].cell]
           m == ByteRegister[k].size
<1> HIDE DEF s, m
<1>3. ASSUME s \in [1..Longest -> Word], m \in 1..Longest
      PROVE  SubSeq(s, 1, m) = [n \in 1..m |-> s[n]] /\ SubSeq(s, 1, m) \in Seq(Word)
  <2>1. s \in Seq(Word) /\ Len(s) = Longest
    BY <1>3, NamesAssumption
  <2> QED BY <1>3, <2>1
<1> QED BY <1>1, <1>2, <1>3 DEF GetByteRegister, s, m

LEMMA SnapshotType ==
  ASSUME TypeInv, Snapshot
  PROVE  TypeInv'
<1>1. DOMAIN expected.scalars \subseteq Key /\ DOMAIN expected.bytes \subseteq Key
  BY DEF TypeInv, TypeOK, WellTyped
<1>2. GetFlags \in Word /\ GetX87Status \in Word
  BY BitsAssumption DEF GetFlags, GetX87Status, TypeInv, TypeOK, StateIsWords, Word
<1>3. \A k \in General : GetScalarRegister(k) \in Word
  BY DEF GetScalarRegister, TypeInv, TypeOK
<1>4. \A k \in DOMAIN ByteRegister : GetByteRegister(k) \in Seq(Word)
  BY GetByteRegisterIs DEF TypeInv, TypeOK
<1>5. final'.scalars = SnapshotState /\ final'.bytes = SnapshotBytes
  BY DEF Snapshot
<1>6. /\ DOMAIN SnapshotState \subseteq Key
      /\ \A k \in DOMAIN SnapshotState : SnapshotState[k] \in Word
  BY <1>1, <1>2, <1>3 DEF SnapshotState
<1>7. /\ DOMAIN SnapshotBytes \subseteq Key
      /\ \A k \in DOMAIN SnapshotBytes : SnapshotBytes[k] \in Seq(Word)
  BY <1>1, <1>4 DEF SnapshotBytes
<1>8. WellTyped(final')
  BY <1>5, <1>6, <1>7 DEF WellTyped
<1> QED BY <1>8 DEF Snapshot, state, TypeInv, TypeOK, StateIsWords, CourseIsKept

LEMMA CompareType ==
  ASSUME TypeInv, Compare
  PROVE  TypeInv'
BY DEF Compare, state, TypeInv, TypeOK, StateIsWords, CourseIsKept

LEMMA NextType ==
  ASSUME TypeInv, [Next]_vars
  PROVE  TypeInv'
<1>1. CASE Next
  BY <1>1, ParseType, ApplyScalarType, ApplyBytesType, TurnType, RunType,
     SnapshotType, CompareType DEF Next
<1>2. CASE UNCHANGED vars
  BY <1>2 DEF vars, state, TypeInv, TypeOK, StateIsWords, CourseIsKept
<1> QED BY <1>1, <1>2

----------------------------------------------------------------------------
(* The lists of a row and their maps.                                      *)

\* After the parser nothing changes the row or its maps.
LEMMA MapsStay ==
  ASSUME Next
  PROVE  /\ row' = row
         /\ pc' # "parse"
         /\ pc # "parse" => initial' = initial /\ expected' = expected
BY DEF Next, ParseStateRow, ApplyScalar, ApplyFlags, ApplyX87Status,
       SetScalarRegister, PassOver, UnsupportedScalar, ScalarsApplied, ApplyBytes,
       SetByteRegister, PassOverScalar, UnsupportedBytes, BytesApplied,
       LiftedFunction, SyncHyperCall, Snapshot, Compare, Advance, Reject

LEMMA ListsStep ==
  ASSUME TypeInv, ListsAreFiled, [Next]_vars
  PROVE  ListsAreFiled'
<1>1. row.inputs \in Seq(Entry) /\ row.outputs \in Seq(Entry)
  BY DEF TypeInv, TypeOK, IsRow
<1>2. CASE ParseStateRow
  <2>1. Filed(initial', row.inputs) /\ Filed(expected', row.outputs)
    BY <1>1, <1>2, FoldFiles DEF ParseStateRow
  <2>2. row' = row /\ pc' # "parse"
    BY <1>2 DEF ParseStateRow
  <2> QED BY <2>1, <2>2 DEF ListsAreFiled, Filed, FiledFrom
<1>3. CASE Next /\ ~ ParseStateRow
  <2>1. pc # "parse"
    BY <1>3 DEF Next, ApplyScalar, ScalarsApplied, ApplyBytes, BytesApplied,
                LiftedFunction, SyncHyperCall, Snapshot, Compare
  <2> QED BY <1>3, <2>1, MapsStay DEF ListsAreFiled, Filed, FiledFrom
<1>4. CASE UNCHANGED vars
  BY <1>4 DEF vars, ListsAreFiled, Filed, FiledFrom
<1> QED BY <1>2, <1>3, <1>4

\* Where a list is plain, its maps say of every key what the list says.
LEMMA FiledPlain ==
  ASSUME NEW entries \in Seq(Entry), NEW values, Filed(values, entries),
         Plain(entries), NEW i \in DOMAIN entries
  PROVE  LET key == Canonical[entries[i].name]
             value == entries[i].value
         IN  /\ key \in DOMAIN values.scalars \cup DOMAIN values.bytes
             /\ key \in DOMAIN values.scalars =>
                  Len(value) = 1 /\ values.scalars[key] = value[1]
             /\ key \in DOMAIN values.bytes => values.bytes[key] = value
             /\ IsScalarKey(key) => key \in DOMAIN values.scalars
             /\ IsByteRegister(key) =>
                  /\ key \in DOMAIN values.bytes
                  /\ Len(value) = ByteRegister[key].size
<1> DEFINE key == Canonical[entries[i].name]
           value == entries[i].value
<1>1. value \in Seq(Word)
  <2>1. entries[i] \in Entry
    BY ElementOfSeq
  <2> QED BY <2>1 DEF Entry
<1>2. value # <<>>
  BY DEF Plain
<1>3. Len(value) \in Nat \ {0}
  <2> HIDE DEF value
  <2> QED BY <1>1, <1>2, EmptySeq
<1>4. Len(value) = 1 \/ Len(value) > 1
  <2> DEFINE n == Len(value)
  <2>1. n \in Nat \ {0}
    BY <1>3
  <2> HIDE DEF n
  <2>2. n = 1 \/ n > 1
    BY <2>1
  <2> QED BY <2>2 DEF n
<1>5. key \in DOMAIN values.scalars \cup DOMAIN values.bytes
  BY <1>4 DEF Filed, FiledFrom, KeptAsBytes
<1>6. \A j \in DOMAIN entries : Lists(entries[j], key) => entries[j].value = value
  BY DEF Plain, Lists
<1>7. key \in DOMAIN values.scalars => Len(value) = 1 /\ values.scalars[key] = value[1]
  BY <1>6 DEF Filed, FiledFrom
<1>8. key \in DOMAIN values.bytes => values.bytes[key] = value
  BY <1>6 DEF Filed, FiledFrom
<1>9. ASSUME IsScalarKey(key) PROVE key \in DOMAIN values.scalars
  <2>1. ~ IsByteRegister(key)
    BY <1>9, NamesAssumption DEF IsScalarKey, IsByteRegister
  <2>2. Len(value) = 1
    BY <1>9, <2>1 DEF Plain, Known
  <2> QED BY <2>2 DEF Filed, FiledFrom
<1>10. ASSUME IsByteRegister(key)
      PROVE  key \in DOMAIN values.bytes /\ Len(value) = ByteRegister[key].size
  <2>1. KeptAsBytes(key, value)
    BY <1>10, NamesAssumption DEF IsByteRegister, KeptAsBytes
  <2>2. Len(value) = ByteRegister[key].size
    BY <1>10 DEF Plain, Known
  <2> QED BY <2>1, <2>2 DEF Filed, FiledFrom
<1> QED BY <1>5, <1>7, <1>8, <1>9, <1>10

\* The maps have no key that the list has not.
LEMMA FiledKeys ==
  ASSUME NEW entries, NEW values, Filed(values, entries)
  PROVE  DOMAIN values.scalars \cup DOMAIN values.bytes \subseteq Keys(entries)
BY DEF Filed, FiledFrom, Keys, Lists

----------------------------------------------------------------------------
(* The State is applied.                                                   *)

LEMMA InitApplied == Init => ScalarsAreApplied /\ BytesAreApplied
<1> SUFFICES ASSUME Init PROVE ScalarsAreApplied /\ BytesAreApplied
  OBVIOUS
<1>1. TakenScalars = {} /\ TakenBytes = {} /\ \A k : Taken(k) = {}
  BY DEF Init, NoValues, TakenScalars, TakenBytes, Taken
<1> QED BY <1>1 DEF Init, ScalarsAreApplied, BytesAreApplied, Split

LEMMA ParseApplied ==
  ASSUME TypeInv, ListsAreFiled, ScalarsAreApplied, BytesAreApplied, ParseStateRow
  PROVE  ScalarsAreApplied' /\ BytesAreApplied'
<1>1. TakenScalars = {} /\ TakenBytes = {} /\ \A k \in Key : Taken(k) = {}
  BY DEF ParseStateRow, ListsAreFiled, NoValues, TakenScalars, TakenBytes, Taken
<1>2. TakenScalars' = {} /\ TakenBytes' = {} /\ \A k \in Key : Taken(k)' = {}
  BY DEF ParseStateRow, TakenScalars, TakenBytes, Taken
<1>3. UNCHANGED <<row, state>> /\ pc = "parse"
  BY DEF ParseStateRow
<1>4. General \cup {"flag", "x87status"} \subseteq Key
  BY NamesAssumption DEF Status
<1>5. ScalarsAreApplied'
  BY <1>1, <1>2, <1>3, <1>4 DEF ScalarsAreApplied, Applying, state
<1>6. BytesAreApplied'
  BY <1>1, <1>2, <1>3 DEF BytesAreApplied, Applying, state
<1> QED BY <1>5, <1>6

\* The next scalar is one of those taken, and the others are what they were.
LEMMA ScalarAdvances ==
  ASSUME TypeInv, pc = "scalars", todo # {}, Advance
  PROVE  /\ First(todo) \notin TakenScalars
         /\ TakenScalars' = TakenScalars \cup {First(todo)}
         /\ \A k : Taken(k)' = IF k = First(todo) THEN initial.scalars[k] ELSE Taken(k)
<1>1. First(todo) \in todo /\ todo \subseteq DOMAIN initial.scalars
  BY ScalarTaken DEF TypeInv, CourseIsKept
<1>2. /\ TakenScalars = DOMAIN initial.scalars \ todo
      /\ TakenScalars' = DOMAIN initial.scalars \ (todo \ {First(todo)})
  BY DEF Advance, TakenScalars
<1>3. TakenScalars' = TakenScalars \cup {First(todo)} /\ First(todo) \notin TakenScalars
  BY <1>1, <1>2
<1>4. initial' = initial
  BY DEF Advance
<1> QED BY <1>3, <1>4 DEF Taken

LEMMA ApplyScalarApplied ==
  ASSUME TypeInv, ScalarsAreApplied, BytesAreApplied, ApplyScalar
  PROVE  ScalarsAreApplied' /\ BytesAreApplied'
<1> DEFINE key == First(todo)
           value == initial.scalars[key]
<1>1. pc = "scalars" /\ todo # {} /\ Applying
  BY DEF ApplyScalar, Applying
<1>2. CASE UnsupportedScalar
  BY <1>2 DEF UnsupportedScalar, Reject, Applying, ScalarsAreApplied, BytesAreApplied
<1>3. CASE Advance
  <2>1. /\ TakenScalars' = TakenScalars \cup {key}
        /\ \A k : Taken(k)' = IF k = key THEN value ELSE Taken(k)
    BY <1>1, <1>3, ScalarAdvances
  <2>2. UNCHANGED <<row, pc, initial>>
    BY <1>3 DEF Advance
  <2>3. Status \cap General = {} /\ Status \cap DOMAIN ByteRegister = {}
        /\ General \cap DOMAIN ByteRegister = {}
    BY NamesAssumption
  <2>4. wide' = wide
    BY <1>3 DEF ApplyScalar, ApplyFlags, ApplyX87Status, SetScalarRegister,
                PassOver, UnsupportedScalar, Reject, state
  <2>5. BytesAreApplied'
    BY <1>1, <2>2, <2>4 DEF BytesAreApplied, TakenBytes, Applying
  <2>6. ASSUME Known(key)
        PROVE  \A k \in TakenScalars' : Known(k)
    BY <1>1, <2>1, <2>6 DEF ScalarsAreApplied
  <2>7. /\ \A k \in General : gpr[k] = Taken(k)
        /\ rflag = Taken("flag") \cup {FixedFlag}
        /\ aflag = Split(Taken("flag"))
        /\ swd = Taken("x87status") \cap StatusMask
        /\ sw = Taken("x87status") \cap StatusBit
    BY <1>1 DEF ScalarsAreApplied
  <2>8. CASE ApplyFlags
    <3>1. key = "flag" /\ Known(key) /\ key \notin General /\ key # "x87status"
      BY <2>3, <2>8 DEF ApplyFlags, Known, IsScalarKey, Status
    <3>2. /\ rflag' = value \cup {FixedFlag} /\ aflag' = Split(value)
          /\ UNCHANGED <<gpr, swd, sw>>
      BY <2>8 DEF ApplyFlags, SetFlags
    <3> QED BY <2>1, <2>5, <2>6, <2>7, <3>1, <3>2 DEF ScalarsAreApplied
  <2>9. CASE ApplyX87Status
    <3>1. key = "x87status" /\ Known(key) /\ key \notin General /\ key # "flag"
      BY <2>3, <2>9 DEF ApplyX87Status, Known, IsScalarKey, Status
    <3>2. /\ swd' = value \cap StatusMask /\ sw' = value \cap StatusBit
          /\ UNCHANGED <<gpr, rflag, aflag>>
      BY <2>9 DEF ApplyX87Status, SetX87Status
    <3> QED BY <2>1, <2>5, <2>6, <2>7, <3>1, <3>2 DEF ScalarsAreApplied
  <2>10. CASE SetScalarRegister
    <3>1. key \in General /\ Known(key) /\ key # "flag" /\ key # "x87status"
      BY <2>3, <2>10 DEF SetScalarRegister, Known, IsScalarKey, Status
    <3>2. /\ gpr' = [gpr EXCEPT ![key] = value]
          /\ UNCHANGED <<rflag, aflag, swd, sw>>
      BY <2>10 DEF SetScalarRegister
    <3>3. \A k \in General : gpr'[k] = Taken(k)'
      BY <2>1, <2>7, <3>1, <3>2 DEF TypeInv, TypeOK
    <3> QED BY <2>1, <2>5, <2>6, <2>7, <3>1, <3>2, <3>3 DEF ScalarsAreApplied
  <2>11. CASE PassOver
    <3>1. Known(key) /\ key # "flag" /\ key # "x87status" /\ key \notin General
      BY <2>3, <2>11 DEF PassOver, Known, IsScalarKey, IsByteRegister, Status
    <3>2. UNCHANGED <<gpr, rflag, aflag, swd, sw>>
      BY <2>11 DEF PassOver, state
    <3> QED BY <2>1, <2>5, <2>6, <2>7, <3>1, <3>2 DEF ScalarsAreApplied
  <2>12. CASE UnsupportedScalar
    BY <1>2, <2>12
  <2> QED BY <2>8, <2>9, <2>10, <2>11, <2>12 DEF ApplyScalar
<1> QED BY <1>2, <1>3 DEF ApplyScalar, ApplyFlags, ApplyX87Status, SetScalarRegister,
                          PassOver

LEMMA ScalarsAppliedApplied ==
  ASSUME TypeInv, ScalarsAreApplied, BytesAreApplied, ScalarsApplied
  PROVE  ScalarsAreApplied' /\ BytesAreApplied'
<1>1. /\ pc = "scalars" /\ pc' = "bytes" /\ todo = {} /\ todo' = DOMAIN initial.bytes
      /\ UNCHANGED <<row, initial, state>>
  BY DEF ScalarsApplied
<1>2. TakenScalars' = TakenScalars /\ TakenBytes = {} /\ TakenBytes' = {}
  BY <1>1 DEF TakenScalars, TakenBytes
<1>3. \A k : Taken(k)' = Taken(k)
  BY <1>1, <1>2 DEF Taken
<1>4. ScalarsAreApplied'
  BY <1>1, <1>2, <1>3 DEF ScalarsAreApplied, Applying, state
<1>5. BytesAreApplied'
  BY <1>1, <1>2 DEF BytesAreApplied, Applying, state
<1> QED BY <1>4, <1>5

\* What a register gets lies over its words alone.
LEMMA OverlayIs ==
  ASSUME NEW storage, NEW value \in Seq(Word), NEW n \in 1..Longest
  PROVE  Overlay(storage, value)[n] = IF n <= Len(value) THEN value[n] ELSE storage[n]
<1>1. n \in DOMAIN value <=> n <= Len(value)
  OBVIOUS
<1> QED BY <1>1 DEF Overlay

LEMMA SetByteRegisterApplied ==
  ASSUME TypeInv, ListsAreFiled, BytesAreApplied, pc = "bytes", todo # {},
         SetByteRegister, Plain(row.inputs),
         NEW c \in Cell, NEW n \in 1..Longest
  PROVE  /\ \A k \in TakenBytes \cup {First(todo)} :
              Covers(k, c, n) => wide'[c][n] = initial.bytes[k][n]
         /\ (\A k \in TakenBytes \cup {First(todo)} : ~ Covers(k, c, n)) =>
              wide'[c][n] = {}
<1> DEFINE key == First(todo)
           value == initial.bytes[key]
<1>1. key \in DOMAIN initial.bytes /\ value \in Seq(Word)
  BY BytesTaken
<1>2. IsByteRegister(key) /\ Len(value) = ByteRegister[key].size
  BY DEF SetByteRegister, Fits
<1>3. wide \in [Cell -> [1..Longest -> Word]]
  BY DEF TypeInv, TypeOK
<1>4. wide' = [wide EXCEPT ![ByteRegister[key].cell] =
                 Overlay(wide[ByteRegister[key].cell], value)]
  BY DEF SetByteRegister
<1>5. /\ \A k \in TakenBytes : Covers(k, c, n) => wide[c][n] = initial.bytes[k][n]
      /\ (\A k \in TakenBytes : ~ Covers(k, c, n)) => wide[c][n] = {}
  BY DEF BytesAreApplied, Applying
<1>6. TakenBytes \subseteq DOMAIN initial.bytes
  BY DEF TakenBytes
<1> HIDE DEF key, value
<1>7. CASE Covers(key, c, n)
  <2>1. c = ByteRegister[key].cell /\ n <= Len(value)
    BY <1>2, <1>7 DEF Covers
  <2>2. wide'[c] = Overlay(wide[c], value)
    BY <1>3, <1>4, <2>1
  <2>3. wide'[c][n] = value[n]
    BY <1>1, <2>1, <2>2, OverlayIs
  <2>4. ASSUME NEW k \in DOMAIN initial.bytes, Covers(k, c, n)
        PROVE  initial.bytes[k][n] = value[n]
    <3>1. Filed(initial, row.inputs)
      BY DEF ListsAreFiled
    <3>2. PICK i \in DOMAIN row.inputs :
            Lists(row.inputs[i], k) /\ initial.bytes[k] = row.inputs[i].value
      BY <3>1 DEF Filed, FiledFrom
    <3>3. PICK j \in DOMAIN row.inputs :
            Lists(row.inputs[j], key) /\ value = row.inputs[j].value
      BY <1>1, <3>1 DEF Filed, FiledFrom, value
    <3> QED BY <1>7, <2>4, <3>2, <3>3 DEF Plain, Lists
  <2> QED BY <1>6, <1>7, <2>3, <2>4 DEF key, value
<1>8. CASE ~ Covers(key, c, n)
  <2>1. wide'[c][n] = wide[c][n]
    <3>1. CASE c = ByteRegister[key].cell
      <4>1. wide'[c] = Overlay(wide[c], value)
        BY <1>3, <1>4, <3>1
      <4>2. ~ (n <= Len(value))
        BY <1>2, <1>8, <3>1 DEF Covers
      <4> QED BY <1>1, <4>1, <4>2, OverlayIs
    <3>2. CASE c # ByteRegister[key].cell
      BY <1>3, <1>4, <3>2
    <3> QED BY <3>1, <3>2
  <2> QED BY <1>5, <1>8, <2>1 DEF key
<1> QED BY <1>7, <1>8

\* The next bytes are among those taken.
LEMMA BytesAdvance ==
  ASSUME TypeInv, pc = "bytes", todo # {}, Advance
  PROVE  TakenBytes' = TakenBytes \cup {First(todo)}
<1>1. First(todo) \in todo /\ todo \subseteq DOMAIN initial.bytes
  BY BytesTaken DEF TypeInv, CourseIsKept
<1>2. /\ TakenBytes = DOMAIN initial.bytes \ todo
      /\ TakenBytes' = DOMAIN initial.bytes \ (todo \ {First(todo)})
  BY DEF Advance, TakenBytes
<1> QED BY <1>1, <1>2

LEMMA ApplyBytesApplied ==
  ASSUME TypeInv, ListsAreFiled, ScalarsAreApplied, BytesAreApplied, ApplyBytes
  PROVE  ScalarsAreApplied' /\ BytesAreApplied'
<1> DEFINE key == First(todo)
<1>1. pc = "bytes" /\ todo # {} /\ Applying
  BY DEF ApplyBytes, Applying
<1>2. CASE UnsupportedBytes
  BY <1>2 DEF UnsupportedBytes, Reject, Applying, ScalarsAreApplied, BytesAreApplied
<1>3. CASE Advance /\ ~ UnsupportedBytes
  <2>1. TakenBytes' = TakenBytes \cup {key}
    BY <1>1, <1>3, BytesAdvance
  <2>2. UNCHANGED <<row, pc, initial>>
    BY <1>3 DEF Advance
  <2>3. UNCHANGED <<gpr, rflag, aflag, swd, sw>>
    BY <1>3 DEF ApplyBytes, SetByteRegister, PassOverScalar, state
  <2>4. TakenScalars' = TakenScalars /\ \A k : Taken(k)' = Taken(k)
    BY <1>1, <2>2 DEF TakenScalars, Taken
  <2>5. ScalarsAreApplied'
    BY <1>1, <2>2, <2>3, <2>4 DEF ScalarsAreApplied, Applying
  <2>6. \A k \in TakenBytes : Known(k) /\ (IsByteRegister(k) => Fits(k, initial.bytes[k]))
    BY <1>1 DEF BytesAreApplied
  <2>7. CASE SetByteRegister
    <3>1. IsByteRegister(key) /\ Fits(key, initial.bytes[key])
      BY <2>7 DEF SetByteRegister
    <3>2. ASSUME NEW k \in TakenBytes'
          PROVE  Known(k) /\ (IsByteRegister(k) => Fits(k, initial'.bytes[k]))
      BY <2>1, <2>2, <2>6, <3>1 DEF Known
    <3>3. ASSUME Plain(row.inputs), NEW c \in Cell, NEW n \in 1..Longest
          PROVE  /\ \A k \in TakenBytes' :
                      Covers(k, c, n) => wide'[c][n] = initial'.bytes[k][n]
                 /\ (\A k \in TakenBytes' : ~ Covers(k, c, n)) => wide'[c][n] = {}
      BY <1>1, <2>1, <2>2, <2>7, <3>3, SetByteRegisterApplied
    <3> QED BY <2>2, <2>5, <3>2, <3>3 DEF BytesAreApplied
  <2>8. CASE PassOverScalar
    <3>1. Known(key) /\ ~ IsByteRegister(key) /\ wide' = wide
      BY <2>8, NamesAssumption DEF PassOverScalar, Known, IsScalarKey, IsByteRegister,
                                   state
    <3>2. ASSUME NEW k \in TakenBytes'
          PROVE  Known(k) /\ (IsByteRegister(k) => Fits(k, initial'.bytes[k]))
      BY <2>1, <2>2, <2>6, <3>1
    <3>3. ASSUME Plain(row.inputs), NEW c \in Cell, NEW n \in 1..Longest
          PROVE  /\ \A k \in TakenBytes' :
                      Covers(k, c, n) => wide'[c][n] = initial'.bytes[k][n]
                 /\ (\A k \in TakenBytes' : ~ Covers(k, c, n)) => wide'[c][n] = {}
      <4>1. /\ \A k \in TakenBytes : Covers(k, c, n) => wide[c][n] = initial.bytes[k][n]
            /\ (\A k \in TakenBytes : ~ Covers(k, c, n)) => wide[c][n] = {}
        BY <1>1, <3>3 DEF BytesAreApplied
      <4>2. ~ Covers(key, c, n)
        BY <3>1 DEF Covers
      <4> QED BY <2>1, <2>2, <3>1, <4>1, <4>2
    <3> QED BY <2>2, <2>5, <3>2, <3>3 DEF BytesAreApplied
  <2> QED BY <1>3, <2>7, <2>8 DEF ApplyBytes
<1> QED BY <1>2, <1>3 DEF ApplyBytes, SetByteRegister, PassOverScalar

LEMMA AppliedStep ==
  ASSUME TypeInv, ListsAreFiled, ScalarsAreApplied, BytesAreApplied, [Next]_vars
  PROVE  ScalarsAreApplied' /\ BytesAreApplied'
<1>1. CASE BytesApplied \/ LiftedFunction \/ SyncHyperCall \/ Snapshot \/ Compare
  <2>1. ~ Applying'
    BY <1>1 DEF Applying, BytesApplied, LiftedFunction, SyncHyperCall, Snapshot, Compare
  <2> QED BY <2>1 DEF ScalarsAreApplied, BytesAreApplied
<1>2. CASE UNCHANGED vars
  <2>1. /\ TakenScalars' = TakenScalars /\ TakenBytes' = TakenBytes
        /\ \A k : Taken(k)' = Taken(k)
    BY <1>2 DEF vars, TakenScalars, TakenBytes, Taken
  <2> QED BY <1>2, <2>1 DEF vars, state, ScalarsAreApplied, BytesAreApplied, Applying
<1> QED BY <1>1, <1>2, ParseApplied, ApplyScalarApplied, ScalarsAppliedApplied,
           ApplyBytesApplied DEF Next

----------------------------------------------------------------------------
(* The inputs are loaded.                                                  *)

\* A plain row whose maps have been gone through has no key but known ones.
LEMMA AllKnown ==
  ASSUME TypeInv, ListsAreFiled, ScalarsAreApplied, BytesAreApplied,
         pc = "bytes", todo = {}, Plain(row.inputs)
  PROVE  \A k \in Keys(row.inputs) : Known(k)
<1>1. row.inputs \in Seq(Entry) /\ Filed(initial, row.inputs)
  BY DEF TypeInv, TypeOK, IsRow, ListsAreFiled
<1>2. TakenScalars = DOMAIN initial.scalars /\ TakenBytes = DOMAIN initial.bytes
  BY DEF TakenScalars, TakenBytes
<1>3. \A k \in DOMAIN initial.scalars \cup DOMAIN initial.bytes : Known(k)
  BY <1>2 DEF ScalarsAreApplied, BytesAreApplied, Applying
<1>4. \A i \in DOMAIN row.inputs :
        Canonical[row.inputs[i].name] \in DOMAIN initial.scalars \cup DOMAIN initial.bytes
  BY <1>1, FiledPlain
<1> QED BY <1>3, <1>4 DEF Keys

\* What a plain row lists of a scalar is what its map has, and zero for nothing.
LEMMA ListedIsTaken ==
  ASSUME TypeInv, Filed(initial, row.inputs), Plain(row.inputs), NEW k, IsScalarKey(k)
  PROVE  Listed(k) = IF k \in DOMAIN initial.scalars THEN initial.scalars[k] ELSE {}
<1>1. row.inputs \in Seq(Entry)
  BY DEF TypeInv, TypeOK, IsRow
<1>2. CASE k \in Keys(row.inputs)
  <2> DEFINE i == CHOOSE i \in DOMAIN row.inputs : Lists(row.inputs[i], k)
  <2>1. i \in DOMAIN row.inputs /\ Lists(row.inputs[i], k)
    BY <1>2 DEF Keys, Lists
  <2>2. Listed(k) = row.inputs[i].value[1]
    BY <1>2 DEF Listed
  <2> HIDE DEF i
  <2>3. Canonical[row.inputs[i].name] = k
    BY <2>1 DEF Lists
  <2>4. k \in DOMAIN initial.scalars /\ initial.scalars[k] = row.inputs[i].value[1]
    BY <1>1, <2>1, <2>3, FiledPlain
  <2> QED BY <2>2, <2>4
<1>3. CASE k \notin Keys(row.inputs)
  BY <1>3, FiledKeys DEF Listed
<1> QED BY <1>2, <1>3

\* And of a word of a vector register.
LEMMA ListedWordIsTaken ==
  ASSUME TypeInv, Filed(initial, row.inputs), Plain(row.inputs),
         NEW c \in Cell, NEW n \in 1..Longest, NEW w,
         \A k \in DOMAIN initial.bytes : Covers(k, c, n) => w = initial.bytes[k][n],
         (\A k \in DOMAIN initial.bytes : ~ Covers(k, c, n)) => w = {}
  PROVE  w = ListedWord(c, n)
<1> DEFINE at == {i \in DOMAIN row.inputs : Covers(Canonical[row.inputs[i].name], c, n)}
<1>1. row.inputs \in Seq(Entry)
  BY DEF TypeInv, TypeOK, IsRow
<1>2. CASE at = {}
  <2>1. \A k \in DOMAIN initial.bytes : k \in Keys(row.inputs)
    BY FiledKeys
  <2>2. \A k \in Keys(row.inputs) : ~ Covers(k, c, n)
    BY <1>2 DEF Keys
  <2> QED BY <1>2, <2>1, <2>2 DEF ListedWord
<1>3. CASE at # {}
  <2> DEFINE i == CHOOSE i \in at : TRUE
  <2>1. i \in at
    BY <1>3
  <2>2. ListedWord(c, n) = row.inputs[i].value[n]
    BY <1>3 DEF ListedWord
  <2> HIDE DEF i
  <2> DEFINE k == Canonical[row.inputs[i].name]
  <2>3. i \in DOMAIN row.inputs /\ Covers(k, c, n)
    BY <2>1
  <2>4. IsByteRegister(k)
    BY <2>3 DEF Covers
  <2>5. k \in DOMAIN initial.bytes /\ initial.bytes[k] = row.inputs[i].value
    BY <1>1, <2>3, <2>4, FiledPlain
  <2> QED BY <2>2, <2>3, <2>5
<1> QED BY <1>2, <1>3

LEMMA BytesAppliedLoads ==
  ASSUME TypeInv, ListsAreFiled, ScalarsAreApplied, BytesAreApplied,
         BytesApplied, Plain(row.inputs)
  PROVE  /\ \A k \in General : gpr'[k] = StartOf(k)
         /\ GetFlags' = StartOf("flag")
         /\ GetX87Status' = StartOf("x87status")
         /\ \A c \in Cell, n \in 1..Longest : wide'[c][n] = ListedWord(c, n)
<1>1. /\ pc = "bytes" /\ todo = {} /\ Applying /\ Filed(initial, row.inputs)
      /\ UNCHANGED <<row, rflag, aflag, swd, sw, wide>>
      /\ gpr' = IF gpr["rip"] = {} THEN [gpr EXCEPT !["rip"] = row.address] ELSE gpr
  BY DEF BytesApplied, Applying, ListsAreFiled
<1>2. TakenScalars = DOMAIN initial.scalars /\ TakenBytes = DOMAIN initial.bytes
  BY <1>1 DEF TakenScalars, TakenBytes
<1>3. \A k : IsScalarKey(k) => Listed(k) = Taken(k)
  BY <1>1, <1>2, ListedIsTaken DEF Taken
<1>4. /\ \A k \in General : gpr[k] = Taken(k)
      /\ rflag = Taken("flag") \cup {FixedFlag}
      /\ aflag = Split(Taken("flag"))
      /\ swd = Taken("x87status") \cap StatusMask
      /\ sw = Taken("x87status") \cap StatusBit
  BY <1>1 DEF ScalarsAreApplied
<1>5. /\ "rip" \in General /\ General \cap Status = {} /\ "rip" \notin Status
      /\ \A k \in General : IsScalarKey(k)
      /\ IsScalarKey("flag") /\ IsScalarKey("x87status")
  BY NamesAssumption DEF IsScalarKey, Status
<1>6. ASSUME NEW k \in General PROVE gpr'[k] = StartOf(k)
  <2>1. gpr[k] = Listed(k) /\ gpr["rip"] = Listed("rip") /\ k # "flag" /\ k # "x87status"
    BY <1>3, <1>4, <1>5 DEF Status
  <2>2. gpr \in [General -> Word]
    BY DEF TypeInv, TypeOK
  <2>3. CASE k = "rip" /\ gpr["rip"] = {}
    BY <1>1, <2>1, <2>2, <2>3 DEF StartOf
  <2>4. CASE ~ (k = "rip" /\ gpr["rip"] = {})
    <3>1. gpr'[k] = gpr[k]
      BY <1>1, <1>5, <2>2, <2>4
    <3> QED BY <2>1, <2>4, <3>1 DEF StartOf
  <2> QED BY <2>3, <2>4
<1>7. GetFlags' = StartOf("flag")
  <2>1. GetFlags' = (rflag \ ArithmeticFlag) \cup aflag \cup {FixedFlag}
    BY <1>1 DEF GetFlags
  <2>2. StartOf("flag") = Taken("flag") \cup {FixedFlag}
    BY <1>3, <1>5 DEF StartOf
  <2> HIDE DEF ArithmeticFlag
  <2> QED BY <1>4, <2>1, <2>2 DEF Split
<1>8. GetX87Status' = StartOf("x87status")
  <2>1. GetX87Status' = (swd \cap StatusTop) \cup sw
    BY <1>1 DEF GetX87Status
  <2>2. StartOf("x87status") = Taken("x87status") \cap StatusMask
    BY <1>3, <1>5 DEF StartOf
  <2>3. StatusTop \subseteq StatusMask
    BY DEF StatusTop, StatusMask
  <2> QED BY <1>4, <2>1, <2>2, <2>3 DEF StatusBit
<1>9. ASSUME NEW c \in Cell, NEW n \in 1..Longest PROVE wide'[c][n] = ListedWord(c, n)
  <2>1. /\ \A k \in DOMAIN initial.bytes :
             Covers(k, c, n) => wide[c][n] = initial.bytes[k][n]
        /\ (\A k \in DOMAIN initial.bytes : ~ Covers(k, c, n)) => wide[c][n] = {}
    BY <1>1, <1>2 DEF BytesAreApplied
  <2>2. wide[c][n] = ListedWord(c, n)
    BY <1>1, <2>1, ListedWordIsTaken
  <2> QED BY <1>1, <2>2
<1> QED BY <1>6, <1>7, <1>8, <1>9

LEMMA KnownStep ==
  ASSUME TypeInv, ListsAreFiled, ScalarsAreApplied, BytesAreApplied, InputsAreKnown,
         [Next]_vars
  PROVE  InputsAreKnown'
<1>1. CASE ParseStateRow \/ ApplyScalar \/ ScalarsApplied \/ ApplyBytes
  <2>1. Applying' \/ verdict' = "skipped"
    BY <1>1 DEF ParseStateRow, ApplyScalar, ApplyFlags, ApplyX87Status,
                SetScalarRegister, PassOver, UnsupportedScalar, ScalarsApplied,
                ApplyBytes, SetByteRegister, PassOverScalar, UnsupportedBytes,
                Advance, Reject, Applying
  <2> QED BY <2>1 DEF InputsAreKnown
<1>2. CASE BytesApplied
  <2>1. row' = row /\ pc = "bytes" /\ todo = {}
    BY <1>2 DEF BytesApplied
  <2>2. Plain(row.inputs) => \A k \in Keys(row.inputs) : Known(k)
    BY <2>1, AllKnown
  <2> QED BY <2>1, <2>2 DEF InputsAreKnown
<1>3. CASE LiftedFunction \/ SyncHyperCall \/ Snapshot \/ Compare
  <2>1. row' = row /\ ~ Applying /\ verdict # "skipped"
    BY <1>3 DEF LiftedFunction, SyncHyperCall, Snapshot, Compare, Applying,
                TypeInv, CourseIsKept
  <2> QED BY <2>1 DEF InputsAreKnown
<1>4. CASE UNCHANGED vars
  BY <1>4 DEF vars, InputsAreKnown, Applying
<1> QED BY <1>1, <1>2, <1>3, <1>4 DEF Next

\* What a row lists depends on nothing else.
LEMMA RowAlone ==
  ASSUME row' = row
  PROVE  /\ \A k : StartOf(k)' = StartOf(k)
         /\ \A k : EndOf(k)' = EndOf(k)
         /\ \A c, n : ListedWord(c, n)' = ListedWord(c, n)
         /\ \A c, n : EndWord(c, n)' = EndWord(c, n)
<1>1. \A k : StartOf(k)' = StartOf(k)
  BY DEF StartOf, Listed
<1>2. \A c, n : ListedWord(c, n)' = ListedWord(c, n)
  BY DEF ListedWord
<1>3. \A k : EndOf(k)' = EndOf(k)
  BY <1>1 DEF EndOf
<1>4. \A c, n : EndWord(c, n)' = EndWord(c, n)
  BY <1>2 DEF EndWord
<1> QED BY <1>1, <1>2, <1>3, <1>4

LEMMA LoadedStep ==
  ASSUME TypeInv, ListsAreFiled, ScalarsAreApplied, BytesAreApplied, InputsAreLoaded,
         [Next]_vars
  PROVE  InputsAreLoaded'
<1>1. CASE BytesApplied
  <2>1. row' = row
    BY <1>1 DEF BytesApplied
  <2> QED BY <1>1, <2>1, RowAlone, BytesAppliedLoads DEF InputsAreLoaded
<1>2. CASE Next /\ ~ BytesApplied
  <2>1. pc' # "run"
    BY <1>2 DEF Next, ParseStateRow, ApplyScalar, ApplyFlags, ApplyX87Status,
                SetScalarRegister, PassOver, UnsupportedScalar, ScalarsApplied,
                ApplyBytes, SetByteRegister, PassOverScalar, UnsupportedBytes,
                LiftedFunction, SyncHyperCall, Snapshot, Compare, Advance, Reject
  <2> QED BY <2>1 DEF InputsAreLoaded
<1>3. CASE UNCHANGED vars
  <2>1. row' = row /\ UNCHANGED <<pc, gpr, rflag, aflag, swd, sw, wide>>
    BY <1>3 DEF vars, state
  <2> QED BY <2>1, RowAlone DEF InputsAreLoaded, GetFlags, GetX87Status
<1> QED BY <1>1, <1>2, <1>3

----------------------------------------------------------------------------
(* The end is reached and read.                                            *)

LEMMA LiftedFunctionEnds ==
  ASSUME TypeInv, InputsAreLoaded, LiftedFunction
  PROVE  EndIsReached'
<1> SUFFICES ASSUME Plain(row.inputs)
             PROVE  /\ \A k \in General : gpr'[k] = EndOf(k)
                    /\ \A b \in UserFlag : b \in GetFlags' <=> b \in EndOf("flag")
                    /\ GetX87Status' = EndOf("x87status")
                    /\ \A c \in Cell, n \in 1..Longest : wide'[c][n] = EndWord(c, n)
  <2>1. row' = row
    BY DEF LiftedFunction
  <2> QED BY <2>1, RowAlone DEF EndIsReached
<1> DEFINE key == row.effect.key
           value == row.effect.value
<1>1. /\ IsRow(row) /\ key \notin DOMAIN Verified
      /\ key \in General \cup DOMAIN ByteRegister \cup {"flag", "x87status"}
  BY DEF TypeInv, TypeOK, IsRow, LiftedFunction
<1>2. /\ \A k \in General : gpr[k] = StartOf(k)
      /\ GetFlags = StartOf("flag")
      /\ GetX87Status = StartOf("x87status")
      /\ \A c \in Cell, n \in 1..Longest : wide[c][n] = ListedWord(c, n)
  BY DEF InputsAreLoaded, LiftedFunction
<1>3. /\ General \cap Status = {} /\ General \cap DOMAIN ByteRegister = {}
      /\ "flag" \notin DOMAIN ByteRegister /\ "x87status" \notin DOMAIN ByteRegister
      /\ "flag" \notin General /\ "x87status" \notin General
  BY NamesAssumption DEF Status
<1>4. ASSUME NEW k \in General PROVE gpr'[k] = EndOf(k)
  <2>1. gpr' = IF key \in General THEN [gpr EXCEPT ![key] = value[1]] ELSE gpr
    BY DEF LiftedFunction
  <2>2. gpr \in [General -> Word]
    BY DEF TypeInv, TypeOK
  <2>3. EndOf(k) = IF key = k THEN value[1] ELSE StartOf(k)
    BY <1>3 DEF EndOf
  <2> QED BY <1>2, <2>1, <2>2, <2>3
<1>5. ASSUME NEW b \in UserFlag PROVE b \in GetFlags' <=> b \in EndOf("flag")
  <2>1. b # FixedFlag
    BY DEF UserFlag, FixedFlag
  <2>2. EndOf("flag") = IF key = "flag" THEN value[1] ELSE StartOf("flag")
    BY <1>1 DEF EndOf
  <2>3. /\ rflag' = IF key = "flag"
                      THEN (rflag \cap ArithmeticFlag) \cup (value[1] \ ArithmeticFlag)
                      ELSE rflag
        /\ aflag' = IF key = "flag" THEN value[1] \cap ArithmeticFlag ELSE aflag
    BY DEF LiftedFunction
  <2>4. GetFlags' = (rflag' \ ArithmeticFlag) \cup aflag' \cup {FixedFlag}
    BY DEF GetFlags
  <2>5. CASE key = "flag"
    BY <2>1, <2>2, <2>3, <2>4, <2>5
  <2>6. CASE key # "flag"
    BY <1>2, <2>2, <2>3, <2>4, <2>6 DEF GetFlags
  <2> QED BY <2>5, <2>6
<1>6. GetX87Status' = EndOf("x87status")
  <2>1. EndOf("x87status") = IF key = "x87status" THEN value[1] ELSE StartOf("x87status")
    BY <1>1 DEF EndOf
  <2>2. /\ swd' = IF key = "x87status"
                    THEN (swd \ StatusTop) \cup (value[1] \cap StatusTop) ELSE swd
        /\ sw' = IF key = "x87status" THEN value[1] \cap StatusBit ELSE sw
    BY DEF LiftedFunction
  <2>3. GetX87Status' = (swd' \cap StatusTop) \cup sw'
    BY DEF GetX87Status
  <2>4. CASE key = "x87status"
    <3>1. value[1] \subseteq StatusMask
      BY <1>1, <2>4 DEF IsRow
    <3> QED BY <2>1, <2>2, <2>3, <2>4, <3>1 DEF StatusBit
  <2>5. CASE key # "x87status"
    BY <1>2, <2>1, <2>2, <2>3, <2>5 DEF GetX87Status
  <2> QED BY <2>4, <2>5
<1>7. ASSUME NEW c \in Cell, NEW n \in 1..Longest PROVE wide'[c][n] = EndWord(c, n)
  <2>1. wide' = IF IsByteRegister(key)
                  THEN [wide EXCEPT ![ByteRegister[key].cell] =
                          Overlay(wide[ByteRegister[key].cell], value)]
                  ELSE wide
    BY DEF LiftedFunction
  <2>2. wide \in [Cell -> [1..Longest -> Word]] /\ value \in Seq(Word)
    BY <1>1, EffectType DEF TypeInv, TypeOK
  <2>3. wide[c][n] = ListedWord(c, n)
    BY <1>2
  <2>4. CASE IsByteRegister(key) /\ c = ByteRegister[key].cell
    <3>1. wide'[c] = Overlay(wide[c], value)
      BY <2>1, <2>2, <2>4
    <3>2. Len(value) = ByteRegister[key].size
      BY <1>1, <2>4, EffectType DEF IsByteRegister
    <3>3. Covers(key, c, n) <=> n <= Len(value)
      BY <2>4, <3>2 DEF Covers
    <3> HIDE DEF value
    <3>4. wide'[c][n] = IF n <= Len(value) THEN value[n] ELSE wide[c][n]
      BY <2>2, <3>1, OverlayIs
    <3> QED BY <2>3, <3>3, <3>4 DEF EndWord, value
  <2>5. CASE ~ (IsByteRegister(key) /\ c = ByteRegister[key].cell)
    <3>1. wide'[c] = wide[c]
      BY <2>1, <2>2, <2>5
    <3>2. ~ Covers(key, c, n)
      BY <2>5 DEF Covers
    <3> QED BY <2>3, <3>1, <3>2 DEF EndWord
  <2> QED BY <2>4, <2>5
<1> QED BY <1>4, <1>5, <1>6, <1>7

LEMMA SyncHyperCallEnds ==
  ASSUME TypeInv, InputsAreLoaded, SyncHyperCall
  PROVE  EndIsReached'
<1> SUFFICES ASSUME Plain(row.inputs)
             PROVE  /\ \A k \in General : gpr'[k] = EndOf(k)
                    /\ \A b \in UserFlag : b \in GetFlags' <=> b \in EndOf("flag")
                    /\ GetX87Status' = EndOf("x87status")
                    /\ \A c \in Cell, n \in 1..Longest : wide'[c][n] = EndWord(c, n)
  <2>1. row' = row
    BY DEF SyncHyperCall
  <2> QED BY <2>1, RowAlone DEF EndIsReached
<1> DEFINE key == row.effect.key
           zf == row.effect.value[1] = Verified[row.effect.key]
<1>1. key \in DOMAIN Verified /\ key \notin Key
  BY CallsAssumption DEF SyncHyperCall
<1>2. /\ \A k \in General : gpr[k] = StartOf(k)
      /\ GetFlags = StartOf("flag")
      /\ GetX87Status = StartOf("x87status")
      /\ \A c \in Cell, n \in 1..Longest : wide[c][n] = ListedWord(c, n)
  BY DEF InputsAreLoaded, SyncHyperCall
<1>3. /\ General \subseteq Key /\ "flag" \in Key /\ "x87status" \in Key
      /\ DOMAIN ByteRegister \subseteq Key /\ "flag" \notin General
  BY NamesAssumption DEF Status
<1>4. /\ UNCHANGED <<gpr, swd, sw, wide>>
      /\ rflag' = WithZF(rflag, zf) /\ aflag' = WithZF(aflag, zf)
  BY DEF SyncHyperCall
<1>5. \A k \in General : EndOf(k) = StartOf(k)
  BY <1>1, <1>3 DEF EndOf
<1>6. \A b \in UserFlag : b \in GetFlags' <=> b \in EndOf("flag")
  <2>1. EndOf("flag") = {b \in StartOf("flag") \cup {ZF} : b = ZF => zf}
    BY <1>1, <1>3 DEF EndOf
  <2>2. ZF \in ArithmeticFlag /\ ZF # FixedFlag
    BY DEF ZF, FixedFlag, ArithmeticFlag
  <2>3. GetFlags' = (WithZF(rflag, zf) \ ArithmeticFlag) \cup WithZF(aflag, zf)
                      \cup {FixedFlag}
    BY <1>4 DEF GetFlags
  <2>4. StartOf("flag") = (rflag \ ArithmeticFlag) \cup aflag \cup {FixedFlag}
    BY <1>2 DEF GetFlags
  <2> HIDE DEF zf
  <2> QED BY <2>1, <2>2, <2>3, <2>4 DEF WithZF
<1>7. EndOf("x87status") = StartOf("x87status")
  BY <1>1, <1>3 DEF EndOf
<1>8. \A c, n : EndWord(c, n) = ListedWord(c, n)
  BY <1>1, <1>3 DEF EndWord, Covers, IsByteRegister
<1>9. GetX87Status' = GetX87Status
  BY <1>4 DEF GetX87Status
<1> QED BY <1>2, <1>4, <1>5, <1>6, <1>7, <1>8, <1>9

LEMMA ReachedStep ==
  ASSUME TypeInv, InputsAreLoaded, EndIsReached, [Next]_vars
  PROVE  EndIsReached'
<1>1. CASE LiftedFunction \/ SyncHyperCall
  BY <1>1, LiftedFunctionEnds, SyncHyperCallEnds
<1>2. CASE Next /\ ~ LiftedFunction /\ ~ SyncHyperCall
  <2>1. pc' # "snapshot"
    BY <1>2 DEF Next, ParseStateRow, ApplyScalar, ApplyFlags, ApplyX87Status,
                SetScalarRegister, PassOver, UnsupportedScalar, ScalarsApplied,
                ApplyBytes, SetByteRegister, PassOverScalar, UnsupportedBytes,
                BytesApplied, Snapshot, Compare, Advance, Reject
  <2> QED BY <2>1 DEF EndIsReached
<1>3. CASE UNCHANGED vars
  <2>1. row' = row /\ UNCHANGED <<pc, gpr, rflag, aflag, swd, sw, wide>>
    BY <1>3 DEF vars, state
  <2> QED BY <2>1, RowAlone DEF EndIsReached, GetFlags, GetX87Status
<1> QED BY <1>1, <1>2, <1>3

LEMMA SnapshotReads ==
  ASSUME TypeInv, EndIsReached, Snapshot
  PROVE  EndIsRead'
<1>1. /\ row' = row /\ expected' = expected /\ pc = "snapshot"
      /\ final'.scalars = SnapshotState /\ final'.bytes = SnapshotBytes
  BY DEF Snapshot
<1> SUFFICES ASSUME Plain(row.inputs)
             PROVE  /\ DOMAIN SnapshotState =
                         DOMAIN expected.scalars \cap (General \cup {"flag", "x87status"})
                    /\ \A k \in DOMAIN SnapshotState :
                         IF k = "flag"
                           THEN \A b \in UserFlag :
                                  b \in SnapshotState[k] <=> b \in EndOf(k)
                           ELSE SnapshotState[k] = EndOf(k)
                    /\ DOMAIN SnapshotBytes = DOMAIN expected.bytes \cap DOMAIN ByteRegister
                    /\ \A k \in DOMAIN SnapshotBytes :
                         SnapshotBytes[k] = [n \in 1..ByteRegister[k].size |->
                                               EndWord(ByteRegister[k].cell, n)]
  BY <1>1, RowAlone DEF EndIsRead
<1>2. /\ \A k \in General : gpr[k] = EndOf(k)
      /\ \A b \in UserFlag : b \in GetFlags <=> b \in EndOf("flag")
      /\ GetX87Status = EndOf("x87status")
      /\ \A c \in Cell, n \in 1..Longest : wide[c][n] = EndWord(c, n)
  BY <1>1 DEF EndIsReached
<1>3. DOMAIN SnapshotState =
        DOMAIN expected.scalars \cap (General \cup {"flag", "x87status"})
  BY DEF SnapshotState
<1>4. ASSUME NEW k \in DOMAIN SnapshotState
      PROVE  IF k = "flag"
               THEN \A b \in UserFlag : b \in SnapshotState[k] <=> b \in EndOf(k)
               ELSE SnapshotState[k] = EndOf(k)
  <2>1. SnapshotState[k] = CASE k = "flag" -> GetFlags
                             [] k = "x87status" -> GetX87Status
                             [] OTHER -> GetScalarRegister(k)
    BY <1>3 DEF SnapshotState
  <2>2. "flag" # "x87status"
    OBVIOUS
  <2>3. CASE k = "flag"
    BY <1>2, <2>1, <2>2, <2>3
  <2>4. CASE k = "x87status"
    BY <1>2, <2>1, <2>2, <2>4
  <2>5. CASE k # "flag" /\ k # "x87status"
    <3>1. k \in General
      BY <1>3, <2>5
    <3> QED BY <1>2, <2>1, <2>5, <3>1 DEF GetScalarRegister
  <2> QED BY <2>3, <2>4, <2>5
<1>5. DOMAIN SnapshotBytes = DOMAIN expected.bytes \cap DOMAIN ByteRegister
  BY DEF SnapshotBytes
<1>6. ASSUME NEW k \in DOMAIN SnapshotBytes
      PROVE  SnapshotBytes[k] = [n \in 1..ByteRegister[k].size |->
                                   EndWord(ByteRegister[k].cell, n)]
  <2>1. k \in DOMAIN ByteRegister /\ SnapshotBytes[k] = GetByteRegister(k)
    BY <1>5 DEF SnapshotBytes
  <2>2. wide \in [Cell -> [1..Longest -> Word]]
    BY DEF TypeInv, TypeOK
  <2>3. GetByteRegister(k) = [n \in 1..ByteRegister[k].size |->
                                wide[ByteRegister[k].cell][n]]
    BY <2>1, <2>2, GetByteRegisterIs
  <2>4. ByteRegister[k].cell \in Cell /\ ByteRegister[k].size \in 1..Longest
    BY <2>1, NamesAssumption DEF Cell
  <2>5. \A n \in 1..ByteRegister[k].size :
          wide[ByteRegister[k].cell][n] = EndWord(ByteRegister[k].cell, n)
    <3>1. \A n \in 1..ByteRegister[k].size : n \in 1..Longest
      BY <2>4, NamesAssumption
    <3> QED BY <1>2, <2>4, <3>1
  <2> QED BY <2>1, <2>3, <2>5
<1> QED BY <1>3, <1>4, <1>5, <1>6

LEMMA ReadStep ==
  ASSUME TypeInv, EndIsReached, EndIsRead, [Next]_vars
  PROVE  EndIsRead'
<1>1. CASE Snapshot
  BY <1>1, SnapshotReads
<1>2. CASE Next /\ ~ Snapshot
  <2>1. pc' # "compare"
    BY <1>2 DEF Next, ParseStateRow, ApplyScalar, ApplyFlags, ApplyX87Status,
                SetScalarRegister, PassOver, UnsupportedScalar, ScalarsApplied,
                ApplyBytes, SetByteRegister, PassOverScalar, UnsupportedBytes,
                BytesApplied, LiftedFunction, SyncHyperCall, Compare, Advance, Reject
  <2> QED BY <2>1 DEF EndIsRead
<1>3. CASE UNCHANGED vars
  <2>1. row' = row /\ UNCHANGED <<pc, expected, final>>
    BY <1>3 DEF vars
  <2> QED BY <2>1, RowAlone DEF EndIsRead
<1> QED BY <1>1, <1>2, <1>3

----------------------------------------------------------------------------
(* The flags a row determines.                                             *)

\* The count is none, or a number below the width or, for narrow operands, 32.
LEMMA CountIsMasked ==
  ASSUME TypeInv
  PROVE  \/ MaskedCount = NoCount
         \/ MaskedCount \in 0..63 /\ (row.width # 64 => MaskedCount \in 0..31)
<1>1. \A word : LowByte(word) \in Nat
  <2> SUFFICES ASSUME NEW word PROVE LowByte(word) \in Nat
    OBVIOUS
  <2> DEFINE Digit(b, value) == IF b \in word THEN value ELSE 0
  <2>1. /\ Digit(0, 1) \in Nat /\ Digit(1, 2) \in Nat
        /\ Digit(2, 4) \in Nat /\ Digit(3, 8) \in Nat
        /\ Digit(4, 16) \in Nat /\ Digit(5, 32) \in Nat
        /\ Digit(6, 64) \in Nat /\ Digit(7, 128) \in Nat
    OBVIOUS
  <2>2. LowByte(word) = Digit(0, 1) + Digit(1, 2) + Digit(2, 4) + Digit(3, 8)
                          + Digit(4, 16) + Digit(5, 32) + Digit(6, 64) + Digit(7, 128)
    BY DEF LowByte
  <2> HIDE DEF Digit
  <2> QED BY <2>1, <2>2
<1>2. row.count.n \in Nat
  BY DEF TypeInv, TypeOK, IsRow
<1>3. ParseCountOperand \in Nat \cup {NoCount}
  BY <1>1, <1>2 DEF ParseCountOperand
<1>4. \A n \in Nat : n % 64 \in 0..63 /\ n % 32 \in 0..31
  OBVIOUS
<1>5. MaskedCount = IF ParseCountOperand = NoCount THEN NoCount
                    ELSE ParseCountOperand % (IF row.width = 64 THEN 64 ELSE 32)
  BY DEF MaskedCount
<1> DEFINE n == ParseCountOperand
<1> HIDE DEF n
<1>6. CASE n = NoCount
  BY <1>5, <1>6 DEF n
<1>7. CASE n # NoCount
  <2>1. n \in Nat
    BY <1>3, <1>7 DEF n
  <2>2. CASE row.width = 64
    BY <1>4, <1>5, <1>7, <2>1, <2>2 DEF n
  <2>3. CASE row.width # 64
    <3>1. MaskedCount = n % 32
      BY <1>5, <1>7, <2>3 DEF n
    <3>2. n % 32 \in 0..31
      BY <1>4, <2>1
    <3>3. n % 32 \in 0..63
      BY <3>2
    <3> QED BY <3>1, <3>2, <3>3
  <2> QED BY <2>2, <2>3
<1> QED BY <1>6, <1>7

\* A count is a whole number of turns exactly when nothing remains of it.
LEMMA TurnsAreWhole ==
  ASSUME NEW m \in Nat, NEW p \in {8, 9, 16, 17, 32, 64}
  PROVE  TurnsRound(m, p) <=> m % p = 0
<1>1. p = 8 \/ p = 9 \/ p = 16 \/ p = 17 \/ p = 32 \/ p = 64
  OBVIOUS
<1>2. m % p = 0 => m \div p \in 0..m /\ m = (m \div p) * p
  BY <1>1
<1>3. ASSUME NEW turns \in 0..m, m = turns * p PROVE m % p = 0
  BY <1>1, <1>3
<1> QED BY <1>2, <1>3 DEF TurnsRound

\* A count less than a whole turn is one only if it is zero.
LEMMA NoTurnIsWhole ==
  ASSUME NEW m \in Nat, NEW p \in {33, 65}, m < p
  PROVE  TurnsRound(m, p) <=> m = 0
<1>1. m = 0 => 0 \in 0..m /\ m = 0 * p
  OBVIOUS
<1>2. ASSUME NEW turns \in 0..m, m = turns * p PROVE m = 0
  BY <1>2
<1> QED BY <1>1, <1>2 DEF TurnsRound

LEMMA CareIsDetermined ==
  ASSUME TypeInv, Filed(initial, row.inputs), Plain(row.inputs)
  PROVE  CareMask = Determined
<1>1. row.inputs \in Seq(Entry) /\ row.class \in Class /\ row.width \in {0, 8, 16, 32, 64}
  BY DEF TypeInv, TypeOK, IsRow
<1>2. InitialFlagsProvided <=> "flag" \in Keys(row.inputs)
  <2>1. IsScalarKey("flag")
    BY DEF IsScalarKey, Status
  <2>2. ASSUME NEW i \in DOMAIN row.inputs, Canonical[row.inputs[i].name] = "flag"
        PROVE  "flag" \in DOMAIN initial.scalars
    BY <1>1, <2>1, <2>2, FiledPlain
  <2>3. DOMAIN initial.scalars \subseteq Keys(row.inputs)
    BY FiledKeys
  <2> QED BY <2>2, <2>3 DEF InitialFlagsProvided, Keys
<1> DEFINE m == MaskedCount
           w == row.width
           flags == InitialFlagsProvided
<1>3. m = NoCount \/ (m \in 0..63 /\ (w # 64 => m \in 0..31))
  BY CountIsMasked
<1>4. \A p \in Nat : ~ TurnsRound(NoCount, p)
  BY DEF TurnsRound, NoCount
<1> HIDE DEF m, flags
<1>5. CASE w = 0 \/ row.class = "other"
  <2>1. ~ LeavesFlags /\ ~ ShiftsAllOut
    BY <1>5 DEF LeavesFlags, ShiftsAllOut
  <2>2. DynamicUndefinedFlagMask = {}
    BY <1>5 DEF DynamicUndefinedFlagMask
  <2> QED BY <2>1, <2>2 DEF CareMask, Determined
<1>6. CASE w # 0 /\ row.class = "shift"
  <2>1. LeavesFlags <=> m = 0
    BY <1>6 DEF LeavesFlags, m
  <2>2. ShiftsAllOut <=> m >= w
    BY <1>6 DEF ShiftsAllOut, m
  <2>3. DynamicUndefinedFlagMask = IF m = 0 /\ ~ flags THEN Comparable
                                   ELSE IF m >= w THEN {CF} ELSE {}
    BY <1>6 DEF DynamicUndefinedFlagMask, m, flags
  <2> QED BY <1>2, <2>1, <2>2, <2>3 DEF CareMask, Determined, flags
<1>7. CASE w # 0 /\ row.class = "rotate"
  <2>1. ~ ShiftsAllOut
    BY <1>7 DEF ShiftsAllOut
  <2>2. LeavesFlags <=> TurnsRound(m, w)
    BY <1>7 DEF LeavesFlags, m
  <2>3. RotateEffectiveCount = IF m = NoCount THEN NoCount ELSE m % w
    BY <1>7 DEF RotateEffectiveCount, m
  <2>4. RotateEffectiveCount = 0 <=> TurnsRound(m, w)
    <3>1. CASE m = NoCount
      BY <1>1, <1>4, <2>3, <3>1 DEF NoCount
    <3>2. CASE m # NoCount
      <4>1. w \in {0, 8, 16, 32, 64} /\ w # 0
        BY <1>1, <1>7
      <4> HIDE DEF w
      <4>2. m \in Nat /\ w \in {8, 9, 16, 17, 32, 64}
        BY <1>3, <4>1, <3>2 DEF NoCount
      <4> QED BY <2>3, <3>2, <4>2, TurnsAreWhole
    <3> QED BY <3>1, <3>2
  <2>5. DynamicUndefinedFlagMask = IF RotateEffectiveCount = 0 /\ ~ flags
                                     THEN Comparable ELSE {}
    BY <1>7 DEF DynamicUndefinedFlagMask, flags
  <2> QED BY <1>2, <2>1, <2>2, <2>4, <2>5 DEF CareMask, Determined, flags
<1>8. CASE w # 0 /\ row.class = "rotate through carry"
  <2>1. ~ ShiftsAllOut
    BY <1>8 DEF ShiftsAllOut
  <2>2. LeavesFlags <=> TurnsRound(m, w + 1)
    BY <1>8 DEF LeavesFlags, m
  <2>3. RotateEffectiveCount = IF m = NoCount THEN NoCount
                               ELSE IF w < 32 THEN m % (w + 1) ELSE m
    BY <1>8 DEF RotateEffectiveCount, CarryPeriod, m
  <2>4. RotateEffectiveCount = 0 <=> TurnsRound(m, w + 1)
    <3>1. CASE m = NoCount
      <4>1. w + 1 \in Nat
        BY <1>1
      <4> QED BY <1>4, <2>3, <3>1, <4>1 DEF NoCount
    <3>2. CASE m # NoCount /\ w < 32
      <4>1. w \in {0, 8, 16, 32, 64} /\ w # 0
        BY <1>1, <1>8
      <4> HIDE DEF w
      <4>2. m \in Nat /\ w + 1 \in {8, 9, 16, 17, 32, 64}
        BY <1>3, <4>1, <3>2 DEF NoCount
      <4> QED BY <2>3, <3>2, <4>2, TurnsAreWhole
    <3>3. CASE m # NoCount /\ ~ (w < 32)
      <4>1. w \in {0, 8, 16, 32, 64} /\ w # 0
        BY <1>1, <1>8
      <4> HIDE DEF w
      <4>2. m \in Nat /\ w + 1 \in {33, 65} /\ m < w + 1
        BY <1>3, <4>1, <3>3 DEF NoCount
      <4> QED BY <2>3, <3>3, <4>2, NoTurnIsWhole
    <3> QED BY <3>1, <3>2, <3>3
  <2>5. DynamicUndefinedFlagMask = IF RotateEffectiveCount = 0 /\ ~ flags
                                     THEN Comparable ELSE {}
    BY <1>8 DEF DynamicUndefinedFlagMask, flags
  <2> QED BY <1>2, <2>1, <2>2, <2>4, <2>5 DEF CareMask, Determined, flags
<1> QED BY <1>1, <1>5, <1>6, <1>7, <1>8 DEF Class

----------------------------------------------------------------------------
(* The verdict.                                                            *)

\* The comparison of one value is right.
LEMMA EntryIsCompared ==
  ASSUME TypeInv, ListsAreFiled, EndIsRead, pc = "compare", PlainRow,
         NEW i \in DOMAIN row.outputs
  PROVE  LET k == Canonical[row.outputs[i].name]
         IN  Right(row.outputs[i]) <=>
               /\ k \in DOMAIN expected.scalars => ScalarAgrees(k)
               /\ k \in DOMAIN expected.bytes => BytesAgree(k)
<1> DEFINE entry == row.outputs[i]
           k == Canonical[entry.name]
           value == entry.value
<1>1. /\ row.outputs \in Seq(Entry)
      /\ Filed(expected, row.outputs) /\ Filed(initial, row.inputs)
  BY DEF TypeInv, TypeOK, IsRow, ListsAreFiled
<1>2. Plain(row.inputs) /\ Plain(row.outputs) /\ Readable(k)
  BY DEF PlainRow, Keys
<1>3. value \in Seq(Word)
  <2>1. entry \in Entry
    BY <1>1, ElementOfSeq
  <2> QED BY <2>1 DEF Entry
<1>4. /\ k \in DOMAIN expected.scalars => expected.scalars[k] = value[1]
      /\ k \in DOMAIN expected.bytes => expected.bytes[k] = value
      /\ IsScalarKey(k) => k \in DOMAIN expected.scalars
      /\ IsByteRegister(k) =>
           k \in DOMAIN expected.bytes /\ Len(value) = ByteRegister[k].size
  BY <1>1, <1>2, FiledPlain
<1>5. IsByteRegister(k) <=> ~ IsScalarKey(k)
  BY <1>2, NamesAssumption DEF Readable, Known, IsByteRegister, IsScalarKey
<1>6. /\ DOMAIN final.scalars =
           DOMAIN expected.scalars \cap (General \cup {"flag", "x87status"})
      /\ \A x \in DOMAIN final.scalars :
           IF x = "flag" THEN \A b \in UserFlag : b \in final.scalars[x] <=> b \in EndOf(x)
                         ELSE final.scalars[x] = EndOf(x)
      /\ DOMAIN final.bytes = DOMAIN expected.bytes \cap DOMAIN ByteRegister
      /\ \A x \in DOMAIN final.bytes :
           final.bytes[x] =
             [n \in 1..ByteRegister[x].size |-> EndWord(ByteRegister[x].cell, n)]
  BY <1>2 DEF EndIsRead
<1>7. CASE k = "flag"
  <2>1. IsScalarKey(k) /\ ~ IsByteRegister(k)
    BY <1>5, <1>7 DEF IsScalarKey, Status
  <2>2. k \in DOMAIN final.scalars /\ expected.scalars[k] = value[1]
    BY <1>4, <1>6, <1>7, <2>1
  <2>3. CareMask = Determined /\ CareMask \subseteq UserFlag
    BY <1>1, <1>2, CareIsDetermined DEF CareMask, Comparable
  <2>4. \A b \in UserFlag : b \in final.scalars[k] <=> b \in EndOf("flag")
    BY <1>6, <1>7, <2>2
  <2>5. Right(entry) <=> \A b \in Determined : b \in value[1] <=> b \in EndOf("flag")
    BY <1>7, <2>1 DEF Right
  <2>6. ScalarAgrees(k) <=>
          expected.scalars[k] \cap CareMask = final.scalars[k] \cap CareMask
    BY <1>7, <2>1, <2>2 DEF ScalarAgrees
  <2>7. ScalarAgrees(k) <=> \A b \in Determined : b \in value[1] <=> b \in EndOf("flag")
    <3>1. expected.scalars[k] \cap CareMask = final.scalars[k] \cap CareMask
            <=> \A b \in CareMask : b \in expected.scalars[k] <=> b \in final.scalars[k]
      OBVIOUS
    <3> QED BY <2>2, <2>3, <2>4, <2>6, <3>1
  <2>8. BytesAgree(k)
    BY <2>1 DEF BytesAgree
  <2> QED BY <1>4, <2>1, <2>5, <2>7, <2>8
<1>8. CASE k # "flag" /\ ~ IsByteRegister(k)
  <2>1. IsScalarKey(k) /\ k \in General \cup {"flag", "x87status"}
    BY <1>2, <1>5, <1>8 DEF Readable, IsScalarKey, Status
  <2>2. k \in DOMAIN final.scalars /\ expected.scalars[k] = value[1]
    BY <1>4, <1>6, <2>1
  <2>3. final.scalars[k] = EndOf(k)
    BY <1>6, <1>8, <2>2
  <2>4. Right(entry) <=> value[1] = EndOf(k)
    BY <1>8 DEF Right
  <2>5. ScalarAgrees(k) <=> expected.scalars[k] = final.scalars[k]
    BY <1>8, <2>2 DEF ScalarAgrees
  <2>6. BytesAgree(k)
    BY <1>8 DEF BytesAgree
  <2> QED BY <1>4, <2>1, <2>2, <2>3, <2>4, <2>5, <2>6
<1>9. CASE IsByteRegister(k)
  <2>1. k # "flag" /\ ScalarAgrees(k)
    BY <1>5, <1>9 DEF IsScalarKey, Status, ScalarAgrees
  <2>2. k \in DOMAIN expected.bytes /\ expected.bytes[k] = value
        /\ Len(value) = ByteRegister[k].size
    BY <1>4, <1>9
  <2>3. final.bytes[k] =
          [n \in 1..ByteRegister[k].size |-> EndWord(ByteRegister[k].cell, n)]
    BY <1>6, <1>9, <2>2 DEF IsByteRegister
  <2>4. Right(entry) <=> \A n \in 1..ByteRegister[k].size :
                           value[n] = EndWord(ByteRegister[k].cell, n)
    BY <1>9, <2>1 DEF Right
  <2>5. value = [n \in 1..ByteRegister[k].size |-> value[n]]
    <3> DEFINE v == value
    <3> HIDE DEF v
    <3>1. v \in Seq(Word) /\ Len(v) = ByteRegister[k].size
      BY <1>3, <2>2 DEF v
    <3>2. v = [n \in 1..ByteRegister[k].size |-> v[n]]
      BY <3>1
    <3> QED BY <3>2 DEF v
  <2>6. final.bytes[k] = value <=> \A n \in 1..ByteRegister[k].size :
                                     value[n] = EndWord(ByteRegister[k].cell, n)
    <3>1. ASSUME final.bytes[k] = value, NEW n \in 1..ByteRegister[k].size
          PROVE  value[n] = EndWord(ByteRegister[k].cell, n)
      BY <2>3, <3>1
    <3>2. ASSUME \A n \in 1..ByteRegister[k].size :
                   value[n] = EndWord(ByteRegister[k].cell, n)
          PROVE  final.bytes[k] = value
      BY <2>3, <2>5, <3>2
    <3> QED BY <3>1, <3>2
  <2>7. BytesAgree(k) <=> final.bytes[k] = value
    BY <1>9, <2>2 DEF BytesAgree
  <2> QED BY <2>1, <2>2, <2>4, <2>6, <2>7
<1> QED BY <1>7, <1>8, <1>9

\* What is right depends on the row and its maps alone.
LEMMA RightAlone ==
  ASSUME row' = row, initial' = initial
  PROVE  /\ \A e : Right(e)' = Right(e)
         /\ PlainRow' = PlainRow
         /\ Keys(row.inputs)' = Keys(row.inputs)
<1>1. Determined' = Determined
  BY DEF Determined, LeavesFlags, ShiftsAllOut, MaskedCount, ParseCountOperand, Comparable,
         Keys
<1>2. ASSUME NEW e PROVE Right(e)' = Right(e)
  <2>1. \A k : EndOf(k)' = EndOf(k)
    BY RowAlone
  <2>2. \A c, n : EndWord(c, n)' = EndWord(c, n)
    BY RowAlone
  <2> QED BY <1>1, <2>1, <2>2 DEF Right
<1> QED BY <1>2 DEF PlainRow, Plain, Keys

LEMMA CompareIsRight ==
  ASSUME TypeInv, ListsAreFiled, InputsAreKnown, EndIsRead, Compare
  PROVE  VerdictIsRight'
<1>1. row' = row /\ initial' = initial /\ pc = "compare" /\ pc' = "done"
  BY DEF Compare
<1>2. verdict' = IF /\ \A k \in DOMAIN expected.scalars : ScalarAgrees(k)
                    /\ \A k \in DOMAIN expected.bytes : BytesAgree(k)
                   THEN "passed" ELSE "failed"
  BY DEF Compare
<1> SUFFICES ASSUME PlainRow
             PROVE  verdict' = IF \E k \in Keys(row.inputs) : ~ Known(k) THEN "skipped"
                               ELSE IF \A i \in DOMAIN row.outputs : Right(row.outputs[i])
                                 THEN "passed" ELSE "failed"
  BY <1>1, RightAlone DEF VerdictIsRight
<1>3. \A k \in Keys(row.inputs) : Known(k)
  <2>1. ~ Applying /\ verdict # "skipped" /\ Plain(row.inputs)
    BY <1>1 DEF Applying, TypeInv, CourseIsKept, PlainRow
  <2> QED BY <2>1 DEF InputsAreKnown
<1>4. DOMAIN expected.scalars \cup DOMAIN expected.bytes \subseteq Keys(row.outputs)
  <2>1. Filed(expected, row.outputs)
    BY <1>1 DEF ListsAreFiled
  <2> QED BY <2>1, FiledKeys
<1>5. \A i \in DOMAIN row.outputs :
        Right(row.outputs[i]) <=>
          /\ Canonical[row.outputs[i].name] \in DOMAIN expected.scalars =>
               ScalarAgrees(Canonical[row.outputs[i].name])
          /\ Canonical[row.outputs[i].name] \in DOMAIN expected.bytes =>
               BytesAgree(Canonical[row.outputs[i].name])
  BY <1>1, EntryIsCompared
<1>6. (\A i \in DOMAIN row.outputs : Right(row.outputs[i])) <=>
        /\ \A k \in DOMAIN expected.scalars : ScalarAgrees(k)
        /\ \A k \in DOMAIN expected.bytes : BytesAgree(k)
  <2>1. ASSUME \A i \in DOMAIN row.outputs : Right(row.outputs[i]),
               NEW k \in DOMAIN expected.scalars \cup DOMAIN expected.bytes
        PROVE  /\ k \in DOMAIN expected.scalars => ScalarAgrees(k)
               /\ k \in DOMAIN expected.bytes => BytesAgree(k)
    <3>1. PICK i \in DOMAIN row.outputs : Canonical[row.outputs[i].name] = k
      BY <1>4 DEF Keys
    <3> QED BY <1>5, <2>1, <3>1
  <2> QED BY <1>5, <2>1
<1> QED BY <1>2, <1>3, <1>6

LEMMA RejectIsRight ==
  ASSUME TypeInv, ListsAreFiled,
         (ApplyScalar /\ UnsupportedScalar) \/ (ApplyBytes /\ UnsupportedBytes)
  PROVE  VerdictIsRight'
<1> DEFINE key == First(todo)
<1>1. /\ row' = row /\ initial' = initial /\ verdict' = "skipped" /\ pc # "parse"
  BY DEF UnsupportedScalar, UnsupportedBytes, Reject, ApplyScalar, ApplyBytes
<1>2. row.inputs \in Seq(Entry) /\ Filed(initial, row.inputs)
  BY <1>1 DEF TypeInv, TypeOK, IsRow, ListsAreFiled
<1>3. DOMAIN initial.scalars \cup DOMAIN initial.bytes \subseteq Keys(row.inputs)
  BY <1>2, FiledKeys
<1> SUFFICES ASSUME Plain(row.inputs)
             PROVE  key \in Keys(row.inputs) /\ ~ Known(key)
  BY <1>1, RightAlone DEF VerdictIsRight, PlainRow
<1>4. CASE ApplyScalar /\ UnsupportedScalar
  <2>1. key \in DOMAIN initial.scalars
    BY <1>4, ScalarTaken DEF ApplyScalar
  <2>2. ~ Known(key)
    BY <1>4 DEF UnsupportedScalar, Known, IsScalarKey, IsByteRegister
  <2> QED BY <1>3, <2>1, <2>2
<1>5. CASE ApplyBytes /\ UnsupportedBytes
  <2>1. key \in DOMAIN initial.bytes
    BY <1>5, BytesTaken DEF ApplyBytes
  <2>2. ~ IsScalarKey(key) /\ (IsByteRegister(key) => ~ Fits(key, initial.bytes[key]))
    BY <1>5 DEF UnsupportedBytes
  <2>3. key \in Keys(row.inputs)
    BY <1>3, <2>1
  <2>4. PICK i \in DOMAIN row.inputs : Canonical[row.inputs[i].name] = key
    BY <2>3 DEF Keys
  <2>5. initial.bytes[key] = row.inputs[i].value
        /\ (IsByteRegister(key) => Len(row.inputs[i].value) = ByteRegister[key].size)
    BY <1>2, <2>1, <2>4, FiledPlain
  <2> QED BY <2>2, <2>3, <2>5 DEF Fits, Known
<1> QED BY <1>4, <1>5

LEMMA RightStep ==
  ASSUME TypeInv, ListsAreFiled, InputsAreKnown, EndIsRead, VerdictIsRight, [Next]_vars
  PROVE  VerdictIsRight'
<1>1. CASE Compare
  BY <1>1, CompareIsRight
<1>2. CASE (ApplyScalar /\ UnsupportedScalar) \/ (ApplyBytes /\ UnsupportedBytes)
  BY <1>2, RejectIsRight
<1>3. CASE /\ Next /\ ~ Compare
           /\ ~ (ApplyScalar /\ UnsupportedScalar) /\ ~ (ApplyBytes /\ UnsupportedBytes)
  <2>1. pc' # "done"
    BY <1>3 DEF Next, ParseStateRow, ApplyScalar, ApplyFlags, ApplyX87Status,
                SetScalarRegister, PassOver, ScalarsApplied, ApplyBytes,
                SetByteRegister, PassOverScalar, BytesApplied, LiftedFunction,
                SyncHyperCall, Snapshot, Advance
  <2> QED BY <2>1 DEF VerdictIsRight
<1>4. CASE UNCHANGED vars
  <2>1. row' = row /\ initial' = initial /\ UNCHANGED <<pc, verdict>>
    BY <1>4 DEF vars
  <2> QED BY <2>1, RightAlone DEF VerdictIsRight
<1> QED BY <1>1, <1>2, <1>3, <1>4

----------------------------------------------------------------------------
(* The theorems.                                                           *)

LEMMA InitInv == Init => IInv
<1> SUFFICES ASSUME Init PROVE IInv
  OBVIOUS
<1>1. TypeInv /\ ScalarsAreApplied /\ BytesAreApplied
  BY InitType, InitApplied
<1>2. pc = "parse" /\ initial = NoValues /\ expected = NoValues
  BY DEF Init
<1>3. ListsAreFiled
  BY <1>2 DEF ListsAreFiled
<1>4. InputsAreKnown /\ InputsAreLoaded /\ EndIsReached /\ EndIsRead /\ VerdictIsRight
  BY <1>2 DEF InputsAreKnown, Applying, InputsAreLoaded, EndIsReached, EndIsRead,
              VerdictIsRight
<1> QED BY <1>1, <1>3, <1>4 DEF IInv, TypeInv

LEMMA NextInv ==
  ASSUME IInv, [Next]_vars
  PROVE  IInv'
<1>1. /\ TypeInv /\ ListsAreFiled /\ ScalarsAreApplied /\ BytesAreApplied
      /\ InputsAreKnown /\ InputsAreLoaded /\ EndIsReached /\ EndIsRead /\ VerdictIsRight
  BY DEF IInv, TypeInv
<1>2. TypeInv' /\ ListsAreFiled' /\ ScalarsAreApplied' /\ BytesAreApplied'
  BY <1>1, NextType, ListsStep, AppliedStep
<1>3. InputsAreKnown' /\ InputsAreLoaded'
  BY <1>1, KnownStep, LoadedStep
<1>4. EndIsReached' /\ EndIsRead' /\ VerdictIsRight'
  BY <1>1, ReachedStep, ReadStep, RightStep
<1> QED BY <1>2, <1>3, <1>4 DEF IInv, TypeInv

\* The inductive invariant holds in every state.
THEOREM Invariance == Spec => []IInv
<1>1. Init => IInv
  BY InitInv
<1>2. IInv /\ [Next]_vars => IInv'
  BY NextInv
<1> QED BY <1>1, <1>2, PTL DEF Spec

\* Registers, flags, status and storage keep to their shapes: what is stored of
\* the x87 status is never more than Remill keeps.
THEOREM TypeCorrect == Spec => []TypeOK
<1>1. IInv => TypeOK
  BY DEF IInv
<1> QED BY <1>1, Invariance, PTL

\* Whatever the names, sizes and order of the values a plain row lists, the
\* lifted function is entered with all of them and with zeros elsewhere.
THEOREM InputsLoaded == Spec => []InputsAreLoaded
<1>1. IInv => InputsAreLoaded
  BY DEF IInv
<1> QED BY <1>1, Invariance, PTL

\* A plain row passes exactly when the registers and the flags it determines end
\* as it expects, and is skipped exactly when it gives a register that the State
\* does not have: the comparison, with its masks for shifts and rotates by any
\* count, excuses nothing else and blames nothing else.
THEOREM VerdictsRight == Spec => []VerdictIsRight
<1>1. IInv => VerdictIsRight
  BY DEF IInv
<1> QED BY <1>1, Invariance, PTL

=============================================================================
