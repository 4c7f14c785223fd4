------------------------- MODULE CorpusParserProofs -------------------------
(***************************************************************************)
(* Proofs about CorpusParser, for any keys, values, headers and rows and   *)
(* for files of any length: ParseFile accepts exactly the well-formed      *)
(* files and reads from them what they mean, and the two passes agree.     *)
(*                                                                         *)
(* What a file means is defined on the file as a whole, what ParseFile     *)
(* does line by line.  The invariant says of the lines read so far what    *)
(* ParsedIsRight says of all of them, but for the group in progress; the   *)
(* lemmas say what one line more changes of each part of the meaning.      *)
(***************************************************************************)
EXTENDS CorpusParser, DataTheorems, FiniteSetTheorems

----------------------------------------------------------------------------
(* The inductive invariant.                                                *)

\* The lines that count.
Lines == LinesOf(file)

\* No line read so far was bad.
Readable == status # "failed"

\* The header that the lines so far end in, and how the counters follow it.
CountersAgree ==
  /\ (header = NoHeader) = (group = 0)
  /\ group = 0 => rows = <<>> /\ inGroup = 0 /\ warnings = 0
  /\ group > 0 /\ status = "reading" => warnings < group
  /\ caseId = Len(rows) /\ inGroup <= Len(rows)
  /\ remaining # 0 => group = 0

\* The pool is what the lines after its header list.
PoolIsRead ==
  Readable =>
    /\ (remaining = -1) = (Lines = <<>>)
    /\ remaining = -1 => pool = <<>>
    /\ remaining # -1 =>
         /\ Lines[1].is = "data" /\ PoolSize(Lines) = Len(pool) + remaining
         /\ Len(pool) < Len(Lines)
         /\ \A i \in DOMAIN pool :
              Lines[i + 1].is = "value" /\ Lines[i + 1].bytes = pool[i]
    /\ remaining > 0 => Len(Lines) = Len(pool) + 1

\* What has been read of a body is well formed, and a file that is not stays so.
BodyIsRead ==
  /\ Readable /\ remaining = 0 => WellFormed(Lines)
  /\ ~ Readable => ~ WellFormed(Lines)
  /\ status = "parsed" => remaining = 0

\* The header of the group in progress is the last one.
HeaderIsLast ==
  Readable /\ remaining = 0 =>
    /\ group = GroupAt(Lines, Len(Lines))
    /\ group > 0 => header = HeaderAt(Lines, Len(Lines))

\* Every row is what its line says; those of the last group are counted.
RowsAreMeant ==
  Readable /\ remaining = 0 =>
    /\ Len(rows) = Len(RowsAt(Lines))
    /\ \A n \in DOMAIN rows : RowIsMeant(Lines, n, rows[n])
    /\ inGroup = Cardinality({n \in DOMAIN rows : rows[n].group = group})

\* There is a warning for each wrong group but the one in progress.
WarningsAreRight ==
  Readable /\ remaining = 0 =>
    warnings = Cardinality(IF status = "reading" THEN WrongGroups(Lines, rows) \ {group}
                                                 ELSE WrongGroups(Lines, rows))

\* The lines up to line n that start groups, and how many they are.
InstructionsIn(text, n) == {i \in 1..n : text[i].is = "instr"}

NumberOf(text, n) == Cardinality(InstructionsIn(text, n))

\* Line i is the header of group g.
StartsGroup(text, i, g) ==
  i \in InstructionsIn(text, Len(text)) /\ NumberOf(text, i) = g

\* The two passes count the same lines.
PassesAgree ==
  /\ Readable =>
       /\ \A i \in DOMAIN file : file[i].is # "bad header"
       /\ group = NumberOf(file, Len(file))
       /\ group > 0 =>
            \E i \in DOMAIN file : StartsGroup(file, i, group) /\ file[i].header = header
       /\ \A n \in DOMAIN rows : \E i \in DOMAIN file :
            StartsGroup(file, i, rows[n].group) /\ file[i].header.count = rows[n].total
  /\ status = "reading" => at = 0 /\ headers = <<>> /\ scan = "reading"
  /\ Len(headers) = NumberOf(file, at)
  /\ \A i \in InstructionsIn(file, at) :
       headers[NumberOf(file, i)].count = file[i].header.count
  /\ scan = "failed" => \E i \in 1..at : file[i].is = "bad header"
  /\ scan = "parsed" => at = Len(file)

\* The inductive invariant.
IInv ==
  /\ TypeOK /\ CountersAgree /\ PoolIsRead /\ BodyIsRead
  /\ HeaderIsLast /\ RowsAreMeant /\ WarningsAreRight /\ PassesAgree

----------------------------------------------------------------------------
(* The lines of a file, and one line more.                                 *)

\* The lines begin with the header of the pool.
Begun(lines) ==
  lines \in Seq(Line) /\ Len(lines) > 0 /\ PoolSize(lines) \in Nat

\* Lines that start groups are finitely many.
LEMMA HeadersType ==
  ASSUME NEW L, Begun(L), NEW i \in Int
  PROVE  /\ IsFiniteSet(HeadersUpTo(L, i)) /\ GroupAt(L, i) \in Nat
         /\ HeadersUpTo(L, i) \subseteq 2..i
         /\ GroupAt(L, i) = 0 <=> HeadersUpTo(L, i) = {}
<1>1. PoolSize(L) + 2 \in Int /\ PoolSize(L) + 2 >= 2
  BY DEF Begun
<1>2. HeadersUpTo(L, i) \subseteq (PoolSize(L) + 2)..i
  BY DEF HeadersUpTo, Body
<1>3. IsFiniteSet((PoolSize(L) + 2)..i)
  BY <1>1, FS_Interval
<1>4. IsFiniteSet(HeadersUpTo(L, i))
  BY <1>2, <1>3, FS_Subset
<1>5. GroupAt(L, i) \in Nat /\ (GroupAt(L, i) = 0 <=> HeadersUpTo(L, i) = {})
  BY <1>4, FS_CardinalityType, FS_EmptySet DEF GroupAt
<1>6. HeadersUpTo(L, i) \subseteq 2..i
  BY <1>1, <1>2
<1> QED BY <1>4, <1>5, <1>6

\* Further down there are no fewer groups.
LEMMA GroupsAscend ==
  ASSUME NEW L, Begun(L), NEW i \in Int, NEW j \in Int, i <= j
  PROVE  /\ GroupAt(L, i) <= GroupAt(L, j)
         /\ \A h \in HeadersUpTo(L, j) : h > i => GroupAt(L, i) < GroupAt(L, j)
<1> DEFINE H == HeadersUpTo(L, i)
           K == HeadersUpTo(L, j)
<1>1. IsFiniteSet(K) /\ Body(L) \in Int
  BY HeadersType DEF Begun, Body
<1>2. H \subseteq K
  BY <1>1 DEF HeadersUpTo
<1>3. \A h \in H : h <= i
  BY <1>1 DEF HeadersUpTo
<1>4. K \subseteq Int
  BY <1>1 DEF HeadersUpTo
<1>5. Cardinality(H) <= Cardinality(K) /\ (Cardinality(K) = Cardinality(H) => H = K)
  BY <1>1, <1>2, FS_Subset
<1>6. Cardinality(H) \in Nat /\ Cardinality(K) \in Nat
  BY <1>1, <1>2, FS_Subset, FS_CardinalityType
<1>7. GroupAt(L, i) = Cardinality(H) /\ GroupAt(L, j) = Cardinality(K)
  BY DEF GroupAt
<1> HIDE DEF H, K
<1>8. ASSUME NEW h \in K, h > i PROVE Cardinality(H) < Cardinality(K)
  <2>1. h \notin H
    BY <1>3, <1>4, <1>8
  <2> QED BY <1>5, <1>6, <2>1
<1> QED BY <1>5, <1>7, <1>8 DEF K

\* The header of a line is that of the last line up to it that starts a group.
LEMMA LastHeader ==
  ASSUME NEW L, Begun(L), NEW i \in Int, HeadersUpTo(L, i) # {}
  PROVE  \E h \in HeadersUpTo(L, i) :
           /\ \A g \in HeadersUpTo(L, i) : g <= h
           /\ HeaderAt(L, i) = L[h].header
           /\ GroupAt(L, h) = GroupAt(L, i)
<1> DEFINE H == HeadersUpTo(L, i)
           T == {i - h : h \in H}
           top == CHOOSE h \in H : \A g \in H : g <= h
<1>1. H \subseteq 2..i
  BY HeadersType
<1>2. T \in SUBSET Nat /\ T # {}
  BY <1>1
<1>3. PICK t \in T : \A u \in T : t <= u
  <2> HIDE DEF T
  <2> QED BY <1>2, LeastNumber
<1>4. PICK h \in H : t = i - h
  BY <1>3
<1>5. \A g \in H : g <= h
  <2> SUFFICES ASSUME NEW g \in H PROVE g <= h
    OBVIOUS
  <2>1. i - h <= i - g
    BY <1>3, <1>4
  <2>2. g \in Int /\ h \in Int
    BY <1>1
  <2> HIDE DEF H
  <2> QED BY <2>1, <2>2
<1> HIDE DEF H
<1>6. top \in H /\ \A g \in H : g <= top
  BY <1>5
<1>7. HeaderAt(L, i) = L[top].header
  BY DEF HeaderAt, H
<1>8. HeadersUpTo(L, top) = H
  <2> HIDE DEF top
  <2>1. Body(L) \in Int /\ top \in Int /\ top <= i
    <3>1. top \in 2..i
      BY <1>1, <1>6
    <3> QED BY <3>1 DEF Begun, Body
  <2>2. HeadersUpTo(L, top) \subseteq H
    BY <2>1 DEF HeadersUpTo, H
  <2>3. H \subseteq HeadersUpTo(L, top)
    BY <1>6, <2>1 DEF HeadersUpTo, H
  <2> QED BY <2>2, <2>3
<1> HIDE DEF top
<1> QED BY <1>6, <1>7, <1>8 DEF H, GroupAt

\* A line more leaves the groups of those before as they are.
LEMMA LinesGrow ==
  ASSUME NEW L, Begun(L), NEW line \in Line
  PROVE  LET M == Append(L, line)
         IN  /\ Begun(M) /\ Len(M) = Len(L) + 1 /\ M[Len(L) + 1] = line
             /\ PoolSize(M) = PoolSize(L) /\ Body(M) = Body(L)
             /\ \A i \in 1..Len(L) : M[i] = L[i]
             /\ \A i \in Int : i <= Len(L) =>
                  /\ HeadersUpTo(M, i) = HeadersUpTo(L, i)
                  /\ GroupAt(M, i) = GroupAt(L, i)
                  /\ HeadersUpTo(L, i) # {} => HeaderAt(M, i) = HeaderAt(L, i)
<1> DEFINE M == Append(L, line)
<1>1. L \in Seq(Line) /\ Len(L) \in Nat /\ Len(L) > 0 /\ PoolSize(L) \in Nat
  BY DEF Begun
<1>2. M \in Seq(Line) /\ Len(M) = Len(L) + 1 /\ M[Len(L) + 1] = line
      /\ \A i \in 1..Len(L) : M[i] = L[i]
  <2> HIDE DEF Line
  <2> QED BY <1>1
<1> HIDE DEF M
<1>3. PoolSize(M) = PoolSize(L)
  BY <1>1, <1>2 DEF PoolSize
<1>4. Body(M) = Body(L) /\ Body(L) \in Int /\ Body(L) >= 2
  BY <1>1, <1>3 DEF Body
<1>5. Begun(M)
  BY <1>1, <1>2, <1>3 DEF Begun
<1>6. ASSUME NEW i \in Int, i <= Len(L)
      PROVE  /\ HeadersUpTo(M, i) = HeadersUpTo(L, i)
             /\ GroupAt(M, i) = GroupAt(L, i)
             /\ HeadersUpTo(L, i) # {} => HeaderAt(M, i) = HeaderAt(L, i)
  <2>1. \A h \in Body(L)..i : h \in 1..Len(L) /\ M[h] = L[h]
    BY <1>1, <1>2, <1>4, <1>6
  <2>2. HeadersUpTo(M, i) = HeadersUpTo(L, i)
    BY <1>4, <2>1 DEF HeadersUpTo
  <2>3. GroupAt(M, i) = GroupAt(L, i)
    BY <2>2 DEF GroupAt
  <2>4. ASSUME HeadersUpTo(L, i) # {} PROVE HeaderAt(M, i) = HeaderAt(L, i)
    <3> DEFINE top == CHOOSE h \in HeadersUpTo(L, i) :
                        \A g \in HeadersUpTo(L, i) : g <= h
    <3>1. PICK h \in HeadersUpTo(L, i) : \A g \in HeadersUpTo(L, i) : g <= h
      BY <2>4, LastHeader
    <3>2. top \in HeadersUpTo(L, i)
      BY <3>1
    <3>3. HeaderAt(L, i) = L[top].header
      BY DEF HeaderAt
    <3>4. HeaderAt(M, i) = M[top].header
      BY <2>2 DEF HeaderAt
    <3> HIDE DEF top
    <3>5. top \in Body(L)..i
      BY <3>2 DEF HeadersUpTo
    <3> QED BY <2>1, <3>3, <3>4, <3>5
  <2> QED BY <2>2, <2>3, <2>4
<1> QED BY <1>2, <1>3, <1>4, <1>5, <1>6 DEF M

\* A line of the body starts a group, or belongs to the last one.
LEMMA GroupsGrow ==
  ASSUME NEW L, Begun(L), NEW line \in Line, PoolSize(L) < Len(L)
  PROVE  LET M == Append(L, line)
             n == Len(L) + 1
         IN  IF line.is = "instr"
               THEN /\ HeadersUpTo(M, n) = HeadersUpTo(L, Len(L)) \cup {n}
                    /\ GroupAt(M, n) = GroupAt(L, Len(L)) + 1
                    /\ HeaderAt(M, n) = line.header
               ELSE /\ HeadersUpTo(M, n) = HeadersUpTo(L, Len(L))
                    /\ GroupAt(M, n) = GroupAt(L, Len(L))
                    /\ HeadersUpTo(L, Len(L)) # {} =>
                         HeaderAt(M, n) = HeaderAt(L, Len(L))
<1> DEFINE M == Append(L, line)
           n == Len(L) + 1
           H == HeadersUpTo(L, Len(L))
<1>1. Len(L) \in Nat /\ PoolSize(L) \in Nat
  BY DEF Begun
<1>2. /\ Begun(M) /\ Len(M) = n /\ M[n] = line /\ Body(M) = Body(L)
      /\ \A i \in 1..Len(L) : M[i] = L[i]
      /\ HeadersUpTo(M, Len(L)) = H
  BY <1>1, LinesGrow
<1>3. Body(L) \in Int /\ Body(L) <= n /\ n = Len(L) + 1
  BY <1>1 DEF Body
<1>4. IsFiniteSet(H) /\ H \subseteq 2..Len(L) /\ GroupAt(L, Len(L)) = Cardinality(H)
  BY <1>1, HeadersType DEF GroupAt
<1> HIDE DEF M
<1>5. HeadersUpTo(M, n) = IF line.is = "instr" THEN H \cup {n} ELSE H
  <2>1. Body(L)..n = (Body(L)..Len(L)) \cup {n}
    BY <1>1, <1>3
  <2>2. H = {h \in Body(L)..Len(L) : M[h].is = "instr"}
    BY <1>2 DEF HeadersUpTo
  <2>3. HeadersUpTo(M, n) = {h \in (Body(L)..Len(L)) \cup {n} : M[h].is = "instr"}
    BY <1>2, <2>1 DEF HeadersUpTo
  <2>4. M[n].is = line.is
    BY <1>2
  <2> HIDE DEF n, H
  <2> QED BY <2>2, <2>3, <2>4
<1>6. CASE line.is = "instr"
  <2>1. HeadersUpTo(M, n) = H \cup {n} /\ n \notin H
    BY <1>1, <1>4, <1>5, <1>6
  <2>2. Cardinality(H \cup {n}) = Cardinality(H) + 1
    BY <1>4, <2>1, FS_AddElement
  <2>3. GroupAt(M, n) = GroupAt(L, Len(L)) + 1
    BY <1>4, <2>1, <2>2 DEF GroupAt
  <2>4. PICK h \in H \cup {n} :
             (\A g \in H \cup {n} : g <= h) /\ HeaderAt(M, n) = M[h].header
    BY <1>1, <1>2, <2>1, LastHeader
  <2>5. h = n
    <3>1. n <= h
      BY <2>4
    <3>2. h \in H => h <= Len(L) /\ h \in Int
      BY <1>1, <1>4
    <3> HIDE DEF H
    <3> QED BY <1>1, <2>4, <3>1, <3>2
  <2> QED BY <1>2, <1>6, <2>1, <2>3, <2>4, <2>5 DEF M
<1>7. CASE line.is # "instr"
  <2>1. HeadersUpTo(M, n) = H
    BY <1>5, <1>7
  <2>2. GroupAt(M, n) = GroupAt(L, Len(L))
    BY <2>1 DEF GroupAt
  <2>3. ASSUME H # {} PROVE HeaderAt(M, n) = HeaderAt(L, Len(L))
    <3>1. HeaderAt(M, Len(L)) = HeaderAt(L, Len(L))
      BY <1>1, <2>3, LinesGrow DEF M
    <3>2. HeaderAt(M, n) = HeaderAt(M, Len(L))
      BY <1>2, <2>1 DEF HeaderAt
    <3> QED BY <3>1, <3>2
  <2> QED BY <1>7, <2>1, <2>2, <2>3 DEF M
<1> QED BY <1>6, <1>7 DEF M

\* What is in a line.
LEMMA LineType ==
  ASSUME NEW line \in Line
  PROVE  /\ line.is = "data" => line.count \in Counts
         /\ line.is = "value" => line.bytes \in Bytes
         /\ line.is = "instr" => line.header \in Headers
         /\ line.is = "row" => line.row \in RowLines
         /\ line.is \in {"blank", "other", "bad header", "data", "value", "instr", "row"}
BY DEF Line

\* The header of a line is one.
LEMMA HeaderType ==
  ASSUME NEW L, Begun(L), NEW i \in Int, i <= Len(L), HeadersUpTo(L, i) # {}
  PROVE  HeaderAt(L, i) \in Headers
<1>1. PICK h \in HeadersUpTo(L, i) : HeaderAt(L, i) = L[h].header
  BY LastHeader
<1>2. h \in 2..i /\ L[h].is = "instr"
  BY HeadersType DEF HeadersUpTo
<1>3. L[h] \in Line
  <2>1. L \in Seq(Line) /\ h \in 1..Len(L)
    BY <1>2 DEF Begun
  <2> HIDE DEF Line
  <2> QED BY <2>1
<1> QED BY <1>1, <1>2, <1>3, LineType

\* The rows of a file are lines of it.
LEMMA RowsType ==
  ASSUME NEW L, Begun(L)
  PROVE  /\ RowsAt(L) \in Seq(1..Len(L))
         /\ \A n \in DOMAIN RowsAt(L) : L[RowsAt(L)[n]].is = "row"
<1> DEFINE R == {i \in DOMAIN L : L[i].is = "row"}
<1>1. Len(L) \in Nat /\ DOMAIN L = 1..Len(L)
  BY DEF Begun
<1>2. RowsAt(L) \in Seq(R \cap 1..Len(L))
  BY <1>1, AscendingType DEF RowsAt
<1>3. R \cap 1..Len(L) \subseteq 1..Len(L) /\ \A i \in R \cap 1..Len(L) : L[i].is = "row"
  BY <1>1
<1> HIDE DEF R
<1>4. \A n \in DOMAIN RowsAt(L) : RowsAt(L)[n] \in R \cap 1..Len(L)
  BY <1>2
<1> QED BY <1>2, <1>3, <1>4

\* A row more is the last.
LEMMA RowsGrow ==
  ASSUME NEW L, Begun(L), NEW line \in Line
  PROVE  RowsAt(Append(L, line)) =
           IF line.is = "row" THEN Append(RowsAt(L), Len(L) + 1) ELSE RowsAt(L)
<1> DEFINE M == Append(L, line)
           n == Len(L)
           R == {i \in DOMAIN L : L[i].is = "row"}
           Q == {i \in DOMAIN M : M[i].is = "row"}
<1>1. n \in Nat /\ DOMAIN L = 1..n
  BY DEF Begun
<1>2. /\ Len(M) = n + 1 /\ M[n + 1] = line /\ \A i \in 1..n : M[i] = L[i]
      /\ Begun(M)
  BY LinesGrow
<1>3. DOMAIN M = 1..(n + 1)
  BY <1>2 DEF Begun
<1> HIDE DEF M, n
<1>4. \A i \in 1..n : i \in Q <=> i \in R
  BY <1>1, <1>2, <1>3
<1>5. n + 1 \in Q <=> line.is = "row"
  BY <1>1, <1>2, <1>3
<1>6. RowsAt(M) = Ascending(Q, n + 1) /\ RowsAt(L) = Ascending(R, n)
  BY <1>2 DEF RowsAt, n
<1> HIDE DEF Q, R
<1>7. Ascending(Q, n) = Ascending(R, n)
  BY <1>1, <1>4, AscendingSame
<1>8. Ascending(Q, n + 1) =
        IF n + 1 \in Q THEN Append(Ascending(Q, n), n + 1) ELSE Ascending(Q, n)
  BY <1>1, AscendingSteps
<1> QED BY <1>5, <1>6, <1>7, <1>8 DEF M, n

\* A line of the body is in order whatever follows.
LEMMA BodyLinesStay ==
  ASSUME NEW L, Begun(L), NEW line \in Line, NEW i \in Body(L)..Len(L)
  PROVE  IsBodyLine(Append(L, line), i) <=> IsBodyLine(L, i)
<1> DEFINE M == Append(L, line)
<1>1. Body(L) \in Int /\ Body(L) >= 2 /\ Len(L) \in Nat
  BY DEF Body, Begun
<1>2. i \in Int /\ i <= Len(L) /\ i \in 1..Len(L)
  BY <1>1
<1>3. /\ M[i] = L[i] /\ PoolSize(M) = PoolSize(L)
      /\ HeadersUpTo(M, i) = HeadersUpTo(L, i)
      /\ HeadersUpTo(L, i) # {} => HeaderAt(M, i) = HeaderAt(L, i)
  BY <1>2, LinesGrow
<1> HIDE DEF M
<1>4. \A list, schema : InPool(M, list, schema) <=> InPool(L, list, schema)
  BY <1>3 DEF InPool
<1>5. IsBodyLine(M, i) <=> IsBodyLine(L, i)
  BY <1>3, <1>4 DEF IsBodyLine
<1> QED BY <1>5 DEF M

\* A well-formed file stays so exactly if the next line is in order.
LEMMA WellFormedGrows ==
  ASSUME NEW L, Begun(L), NEW line \in Line, WellFormed(L)
  PROVE  WellFormed(Append(L, line)) <=> IsBodyLine(Append(L, line), Len(L) + 1)
<1> DEFINE M == Append(L, line)
<1>1. Len(L) \in Nat /\ Len(L) > 0 /\ PoolSize(L) \in Nat
  BY DEF Begun
<1>2. /\ Begun(M) /\ Len(M) = Len(L) + 1
      /\ PoolSize(M) = PoolSize(L) /\ Body(M) = Body(L)
      /\ \A i \in 1..Len(L) : M[i] = L[i]
  BY LinesGrow
<1>3. \A i \in Body(L)..Len(L) : IsBodyLine(M, i)
  BY BodyLinesStay DEF WellFormed
<1>4. Body(L)..(Len(L) + 1) = (Body(L)..Len(L)) \cup {Len(L) + 1}
  <2>1. Body(L) \in Int /\ Body(L) <= Len(L) + 1
    BY <1>1 DEF Body, WellFormed
  <2> QED BY <1>1, <2>1
<1> HIDE DEF M
<1>5. /\ M # <<>> /\ M[1].is = "data" /\ PoolSize(M) < Len(M)
  <2>1. M # <<>>
    BY <1>1, <1>2
  <2> QED BY <1>1, <1>2, <2>1 DEF WellFormed
<1>6. \A i \in 2..(PoolSize(M) + 1) : M[i].is = "value"
  BY <1>1, <1>2 DEF WellFormed
<1>7. WellFormed(M) <=> \A i \in Body(M)..Len(M) : IsBodyLine(M, i)
  BY <1>5, <1>6 DEF WellFormed
<1>8. WellFormed(M) <=> IsBodyLine(M, Len(L) + 1)
  BY <1>2, <1>3, <1>4, <1>7
<1> QED BY <1>8 DEF M

\* A row is a line of the body, in order.
LEMMA RowsInBody ==
  ASSUME NEW L, Begun(L), WellFormed(L), NEW i \in 1..Len(L), L[i].is = "row"
  PROVE  i \in Body(L)..Len(L) /\ IsBodyLine(L, i)
<1>1. PoolSize(L) \in Nat /\ Len(L) \in Nat
  BY DEF Begun
<1>2. i # 1 /\ i \notin 2..(PoolSize(L) + 1)
  BY DEF WellFormed
<1>3. i \in Body(L)..Len(L)
  BY <1>1, <1>2 DEF Body
<1> QED BY <1>3 DEF WellFormed

\* What a list means depends on the pool alone.
LEMMA MeantGrows ==
  ASSUME NEW L, Begun(L), NEW line \in Line, PoolSize(L) < Len(L),
         NEW schema \in Seq(SchemaKey), NEW list \in Seq(Nat), InPool(L, list, schema)
  PROVE  MeantValues(Append(L, line), schema, list) = MeantValues(L, schema, list)
<1> DEFINE M == Append(L, line)
<1>1. PoolSize(L) \in Nat /\ Len(L) \in Nat /\ \A i \in 1..Len(L) : M[i] = L[i]
  BY LinesGrow DEF Begun
<1> HIDE DEF M
<1>2. ASSUME NEW set PROVE Meant(M, schema, list, set) = Meant(L, schema, list, set)
  <2> DEFINE chosen == Ascending({i \in DOMAIN schema : schema[i] \in set}, Len(schema))
  <2>1. chosen \in Seq(1..Len(schema))
    <3> DEFINE I == {i \in DOMAIN schema : schema[i] \in set}
    <3>1. Len(schema) \in Nat
      OBVIOUS
    <3>2. chosen \in Seq(I \cap 1..Len(schema))
      BY <3>1, AscendingType
    <3>3. I \cap 1..Len(schema) \subseteq 1..Len(schema)
      OBVIOUS
    <3> HIDE DEF chosen, I
    <3> QED BY <3>2, <3>3
  <2>2. Meant(M, schema, list, set) =
          [n \in DOMAIN chosen |-> <<schema[chosen[n]], M[list[chosen[n]] + 2].bytes>>]
    BY DEF Meant
  <2>3. Meant(L, schema, list, set) =
          [n \in DOMAIN chosen |-> <<schema[chosen[n]], L[list[chosen[n]] + 2].bytes>>]
    BY DEF Meant
  <2> HIDE DEF chosen
  <2>4. ASSUME NEW n \in DOMAIN chosen
        PROVE  M[list[chosen[n]] + 2] = L[list[chosen[n]] + 2]
    <3>1. chosen[n] \in DOMAIN list
      <4>1. chosen[n] \in 1..Len(schema)
        BY <2>1
      <4>2. DOMAIN list = 1..Len(schema)
        BY DEF InPool
      <4> QED BY <4>1, <4>2
    <3>2. list[chosen[n]] \in Nat /\ list[chosen[n]] < PoolSize(L)
      BY <3>1 DEF InPool
    <3>3. list[chosen[n]] + 2 \in 1..Len(L)
      BY <1>1, <3>2
    <3> QED BY <1>1, <3>3
  <2> QED BY <2>2, <2>3, <2>4
<1> QED BY <1>2 DEF MeantValues, M

\* A row of the corpus means the same whatever line follows.
LEMMA RowMeantGrows ==
  ASSUME NEW L, Begun(L), NEW line \in Line, WellFormed(L),
         NEW n \in DOMAIN RowsAt(L), NEW row, RowIsMeant(L, n, row)
  PROVE  RowIsMeant(Append(L, line), n, row)
<1> DEFINE M == Append(L, line)
           place == RowsAt(L)
           i == place[n]
           h == HeaderAt(L, i)
           text == L[i].row
           g == GroupAt(L, i)
<1>1. /\ place \in Seq(1..Len(L)) /\ L[i].is = "row"
      /\ Len(L) \in Nat /\ i \in 1..Len(L) /\ n \in Nat
  BY RowsType DEF Begun
<1>2. /\ i \in Body(L)..Len(L) /\ HeadersUpTo(L, i) # {}
      /\ InPool(L, text.in, h.in)
      /\ text.exception = "none" => InPool(L, text.out, h.out)
  <2>1. i \in Body(L)..Len(L) /\ IsBodyLine(L, i)
    BY <1>1, RowsInBody
  <2> QED BY <1>1, <2>1 DEF IsBodyLine
<1>3. /\ h.in \in Seq(SchemaKey) /\ h.out \in Seq(SchemaKey)
      /\ text.in \in Seq(Nat) /\ text.out \in Seq(Nat)
  <2>1. h \in Headers
    BY <1>1, <1>2, HeaderType
  <2>2. L[i] \in Line
    <3>1. L \in Seq(Line)
      BY DEF Begun
    <3> HIDE DEF Line, i
    <3> QED BY <1>1, <3>1
  <2>3. text \in RowLines
    BY <1>1, <2>2, LineType
  <2> HIDE DEF h, text, i
  <2> QED BY <2>1, <2>3, ParserAssumption
<1>4. /\ \A m \in 1..n : RowsAt(M)[m] = place[m] /\ place[m] \in 1..Len(L)
      /\ M[i] = L[i] /\ GroupAt(M, i) = g /\ HeaderAt(M, i) = h
  <2>1. RowsAt(M) = IF line.is = "row" THEN Append(place, Len(L) + 1) ELSE place
    BY RowsGrow
  <2>2. 1..n \subseteq 1..Len(place) /\ DOMAIN place = 1..Len(place) /\ Len(place) \in Nat
    <3> HIDE DEF place
    <3>1. DOMAIN place = 1..Len(place) /\ Len(place) \in Nat
      BY <1>1
    <3> QED BY <3>1 DEF place
  <2>3. \A m \in 1..n : RowsAt(M)[m] = place[m] /\ place[m] \in 1..Len(L)
    <3> HIDE DEF place, M
    <3> QED BY <1>1, <2>1, <2>2
  <2> HIDE DEF place
  <2> QED BY <1>1, <1>2, <2>3, LinesGrow
<1>5. \A m \in 1..n : GroupAt(M, RowsAt(M)[m]) = GroupAt(L, place[m])
  BY <1>1, <1>4, LinesGrow
<1>6. /\ MeantValues(M, h.in, text.in) = MeantValues(L, h.in, text.in)
      /\ text.exception = "none" =>
           MeantValues(M, h.out, text.out) = MeantValues(L, h.out, text.out)
  <2>1. PoolSize(L) < Len(L)
    BY DEF WellFormed
  <2> HIDE DEF h, text, M
  <2> QED BY <1>2, <1>3, <2>1, MeantGrows DEF M
<1>7. RowsAt(M)[n] = i
  BY <1>1, <1>4
<1> DEFINE I == {m \in 1..n : GroupAt(L, place[m]) = g}
<1>8. {m \in 1..n : GroupAt(M, RowsAt(M)[m]) = GroupAt(M, RowsAt(M)[n])} = I
  BY <1>4, <1>5, <1>7
<1>9. /\ row.case = n - 1 /\ row.group = g
      /\ row.index = Cardinality(I) - 1 /\ row.total = h.count
      /\ row.initial = MeantValues(L, h.in, text.in)
      /\ row.exception = text.exception
      /\ row.expected = IF text.exception = "none" THEN MeantValues(L, h.out, text.out)
                                                   ELSE NothingPooled
  BY DEF RowIsMeant
<1> HIDE DEF M, place, i, h, text, g, I
<1>10. RowIsMeant(M, n, row)
  <2>1. /\ HeaderAt(M, RowsAt(M)[n]) = h /\ M[RowsAt(M)[n]].row = text
        /\ GroupAt(M, RowsAt(M)[n]) = g
    BY <1>4, <1>7 DEF text
  <2>2. {m \in 1..n : GroupAt(M, RowsAt(M)[m]) = g} = I
    BY <1>8, <2>1
  <2> QED BY <1>6, <1>9, <2>1, <2>2 DEF RowIsMeant
<1> QED BY <1>10 DEF M

----------------------------------------------------------------------------
(* The values of a row.                                                    *)

\* A key is that of a register or of memory.
LEMMA SchemaKeys ==
  \A k \in SchemaKey : k \notin Memory => k \in [reg : Register]
BY DEF SchemaKey

\* What is taken from the pool.
LEMMA PooledType ==
  ASSUME pool \in Seq(Bytes), NEW schema \in Seq(SchemaKey), NEW list \in Seq(Nat),
         ValidIndices(list, schema)
  PROVE  Pooled(schema, list) \in Values
<1> DEFINE listed == [i \in DOMAIN schema |-> <<schema[i], pool[list[i] + 1]>>]
           n == Len(schema)
           in == {i \in DOMAIN schema : schema[i] \in Memory}
<1>1. n \in Nat /\ DOMAIN schema = 1..n /\ DOMAIN list = 1..n
  BY DEF ValidIndices
<1>2. \A i \in 1..n : schema[i] \in SchemaKey /\ pool[list[i] + 1] \in Bytes
  <2> SUFFICES ASSUME NEW i \in 1..n
               PROVE  schema[i] \in SchemaKey /\ pool[list[i] + 1] \in Bytes
    OBVIOUS
  <2>1. schema[i] \in SchemaKey
    <3> HIDE DEF SchemaKey
    <3> QED BY <1>1
  <2>2. list[i] \in Nat /\ list[i] < Len(pool)
    <3>1. i \in DOMAIN list
      BY <1>1
    <3>2. list[i] < Len(pool)
      BY <3>1 DEF ValidIndices
    <3> QED BY <3>1, <3>2
  <2>3. list[i] + 1 \in 1..Len(pool)
    BY <2>2
  <2>4. pool[list[i] + 1] \in Bytes
    BY <2>3
  <2> QED BY <2>1, <2>4
<1>3. listed \in Seq(SchemaKey \X Bytes) /\ Len(listed) = n
  <2> HIDE DEF n, SchemaKey
  <2>1. listed = [i \in 1..n |-> <<schema[i], pool[list[i] + 1]>>]
    BY <1>1
  <2> HIDE DEF listed
  <2>2. \A i \in 1..n : <<schema[i], pool[list[i] + 1]>> \in SchemaKey \X Bytes
    BY <1>2
  <2> QED BY <1>1, <2>1, <2>2
<1>4. \A i \in 1..n : i \in in => listed[i] \in Memory \X Bytes
  BY <1>1, <1>2
<1>5. \A i \in 1..n : i \in DOMAIN schema \ in => listed[i] \in [reg : Register] \X Bytes
  BY <1>1, <1>2, SchemaKeys
<1>6. Pooled(schema, list) = [registers |-> Only(listed, DOMAIN schema \ in),
                              memory |-> Only(listed, in)]
  BY DEF Pooled
<1> HIDE DEF listed, in, n
<1>7. Only(listed, DOMAIN schema \ in) \in Seq([reg : Register] \X Bytes)
  BY <1>3, <1>5, OnlySome
<1>8. Only(listed, in) \in Seq(Memory \X Bytes)
  BY <1>3, <1>4, OnlySome
<1> QED BY <1>6, <1>7, <1>8 DEF Values

\* It is what the lines of the pool say.
LEMMA PooledIsMeant ==
  ASSUME NEW L, NEW schema \in Seq(SchemaKey), NEW list \in Seq(Nat),
         ValidIndices(list, schema), Len(pool) \in Nat,
         \A i \in 1..Len(pool) : L[i + 1].bytes = pool[i]
  PROVE  Pooled(schema, list) = MeantValues(L, schema, list)
<1> DEFINE listed == [i \in DOMAIN schema |-> <<schema[i], pool[list[i] + 1]>>]
           n == Len(schema)
           in == {i \in DOMAIN schema : schema[i] \in Memory}
<1>1. n \in Nat /\ DOMAIN schema = 1..n /\ DOMAIN list = 1..n
  BY DEF ValidIndices
<1>2. \A i \in 1..n : listed[i] = <<schema[i], L[list[i] + 2].bytes>>
  <2> SUFFICES ASSUME NEW i \in 1..n
               PROVE  listed[i] = <<schema[i], L[list[i] + 2].bytes>>
    OBVIOUS
  <2>1. list[i] \in Nat /\ list[i] < Len(pool)
    BY <1>1 DEF ValidIndices
  <2>2. list[i] + 1 \in 1..Len(pool) /\ list[i] + 1 + 1 = list[i] + 2
    BY <2>1
  <2>3. L[list[i] + 1 + 1].bytes = pool[list[i] + 1]
    BY <2>2
  <2>4. listed[i] = <<schema[i], pool[list[i] + 1]>>
    BY <1>1
  <2> HIDE DEF listed
  <2> QED BY <2>2, <2>3, <2>4
<1>3. listed \in Seq(SchemaKey \X {pool[list[i] + 1] : i \in 1..n}) /\ Len(listed) = n
  <2> HIDE DEF n, SchemaKey
  <2> DEFINE P == {pool[list[i] + 1] : i \in 1..n}
  <2>1. listed = [i \in 1..n |-> <<schema[i], pool[list[i] + 1]>>]
    BY <1>1
  <2>2. \A i \in 1..n : schema[i] \in SchemaKey /\ pool[list[i] + 1] \in P
    BY <1>1
  <2> HIDE DEF listed, P
  <2>3. \A i \in 1..n : <<schema[i], pool[list[i] + 1]>> \in SchemaKey \X P
    BY <2>2
  <2>4. listed \in Seq(SchemaKey \X P) /\ Len(listed) = n
    BY <1>1, <2>1, <2>3
  <2> QED BY <2>4 DEF P
<1>4. ASSUME NEW set, NEW I, \A i \in 1..n : i \in I <=> schema[i] \in set
      PROVE  Only(listed, I) = Meant(L, schema, list, set)
  <2> DEFINE J == {i \in DOMAIN schema : schema[i] \in set}
             chosen == Ascending(I, n)
  <2>1. Ascending(J, n) = chosen
    <3>1. \A i \in 1..n : i \in J <=> i \in I
      BY <1>1, <1>4
    <3> HIDE DEF J, n
    <3> QED BY <1>1, <3>1, AscendingSame
  <2>2. Only(listed, I) = [m \in DOMAIN chosen |-> listed[chosen[m]]]
    <3>1. Len(listed) = n
      BY <1>3
    <3> HIDE DEF listed, n
    <3> QED BY <3>1 DEF Only
  <2>3. Meant(L, schema, list, set) =
          [m \in DOMAIN chosen |-> <<schema[chosen[m]], L[list[chosen[m]] + 2].bytes>>]
    BY <2>1 DEF Meant
  <2>4. \A m \in DOMAIN chosen : chosen[m] \in 1..n
    <3>1. chosen \in Seq(I \cap 1..n)
      BY <1>1, AscendingType
    <3> HIDE DEF chosen, n
    <3> QED BY <3>1
  <2> HIDE DEF chosen, listed, n
  <2>5. \A m \in DOMAIN chosen :
          listed[chosen[m]] = <<schema[chosen[m]], L[list[chosen[m]] + 2].bytes>>
    BY <1>2, <2>4
  <2> QED BY <2>2, <2>3, <2>5
<1>5. Only(listed, in) = Meant(L, schema, list, Memory)
  <2>1. \A i \in 1..n : i \in in <=> schema[i] \in Memory
    BY <1>1
  <2> HIDE DEF listed, in, n
  <2> QED BY <1>4, <2>1
<1>6. Only(listed, DOMAIN schema \ in) = Meant(L, schema, list, SchemaKey \ Memory)
  <2>1. \A i \in 1..n : schema[i] \in SchemaKey
    <3> HIDE DEF SchemaKey
    <3> QED BY <1>1
  <2>2. \A i \in 1..n : i \in DOMAIN schema \ in <=> schema[i] \in SchemaKey \ Memory
    <3> HIDE DEF SchemaKey, Memory, n
    <3> QED BY <1>1, <2>1
  <2> HIDE DEF listed, in, n
  <2> QED BY <1>4, <2>2
<1>7. Pooled(schema, list) = [registers |-> Only(listed, DOMAIN schema \ in),
                              memory |-> Only(listed, in)]
  BY DEF Pooled
<1> HIDE DEF listed, in, n
<1> QED BY <1>5, <1>6, <1>7 DEF MeantValues

----------------------------------------------------------------------------
(* The lines of the file.                                                  *)

\* What is left without the blanks are lines.
LEMMA LinesType ==
  ASSUME NEW text \in Seq(Line)
  PROVE  LinesOf(text) \in Seq(Line)
<1> HIDE DEF Line
<1> QED BY OnlyType DEF LinesOf

\* A blank line changes nothing.
LEMMA LinesAfter ==
  ASSUME NEW text \in Seq(Line), NEW line \in Line
  PROVE  LinesOf(Append(text, line)) = IF line.is = "blank" THEN LinesOf(text)
                                       ELSE Append(LinesOf(text), line)
<1> DEFINE n == Len(text)
           t == Append(text, line)
           I == {i \in DOMAIN text : text[i].is # "blank"}
           J == {i \in DOMAIN t : t[i].is # "blank"}
<1>1. /\ n \in Nat /\ DOMAIN text = 1..n /\ DOMAIN t = 1..(n + 1)
      /\ t[n + 1] = line /\ \A i \in 1..n : t[i] = text[i]
  <2> HIDE DEF Line
  <2> QED OBVIOUS
<1> HIDE DEF n, t
<1>2. \A i \in 1..n : i \in I <=> i \in J
  BY <1>1
<1>3. n + 1 \in J <=> line.is # "blank"
  BY <1>1
<1>4. LinesOf(t) = Only(t, J) /\ LinesOf(text) = Only(text, I)
  BY DEF LinesOf
<1> HIDE DEF I, J, Line
<1>5. Only(t, J) = IF n + 1 \in J THEN Append(Only(text, I), line) ELSE Only(text, I)
  BY <1>2, OnlyAppend DEF n, t
<1> QED BY <1>3, <1>4, <1>5 DEF t

\* Nothing has been read at first.
LEMMA LinesAtFirst == LinesOf(<<>>) = <<>>
<1>1. Ascending({i \in DOMAIN <<>> : <<>>[i].is # "blank"}, Len(<<>>)) = <<>>
  BY AscendingSteps
<1> QED BY <1>1 DEF LinesOf, Only

\* When the header of the pool has been read.
LEMMA LinesBegun ==
  ASSUME TypeOK, PoolIsRead, Readable, remaining # -1
  PROVE  Begun(Lines) /\ Lines \in Seq(Line) /\ PoolSize(Lines) < Len(Lines) + remaining
         /\ Lines[1].is = "data"
<1>1. Lines \in Seq(Line)
  BY LinesType DEF TypeOK, Lines
<1>2. /\ Lines[1].is = "data" /\ PoolSize(Lines) = Len(pool) + remaining
      /\ Len(pool) < Len(Lines)
  BY DEF PoolIsRead
<1>3. Len(Lines) \in Nat /\ Len(pool) \in Nat /\ remaining \in Nat
  BY <1>1 DEF TypeOK
<1>4. Lines[1] \in Line
  <2> HIDE DEF Line
  <2> QED BY <1>1, <1>2, <1>3
<1>5. PoolSize(Lines) \in Nat
  BY <1>2, <1>3
<1> QED BY <1>1, <1>2, <1>3, <1>5 DEF Begun

----------------------------------------------------------------------------
(* The lines that start groups, in both passes.                            *)

\* The headers up to a line and up to the next, and how many they are.
LEMMA NextInstruction ==
  ASSUME NEW text, NEW n \in Nat
  PROVE  /\ InstructionsIn(text, n + 1) =
              IF text[n + 1].is = "instr" THEN InstructionsIn(text, n) \cup {n + 1}
                                          ELSE InstructionsIn(text, n)
         /\ NumberOf(text, n + 1) =
              IF text[n + 1].is = "instr" THEN NumberOf(text, n) + 1
                                          ELSE NumberOf(text, n)
         /\ NumberOf(text, n) \in 0..n
<1>1. 1..(n + 1) = 1..n \cup {n + 1} /\ n + 1 \notin 1..n
  OBVIOUS
<1>2. InstructionsIn(text, n + 1) =
        IF text[n + 1].is = "instr" THEN InstructionsIn(text, n) \cup {n + 1}
                                    ELSE InstructionsIn(text, n)
  BY <1>1 DEF InstructionsIn
<1>3. InstructionsIn(text, n) \subseteq 1..n
  BY DEF InstructionsIn
<1>4. IsFiniteSet(1..n) /\ Cardinality(1..n) = n
  BY FS_Interval
<1>5. /\ IsFiniteSet(InstructionsIn(text, n))
      /\ Cardinality(InstructionsIn(text, n)) <= n
      /\ Cardinality(InstructionsIn(text, n)) \in Nat
  BY <1>3, <1>4, FS_Subset, FS_CardinalityType
<1>6. Cardinality(InstructionsIn(text, n) \cup {n + 1}) =
        Cardinality(InstructionsIn(text, n)) + 1
  BY <1>1, <1>3, <1>5, FS_AddElement
<1> QED BY <1>2, <1>5, <1>6 DEF NumberOf

\* No header comes before the first line.
LEMMA NoInstruction ==
  ASSUME NEW text
  PROVE  InstructionsIn(text, 0) = {} /\ NumberOf(text, 0) = 0
<1>1. InstructionsIn(text, 0) = {}
  BY DEF InstructionsIn
<1> QED BY <1>1, FS_EmptySet DEF NumberOf

\* A line more leaves those before as they are.
LEMMA InstructionsGrow ==
  ASSUME NEW text \in Seq(Line), NEW line \in Line
  PROVE  LET more == Append(text, line)
         IN  /\ \A i \in DOMAIN text : i \in DOMAIN more /\ more[i] = text[i]
             /\ Len(more) = Len(text) + 1 /\ more[Len(text) + 1] = line
             /\ DOMAIN more = DOMAIN text \cup {Len(text) + 1}
             /\ NumberOf(more, Len(text)) = NumberOf(text, Len(text))
             /\ \A i \in DOMAIN text : \A g :
                  StartsGroup(text, i, g) => StartsGroup(more, i, g)
<1> DEFINE more == Append(text, line)
<1>1. /\ Len(text) \in Nat /\ DOMAIN text = 1..Len(text)
      /\ DOMAIN more = 1..(Len(text) + 1) /\ Len(more) = Len(text) + 1
      /\ more[Len(text) + 1] = line /\ \A i \in 1..Len(text) : more[i] = text[i]
  <2> HIDE DEF Line
  <2> QED OBVIOUS
<1> HIDE DEF more
<1>2. 1..(Len(text) + 1) = 1..Len(text) \cup {Len(text) + 1}
  BY <1>1
<1>3. \A n \in Nat : n <= Len(text) =>
        InstructionsIn(more, n) = InstructionsIn(text, n)
  BY <1>1 DEF InstructionsIn
<1>4. \A n \in Nat : n <= Len(text) => NumberOf(more, n) = NumberOf(text, n)
  BY <1>3 DEF NumberOf
<1>5. ASSUME NEW i \in DOMAIN text, NEW g, StartsGroup(text, i, g)
      PROVE  StartsGroup(more, i, g)
  <2>1. i \in InstructionsIn(more, Len(more))
    BY <1>1, <1>5 DEF StartsGroup, InstructionsIn
  <2>2. NumberOf(more, i) = g
    BY <1>1, <1>4, <1>5 DEF StartsGroup
  <2> QED BY <2>1, <2>2 DEF StartsGroup
<1> QED BY <1>1, <1>2, <1>4, <1>5 DEF more

\* The elements of a sequence with one more.
LEMMA OneMore ==
  ASSUME NEW S, NEW s \in Seq(S), NEW e
  PROVE  /\ Len(s) \in Nat /\ DOMAIN s = 1..Len(s)
         /\ Append(s, e) \in Seq(S \cup {e}) /\ Len(Append(s, e)) = Len(s) + 1
         /\ DOMAIN Append(s, e) = DOMAIN s \cup {Len(s) + 1}
         /\ \A i \in DOMAIN Append(s, e) :
              IF i = Len(s) + 1 THEN Append(s, e)[i] = e
                                ELSE i \in DOMAIN s /\ Append(s, e)[i] = s[i]
<1> DEFINE T == S \cup {e}
<1>1. S \subseteq T /\ e \in T
  OBVIOUS
<1> HIDE DEF T
<1>2. s \in Seq(T)
  BY <1>1
<1>3. Append(s, e) \in Seq(T) /\ Len(Append(s, e)) = Len(s) + 1 /\ Len(s) \in Nat
  BY <1>1, <1>2
<1>4. DOMAIN Append(s, e) = 1..(Len(s) + 1) /\ DOMAIN s = 1..Len(s)
  BY <1>2, <1>3
<1>5. 1..(Len(s) + 1) = 1..Len(s) \cup {Len(s) + 1}
  BY <1>3
<1>6. \A i \in 1..Len(s) : Append(s, e)[i] = s[i] /\ i # Len(s) + 1
  BY <1>1, <1>2, <1>3
<1>7. Append(s, e)[Len(s) + 1] = e
  BY <1>1, <1>2, <1>3
<1> QED BY <1>3, <1>4, <1>5, <1>6, <1>7 DEF T

\* A line that starts no group and ends nothing.
LEMMA PassesAgreeAfter ==
  ASSUME IInv, status = "reading", NEW line \in Line, file' = Append(file, line),
         UNCHANGED <<group, header, pass2>>,
         status' = "reading", line.is \notin {"instr", "bad header"},
         \A m \in DOMAIN rows' :
           \/ m \in DOMAIN rows /\ rows'[m] = rows[m]
           \/ group > 0 /\ rows'[m].group = group /\ rows'[m].total = header.count
  PROVE  PassesAgree'
<1> DEFINE n == Len(file)
           more == Append(file, line)
<1>1. file \in Seq(Line) /\ group \in Nat /\ n \in Nat
  <2>1. file \in Seq(Line) /\ group \in Nat
    BY DEF IInv, TypeOK
  <2> QED BY <2>1, OneMore
<1>2. /\ at = 0 /\ headers = <<>> /\ scan = "reading"
      /\ \A i \in DOMAIN file : file[i].is # "bad header"
      /\ group = NumberOf(file, n)
      /\ group > 0 =>
           \E i \in DOMAIN file : StartsGroup(file, i, group) /\ file[i].header = header
      /\ \A m \in DOMAIN rows : \E i \in DOMAIN file :
           StartsGroup(file, i, rows[m].group) /\ file[i].header.count = rows[m].total
  <2>1. PassesAgree /\ Readable
    BY DEF IInv, Readable
  <2> QED BY <2>1 DEF PassesAgree
<1>3. /\ \A i \in DOMAIN file : i \in DOMAIN more /\ more[i] = file[i]
      /\ Len(more) = n + 1 /\ more[n + 1] = line
      /\ DOMAIN more = DOMAIN file \cup {n + 1}
      /\ NumberOf(more, n) = NumberOf(file, n)
      /\ \A i \in DOMAIN file : \A g : StartsGroup(file, i, g) => StartsGroup(more, i, g)
  BY <1>1, InstructionsGrow
<1> HIDE DEF more, n
<1>4. /\ \A i \in DOMAIN more : more[i].is # "bad header"
      /\ NumberOf(more, Len(more)) = group
  <2>1. \A i \in DOMAIN more : more[i].is # "bad header"
    BY <1>2, <1>3
  <2>2. NumberOf(more, n + 1) = NumberOf(more, n)
    BY <1>1, <1>3, NextInstruction
  <2> QED BY <1>2, <1>3, <2>1, <2>2
<1>5. ASSUME NEW i \in DOMAIN file, NEW g, StartsGroup(file, i, g)
      PROVE  i \in DOMAIN more /\ StartsGroup(more, i, g) /\ more[i] = file[i]
  BY <1>3, <1>5
<1>6. group > 0 =>
        \E i \in DOMAIN more : StartsGroup(more, i, group) /\ more[i].header = header
  BY <1>2, <1>5
<1>7. ASSUME NEW m \in DOMAIN rows'
      PROVE  \E i \in DOMAIN more : /\ StartsGroup(more, i, rows'[m].group)
                                    /\ more[i].header.count = rows'[m].total
  <2>1. CASE m \in DOMAIN rows /\ rows'[m] = rows[m]
    <3>1. PICK i \in DOMAIN file : /\ StartsGroup(file, i, rows[m].group)
                                   /\ file[i].header.count = rows[m].total
      BY <1>2, <2>1
    <3>2. i \in DOMAIN more /\ StartsGroup(more, i, rows[m].group) /\ more[i] = file[i]
      BY <1>5, <3>1
    <3> QED BY <2>1, <3>1, <3>2
  <2>2. CASE group > 0 /\ rows'[m].group = group /\ rows'[m].total = header.count
    <3>1. PICK i \in DOMAIN more : StartsGroup(more, i, group) /\ more[i].header = header
      BY <1>6, <2>2
    <3> QED BY <2>2, <3>1
  <2> QED BY <2>1, <2>2
<1>8. Len(<<>>) = 0 /\ InstructionsIn(more, 0) = {} /\ NumberOf(more, 0) = 0
  <2>1. NumberOf(more, 0) \in 0..0
    BY NextInstruction
  <2> QED BY <2>1, NoInstruction
<1>9. file' = more
  BY DEF more
<1> QED BY <1>2, <1>4, <1>6, <1>7, <1>8, <1>9 DEF PassesAgree, pass2, Readable

----------------------------------------------------------------------------
(* The steps keep the invariant.                                           *)

\* What IInv says besides the passes and the type.
Content ==
  PoolIsRead /\ BodyIsRead /\ HeaderIsLast /\ RowsAreMeant /\ WarningsAreRight

\* The text read so far is the same but for blanks.
LEMMA ContentStays ==
  ASSUME CountersAgree, Content, Lines' = Lines,
         UNCHANGED <<status, remaining, pool, header, counters, corpus>>
  PROVE  CountersAgree' /\ Content'
<1>1. /\ status' = status /\ remaining' = remaining /\ pool' = pool /\ header' = header
      /\ group' = group /\ caseId' = caseId /\ inGroup' = inGroup
      /\ rows' = rows /\ warnings' = warnings
  BY DEF counters, corpus
<1> HIDE DEF Lines
<1>2. CountersAgree'
  BY <1>1 DEF CountersAgree
<1>3. PoolIsRead'
  BY <1>1 DEF PoolIsRead, Content, Readable
<1>4. BodyIsRead'
  BY <1>1 DEF BodyIsRead, Content, Readable
<1>5. HeaderIsLast'
  BY <1>1 DEF HeaderIsLast, Content, Readable
<1>6. RowsAreMeant'
  BY <1>1 DEF RowsAreMeant, Content, Readable
<1>7. WarningsAreRight'
  BY <1>1 DEF WarningsAreRight, Content, Readable
<1> QED BY <1>2, <1>3, <1>4, <1>5, <1>6, <1>7 DEF Content

\* TypeOK without the file and what ParseInstructionHeaders keeps.
StateTyped ==
  /\ status \in {"reading", "parsed", "failed"}
  /\ remaining \in Nat \cup {-1}
  /\ pool \in Seq(Bytes)
  /\ header \in Headers \cup {NoHeader}
  /\ group \in Nat /\ caseId \in Nat /\ inGroup \in Nat
  /\ rows \in Seq(ParsedRow)
  /\ warnings \in 0..group

\* A line is read.
LEMMA FileTyped ==
  ASSUME TypeOK, NEW line \in Line, GetLine(line), StateTyped'
  PROVE  TypeOK'
<1>1. /\ file \in Seq(Line) /\ file' = Append(file, line) /\ Len(file) < MaxLines
      /\ at' = at /\ headers' = headers /\ scan' = scan
      /\ MaxLines \in Nat
  BY ParserAssumption DEF TypeOK, GetLine, pass2
<1>2. file' \in Seq(Line) /\ Len(file') = Len(file) + 1 /\ Len(file) \in Nat
  <2>1. file' \in Seq(Line)
    <3> HIDE DEF Line
    <3> QED BY <1>1
  <2> QED BY <1>1, <2>1, OneMore
<1>3. at' \in 0..Len(file') /\ Len(file') <= MaxLines
  BY <1>1, <1>2 DEF TypeOK
<1> QED BY <1>1, <1>2, <1>3 DEF TypeOK, StateTyped

\* Nothing of the file is read.
LEMMA ScanTyped ==
  ASSUME TypeOK, file' = file, StateTyped',
         at' \in 0..Len(file), headers' \in Seq([group : Nat, count : Nat]),
         scan' \in {"reading", "parsed", "failed"}
  PROVE  TypeOK'
BY DEF TypeOK, StateTyped

\* A step that changes the status alone.
LEMMA StateStaysTyped ==
  ASSUME TypeOK, UNCHANGED <<remaining, pool, header, counters, corpus>>,
         status' \in {"reading", "parsed", "failed"}
  PROVE  StateTyped'
<1>1. rows' = rows /\ group' = group
  BY DEF counters, corpus
<1>2. ParsedRow' = ParsedRow
  BY <1>1 DEF ParsedRow
<1> HIDE DEF ParsedRow
<1>3. rows' \in Seq(ParsedRow')
  BY <1>1, <1>2 DEF TypeOK
<1> QED BY <1>1, <1>3 DEF TypeOK, StateTyped, counters, corpus

\* A line that is read is one more, unless it is blank.
LEMMA LinesRead ==
  ASSUME TypeOK, NEW line \in Line, GetLine(line)
  PROVE  /\ Lines' = IF line.is = "blank" THEN Lines ELSE Append(Lines, line)
         /\ Lines \in Seq(Line) /\ Len(Lines) \in Nat
<1>1. file \in Seq(Line) /\ file' = Append(file, line)
  BY DEF TypeOK, GetLine
<1>2. Lines \in Seq(Line)
  BY <1>1, LinesType DEF Lines
<1>3. Len(Lines) \in Nat
  BY <1>2, OneMore
<1> QED BY <1>1, <1>2, <1>3, LinesAfter DEF Lines

\* A blank line is passed over.
LEMMA BlankLineKeeps ==
  ASSUME IInv, NEW line \in Line, BlankLine(line)
  PROVE  IInv'
<1>1. /\ GetLine(line) /\ line.is = "blank"
      /\ UNCHANGED <<status, remaining, pool, header, counters, corpus>>
      /\ status = "reading" /\ file' = Append(file, line) /\ UNCHANGED pass2
  BY DEF BlankLine, GetLine
<1>2. TypeOK'
  <2>1. StateTyped'
    BY <1>1, StateStaysTyped DEF IInv, TypeOK
  <2> QED BY <1>1, <2>1, FileTyped DEF IInv
<1>3. Lines' = Lines
  BY <1>1, LinesRead DEF IInv
<1>4. CountersAgree' /\ Content'
  BY <1>1, <1>3, ContentStays DEF IInv, Content
<1>5. PassesAgree'
  BY <1>1, PassesAgreeAfter DEF counters, corpus
<1> QED BY <1>2, <1>4, <1>5 DEF IInv, Content

\* Between the pool and the body.
LEMMA EmptyBody ==
  ASSUME NEW L, Begun(L), L[1].is = "data", Len(L) = PoolSize(L) + 1,
         \A i \in 2..Len(L) : L[i].is = "value"
  PROVE  /\ WellFormed(L) /\ GroupAt(L, Len(L)) = 0 /\ RowsAt(L) = <<>>
         /\ WrongGroups(L, <<>>) = {}
<1>1. Len(L) \in Nat /\ PoolSize(L) \in Nat
  BY DEF Begun
<1>2. Body(L)..Len(L) = {}
  BY <1>1 DEF Body
<1>3. WellFormed(L)
  <2>1. L # <<>> /\ PoolSize(L) < Len(L)
    BY <1>1
  <2> QED BY <1>2, <2>1 DEF WellFormed
<1>4. HeadersUpTo(L, Len(L)) = {}
  BY <1>2 DEF HeadersUpTo
<1>5. GroupAt(L, Len(L)) = 0
  BY <1>1, <1>4, HeadersType
<1>6. RowsAt(L) = <<>>
  <2> DEFINE s == RowsAt(L)
  <2>1. s \in Seq(1..Len(L)) /\ \A n \in DOMAIN s : L[s[n]].is = "row"
    BY RowsType
  <2> HIDE DEF s
  <2>2. \A n \in DOMAIN s : s[n] \in 1..Len(L)
    BY <2>1
  <2>3. \A i \in 1..Len(L) : i = 1 \/ i \in 2..Len(L)
    BY <1>1
  <2>4. DOMAIN s = {}
    BY <2>1, <2>2, <2>3
  <2>5. s = <<>>
    BY <2>1, <2>4
  <2> QED BY <2>5 DEF s
<1>7. WrongGroups(L, <<>>) = {}
  BY <1>4 DEF WrongGroups
<1> QED BY <1>3, <1>5, <1>6, <1>7

\* The header of the pool comes first; a pool of no values is read with it.
LEMMA DataHeaderKeeps ==
  ASSUME IInv, NEW line \in Line, DataHeader(line)
  PROVE  IInv'
<1>1. /\ GetLine(line) /\ line.is = "data" /\ remaining = -1
      /\ remaining' = line.count
      /\ UNCHANGED <<status, pool, header, counters, corpus>>
      /\ status = "reading" /\ file' = Append(file, line) /\ UNCHANGED pass2
  BY DEF DataHeader, GetLine
<1>2. line.count \in Nat
  BY <1>1, LineType, ParserAssumption
<1>3. /\ TypeOK /\ Lines = <<>> /\ pool = <<>> /\ header = NoHeader /\ group = 0
      /\ rows = <<>> /\ inGroup = 0 /\ warnings = 0 /\ caseId = 0
  BY <1>1 DEF IInv, PoolIsRead, CountersAgree, Readable
<1>4. /\ status' = "reading" /\ pool' = <<>> /\ header' = NoHeader /\ group' = 0
      /\ rows' = <<>> /\ inGroup' = 0 /\ warnings' = 0 /\ caseId' = 0
  BY <1>1, <1>3 DEF counters, corpus
<1>5. StateTyped'
  BY <1>1, <1>2, <1>4 DEF StateTyped
<1>6. TypeOK'
  BY <1>1, <1>3, <1>5, FileTyped
<1>7. /\ Lines' = Append(<<>>, line) /\ Lines' \in Seq(Line)
      /\ Len(Lines') = 1 /\ Lines'[1] = line
  <2>1. Lines' = Append(<<>>, line)
    BY <1>1, <1>3, LinesRead
  <2>2. <<>> \in Seq(Line) /\ Len(<<>>) = 0
    OBVIOUS
  <2> HIDE DEF Line
  <2> QED BY <2>1, <2>2
<1>8. PoolSize(Lines') = remaining' /\ Begun(Lines')
  BY <1>1, <1>2, <1>7 DEF PoolSize, Begun
<1>9. remaining' = 0 => /\ WellFormed(Lines') /\ GroupAt(Lines', Len(Lines')) = 0
                        /\ RowsAt(Lines') = <<>> /\ WrongGroups(Lines', <<>>) = {}
  <2> DEFINE L == Lines'
  <2>1. /\ Begun(L) /\ L[1].is = "data" /\ Len(L) = 1 /\ PoolSize(L) = remaining'
    BY <1>1, <1>7, <1>8
  <2> HIDE DEF L
  <2>2. remaining' = 0 =>
          Len(L) = PoolSize(L) + 1 /\ \A i \in 2..Len(L) : L[i].is = "value"
    BY <2>1
  <2>3. remaining' = 0 => /\ WellFormed(L) /\ GroupAt(L, Len(L)) = 0
                          /\ RowsAt(L) = <<>> /\ WrongGroups(L, <<>>) = {}
    BY <2>1, <2>2, EmptyBody
  <2> QED BY <2>3 DEF L
<1>10. CountersAgree'
  BY <1>4 DEF CountersAgree
<1>11. PoolIsRead'
  <2>1. Len(<<>>) = 0 /\ DOMAIN <<>> = {} /\ Append(<<>>, line) # <<>>
    OBVIOUS
  <2>2. Lines' # <<>>
    BY <1>7
  <2> QED BY <1>1, <1>2, <1>4, <1>7, <1>8, <2>1, <2>2 DEF PoolIsRead
<1>12. BodyIsRead' /\ HeaderIsLast'
  BY <1>4, <1>9 DEF BodyIsRead, HeaderIsLast, Readable
<1>13. RowsAreMeant' /\ WarningsAreRight'
  <2>1. DOMAIN <<>> = {} /\ Cardinality({}) = 0
    BY FS_EmptySet
  <2> QED BY <1>4, <1>9, <2>1 DEF RowsAreMeant, WarningsAreRight
<1>14. PassesAgree'
  BY <1>1, <1>3, <1>4, PassesAgreeAfter
<1> QED BY <1>6, <1>10, <1>11, <1>12, <1>13, <1>14 DEF IInv

\* A value is added to the pool; the body begins after the last.
LEMMA DataPoolValueKeeps ==
  ASSUME IInv, NEW line \in Line, DataPoolValue(line)
  PROVE  IInv'
<1> DEFINE L == Lines
           M == Append(Lines, line)
<1>1. /\ GetLine(line) /\ line.is = "value" /\ remaining > 0
      /\ pool' = Append(pool, line.bytes) /\ remaining' = remaining - 1
      /\ UNCHANGED <<status, header, counters, corpus>>
      /\ status = "reading" /\ file' = Append(file, line) /\ UNCHANGED pass2
  BY DEF DataPoolValue, GetLine
<1>2. /\ TypeOK /\ PoolIsRead /\ CountersAgree /\ Readable
      /\ remaining \in Nat /\ remaining # -1 /\ remaining # 0 /\ pool \in Seq(Bytes)
      /\ line.bytes \in Bytes
  <2>1. TypeOK /\ PoolIsRead /\ CountersAgree /\ Readable
    BY <1>1 DEF IInv, Readable
  <2>2. remaining \in Nat \cup {-1} /\ pool \in Seq(Bytes)
    BY <2>1 DEF TypeOK
  <2>3. line.bytes \in Bytes
    BY <1>1, LineType
  <2> HIDE DEF Line
  <2> QED BY <1>1, <2>1, <2>2, <2>3
<1>3. /\ L[1].is = "data" /\ PoolSize(L) = Len(pool) + remaining
      /\ Len(L) = Len(pool) + 1
      /\ \A i \in DOMAIN pool : L[i + 1].is = "value" /\ L[i + 1].bytes = pool[i]
      /\ header = NoHeader /\ group = 0
      /\ rows = <<>> /\ inGroup = 0 /\ warnings = 0 /\ caseId = 0
  <2>1. header = NoHeader /\ group = 0 /\ rows = <<>> /\ inGroup = 0 /\ warnings = 0
        /\ caseId = Len(rows)
    BY <1>2 DEF CountersAgree
  <2>2. Len(<<>>) = 0
    OBVIOUS
  <2> QED BY <1>1, <1>2, <2>1, <2>2 DEF PoolIsRead
<1>4. Begun(L)
  BY <1>2, LinesBegun
<1>5. Lines' = M
  BY <1>1, <1>2, LinesRead
<1>6. /\ Begun(M) /\ Len(M) = Len(L) + 1 /\ M[Len(L) + 1] = line
      /\ PoolSize(M) = PoolSize(L) /\ \A i \in 1..Len(L) : M[i] = L[i]
  BY <1>4, LinesGrow
<1>7. /\ pool' \in Seq(Bytes) /\ Len(pool') = Len(pool) + 1 /\ Len(pool) \in Nat
      /\ DOMAIN pool = 1..Len(pool) /\ DOMAIN pool' = 1..(Len(pool) + 1)
      /\ pool'[Len(pool) + 1] = line.bytes
      /\ \A i \in 1..Len(pool) : pool'[i] = pool[i]
  BY <1>1, <1>2
<1>8. /\ status' = "reading" /\ header' = NoHeader /\ group' = 0
      /\ rows' = <<>> /\ inGroup' = 0 /\ warnings' = 0 /\ caseId' = 0
  BY <1>1, <1>3 DEF counters, corpus
<1>9. StateTyped'
  BY <1>1, <1>2, <1>7, <1>8 DEF StateTyped
<1>10. TypeOK'
  BY <1>1, <1>2, <1>9, FileTyped
<1> HIDE DEF M, L
<1>11. \A i \in DOMAIN pool' : M[i + 1].is = "value" /\ M[i + 1].bytes = pool'[i]
  <2> SUFFICES ASSUME NEW i \in 1..(Len(pool) + 1)
               PROVE  M[i + 1].is = "value" /\ M[i + 1].bytes = pool'[i]
    BY <1>7
  <2>1. CASE i = Len(pool) + 1
    BY <1>1, <1>3, <1>6, <1>7, <2>1
  <2>2. CASE i \in 1..Len(pool)
    <3>1. i + 1 \in 1..Len(L)
      BY <1>3, <1>7, <2>2
    <3>2. M[i + 1] = L[i + 1] /\ pool'[i] = pool[i]
      BY <1>6, <1>7, <2>2, <3>1
    <3> QED BY <1>3, <1>7, <2>2, <3>2
  <2> QED BY <1>7, <2>1, <2>2
<1>12. /\ M[1].is = "data" /\ Len(M) = Len(pool') + 1
       /\ PoolSize(M) = Len(pool') + remaining'
  BY <1>1, <1>2, <1>3, <1>6, <1>7
<1>13. remaining' = 0 => /\ WellFormed(M) /\ GroupAt(M, Len(M)) = 0
                         /\ RowsAt(M) = <<>> /\ WrongGroups(M, <<>>) = {}
  <2>1. ASSUME remaining' = 0
        PROVE  Len(M) = PoolSize(M) + 1 /\ \A i \in 2..Len(M) : M[i].is = "value"
    <3>1. Len(M) = PoolSize(M) + 1
      BY <1>7, <1>12, <2>1
    <3>2. ASSUME NEW i \in 2..Len(M) PROVE M[i].is = "value"
      <4>1. i - 1 \in DOMAIN pool' /\ i - 1 + 1 = i
        BY <1>7, <1>12
      <4> QED BY <1>11, <4>1
    <3> QED BY <3>1, <3>2
  <2> QED BY <1>6, <1>12, <2>1, EmptyBody
<1>14. CountersAgree'
  BY <1>8 DEF CountersAgree
<1>15. PoolIsRead'
  <2>1. M # <<>> /\ remaining' # -1 /\ Len(pool') < Len(M)
    <3>1. Len(M) > 0
      BY <1>6 DEF Begun
    <3> QED BY <1>1, <1>2, <1>7, <1>12, <3>1
  <2> QED BY <1>5, <1>11, <1>12, <2>1 DEF PoolIsRead, M
<1>16. BodyIsRead' /\ HeaderIsLast'
  BY <1>5, <1>8, <1>13 DEF BodyIsRead, HeaderIsLast, Readable, M
<1>17. RowsAreMeant' /\ WarningsAreRight'
  <2>1. DOMAIN <<>> = {} /\ Cardinality({}) = 0
    BY FS_EmptySet
  <2> QED BY <1>5, <1>8, <1>13, <2>1 DEF RowsAreMeant, WarningsAreRight, M
<1>18. PassesAgree'
  BY <1>1, <1>3, <1>8, PassesAgreeAfter
<1> QED BY <1>10, <1>14, <1>15, <1>16, <1>17, <1>18 DEF IInv

\* A line that is no body line, or none where it stands, is no part of a
\* well-formed file.
LEMMA BadLineKeeps ==
  ASSUME IInv, NEW line \in Line, BadLine(line)
  PROVE  IInv'
<1> DEFINE L == Lines
           M == Append(Lines, line)
           n == Len(Lines)
<1>1. /\ GetLine(line) /\ line.is # "blank" /\ status' = "failed"
      /\ UNCHANGED <<remaining, pool, header, counters, corpus>>
      /\ status = "reading" /\ file' = Append(file, line) /\ UNCHANGED pass2
  BY DEF BadLine, GetLine, Fail
<1>2. /\ remaining = -1 => line.is # "data"
      /\ remaining > 0 => line.is # "value"
      /\ remaining = 0 =>
           \/ line.is \notin {"instr", "row"}
           \/ line.is = "row" /\ (header = NoHeader \/ ~ ValidRow(line.row))
  BY DEF BadLine, IInv, TypeOK
<1>3. /\ TypeOK /\ PoolIsRead /\ CountersAgree /\ Readable /\ BodyIsRead /\ HeaderIsLast
      /\ remaining \in Nat \cup {-1} /\ group \in Nat
  BY <1>1 DEF IInv, TypeOK, Readable
<1>4. Lines' = M /\ L \in Seq(Line) /\ n \in Nat
  BY <1>1, <1>3, LinesRead
<1>5. Len(M) = n + 1 /\ M[n + 1] = line /\ \A i \in 1..n : M[i] = L[i]
  <2> HIDE DEF Line, L
  <2> QED BY <1>4 DEF L
<1> HIDE DEF M, L
<1>6. ~ WellFormed(M)
  <2>1. CASE remaining = -1
    <3>1. L = <<>> /\ line.is # "data"
      BY <1>2, <1>3, <2>1 DEF PoolIsRead, L
    <3>2. n = 0 /\ M[1] = line
      BY <1>5, <3>1 DEF L
    <3> QED BY <3>1, <3>2 DEF WellFormed
  <2>2. CASE remaining > 0
    <3>1. line.is # "value" /\ remaining # -1
      BY <1>2, <1>3, <2>2
    <3>2. PoolSize(L) = Len(pool) + remaining /\ n = Len(pool) + 1 /\ Len(pool) \in Nat
      BY <1>3, <2>2, <3>1 DEF PoolIsRead, L, TypeOK
    <3>3. PoolSize(M) = PoolSize(L)
      BY <1>3, <3>1, LinesBegun, LinesGrow DEF M, L
    <3>4. n + 1 \in 2..(PoolSize(M) + 1)
      BY <1>3, <2>2, <3>2, <3>3
    <3> QED BY <1>5, <3>1, <3>4 DEF WellFormed
  <2>3. CASE remaining = 0
    <3>1. /\ Begun(L) /\ WellFormed(L) /\ PoolSize(L) < Len(L)
          /\ PoolSize(L) = Len(pool)
      <4>1. Begun(L) /\ WellFormed(L)
        BY <1>3, <2>3, LinesBegun DEF BodyIsRead, L
      <4>2. PoolSize(L) = Len(pool) + remaining /\ Len(pool) \in Nat
        BY <1>3, <2>3 DEF PoolIsRead, L, TypeOK
      <4> QED BY <2>3, <4>1, <4>2 DEF WellFormed
    <3>2. WellFormed(M) <=> IsBodyLine(M, n + 1)
      BY <3>1, WellFormedGrows DEF M, L
    <3>3. \/ line.is \notin {"instr", "row"}
          \/ line.is = "row" /\ (header = NoHeader \/ ~ ValidRow(line.row))
      BY <1>2, <2>3
    <3>4. CASE line.is \notin {"instr", "row"}
      BY <1>5, <3>2, <3>4 DEF IsBodyLine
    <3>5. CASE line.is = "row" /\ header = NoHeader
      <4>1. GroupAt(L, n) = 0
        BY <1>3, <2>3, <3>5 DEF HeaderIsLast, CountersAgree, L
      <4>2. HeadersUpTo(L, n) = {}
        BY <1>4, <3>1, <4>1, HeadersType
      <4>3. HeadersUpTo(M, n + 1) = {}
        BY <3>1, <3>5, <4>2, GroupsGrow DEF M, L
      <4> QED BY <1>5, <3>2, <3>5, <4>3 DEF IsBodyLine
    <3>6. CASE line.is = "row" /\ header # NoHeader /\ ~ ValidRow(line.row)
      <4>1. GroupAt(L, n) # 0 /\ header = HeaderAt(L, n)
        BY <1>3, <2>3, <3>6 DEF HeaderIsLast, CountersAgree, L
      <4>2. HeadersUpTo(L, n) # {}
        BY <1>4, <3>1, <4>1, HeadersType
      <4>3. HeaderAt(M, n + 1) = header
        BY <3>1, <3>6, <4>1, <4>2, GroupsGrow DEF M, L
      <4>4. PoolSize(M) = Len(pool)
        BY <3>1, LinesGrow DEF M, L
      <4>5. \A list, schema : InPool(M, list, schema) <=> ValidIndices(list, schema)
        BY <4>4 DEF InPool, ValidIndices
      <4>6. ~ IsBodyLine(M, n + 1)
        BY <1>5, <3>6, <4>3, <4>5 DEF IsBodyLine, ValidRow
      <4> QED BY <3>2, <4>6
    <3> QED BY <3>3, <3>4, <3>5, <3>6
  <2> QED BY <1>3, <2>1, <2>2, <2>3
<1>7. TypeOK'
  <2>1. StateTyped'
    BY <1>1, <1>3, StateStaysTyped
  <2> QED BY <1>1, <1>3, <2>1, FileTyped
<1>8. CountersAgree'
  BY <1>1, <1>3 DEF CountersAgree, counters, corpus
<1>9. Content'
  BY <1>1, <1>4, <1>6
     DEF Content, Readable, PoolIsRead, BodyIsRead, HeaderIsLast, RowsAreMeant,
         WarningsAreRight
<1>10. PassesAgree'
  <2>1. at = 0 /\ headers = <<>> /\ scan = "reading" /\ Len(<<>>) = 0
    BY <1>1 DEF IInv, PassesAgree
  <2> QED BY <1>1, <2>1, NoInstruction DEF PassesAgree, Readable, pass2
<1> QED BY <1>7, <1>8, <1>9, <1>10 DEF IInv, Content

----------------------------------------------------------------------------
(* The groups that have another number of rows than they declare.          *)

\* A line of the last group has its header.
LEMMA LastGroup ==
  ASSUME NEW L, Begun(L), NEW n \in Int, NEW h \in HeadersUpTo(L, n),
         GroupAt(L, h) = GroupAt(L, n)
  PROVE  L[h].header = HeaderAt(L, n)
<1>1. PICK top \in HeadersUpTo(L, n) :
           /\ \A g \in HeadersUpTo(L, n) : g <= top
           /\ HeaderAt(L, n) = L[top].header
           /\ GroupAt(L, top) = GroupAt(L, n)
  BY LastHeader
<1>2. h \in Int /\ top \in Int /\ h <= top
  <2>1. HeadersUpTo(L, n) \subseteq 2..n
    BY HeadersType
  <2> QED BY <1>1, <2>1
<1>3. top \in HeadersUpTo(L, top)
  <2>1. Body(L) \in Int
    BY DEF Begun, Body
  <2> QED BY <1>1, <1>2, <2>1 DEF HeadersUpTo
<1>4. h < top => GroupAt(L, h) < GroupAt(L, top)
  BY <1>2, <1>3, GroupsAscend
<1>5. GroupAt(L, h) \in Nat
  BY <1>2, HeadersType
<1>6. h = top
  BY <1>1, <1>2, <1>4, <1>5
<1> QED BY <1>1, <1>6

\* Whether the last group is among the wrong ones.
LEMMA LastWrong ==
  ASSUME NEW L, Begun(L), NEW read
  PROVE  LET g == GroupAt(L, Len(L))
         IN  /\ IsFiniteSet(WrongGroups(L, read))
             /\ g = 0 => WrongGroups(L, read) = {}
             /\ g > 0 =>
                  (g \in WrongGroups(L, read) <=>
                     Cardinality({n \in DOMAIN read : read[n].group = g})
                       # HeaderAt(L, Len(L)).count)
<1> DEFINE g == GroupAt(L, Len(L))
<1>1. Len(L) \in Int /\ g \in Nat
  BY HeadersType DEF Begun
<1>2. WrongGroups(L, read) \subseteq 1..g
  BY DEF WrongGroups
<1>3. IsFiniteSet(WrongGroups(L, read)) /\ (g = 0 => WrongGroups(L, read) = {})
  <2>1. IsFiniteSet(1..g) /\ (g = 0 => 1..g = {})
    BY <1>1, FS_Interval
  <2> QED BY <1>2, <2>1, FS_Subset
<1>4. ASSUME g > 0 PROVE \E h \in HeadersUpTo(L, Len(L)) : GroupAt(L, h) = g
  <2>1. HeadersUpTo(L, Len(L)) # {}
    BY <1>1, <1>4, HeadersType
  <2> QED BY <1>1, <2>1, LastHeader
<1>5. \A h \in HeadersUpTo(L, Len(L)) :
        GroupAt(L, h) = g => L[h].header = HeaderAt(L, Len(L))
  BY <1>1, LastGroup
<1>6. g > 0 => g \in 1..g
  BY <1>1
<1> HIDE DEF g
<1>7. g > 0 => (g \in WrongGroups(L, read) <=>
                  Cardinality({n \in DOMAIN read : read[n].group = g})
                    # HeaderAt(L, Len(L)).count)
  BY <1>4, <1>5, <1>6 DEF WrongGroups, g
<1> QED BY <1>3, <1>7 DEF g

\* A new group says nothing of those before.
LEMMA WrongGroupsGrow ==
  ASSUME NEW L, Begun(L), PoolSize(L) < Len(L), NEW line \in Line, NEW read,
         line.is = "instr"
  PROVE  WrongGroups(Append(L, line), read) \ {GroupAt(L, Len(L)) + 1} =
           WrongGroups(L, read)
<1> DEFINE M == Append(L, line)
           n == Len(L)
           G == GroupAt(L, n)
           H == HeadersUpTo(L, n)
           Wrong(h, g) == Cardinality({m \in DOMAIN read : read[m].group = g}) # h.count
<1>1. n \in Nat /\ G \in Nat /\ H \subseteq 2..n
  <2>1. n \in Nat
    BY DEF Begun
  <2> QED BY <2>1, HeadersType
<1>2. /\ Len(M) = n + 1 /\ HeadersUpTo(M, n + 1) = H \cup {n + 1}
      /\ GroupAt(M, n + 1) = G + 1 /\ Begun(M)
  BY LinesGrow, GroupsGrow
<1>3. \A h \in H : M[h] = L[h] /\ GroupAt(M, h) = GroupAt(L, h)
  <2>1. \A h \in H : h \in 1..n /\ h \in Int /\ h <= n
    BY <1>1
  <2> QED BY <2>1, LinesGrow
<1>4. WrongGroups(M, read) =
        {g \in 1..(G + 1) : \E h \in H \cup {n + 1} :
                              GroupAt(M, h) = g /\ Wrong(M[h].header, g)}
  BY <1>2 DEF WrongGroups
<1>5. WrongGroups(L, read) =
        {g \in 1..G : \E h \in H : GroupAt(L, h) = g /\ Wrong(L[h].header, g)}
  BY DEF WrongGroups
<1> HIDE DEF M, n, G, H, Wrong
<1>6. \A g \in 1..(G + 1) : g # G + 1 => g \in 1..G
  BY <1>1
<1>7. \A g \in 1..G : g \in 1..(G + 1) /\ g # G + 1
  BY <1>1
<1>8. ASSUME NEW g \in 1..G
      PROVE  (\E h \in H \cup {n + 1} : GroupAt(M, h) = g /\ Wrong(M[h].header, g))
             <=> \E h \in H : GroupAt(L, h) = g /\ Wrong(L[h].header, g)
  <2>1. GroupAt(M, n + 1) # g
    BY <1>2, <1>7
  <2> QED BY <1>3, <2>1
<1>9. WrongGroups(M, read) \ {G + 1} = WrongGroups(L, read)
  BY <1>4, <1>5, <1>6, <1>7, <1>8
<1> QED BY <1>9 DEF M, G, n

\* A row says nothing of the groups before its own.
LEMMA WrongGroupsStay ==
  ASSUME NEW L, Begun(L), PoolSize(L) < Len(L), NEW line \in Line,
         NEW R, NEW read \in Seq(R), NEW row,
         line.is = "row", row.group = GroupAt(L, Len(L))
  PROVE  WrongGroups(Append(L, line), Append(read, row)) \ {row.group} =
           WrongGroups(L, read) \ {row.group}
<1> DEFINE M == Append(L, line)
           more == Append(read, row)
           n == Len(L)
           G == GroupAt(L, n)
           H == HeadersUpTo(L, n)
           Of(s, g) == {m \in DOMAIN s : s[m].group = g}
<1>1. n \in Nat /\ G \in Nat /\ H \subseteq 2..n
  <2>1. n \in Nat
    BY DEF Begun
  <2> QED BY <2>1, HeadersType
<1>2. /\ Len(M) = n + 1 /\ HeadersUpTo(M, n + 1) = H
      /\ GroupAt(M, n + 1) = G /\ Begun(M)
  BY LinesGrow, GroupsGrow
<1>3. \A h \in H : M[h] = L[h] /\ GroupAt(M, h) = GroupAt(L, h)
  <2>1. \A h \in H : h \in 1..n /\ h \in Int /\ h <= n
    BY <1>1
  <2> QED BY <2>1, LinesGrow
<1>4. WrongGroups(M, more) =
        {g \in 1..G : \E h \in H : /\ GroupAt(M, h) = g
                                   /\ Cardinality(Of(more, g)) # M[h].header.count}
  BY <1>2 DEF WrongGroups
<1>5. WrongGroups(L, read) =
        {g \in 1..G : \E h \in H : /\ GroupAt(L, h) = g
                                   /\ Cardinality(Of(read, g)) # L[h].header.count}
  BY DEF WrongGroups
<1>6. /\ DOMAIN more = DOMAIN read \cup {Len(read) + 1}
      /\ \A m \in DOMAIN read : m # Len(read) + 1 /\ more[m] = read[m]
      /\ more[Len(read) + 1] = row
  <2> HIDE DEF more
  <2>1. /\ Len(read) \in Nat /\ DOMAIN read = 1..Len(read)
        /\ DOMAIN more = DOMAIN read \cup {Len(read) + 1}
        /\ \A i \in DOMAIN more :
              IF i = Len(read) + 1 THEN more[i] = row
                                ELSE i \in DOMAIN read /\ more[i] = read[i]
    BY OneMore DEF more
  <2>2. Len(read) + 1 \notin DOMAIN read
    BY <2>1
  <2> QED BY <2>1, <2>2
<1> HIDE DEF M, more, n, H
<1>7. ASSUME NEW g, g # G PROVE Of(more, g) = Of(read, g)
  <2>1. row.group # g
    BY <1>7 DEF n
  <2> HIDE DEF G
  <2> QED BY <1>6, <2>1
<1>8. G = row.group
  BY DEF n
<1> HIDE DEF G, Of
<1>9. \A g \in 1..G : g # G => (g \in WrongGroups(M, more) <=> g \in WrongGroups(L, read))
  BY <1>3, <1>4, <1>5, <1>7
<1>10. WrongGroups(M, more) \subseteq 1..G /\ WrongGroups(L, read) \subseteq 1..G
  BY <1>4, <1>5
<1> HIDE DEF Of
<1>11. WrongGroups(M, more) \ {G} = WrongGroups(L, read) \ {G}
  BY <1>9, <1>10
<1> QED BY <1>8, <1>11 DEF M, more

----------------------------------------------------------------------------
(* The steps in the body keep the invariant.                               *)

\* Where the body has been reached.
LEMMA InBody ==
  ASSUME IInv, Readable, remaining = 0
  PROVE  /\ Begun(Lines) /\ WellFormed(Lines) /\ PoolSize(Lines) < Len(Lines)
         /\ PoolSize(Lines) = Len(pool) /\ Lines # <<>> /\ Lines[1].is = "data"
         /\ Len(Lines) \in Nat /\ Len(pool) \in Nat
         /\ \A i \in 1..Len(pool) :
              Lines[i + 1].is = "value" /\ Lines[i + 1].bytes = pool[i]
<1>1. TypeOK /\ PoolIsRead /\ BodyIsRead /\ remaining # -1
  BY DEF IInv
<1>2. Begun(Lines) /\ WellFormed(Lines)
  BY <1>1, LinesBegun DEF BodyIsRead
<1>3. pool \in Seq(Bytes) /\ Len(pool) \in Nat /\ DOMAIN pool = 1..Len(pool)
  <2>1. pool \in Seq(Bytes)
    BY <1>1 DEF TypeOK
  <2> QED BY <2>1
<1>4. /\ Lines[1].is = "data" /\ PoolSize(Lines) = Len(pool) + remaining
      /\ Len(pool) < Len(Lines)
      /\ \A i \in DOMAIN pool :
           Lines[i + 1].is = "value" /\ Lines[i + 1].bytes = pool[i]
  BY <1>1 DEF PoolIsRead
<1>5. Len(Lines) \in Nat /\ Lines # <<>> /\ PoolSize(Lines) < Len(Lines)
  BY <1>2 DEF Begun, WellFormed
<1> QED BY <1>2, <1>3, <1>4, <1>5

\* The pool stays what it is.
LEMMA PoolStays ==
  ASSUME IInv, Readable, remaining = 0, NEW line \in Line, GetLine(line),
         line.is # "blank", UNCHANGED <<status, remaining, pool>>
  PROVE  PoolIsRead' /\ Lines' = Append(Lines, line)
<1> DEFINE L == Lines
           M == Append(L, line)
<1>1. Lines' = M
  BY LinesRead DEF IInv
<1>2. /\ Begun(L) /\ L[1].is = "data" /\ Len(L) \in Nat /\ Len(pool) < Len(L)
      /\ PoolSize(L) = Len(pool) /\ Len(pool) \in Nat
      /\ \A i \in 1..Len(pool) : L[i + 1].is = "value" /\ L[i + 1].bytes = pool[i]
  BY InBody
<1>3. /\ Len(M) = Len(L) + 1 /\ PoolSize(M) = PoolSize(L)
      /\ \A i \in 1..Len(L) : M[i] = L[i]
  BY <1>2, LinesGrow
<1>4. DOMAIN pool = 1..Len(pool)
  <2>1. pool \in Seq(Bytes)
    BY DEF IInv, TypeOK
  <2> QED BY <2>1
<1> HIDE DEF M, L
<1>5. M # <<>> /\ M[1].is = "data" /\ Len(pool) < Len(M)
  BY <1>2, <1>3
<1>6. \A i \in 1..Len(pool) : M[i + 1].is = "value" /\ M[i + 1].bytes = pool[i]
  BY <1>2, <1>3
<1>7. Lines' = M /\ remaining' = 0 /\ pool' = pool /\ PoolSize(M) = Len(pool) + 0
  BY <1>1, <1>2, <1>3 DEF L, M
<1> QED BY <1>1, <1>4, <1>5, <1>6, <1>7 DEF PoolIsRead, L, M

\* With what finish_group adds, every wrong group has its warning.
LEMMA FinishedWarnings ==
  ASSUME IInv, status = "reading", remaining = 0
  PROVE  /\ warnings + FinishGroup = Cardinality(WrongGroups(Lines, rows))
         /\ warnings + FinishGroup \in 0..group
<1> DEFINE W == WrongGroups(Lines, rows)
<1>1. /\ Readable /\ Begun(Lines) /\ group \in Nat /\ warnings \in Nat
      /\ warnings <= group
  <2>1. Readable
    BY DEF Readable
  <2>2. group \in Nat /\ warnings \in 0..group
    BY DEF IInv, TypeOK
  <2> QED BY <2>1, <2>2, InBody
<1>2. /\ group = GroupAt(Lines, Len(Lines))
      /\ group > 0 => header = HeaderAt(Lines, Len(Lines))
      /\ inGroup = Cardinality({n \in DOMAIN rows : rows[n].group = group})
      /\ warnings = Cardinality(W \ {group})
      /\ (header = NoHeader) = (group = 0)
      /\ group > 0 => warnings < group
  BY <1>1 DEF IInv, HeaderIsLast, RowsAreMeant, WarningsAreRight, CountersAgree
<1>3. /\ IsFiniteSet(W) /\ (group = 0 => W = {})
      /\ group > 0 => (group \in W <=> inGroup # header.count)
  BY <1>1, <1>2, LastWrong
<1> HIDE DEF W
<1>4. /\ IsFiniteSet(W \ {group})
      /\ group \in W => Cardinality(W) = Cardinality(W \ {group}) + 1
  <2>1. group \in W => (W \ {group}) \cup {group} = W /\ group \notin W \ {group}
    OBVIOUS
  <2>2. IsFiniteSet(W \ {group})
    BY <1>3, FS_Subset
  <2> QED BY <2>1, <2>2, FS_AddElement
<1>5. group \notin W => W \ {group} = W
  OBVIOUS
<1>6. CASE group = 0
  <2>1. header = NoHeader /\ FinishGroup = 0 /\ warnings = 0
    BY <1>1, <1>2, <1>6 DEF FinishGroup
  <2>2. W = {} /\ Cardinality({}) = 0
    BY <1>3, <1>6, FS_EmptySet
  <2> QED BY <1>1, <1>6, <2>1, <2>2 DEF W
<1>7. CASE group # 0
  <2>1. header # NoHeader /\ group > 0
    BY <1>1, <1>2, <1>7
  <2>2. FinishGroup = IF group \in W THEN 1 ELSE 0
    BY <1>3, <2>1 DEF FinishGroup
  <2>3. warnings + FinishGroup = Cardinality(W)
    <3>1. CASE group \in W
      BY <1>1, <1>2, <1>4, <2>2, <3>1
    <3>2. CASE group \notin W
      <4>1. warnings = Cardinality(W) /\ FinishGroup = 0
        BY <1>2, <1>5, <2>2, <3>2
      <4> QED BY <1>1, <4>1
    <3> QED BY <3>1, <3>2
  <2> QED BY <1>1, <1>2, <2>1, <2>2, <2>3 DEF W
<1> QED BY <1>6, <1>7

\* The header of a group is counted by the first pass.
LEMMA PassesAgreeAtHeader ==
  ASSUME IInv, NEW line \in Line, InstructionHeader(line)
  PROVE  PassesAgree'
<1> DEFINE n == Len(file)
           more == Append(file, line)
<1>1. /\ line.is = "instr" /\ header' = line.header /\ group' = group + 1
      /\ status = "reading" /\ status' = status /\ rows' = rows
      /\ file' = more /\ at' = at /\ headers' = headers /\ scan' = scan
  BY DEF InstructionHeader, GetLine, pass2
<1>2. file \in Seq(Line) /\ group \in Nat /\ n \in Nat
  <2>1. file \in Seq(Line) /\ group \in Nat
    BY DEF IInv, TypeOK
  <2> QED BY <2>1, OneMore
<1>3. /\ at = 0 /\ headers = <<>> /\ scan = "reading"
      /\ \A i \in DOMAIN file : file[i].is # "bad header"
      /\ group = NumberOf(file, n)
      /\ \A m \in DOMAIN rows : \E i \in DOMAIN file :
           StartsGroup(file, i, rows[m].group) /\ file[i].header.count = rows[m].total
  <2>1. PassesAgree /\ Readable
    BY <1>1 DEF IInv, Readable
  <2> QED BY <1>1, <2>1 DEF PassesAgree
<1>4. /\ \A i \in DOMAIN file : i \in DOMAIN more /\ more[i] = file[i]
      /\ Len(more) = n + 1 /\ more[n + 1] = line
      /\ DOMAIN more = DOMAIN file \cup {n + 1}
      /\ NumberOf(more, n) = NumberOf(file, n)
      /\ \A i \in DOMAIN file : \A g : StartsGroup(file, i, g) => StartsGroup(more, i, g)
  BY <1>2, InstructionsGrow
<1> HIDE DEF more, n
<1>5. \A i \in DOMAIN more : more[i].is # "bad header"
  BY <1>1, <1>3, <1>4
<1>6. /\ NumberOf(more, n + 1) = group + 1
      /\ n + 1 \in InstructionsIn(more, n + 1)
  BY <1>1, <1>2, <1>3, <1>4, NextInstruction
<1>7. \E i \in DOMAIN more :
        StartsGroup(more, i, group') /\ more[i].header = header'
  <2>1. StartsGroup(more, n + 1, group + 1) /\ more[n + 1].header = line.header
    BY <1>4, <1>6 DEF StartsGroup
  <2> QED BY <1>1, <1>4, <2>1
<1>8. ASSUME NEW m \in DOMAIN rows
      PROVE  \E i \in DOMAIN more : /\ StartsGroup(more, i, rows[m].group)
                                    /\ more[i].header.count = rows[m].total
  <2>1. PICK i \in DOMAIN file : /\ StartsGroup(file, i, rows[m].group)
                                 /\ file[i].header.count = rows[m].total
    BY <1>3
  <2> QED BY <1>4, <2>1
<1>9. Len(<<>>) = 0 /\ InstructionsIn(more, 0) = {} /\ NumberOf(more, 0) = 0
  BY NoInstruction
<1>10. NumberOf(more, Len(more)) = group'
  BY <1>1, <1>4, <1>6
<1>11. at' = 0 /\ headers' = <<>> /\ scan' = "reading" /\ status' = "reading"
  BY <1>1, <1>3
<1>12. rows' = rows /\ file' = more
  BY <1>1 DEF more
<1> QED BY <1>5, <1>7, <1>8, <1>9, <1>10, <1>11, <1>12
     DEF PassesAgree, Readable

\* A group begins: the one before is counted, and no row is in the new one.
LEMMA InstructionHeaderKeeps ==
  ASSUME IInv, NEW line \in Line, InstructionHeader(line)
  PROVE  IInv'
<1> DEFINE L == Lines
           M == Append(L, line)
           n == Len(L)
<1>1. /\ GetLine(line) /\ line.is = "instr" /\ remaining = 0
      /\ warnings' = warnings + FinishGroup
      /\ header' = line.header /\ group' = group + 1 /\ inGroup' = 0
      /\ status' = status /\ remaining' = remaining /\ pool' = pool
      /\ caseId' = caseId /\ rows' = rows /\ status = "reading"
  BY DEF InstructionHeader, GetLine
<1>2. TypeOK /\ Readable /\ CountersAgree /\ HeaderIsLast /\ RowsAreMeant
  BY <1>1 DEF IInv, Readable
<1>3. /\ Begun(L) /\ WellFormed(L) /\ PoolSize(L) < n /\ n \in Nat
      /\ PoolIsRead' /\ Lines' = M
  BY <1>1, <1>2, InBody, PoolStays
<1>4. /\ warnings' = Cardinality(WrongGroups(L, rows)) /\ warnings' \in 0..group
      /\ group \in Nat /\ group' \in Nat /\ group' > group
  <2>1. group \in Nat
    BY <1>2 DEF TypeOK
  <2> QED BY <1>1, <2>1, FinishedWarnings
<1>5. line.header \in Headers /\ line.header # NoHeader
  <2>1. line.header \in Headers
    BY <1>1, LineType
  <2>2. line.header.count \in Nat
    BY <2>1, ParserAssumption
  <2> QED BY <2>1, <2>2 DEF NoHeader
<1>6. /\ rows \in Seq(ParsedRow) /\ rows \in Seq(ParsedRow') /\ Len(rows) \in Nat
      /\ \A m \in DOMAIN rows : rows[m].group <= group /\ rows[m].group \in Nat
  <2>1. rows \in Seq(ParsedRow)
    BY <1>2 DEF TypeOK
  <2>2. ParsedRow \subseteq ParsedRow'
    <3>1. 1..group \subseteq 1..group'
      BY <1>4
    <3> QED BY <1>1, <3>1 DEF ParsedRow
  <2>3. \A r \in ParsedRow : r.group \in 1..group
    BY DEF ParsedRow
  <2> HIDE DEF ParsedRow
  <2> QED BY <1>4, <2>1, <2>2, <2>3
<1>7. StateTyped'
  <2>1. /\ status \in {"reading", "parsed", "failed"} /\ remaining \in Nat \cup {-1}
        /\ pool \in Seq(Bytes) /\ caseId \in Nat
    BY <1>2 DEF TypeOK
  <2>2. warnings' \in 0..group' /\ inGroup' \in Nat
    BY <1>1, <1>4
  <2> HIDE DEF ParsedRow
  <2> QED BY <1>1, <1>4, <1>5, <1>6, <2>1, <2>2 DEF StateTyped
<1>8. TypeOK'
  BY <1>1, <1>2, <1>7, FileTyped
<1>9. CountersAgree'
  <2>1. caseId = Len(rows) /\ inGroup' <= Len(rows)
    BY <1>1, <1>2, <1>6 DEF CountersAgree
  <2>2. warnings' < group' /\ group' > 0
    BY <1>1, <1>4
  <2> QED BY <1>1, <1>5, <2>1, <2>2 DEF CountersAgree
<1>10. /\ GroupAt(M, n + 1) = GroupAt(L, n) + 1 /\ HeaderAt(M, n + 1) = line.header
       /\ Len(M) = n + 1 /\ M[n + 1] = line /\ Begun(M)
  BY <1>1, <1>3, LinesGrow, GroupsGrow
<1>11. group = GroupAt(L, n) /\ Len(rows) = Len(RowsAt(L))
       /\ \A m \in DOMAIN rows : RowIsMeant(L, m, rows[m])
  BY <1>1, <1>2 DEF HeaderIsLast, RowsAreMeant
<1> HIDE DEF L, M, n
<1>12. BodyIsRead'
  <2>1. IsBodyLine(M, n + 1)
    BY <1>1, <1>10 DEF IsBodyLine
  <2>2. WellFormed(M)
    BY <1>3, <2>1, WellFormedGrows DEF M, n
  <2> QED BY <1>1, <1>3, <2>2 DEF BodyIsRead, Readable, M
<1>13. HeaderIsLast'
  BY <1>1, <1>3, <1>10, <1>11 DEF HeaderIsLast
<1>14. RowsAreMeant'
  <2>1. RowsAt(M) = RowsAt(L)
    BY <1>1, <1>3, RowsGrow DEF M
  <2>2. DOMAIN rows = DOMAIN RowsAt(L)
    <3>1. RowsAt(L) \in Seq(1..n)
      BY <1>3, RowsType DEF n
    <3> HIDE DEF ParsedRow
    <3> QED BY <1>6, <1>11, <3>1
  <2>3. \A m \in DOMAIN rows : RowIsMeant(M, m, rows[m])
    BY <1>3, <1>11, <2>2, RowMeantGrows DEF M
  <2>4. Cardinality({m \in DOMAIN rows : rows[m].group = group'}) = 0
    <3>1. {m \in DOMAIN rows : rows[m].group = group'} = {}
      BY <1>4, <1>6
    <3> QED BY <3>1, FS_EmptySet
  <2> QED BY <1>1, <1>3, <1>11, <2>1, <2>3, <2>4 DEF RowsAreMeant
<1>15. WarningsAreRight'
  <2>1. WrongGroups(M, rows) \ {GroupAt(L, n) + 1} = WrongGroups(L, rows)
    BY <1>1, <1>3, WrongGroupsGrow DEF M, n
  <2>2. WrongGroups(M, rows) \ {group'} = WrongGroups(L, rows)
    BY <1>1, <1>11, <2>1
  <2> QED BY <1>1, <1>3, <1>4, <2>2 DEF WarningsAreRight
<1>16. PassesAgree'
  BY PassesAgreeAtHeader
<1> QED BY <1>3, <1>8, <1>9, <1>12, <1>13, <1>14, <1>15, <1>16 DEF IInv

\* The row that a line adds to the corpus.
NewRow(line) ==
  [case |-> TestCaseId, group |-> group, index |-> inGroup, total |-> header.count,
   initial |-> Pooled(header.in, line.row.in),
   exception |-> line.row.exception,
   expected |-> IF line.row.exception = "none" THEN Pooled(header.out, line.row.out)
                                               ELSE NothingPooled]

\* What the header and the line of a row are.
LEMMA RowParts ==
  ASSUME TypeOK, header # NoHeader, NEW line \in Line, line.is = "row"
  PROVE  /\ header.count \in Nat /\ header.in \in Seq(SchemaKey)
         /\ header.out \in Seq(SchemaKey)
         /\ line.row.in \in Seq(Nat) /\ line.row.out \in Seq(Nat)
         /\ line.row.exception \in Kinds \cup {"none"}
<1>1. header \in Headers
  BY DEF TypeOK
<1>2. line.row \in RowLines
  BY LineType
<1> HIDE DEF SchemaKey, Line
<1> QED BY <1>1, <1>2, ParserAssumption

\* It has its type.
LEMMA NewRowType ==
  ASSUME TypeOK, CountersAgree, NEW line \in Line, StateRow(line)
  PROVE  NewRow(line) \in ParsedRow' /\ rows' = Append(rows, NewRow(line))
         /\ rows' \in Seq(ParsedRow') /\ Len(rows') = Len(rows) + 1 /\ Len(rows) \in Nat
<1> DEFINE row == NewRow(line)
<1>1. /\ line.is = "row" /\ header # NoHeader /\ ValidRow(line.row)
      /\ rows' = Append(rows, row) /\ group' = group
  BY DEF StateRow, NewRow
<1>2. /\ pool \in Seq(Bytes) /\ group \in Nat /\ inGroup \in Nat
      /\ rows \in Seq(ParsedRow) /\ caseId = Len(rows) /\ inGroup <= Len(rows)
      /\ group # 0
  BY <1>1 DEF TypeOK, CountersAgree
<1>3. Len(rows) \in Nat /\ Len(rows') = Len(rows) + 1
  <2> HIDE DEF row, ParsedRow
  <2> QED BY <1>1, <1>2, OneMore
<1>4. Pooled(header.in, line.row.in) \in Values
  BY <1>1, <1>2, RowParts, PooledType DEF ValidRow
<1>5. line.row.exception = "none" => Pooled(header.out, line.row.out) \in Values
  BY <1>1, <1>2, RowParts, PooledType DEF ValidRow
<1>6. NothingPooled \in Values
  BY DEF NothingPooled, Values
<1>7. row \in ParsedRow'
  <2>1. /\ caseId \in 0..(Len(rows') - 1) /\ inGroup \in 0..(Len(rows') - 1)
        /\ group \in 1..group'
    BY <1>1, <1>2, <1>3
  <2>2. header.count \in Nat /\ line.row.exception \in Kinds \cup {"none"}
    BY <1>1, RowParts
  <2> DEFINE expected == IF line.row.exception = "none"
                           THEN Pooled(header.out, line.row.out) ELSE NothingPooled
             initial == Pooled(header.in, line.row.in)
  <2>3. expected \in Values /\ initial \in Values
    BY <1>4, <1>5, <1>6
  <2>4. row = [case |-> caseId, group |-> group, index |-> inGroup,
               total |-> header.count, initial |-> initial,
               exception |-> line.row.exception, expected |-> expected]
    BY DEF NewRow, TestCaseId
  <2> HIDE DEF expected, initial, row
  <2> QED BY <2>1, <2>2, <2>3, <2>4 DEF ParsedRow
<1>8. rows' \in Seq(ParsedRow')
  <2>1. ParsedRow \subseteq ParsedRow'
    <3>1. 0..(Len(rows) - 1) \subseteq 0..(Len(rows') - 1)
      BY <1>3
    <3> QED BY <1>1, <3>1 DEF ParsedRow
  <2> HIDE DEF row, ParsedRow
  <2>2. rows \in Seq(ParsedRow')
    BY <1>2, <2>1
  <2> QED BY <1>1, <1>7, <2>2
<1> QED BY <1>1, <1>3, <1>7, <1>8

\* RowIsMeant, part by part.
LEMMA MeantByParts ==
  ASSUME NEW L, NEW n, NEW row, NEW J \in SUBSET (1..n),
         \A m \in 1..n : m \in J <=> GroupAt(L, RowsAt(L)[m]) = GroupAt(L, RowsAt(L)[n]),
         LET i == RowsAt(L)[n]
             h == HeaderAt(L, i)
             text == L[i].row
         IN  /\ row.case = n - 1 /\ row.group = GroupAt(L, i)
             /\ row.index = Cardinality(J) - 1 /\ row.total = h.count
             /\ row.initial = MeantValues(L, h.in, text.in)
             /\ row.exception = text.exception
             /\ row.expected = IF text.exception = "none"
                                 THEN MeantValues(L, h.out, text.out) ELSE NothingPooled
  PROVE  RowIsMeant(L, n, row)
<1>1. {m \in 1..n : GroupAt(L, RowsAt(L)[m]) = GroupAt(L, RowsAt(L)[n])} = J
  OBVIOUS
<1> QED BY <1>1 DEF RowIsMeant

\* It is what the line says.
LEMMA NewRowIsMeant ==
  ASSUME IInv, NEW line \in Line, StateRow(line)
  PROVE  LET M == Append(Lines, line)
         IN  /\ Len(RowsAt(M)) = Len(rows) + 1
             /\ IsBodyLine(M, Len(Lines) + 1)
             /\ \A m \in DOMAIN rows : RowIsMeant(M, m, rows[m])
             /\ RowIsMeant(M, Len(rows) + 1, NewRow(line))
<1> DEFINE L == Lines
           M == Append(L, line)
           n == Len(L)
           k == Len(rows)
           place == RowsAt(M)
<1>1. /\ line.is = "row" /\ header # NoHeader /\ ValidRow(line.row) /\ remaining = 0
      /\ status = "reading"
  BY DEF StateRow, GetLine
<1>2. TypeOK /\ Readable /\ CountersAgree /\ HeaderIsLast /\ RowsAreMeant
  BY <1>1 DEF IInv, Readable
<1>3. /\ Begun(L) /\ WellFormed(L) /\ PoolSize(L) < n /\ n \in Nat
      /\ PoolSize(L) = Len(pool) /\ Len(pool) \in Nat
      /\ \A i \in 1..Len(pool) : L[i + 1].bytes = pool[i]
  BY <1>1, <1>2, InBody
<1>4. /\ group = GroupAt(L, n) /\ header = HeaderAt(L, n) /\ GroupAt(L, n) # 0
      /\ k = Len(RowsAt(L)) /\ caseId = k
      /\ \A m \in DOMAIN rows : RowIsMeant(L, m, rows[m])
      /\ inGroup = Cardinality({m \in DOMAIN rows : rows[m].group = group})
  <2>1. group \in Nat
    BY <1>2 DEF TypeOK
  <2> QED BY <1>1, <1>2, <2>1 DEF HeaderIsLast, RowsAreMeant, CountersAgree
<1>5. k \in Nat /\ DOMAIN rows = 1..k
  <2>1. rows \in Seq(ParsedRow)
    BY <1>2 DEF TypeOK
  <2> HIDE DEF ParsedRow
  <2> QED BY <2>1
<1> HIDE DEF L, M, n, k
<1>6. HeadersUpTo(L, n) # {}
  BY <1>3, <1>4, HeadersType
<1>7. /\ M[n + 1] = line /\ HeadersUpTo(M, n + 1) = HeadersUpTo(L, n)
      /\ GroupAt(M, n + 1) = group /\ HeaderAt(M, n + 1) = header
      /\ PoolSize(M) = PoolSize(L)
      /\ \A i \in 1..n : M[i] = L[i]
  BY <1>1, <1>3, <1>4, <1>6, LinesGrow, GroupsGrow DEF M, n
<1>8. IsBodyLine(M, n + 1)
  <2>1. \A list, schema : ValidIndices(list, schema) => InPool(M, list, schema)
    BY <1>3, <1>7 DEF InPool, ValidIndices
  <2> QED BY <1>1, <1>6, <1>7, <2>1 DEF IsBodyLine, ValidRow
<1>9. /\ place = Append(RowsAt(L), n + 1) /\ RowsAt(L) \in Seq(1..n)
  BY <1>1, <1>3, RowsGrow, RowsType DEF M, n
<1>10. Len(place) = k + 1 /\ place[k + 1] = n + 1 /\ DOMAIN RowsAt(L) = 1..k
  <2> DEFINE s == RowsAt(L)
  <2> HIDE DEF s, place
  <2>1. place = Append(s, n + 1) /\ s \in Seq(1..n) /\ Len(s) = k
    BY <1>4, <1>9 DEF s
  <2> QED BY <1>3, <1>5, <2>1 DEF s
<1>11. \A m \in DOMAIN rows : RowIsMeant(M, m, rows[m])
  BY <1>3, <1>4, <1>5, <1>10, RowMeantGrows DEF M
<1>12. \A m \in 1..k : rows[m].group = GroupAt(M, place[m])
  BY <1>5, <1>11 DEF RowIsMeant
<1> DEFINE I == {m \in DOMAIN rows : rows[m].group = group}
           J == {m \in 1..(k + 1) : GroupAt(M, place[m]) = group}
<1>13. Cardinality(J) - 1 = inGroup
  <2>1. 1..(k + 1) = 1..k \cup {k + 1} /\ k + 1 \notin 1..k
    BY <1>5
  <2>2. J = I \cup {k + 1} /\ k + 1 \notin I
    BY <1>5, <1>7, <1>10, <1>12, <2>1
  <2>3. IsFiniteSet(I)
    <3>1. IsFiniteSet(1..k) /\ I \subseteq 1..k
      BY <1>5, FS_Interval
    <3> QED BY <3>1, FS_Subset
  <2> HIDE DEF I, J
  <2>4. Cardinality(J) = Cardinality(I) + 1 /\ Cardinality(I) \in Nat
    BY <2>2, <2>3, FS_AddElement, FS_CardinalityType
  <2>5. Cardinality(I) = inGroup
    BY <1>4 DEF I
  <2> QED BY <2>4, <2>5
<1>14. \A i \in 1..Len(pool) : M[i + 1].bytes = pool[i]
  <2>1. \A i \in 1..Len(pool) : i + 1 \in 1..n
    BY <1>3
  <2> QED BY <1>3, <1>7, <2>1
<1>15. /\ Pooled(header.in, line.row.in) = MeantValues(M, header.in, line.row.in)
       /\ line.row.exception = "none" =>
            Pooled(header.out, line.row.out) = MeantValues(M, header.out, line.row.out)
  <2>1. /\ header.in \in Seq(SchemaKey) /\ header.out \in Seq(SchemaKey)
        /\ line.row.in \in Seq(Nat) /\ line.row.out \in Seq(Nat)
    BY <1>1, <1>2, RowParts
  <2>2. ValidIndices(line.row.in, header.in)
        /\ (line.row.exception = "none" => ValidIndices(line.row.out, header.out))
    BY <1>1 DEF ValidRow
  <2> QED BY <1>3, <1>14, <2>1, <2>2, PooledIsMeant
<1>16. RowIsMeant(M, k + 1, NewRow(line))
  <2> DEFINE p == k + 1
             row == NewRow(line)
  <2>1. /\ HeaderAt(M, RowsAt(M)[p]) = header /\ M[RowsAt(M)[p]].row = line.row
        /\ GroupAt(M, RowsAt(M)[p]) = group /\ p - 1 = caseId
    BY <1>4, <1>5, <1>7, <1>10
  <2>2. /\ J \in SUBSET (1..p)
        /\ \A m \in 1..p : m \in J <=> GroupAt(M, RowsAt(M)[m]) = group
    BY DEF J
  <2>3. /\ row.case = caseId /\ row.group = group /\ row.index = inGroup
        /\ row.total = header.count
        /\ row.initial = Pooled(header.in, line.row.in)
        /\ row.exception = line.row.exception
        /\ row.expected = IF line.row.exception = "none"
                            THEN Pooled(header.out, line.row.out) ELSE NothingPooled
    BY DEF NewRow, TestCaseId
  <2> HIDE DEF p, row, J, place
  <2>4. LET i == RowsAt(M)[p]
            h == HeaderAt(M, i)
            text == M[i].row
        IN  /\ row.case = p - 1 /\ row.group = GroupAt(M, i)
            /\ row.index = Cardinality(J) - 1 /\ row.total = h.count
            /\ row.initial = MeantValues(M, h.in, text.in)
            /\ row.exception = text.exception
            /\ row.expected = IF text.exception = "none"
                                THEN MeantValues(M, h.out, text.out) ELSE NothingPooled
    BY <1>13, <1>15, <2>1, <2>3
  <2>5. RowIsMeant(M, p, row)
    BY <2>1, <2>2, <2>4, MeantByParts
  <2> QED BY <2>5 DEF p, row
<1> QED BY <1>8, <1>10, <1>11, <1>16 DEF M, L, n, k

\* A row is added to the group in progress.
LEMMA StateRowKeeps ==
  ASSUME IInv, NEW line \in Line, StateRow(line)
  PROVE  IInv'
<1> DEFINE L == Lines
           M == Append(L, line)
           n == Len(L)
           k == Len(rows)
           row == NewRow(line)
<1>1. /\ GetLine(line) /\ line.is = "row" /\ remaining = 0 /\ header # NoHeader
      /\ caseId' = caseId + 1 /\ inGroup' = inGroup + 1
      /\ status' = status /\ remaining' = remaining /\ pool' = pool
      /\ header' = header /\ group' = group /\ warnings' = warnings
      /\ status = "reading" /\ file' = Append(file, line) /\ UNCHANGED pass2
  BY DEF StateRow, GetLine
<1>2. TypeOK /\ Readable /\ CountersAgree /\ HeaderIsLast /\ RowsAreMeant
      /\ WarningsAreRight
  BY <1>1 DEF IInv, Readable
<1>3. /\ Begun(L) /\ WellFormed(L) /\ PoolSize(L) < n /\ n \in Nat
      /\ PoolIsRead' /\ Lines' = M
  BY <1>1, <1>2, InBody, PoolStays
<1>4. /\ rows' = Append(rows, row) /\ rows' \in Seq(ParsedRow')
      /\ Len(rows') = k + 1 /\ k \in Nat
  BY <1>2, NewRowType
<1>5. /\ Len(RowsAt(M)) = k + 1 /\ IsBodyLine(M, n + 1)
      /\ \A m \in DOMAIN rows : RowIsMeant(M, m, rows[m])
      /\ RowIsMeant(M, k + 1, row)
  BY NewRowIsMeant
<1>6. /\ rows \in Seq(ParsedRow)
      /\ DOMAIN rows' = DOMAIN rows \cup {k + 1}
      /\ \A m \in DOMAIN rows : m \in 1..k /\ rows'[m] = rows[m]
      /\ rows'[k + 1] = row
      /\ row.group = group /\ row.total = header.count
  <2>1. rows \in Seq(ParsedRow)
    BY <1>2 DEF TypeOK
  <2>2. row.group = group /\ row.total = header.count
    BY DEF NewRow
  <2> HIDE DEF ParsedRow, row
  <2>3. DOMAIN rows = 1..k /\ k + 1 \notin 1..k
    BY <2>1
  <2>4. /\ DOMAIN Append(rows, row) = DOMAIN rows \cup {k + 1}
        /\ \A i \in DOMAIN Append(rows, row) :
              IF i = k + 1 THEN Append(rows, row)[i] = row
                           ELSE i \in DOMAIN rows /\ Append(rows, row)[i] = rows[i]
    BY <2>1, OneMore
  <2>5. \A m \in DOMAIN rows : m \in DOMAIN Append(rows, row) /\ m # k + 1
    BY <2>3, <2>4
  <2>6. k + 1 \in DOMAIN Append(rows, row)
    BY <2>4
  <2> HIDE DEF k
  <2>7. \A m \in DOMAIN rows : m \in 1..k /\ rows'[m] = rows[m]
    BY <1>4, <2>3, <2>4, <2>5
  <2> QED BY <1>4, <2>1, <2>2, <2>4, <2>6, <2>7
<1>7. /\ group = GroupAt(L, n) /\ header = HeaderAt(L, n) /\ group # 0 /\ group \in Nat
      /\ inGroup = Cardinality({m \in DOMAIN rows : rows[m].group = group})
      /\ warnings = Cardinality(WrongGroups(L, rows) \ {group})
      /\ warnings < group /\ warnings \in 0..group /\ inGroup \in Nat
      /\ caseId = k /\ inGroup <= k
  <2>1. group \in Nat /\ warnings \in 0..group /\ inGroup \in Nat
    BY <1>2 DEF TypeOK
  <2> QED BY <1>1, <1>2, <2>1
          DEF HeaderIsLast, RowsAreMeant, WarningsAreRight, CountersAgree
<1>8. TypeOK'
  <2>1. /\ status \in {"reading", "parsed", "failed"} /\ remaining \in Nat \cup {-1}
        /\ pool \in Seq(Bytes) /\ header \in Headers \cup {NoHeader}
    BY <1>2 DEF TypeOK
  <2>2. caseId' \in Nat /\ inGroup' \in Nat /\ warnings' \in 0..group' /\ group' \in Nat
    BY <1>1, <1>4, <1>7
  <2>3. StateTyped'
    <3> HIDE DEF ParsedRow
    <3> QED BY <1>1, <1>4, <2>1, <2>2 DEF StateTyped
  <2> QED BY <1>1, <1>2, <2>3, FileTyped
<1>9. CountersAgree'
  <2>1. caseId' = Len(rows') /\ inGroup' <= Len(rows')
    BY <1>1, <1>4, <1>7
  <2> QED BY <1>1, <1>2, <1>7, <2>1 DEF CountersAgree
<1> HIDE DEF L, M, n, k, row
<1>10. HeadersUpTo(L, n) # {}
  BY <1>3, <1>7, HeadersType
<1>11. GroupAt(M, n + 1) = group /\ HeaderAt(M, n + 1) = header /\ Len(M) = n + 1
  BY <1>1, <1>3, <1>7, <1>10, LinesGrow, GroupsGrow DEF M, n
<1>12. BodyIsRead' /\ HeaderIsLast'
  <2>1. WellFormed(M)
    BY <1>3, <1>5, WellFormedGrows DEF M, n
  <2> QED BY <1>1, <1>3, <1>11, <2>1 DEF BodyIsRead, HeaderIsLast, Readable
<1>13. Cardinality({m \in DOMAIN rows' : rows'[m].group = group'}) = inGroup'
  <2> DEFINE I == {m \in DOMAIN rows : rows[m].group = group}
             J == {m \in DOMAIN rows' : rows'[m].group = group'}
  <2>1. J = I \cup {k + 1} /\ k + 1 \notin I /\ I \subseteq 1..k
    <3>1. k + 1 \notin 1..k
      BY <1>4 DEF k
    <3> QED BY <1>1, <1>6, <3>1
  <2>2. IsFiniteSet(I)
    <3>1. IsFiniteSet(1..k)
      BY <1>4, FS_Interval DEF k
    <3> QED BY <2>1, <3>1, FS_Subset
  <2> HIDE DEF I, J
  <2>3. Cardinality(J) = Cardinality(I) + 1
    BY <2>1, <2>2, FS_AddElement
  <2>4. Cardinality(I) = inGroup
    BY <1>7 DEF I
  <2>5. Cardinality(J) = inGroup'
    BY <1>1, <2>3, <2>4
  <2> QED BY <2>5 DEF J
<1>14. RowsAreMeant'
  <2>1. \A m \in DOMAIN rows' : RowIsMeant(M, m, rows'[m])
    BY <1>5, <1>6 DEF M, L, k
  <2>2. Len(rows') = Len(RowsAt(M))
    BY <1>4, <1>5 DEF M, L, k
  <2> QED BY <1>3, <1>13, <2>1, <2>2 DEF RowsAreMeant
<1>15. WarningsAreRight'
  <2>1. WrongGroups(M, rows') \ {group} = WrongGroups(L, rows) \ {group}
    <3>1. row.group = GroupAt(L, Len(L)) /\ PoolSize(L) < Len(L)
      BY <1>3, <1>6, <1>7 DEF n
    <3>2. WrongGroups(M, Append(rows, row)) \ {row.group} =
            WrongGroups(L, rows) \ {row.group}
      BY <1>1, <1>3, <1>6, <3>1, WrongGroupsStay DEF M
    <3> QED BY <1>4, <1>6, <3>2
  <2> QED BY <1>1, <1>3, <1>7, <2>1 DEF WarningsAreRight
<1>16. PassesAgree'
  <2>1. \A m \in DOMAIN rows' :
           \/ m \in DOMAIN rows /\ rows'[m] = rows[m]
           \/ group > 0 /\ rows'[m].group = group /\ rows'[m].total = header.count
    BY <1>6, <1>7
  <2> QED BY <1>1, <2>1, PassesAgreeAfter
<1> QED BY <1>3, <1>8, <1>9, <1>12, <1>14, <1>15, <1>16 DEF IInv

\* At the end of the file the last group is counted.
LEMMA EndOfFileKeeps ==
  ASSUME IInv, EndOfFile
  PROVE  IInv'
<1>1. status = "reading" /\ file' = file /\ UNCHANGED pass2 /\ Readable
  BY DEF EndOfFile, Readable
<1>2. Lines' = Lines
  BY <1>1 DEF Lines
<1>3. /\ TypeOK /\ CountersAgree /\ PoolIsRead /\ BodyIsRead /\ HeaderIsLast
      /\ RowsAreMeant /\ PassesAgree
      /\ at' = at /\ headers' = headers /\ scan' = scan
  BY <1>1 DEF IInv, pass2
<1>4. at = 0 /\ headers = <<>> /\ scan = "reading"
  BY <1>1, <1>3 DEF PassesAgree
<1>5. CASE remaining # 0
  <2>1. /\ status' = "failed"
        /\ UNCHANGED <<remaining, pool, header, counters, corpus>>
    BY <1>5 DEF EndOfFile, Fail
  <2>2. ~ WellFormed(Lines)
    <3>1. CASE remaining = -1
      <4>1. Lines = <<>>
        BY <1>1, <1>3, <3>1 DEF PoolIsRead
      <4> QED BY <4>1 DEF WellFormed
    <3>2. CASE remaining # -1
      <4>1. /\ remaining \in Nat /\ remaining > 0 /\ Len(pool) \in Nat
            /\ PoolSize(Lines) = Len(pool) + remaining
            /\ Len(Lines) = Len(pool) + 1
        <5>1. remaining \in Nat /\ pool \in Seq(Bytes)
          BY <1>3, <3>2 DEF TypeOK
        <5>2. remaining > 0 /\ Len(pool) \in Nat
          BY <1>5, <5>1
        <5> QED BY <1>1, <1>3, <3>2, <5>1, <5>2 DEF PoolIsRead
      <4>2. ~ (PoolSize(Lines) < Len(Lines))
        BY <4>1
      <4> QED BY <4>2 DEF WellFormed
    <3> QED BY <3>1, <3>2
  <2>3. TypeOK'
    <3>1. StateTyped'
      BY <1>3, <2>1, StateStaysTyped
    <3> QED BY <1>1, <1>3, <3>1, ScanTyped DEF TypeOK
  <2>4. CountersAgree'
    BY <1>3, <2>1 DEF CountersAgree, counters, corpus
  <2>5. Content'
    BY <1>2, <2>1, <2>2
       DEF Content, Readable, PoolIsRead, BodyIsRead, HeaderIsLast, RowsAreMeant,
           WarningsAreRight
  <2>6. PassesAgree'
    BY <1>1, <1>3, <2>1 DEF PassesAgree, Readable
  <2> QED BY <2>3, <2>4, <2>5, <2>6 DEF IInv, Content
<1>6. CASE remaining = 0
  <2>1. /\ status' = "parsed" /\ warnings' = warnings + FinishGroup
        /\ remaining' = remaining /\ pool' = pool /\ header' = header
        /\ group' = group /\ caseId' = caseId /\ inGroup' = inGroup /\ rows' = rows
    BY <1>6 DEF EndOfFile, counters
  <2>2. /\ warnings' = Cardinality(WrongGroups(Lines, rows)) /\ warnings' \in 0..group
    BY <1>1, <1>6, <2>1, FinishedWarnings
  <2>3. ParsedRow' = ParsedRow
    BY <2>1 DEF ParsedRow
  <2>4. TypeOK'
    <3>1. StateTyped'
      <4> HIDE DEF ParsedRow
      <4> QED BY <1>3, <2>1, <2>2, <2>3 DEF StateTyped, TypeOK
    <3> QED BY <1>1, <1>3, <3>1, ScanTyped DEF TypeOK
  <2>5. CountersAgree'
    <3>1. group = 0 => warnings' = 0
      BY <2>2
    <3> QED BY <1>3, <2>1, <3>1 DEF CountersAgree
  <2>6. PoolIsRead'
    BY <1>1, <1>2, <1>3, <2>1 DEF PoolIsRead, Readable
  <2>7. BodyIsRead' /\ HeaderIsLast'
    BY <1>1, <1>2, <1>3, <1>6, <2>1 DEF BodyIsRead, HeaderIsLast, Readable
  <2>8. RowsAreMeant'
    BY <1>1, <1>2, <1>3, <2>1 DEF RowsAreMeant, Readable
  <2>9. WarningsAreRight'
    BY <1>2, <2>1, <2>2 DEF WarningsAreRight
  <2>10. PassesAgree'
    BY <1>1, <1>3, <2>1 DEF PassesAgree, Readable
  <2> QED BY <2>4, <2>5, <2>6, <2>7, <2>8, <2>9, <2>10 DEF IInv
<1> QED BY <1>5, <1>6

----------------------------------------------------------------------------
(* The steps of ParseInstructionHeaders keep the invariant.                *)

\* The numbers of the headers up to a line.
LEMMA NumbersAscend ==
  ASSUME NEW text, NEW n \in Nat, NEW i \in InstructionsIn(text, n)
  PROVE  NumberOf(text, i) \in 1..NumberOf(text, n) /\ i \in 1..n
<1>1. i \in 1..n /\ text[i].is = "instr"
  BY DEF InstructionsIn
<1>2. InstructionsIn(text, i) \subseteq InstructionsIn(text, n)
  BY <1>1 DEF InstructionsIn
<1>3. InstructionsIn(text, n) \subseteq 1..n /\ IsFiniteSet(1..n)
  BY FS_Interval DEF InstructionsIn
<1>4. i \in InstructionsIn(text, i)
  BY <1>1 DEF InstructionsIn
<1>5. IsFiniteSet(InstructionsIn(text, n)) /\ IsFiniteSet(InstructionsIn(text, i))
  BY <1>2, <1>3, FS_Subset
<1>6. Cardinality(InstructionsIn(text, i)) <= Cardinality(InstructionsIn(text, n))
  BY <1>2, <1>5, FS_Subset
<1>7. /\ Cardinality(InstructionsIn(text, i)) \in Nat
      /\ Cardinality(InstructionsIn(text, n)) \in Nat
      /\ Cardinality(InstructionsIn(text, i)) # 0
  BY <1>4, <1>5, FS_CardinalityType, FS_EmptySet
<1> QED BY <1>1, <1>6, <1>7 DEF NumberOf

\* What ParseFile has read is left alone.
LEMMA FirstPassStays ==
  ASSUME IInv, UNCHANGED pass1
  PROVE  /\ StateTyped' /\ CountersAgree' /\ Content' /\ file' = file
         /\ status' = status /\ Readable' = Readable
<1>1. /\ file' = file /\ status' = status
      /\ UNCHANGED <<status, remaining, pool, header, counters, corpus>>
  BY DEF pass1
<1>2. StateTyped'
  BY <1>1, StateStaysTyped DEF IInv, TypeOK
<1>3. CountersAgree' /\ Content'
  BY <1>1, ContentStays DEF IInv, Content, Lines
<1> QED BY <1>1, <1>2, <1>3 DEF Readable

\* A line is looked at: the header of a group is collected under its number.
LEMMA ScanLineKeeps ==
  ASSUME IInv, ScanLine
  PROVE  IInv'
<1> DEFINE line == file[at + 1]
           m == NumberOf(file, at)
           h == [group |-> Len(headers) + 1, count |-> line.header.count]
<1>1. /\ status # "reading" /\ scan = "reading" /\ at < Len(file) /\ at' = at + 1
      /\ UNCHANGED pass1
  BY DEF ScanLine
<1>2. /\ line.is = "instr" => headers' = Append(headers, h) /\ scan' = scan
      /\ line.is = "bad header" => scan' = "failed" /\ headers' = headers
      /\ line.is \notin {"instr", "bad header"} => headers' = headers /\ scan' = scan
  BY DEF ScanLine, Collects
<1>3. /\ StateTyped' /\ CountersAgree' /\ Content' /\ file' = file
      /\ status' = status /\ Readable' = Readable
  BY <1>1, FirstPassStays
<1>4. /\ file \in Seq(Line) /\ Len(file) \in Nat /\ at \in Nat /\ TypeOK /\ PassesAgree
      /\ headers \in Seq([group : Nat, count : Nat])
  <2>1. /\ file \in Seq(Line) /\ at \in 0..Len(file)
        /\ headers \in Seq([group : Nat, count : Nat])
    BY DEF IInv, TypeOK
  <2>2. Len(file) \in Nat
    BY <2>1, OneMore
  <2> QED BY <2>1, <2>2 DEF IInv
<1>5. /\ Len(headers) = m
      /\ \A i \in InstructionsIn(file, at) :
           headers[NumberOf(file, i)].count = file[i].header.count
  BY <1>4 DEF PassesAgree
<1>6. line.is = "instr" => line.header.count \in Nat
  <2>1. line \in Line
    <3>1. at + 1 \in 1..Len(file)
      BY <1>1, <1>4
    <3> HIDE DEF Line
    <3> QED BY <1>4, <3>1
  <2>2. line.is = "instr" => line.header \in Headers
    BY <2>1, LineType
  <2> QED BY <2>2, ParserAssumption
<1>7. /\ Len(headers) \in Nat /\ Len(Append(headers, h)) = Len(headers) + 1
      /\ Append(headers, h)[Len(headers) + 1] = h
      /\ \A i \in 1..Len(headers) : Append(headers, h)[i] = headers[i]
      /\ line.is = "instr" => Append(headers, h) \in Seq([group : Nat, count : Nat])
  <2>1. Len(headers) \in Nat /\ DOMAIN headers = 1..Len(headers)
    BY <1>4
  <2>2. line.is = "instr" => h \in [group : Nat, count : Nat]
    BY <1>6, <2>1
  <2> HIDE DEF h
  <2>3. /\ Len(Append(headers, h)) = Len(headers) + 1
        /\ DOMAIN Append(headers, h) = DOMAIN headers \cup {Len(headers) + 1}
        /\ \A i \in DOMAIN Append(headers, h) :
              IF i = Len(headers) + 1 THEN Append(headers, h)[i] = h
              ELSE i \in DOMAIN headers /\ Append(headers, h)[i] = headers[i]
    BY <1>4, OneMore
  <2>4. Append(headers, h)[Len(headers) + 1] = h
    BY <2>3
  <2>5. \A i \in 1..Len(headers) : Append(headers, h)[i] = headers[i]
    <3>1. \A i \in 1..Len(headers) : i # Len(headers) + 1
      BY <2>1
    <3> QED BY <2>1, <2>3, <3>1
  <2>6. line.is = "instr" => Append(headers, h) \in Seq([group : Nat, count : Nat])
    BY <1>4, <2>2
  <2> QED BY <2>1, <2>3, <2>4, <2>5, <2>6
<1>8. TypeOK'
  <2>1. at' \in 0..Len(file)
    BY <1>1, <1>4
  <2>2. headers' \in Seq([group : Nat, count : Nat])
    <3> HIDE DEF line, h
    <3> QED BY <1>2, <1>4, <1>7
  <2>3. scan' \in {"reading", "parsed", "failed"}
    BY <1>1, <1>2
  <2> QED BY <1>3, <1>4, <2>1, <2>2, <2>3, ScanTyped
<1>9. /\ InstructionsIn(file, at + 1) = IF line.is = "instr"
                                          THEN InstructionsIn(file, at) \cup {at + 1}
                                          ELSE InstructionsIn(file, at)
      /\ NumberOf(file, at + 1) = IF line.is = "instr" THEN m + 1 ELSE m
  BY <1>4, NextInstruction
<1> HIDE DEF h
<1>10. Len(headers') = NumberOf(file, at + 1)
  BY <1>2, <1>5, <1>7, <1>9
<1>11. ASSUME NEW i \in InstructionsIn(file, at + 1)
       PROVE  headers'[NumberOf(file, i)].count = file[i].header.count
  <2>1. CASE i \in InstructionsIn(file, at)
    <3>1. NumberOf(file, i) \in 1..Len(headers)
      BY <1>4, <1>5, <2>1, NumbersAscend
    <3>2. headers'[NumberOf(file, i)] = headers[NumberOf(file, i)]
      BY <1>2, <1>7, <3>1
    <3> QED BY <1>5, <2>1, <3>2
  <2>2. CASE i = at + 1 /\ line.is = "instr"
    <3>1. headers'[NumberOf(file, i)] = h
      BY <1>2, <1>5, <1>7, <1>9, <2>2
    <3> QED BY <2>2, <3>1 DEF h
  <2> QED BY <1>9, <1>11, <2>1, <2>2
<1>12. scan' = "failed" => \E i \in 1..at' : file[i].is = "bad header"
  <2>1. at + 1 \in 1..at'
    BY <1>1, <1>4
  <2>2. scan' = "failed" => line.is = "bad header"
    BY <1>1, <1>2
  <2> QED BY <2>1, <2>2
<1>13. PassesAgree'
  <2>1. /\ group' = group /\ header' = header /\ rows' = rows
    BY <1>1 DEF pass1, counters, corpus
  <2>2. scan' # "parsed"
    BY <1>1, <1>2
  <2> HIDE DEF line, m
  <2>3. Readable' =>
       /\ \A i \in DOMAIN file' : file'[i].is # "bad header"
       /\ group' = NumberOf(file', Len(file'))
       /\ group' > 0 =>
            \E i \in DOMAIN file' :
              StartsGroup(file', i, group') /\ file'[i].header = header'
       /\ \A k \in DOMAIN rows' : \E i \in DOMAIN file' :
            /\ StartsGroup(file', i, rows'[k].group)
            /\ file'[i].header.count = rows'[k].total
    BY <1>3, <1>4, <2>1 DEF PassesAgree
  <2> QED BY <1>1, <1>3, <1>10, <1>11, <1>12, <2>2, <2>3 DEF PassesAgree
<1> QED BY <1>3, <1>8, <1>13 DEF IInv, Content

\* At the end every line has been looked at.
LEMMA ScanEndsKeeps ==
  ASSUME IInv, ScanEnds
  PROVE  IInv'
<1>1. /\ status # "reading" /\ at = Len(file) /\ scan' = "parsed"
      /\ at' = at /\ headers' = headers /\ UNCHANGED pass1
  BY DEF ScanEnds
<1>2. /\ StateTyped' /\ CountersAgree' /\ Content' /\ file' = file
      /\ status' = status /\ Readable' = Readable
  BY <1>1, FirstPassStays
<1>3. TypeOK'
  BY <1>1, <1>2, ScanTyped DEF IInv, TypeOK
<1>4. PassesAgree'
  <2>1. group' = group /\ header' = header /\ rows' = rows
    BY <1>1 DEF pass1, counters, corpus
  <2> QED BY <1>1, <1>2, <2>1 DEF IInv, PassesAgree
<1> QED BY <1>2, <1>3, <1>4 DEF IInv, Content

----------------------------------------------------------------------------
(* The theorems.                                                           *)

\* The invariant holds before anything is read.
LEMMA InitEstablishes == Init => IInv
<1> SUFFICES ASSUME Init PROVE IInv
  OBVIOUS
<1>1. /\ file = <<>> /\ status = "reading" /\ remaining = -1 /\ pool = <<>>
      /\ header = NoHeader /\ group = 0 /\ caseId = 0 /\ inGroup = 0
      /\ rows = <<>> /\ warnings = 0 /\ at = 0 /\ headers = <<>> /\ scan = "reading"
  BY DEF Init
<1>2. Lines = <<>>
  BY <1>1, LinesAtFirst DEF Lines
<1>3. /\ Len(<<>>) = 0 /\ DOMAIN <<>> = {}
      /\ InstructionsIn(<<>>, 0) = {} /\ NumberOf(<<>>, 0) = 0
  BY NoInstruction
<1>4. MaxLines \in Nat
  BY ParserAssumption
<1>5. TypeOK
  <2> HIDE DEF Line, ParsedRow
  <2>1. /\ file \in Seq(Line) /\ pool \in Seq(Bytes) /\ rows \in Seq(ParsedRow)
        /\ headers \in Seq([group : Nat, count : Nat])
    BY <1>1
  <2>2. Len(file) <= MaxLines /\ at \in 0..Len(file) /\ warnings \in 0..group
    BY <1>1, <1>3, <1>4
  <2> QED BY <1>1, <2>1, <2>2 DEF TypeOK
<1>6. CountersAgree
  BY <1>1, <1>3 DEF CountersAgree
<1>7. PoolIsRead /\ BodyIsRead /\ HeaderIsLast /\ RowsAreMeant /\ WarningsAreRight
  BY <1>1, <1>2
     DEF PoolIsRead, BodyIsRead, HeaderIsLast, RowsAreMeant, WarningsAreRight, Readable
<1>8. PassesAgree
  BY <1>1, <1>3 DEF PassesAgree
<1> QED BY <1>5, <1>6, <1>7, <1>8 DEF IInv

\* Every step of either pass keeps the invariant.
LEMMA StepKeeps ==
  ASSUME IInv, [Next]_vars
  PROVE  IInv'
<1>1. ASSUME NEW line \in Line, ReadLine(line) PROVE IInv'
  BY <1>1, BlankLineKeeps, DataHeaderKeeps, DataPoolValueKeeps,
     InstructionHeaderKeeps, StateRowKeeps, BadLineKeeps DEF ReadLine
<1>2. CASE EndOfFile
  BY <1>2, EndOfFileKeeps
<1>3. CASE ScanLine
  BY <1>3, ScanLineKeeps
<1>4. CASE ScanEnds
  BY <1>4, ScanEndsKeeps
<1>5. CASE UNCHANGED vars
  <2>1. UNCHANGED pass1 /\ at' = at /\ headers' = headers /\ scan' = scan
    BY <1>5 DEF vars, pass2
  <2>2. /\ StateTyped' /\ CountersAgree' /\ Content' /\ file' = file
        /\ status' = status /\ Readable' = Readable
    BY <2>1, FirstPassStays
  <2>3. TypeOK'
    BY <2>1, <2>2, ScanTyped DEF IInv, TypeOK
  <2>4. PassesAgree'
    <3>1. group' = group /\ header' = header /\ rows' = rows
      BY <2>1 DEF pass1, counters, corpus
    <3> QED BY <2>1, <2>2, <3>1 DEF IInv, PassesAgree
  <2> QED BY <2>2, <2>3, <2>4 DEF IInv, Content
<1> QED BY <1>1, <1>2, <1>3, <1>4, <1>5 DEF Next

\* The invariant holds of every state of both passes.
THEOREM Invariance == Spec => []IInv
<1>1. Init => IInv
  BY InitEstablishes
<1>2. IInv /\ [Next]_vars => IInv'
  BY StepKeeps
<1> QED BY <1>1, <1>2, PTL DEF Spec

\* The state of both passes keeps its types: the indices of a row are in range,
\* and there is at most one warning for a group.
THEOREM TypeCorrect == Spec => []TypeOK
<1>1. IInv => TypeOK
  BY DEF IInv
<1> QED BY <1>1, Invariance, PTL

\* ParseFile accepts exactly the well-formed files, and reads from them the rows
\* that they list, each in its group with its values, and a warning for every
\* group whose rows are not as many as it declares.
THEOREM ParsedRight == Spec => []ParsedIsRight
<1>1. ASSUME IInv PROVE ParsedIsRight
  <2>1. Lines = LinesOf(file)
    BY DEF Lines
  <2>2. ASSUME status = "parsed"
        PROVE  /\ WellFormed(Lines)
               /\ Len(rows) = Len(RowsAt(Lines))
               /\ \A n \in DOMAIN rows : RowIsMeant(Lines, n, rows[n])
               /\ group = GroupAt(Lines, Len(Lines))
               /\ warnings = Cardinality(WrongGroups(Lines, rows))
    BY <1>1, <2>2
       DEF IInv, BodyIsRead, HeaderIsLast, RowsAreMeant, WarningsAreRight, Readable
  <2>3. status = "failed" => ~ WellFormed(Lines)
    BY <1>1 DEF IInv, BodyIsRead, Readable
  <2> QED BY <2>1, <2>2, <2>3 DEF ParsedIsRight
<1> QED BY <1>1, Invariance, PTL

\* ParseInstructionHeaders collects, of a file that ParseFile accepts, the groups
\* of its rows under their numbers, and it fails on no such file.
THEOREM HeadersAgreeAlways == Spec => []HeadersAgree
<1>1. ASSUME IInv PROVE HeadersAgree
  <2>1. PassesAgree
    BY <1>1 DEF IInv
  <2>2. ASSUME scan = "parsed", status = "parsed"
        PROVE  /\ Len(headers) = group
               /\ \A n \in DOMAIN rows : headers[rows[n].group].count = rows[n].total
    <3>1. /\ at = Len(file) /\ Len(headers) = NumberOf(file, at)
          /\ group = NumberOf(file, Len(file))
          /\ \A i \in InstructionsIn(file, at) :
               headers[NumberOf(file, i)].count = file[i].header.count
          /\ \A n \in DOMAIN rows : \E i \in DOMAIN file :
               StartsGroup(file, i, rows[n].group)
               /\ file[i].header.count = rows[n].total
      BY <2>1, <2>2 DEF PassesAgree, Readable
    <3> QED BY <3>1 DEF StartsGroup
  <2>3. ASSUME scan = "failed", status # "failed" PROVE FALSE
    <3>1. PICK i \in 1..at : file[i].is = "bad header"
      BY <2>1, <2>3 DEF PassesAgree
    <3>2. i \in DOMAIN file
      <4>1. file \in Seq(Line) /\ at \in 0..Len(file)
        BY <1>1 DEF IInv, TypeOK
      <4>2. DOMAIN file = 1..Len(file) /\ Len(file) \in Nat
        BY <4>1, OneMore
      <4> QED BY <4>1, <4>2
    <3> QED BY <2>1, <2>3, <3>1, <3>2 DEF PassesAgree, Readable
  <2> QED BY <2>2, <2>3 DEF HeadersAgree
<1> QED BY <1>1, Invariance, PTL

=============================================================================
