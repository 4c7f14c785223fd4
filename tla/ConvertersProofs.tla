-------------------------- MODULE ConvertersProofs --------------------------
(***************************************************************************)
(* Proofs about Converters, for any command lines and any tables that meet *)
(* its assumptions: the texts are well formed, a file on disk holds a      *)
(* whole stretch of rows, which is all rows of its name where names come   *)
(* together, and each is read back as the row of the table; a completed    *)
(* run has reported what is on disk, and no file is lost.                  *)
(*                                                                         *)
(* What a text means is what is read back from it.  The lemmas say what    *)
(* one row more (vectors) or one group more (public) changes of that; the  *)
(* invariant says what memory holds of the rows that were read: those of   *)
(* the stretch in progress, or all of them but the test case in progress.  *)
(***************************************************************************)
EXTENDS Converters, DataTheorems

----------------------------------------------------------------------------
(* The inductive invariant.                                                *)

Rows == Input.rows

NameOf(row) == FileName[row.mnemonic]

\* The rows still to come are those after the n-th.
RestIsAfter(n) ==
  /\ n \in 0..Len(Rows) /\ Len(todo) = Len(Rows) - n
  /\ \A i \in DOMAIN todo : todo[i] = Rows[n + i]

\* A row that raises has no outputs, although its group may have a header.
OutLength(g, exception) == IF exception = "none" THEN Len(g.out) ELSE 0

FitsHeader(g, row, size) ==
  /\ row.in \in [1..Len(g.in) -> 0..(size - 1)]
  /\ row.out \in [1..OutLength(g, row.exception) -> 0..(size - 1)]

\* A text can be read back.
IsWholeGroup(g, size) ==
  /\ g = [code |-> g.code, in |-> g.in, out |-> g.out, rows |-> g.rows]
  /\ IsList(g.in) /\ IsList(g.out) /\ IsList(g.rows)
  /\ \A j \in DOMAIN g.rows : FitsHeader(g, g.rows[j], size)

IsWhole(text) ==
  /\ text = [pool |-> text.pool, groups |-> text.groups]
  /\ IsList(text.pool) /\ IsInjective(text.pool)
  /\ IsList(text.groups)
  /\ \A i \in DOMAIN text.groups : IsWholeGroup(text.groups[i], Len(text.pool))

FilesAreWhole ==
  \A path \in DOMAIN disk :
    /\ path = <<path[1], path[2]>>
    /\ disk[path] = [age |-> disk[path].age, text |-> disk[path].text]
    /\ disk[path].age \in {"old", "new"}
    /\ IsWhole(disk[path].text)

OpenIsWhole == \A name \in DOMAIN open : IsWhole(open[name])

TotalsType == totals \in [files : Nat, groups : Nat, rows : Nat]

TypesInv ==
  /\ job \in Jobs
  /\ IsList(todo) /\ IsList(case)
  /\ pc \in {"prepare", "rows", "done", "failed"}
  /\ input \in DOMAIN job.inputs
  /\ \A i \in DOMAIN todo : todo[i] \in ToSet(Rows)
  /\ \A i \in DOMAIN case : case[i] \in ToSet(Rows)
  /\ FilesAreWhole /\ OpenIsWhole /\ TotalsType
  /\ pc = "prepare" => todo = <<>> /\ open = <<>> /\ case = <<>>
  /\ job.tool = "vectors" => case = <<>>

\* vectors: how many rows have been read, and what is in memory: the rows of
\* the stretch that ends there.
Consumed == Len(Rows) - Len(todo)

KeysApart(text) ==
  \A i, j \in DOMAIN text.groups : KeyOf(text.groups[i]) = KeyOf(text.groups[j]) => i = j

OpenIsStretch(n) ==
  \E name \in DOMAIN open :
    /\ DOMAIN open = {name} /\ KeysApart(open[name])
    /\ \E a \in 1..n :
           /\ \A m \in a..n : NameOf(Rows[m]) = name
           /\ a > 1 => NameOf(Rows[a - 1]) # name
           /\ ToBag(RowsIn(open[name]))
                = ToBag([m \in 1..(n - a + 1) |-> AsRead(Rows[a + m - 1])])

VectorsInv ==
  job.tool = "vectors" /\ pc = "rows" =>
    /\ RestIsAfter(Consumed)
    /\ IF Consumed = 0 THEN open = <<>> ELSE OpenIsStretch(Consumed)

\* What has been written is counted.
NewIn(files) == {path \in DOMAIN files : files[path].age = "new"}

AreCounted(files, count) ==
  /\ IsFiniteSet(NewIn(files))
  /\ count.files = Cardinality(NewIn(files))
  /\ count.groups = Total([path \in NewIn(files) |-> Len(files[path].text.groups)])
  /\ count.rows = Total([path \in NewIn(files) |-> RowCount(files[path].text)])

WrittenIsCounted == AreCounted(disk, totals)

\* The directories of the inputs that are done hold what was written; that of
\* the input in progress holds the files of names that have passed.
DirectoriesFill ==
  /\ \A i \in DOMAIN job.inputs :
       i < input \/ (i = input /\ pc = "done") => Existing(DirOf(i)) \subseteq Written
  /\ \A path \in Written : \E i \in DOMAIN job.inputs :
       /\ path[1] = DirOf(i)
       /\ i < input \/ (i = input /\ pc # "prepare")
  /\ pc = "done" => input = Len(job.inputs)
  /\ pc = "rows" => \A path \in Existing(OutputDir) :
       /\ path \in Written /\ path[2] \notin DOMAIN open
       /\ \E m \in 1..Consumed : NameOf(Rows[m]) = path[2]

DirectoriesInv ==
  job.tool = "vectors" /\ NamesComeTogether /\ pc # "failed" =>
    WrittenIsCounted /\ DirectoriesFill

\* Every row of the inputs that are done has a file of its name; each that has
\* been read of the input in progress has one, or its corpus is in memory.
NamesHaveFiles ==
  /\ \A i \in DOMAIN job.inputs : i < input \/ (i = input /\ pc = "done") =>
       \A row \in ToSet(job.inputs[i].rows) : <<DirOf(i), NameOf(row)>> \in DOMAIN disk
  /\ pc = "rows" => \A m \in 1..Consumed :
       NameOf(Rows[m]) \in DOMAIN open \/ <<OutputDir, NameOf(Rows[m])>> \in DOMAIN disk

NamesInv ==
  job.tool = "vectors" /\ NamesComeTogether /\ pc # "failed" => NamesHaveFiles

\* What a file holds, whether or not names come together.
FilesHoldStretches ==
  \A path \in DOMAIN disk : disk[path].age = "new" =>
    IF job.tool = "vectors" THEN HoldsAStretch(path) ELSE HoldsItsRows(path)

\* public: which rows are in files, which in the test case in progress.
LimitIsKept ==
  /\ job.limit # 0 => totals.rows + Len(case) <= job.limit
  /\ totals.rows + Len(case) <= Len(Rows)
  /\ \A i \in DOMAIN case : case[i] = Rows[totals.rows + i]
  /\ \A i, j \in DOMAIN case : case[i].case = case[j].case
  /\ \/ RestIsAfter(totals.rows + Len(case))
     \/ todo = <<>> /\ job.limit # 0 /\ totals.rows + Len(case) = job.limit

\* The rows that go to a name, of the first n.
Mine(n, name) ==
  LET first == SubSeq(Rows, 1, n)
  IN  Only(first, {i \in DOMAIN first : HandleFor(first[i]) = name})

Holds(text, rows) ==
  LET read == RowsIn(text)
  IN  Len(read) = Len(rows) /\ \A i \in DOMAIN rows : IsMadeFrom(read[i], rows[i])

PathsOf(texts) == {<<".", name>> : name \in DOMAIN texts}

AreCountedOpen(texts, count) ==
  /\ IsFiniteSet(PathsOf(texts))
  /\ count.groups = Total([path \in PathsOf(texts) |-> Len(texts[path[2]].groups)])
  /\ count.rows = Total([path \in PathsOf(texts) |-> RowCount(texts[path[2]])])

OpenIsCounted == AreCountedOpen(open, totals)

\* What holds of the public corpus while its rows are read.
NothingIsLost ==
  /\ job.single => DOMAIN open = {SingleFile[2]}
  /\ ~ job.single => Existing(".") = {}
  /\ job.single /\ ~ job.overwrite => SingleFile \notin DOMAIN disk

OpenHoldsCases ==
  /\ OpenIsCounted
  /\ \A name \in DOMAIN open : Holds(open[name], Mine(totals.rows, name))
  /\ \A i \in 1..totals.rows : HandleFor(Rows[i]) \in DOMAIN open

PublicRowsInv == NothingIsLost /\ LimitIsKept /\ OpenHoldsCases

PublicInv ==
  job.tool = "public" =>
    /\ pc \in {"prepare", "rows"} => Written = {}
    /\ pc = "prepare" => totals.groups = 0 /\ totals.rows = 0
    /\ pc = "rows" => PublicRowsInv

\* A completed run has reported what it has written.
Reported ==
  /\ WrittenIsCounted
  /\ \A i \in DOMAIN job.inputs : ~ job.single => Existing(DirOf(i)) \subseteq Written
  /\ job.tool = "public" => totals.rows = Len(Converted)

IInv ==
  /\ TypesInv /\ VectorsInv /\ DirectoriesInv /\ NamesInv /\ PublicInv
  /\ FilesHoldStretches
  /\ job.tool = "public" /\ pc = "done" => Reported

----------------------------------------------------------------------------
(* The pool.                                                               *)

\* A value that is not in the pool is new at the first of its places.
LEMMA FirstPlace ==
  ASSUME NEW pool, NEW values, IsList(values), NEW v \in ToSet(values), v \notin ToSet(pool)
  PROVE  \E i \in 1..Len(values) : values[i] = v /\ IsNew(pool, values, i)
<1> DEFINE P == PlacesOf(values, v)
<1>1. P \subseteq 1..Len(values) /\ P # {} /\ P \in SUBSET Nat /\ Len(values) \in Nat
      /\ \A i : i \in P <=> i \in 1..Len(values) /\ values[i] = v
  <2>1. DOMAIN values = 1..Len(values) /\ Len(values) \in Nat
    BY ListFacts
  <2> QED BY <2>1 DEF ToSet, PlacesOf
<1> HIDE DEF P
<1>2. PICK m \in P : \A k \in P : m <= k
  BY <1>1, LeastNumber
<1>3. ASSUME NEW j \in 1..(m - 1) PROVE values[j] # v
  <2>1. m \in 1..Len(values) /\ j \in 1..Len(values) /\ ~ (m <= j)
    BY <1>1, <1>2
  <2>2. j \notin P
    BY <1>2, <2>1
  <2> QED BY <1>1, <2>1, <2>2
<1> QED BY <1>1, <1>2, <1>3 DEF IsNew

\* A pool grows at its end, by the values it has not, and stays injective.
LEMMA PoolGrows ==
  ASSUME NEW pool, IsList(pool), IsInjective(pool), NEW values, IsList(values)
  PROVE  LET new == WithValues(pool, values)
         IN  /\ IsList(new) /\ IsInjective(new)
             /\ Len(pool) \in Nat /\ Len(new) \in Nat /\ Len(pool) <= Len(new)
             /\ \A i \in 1..Len(pool) : new[i] = pool[i]
             /\ ToSet(new) = ToSet(pool) \cup ToSet(values)
<1> DEFINE I == {i \in DOMAIN values : IsNew(pool, values, i)}
           more == Only(values, I)
           new == pool \o more
<1>1. /\ Len(values) \in Nat /\ DOMAIN values = 1..Len(values)
      /\ Len(pool) \in Nat /\ DOMAIN pool = 1..Len(pool)
  BY ListFacts
<1>2. \A i \in I : /\ i \in 1..Len(values) /\ values[i] \notin ToSet(pool)
                   /\ \A j \in 1..(i - 1) : values[j] # values[i]
  BY <1>1 DEF IsNew
<1>3. ASSUME NEW i \in I, NEW j \in I, i # j PROVE values[i] # values[j]
  <2>1. i \in 1..(j - 1) \/ j \in 1..(i - 1)
    BY <1>1, <1>2, <1>3
  <2> QED BY <1>2, <2>1
<1>4. IsList(more) /\ AllApart(more) /\ ToSet(more) = {values[i] : i \in I \cap 1..Len(values)}
  <2> HIDE DEF I
  <2>1. \A i, j \in I \cap 1..Len(values) : i # j => values[i] # values[j]
    BY <1>3
  <2> QED BY <2>1, OnlyApart
<1>5. ToSet(more) \cap ToSet(pool) = {}
  BY <1>2, <1>4
<1>6. ToSet(values) \subseteq ToSet(pool) \cup ToSet(more)
  <2> SUFFICES ASSUME NEW v \in ToSet(values), v \notin ToSet(pool) PROVE v \in ToSet(more)
    OBVIOUS
  <2>1. PICK i \in 1..Len(values) : values[i] = v /\ IsNew(pool, values, i)
    BY FirstPlace
  <2>2. i \in I
    BY <1>1, <2>1
  <2> QED BY <1>4, <2>1, <2>2
<1>7. ToSet(more) \subseteq ToSet(values)
  BY <1>1, <1>4 DEF ToSet
<1> HIDE DEF more
<1>8. /\ IsList(new) /\ Len(new) = Len(pool) + Len(more) /\ Len(more) \in Nat
      /\ \A i \in 1..Len(pool) : new[i] = pool[i]
      /\ \A i \in 1..Len(more) : new[Len(pool) + i] = more[i]
      /\ ToSet(new) = ToSet(pool) \cup ToSet(more)
  <2>1. IsList(more) /\ Len(more) \in Nat
    BY <1>4, ListFacts
  <2> QED BY <2>1, ListConcat
<1>9. IsInjective(new)
  <2> SUFFICES ASSUME NEW a \in DOMAIN new, NEW b \in DOMAIN new, new[a] = new[b] PROVE a = b
    BY DEF IsInjective
  <2>1. DOMAIN new = 1..(Len(pool) + Len(more)) /\ DOMAIN more = 1..Len(more)
    BY <1>4, <1>8, ListFacts
  <2> HIDE DEF new
  <2>2. ASSUME NEW c \in DOMAIN new
        PROVE  \/ c \in 1..Len(pool) /\ new[c] = pool[c] /\ new[c] \in ToSet(pool)
               \/ /\ c - Len(pool) \in 1..Len(more) /\ new[c] = more[c - Len(pool)]
                  /\ new[c] \in ToSet(more)
    <3>1. CASE c \in 1..Len(pool)
      BY <1>1, <1>8, <3>1 DEF ToSet
    <3>2. CASE c \notin 1..Len(pool)
      <4>1. c - Len(pool) \in 1..Len(more) /\ Len(pool) + (c - Len(pool)) = c
        BY <1>1, <1>8, <2>1, <3>2
      <4> QED BY <1>8, <2>1, <4>1 DEF ToSet
    <3> QED BY <3>1, <3>2
  <2>3. CASE a \in 1..Len(pool) /\ b \in 1..Len(pool)
    BY <1>1, <1>8, <2>3 DEF IsInjective
  <2>4. CASE ~ (a \in 1..Len(pool)) /\ ~ (b \in 1..Len(pool))
    <3>1. a - Len(pool) = b - Len(pool)
      BY <1>4, <2>1, <2>2, <2>4 DEF AllApart
    <3> QED BY <1>1, <1>8, <2>1, <3>1
  <2> QED BY <1>5, <2>2, <2>3, <2>4
<1>10. Len(new) \in Nat /\ Len(pool) <= Len(new)
  BY <1>1, <1>8
<1>11. ToSet(new) = ToSet(pool) \cup ToSet(values)
  BY <1>6, <1>7, <1>8
<1>12. new = WithValues(pool, values)
  BY DEF WithValues, more
<1> HIDE DEF new
<1> QED BY <1>1, <1>8, <1>9, <1>10, <1>11, <1>12

\* Where a value is in the pool.
LEMMA IndexFinds ==
  ASSUME NEW pool, IsList(pool), NEW v \in ToSet(pool)
  PROVE  PoolIndex(pool, v) \in 0..(Len(pool) - 1) /\ pool[PoolIndex(pool, v) + 1] = v
<1> DEFINE p == CHOOSE i \in DOMAIN pool : pool[i] = v
<1>1. DOMAIN pool = 1..Len(pool) /\ Len(pool) \in Nat
  BY ListFacts
<1>2. \E i \in DOMAIN pool : pool[i] = v
  BY DEF ToSet
<1>3. p \in DOMAIN pool /\ pool[p] = v
  BY <1>2
<1>4. PoolIndex(pool, v) = p - 1
  BY DEF PoolIndex
<1> HIDE DEF p
<1> QED BY <1>1, <1>3, <1>4

\* The indices written for values lead back to them.
LEMMA IndicesFind ==
  ASSUME NEW pool, IsList(pool), NEW values, IsList(values), ToSet(values) \subseteq ToSet(pool)
  PROVE  /\ Indices(pool, values) \in [1..Len(values) -> 0..(Len(pool) - 1)]
         /\ \A i \in 1..Len(values) : pool[Indices(pool, values)[i] + 1] = values[i]
<1>1. DOMAIN values = 1..Len(values) /\ \A i \in 1..Len(values) : values[i] \in ToSet(pool)
  BY ListFacts
<1>2. Indices(pool, values) = [i \in 1..Len(values) |-> PoolIndex(pool, values[i])]
  BY <1>1 DEF Indices
<1> QED BY <1>1, <1>2, IndexFinds

----------------------------------------------------------------------------
(* What is read back from a text.                                          *)

ReadBack(text, g, row) ==
  [code |-> g.code, exception |-> row.exception,
   in |-> ItemsOf(text, g.in, row.in), out |-> ItemsOf(text, g.out, row.out)]

Extends(new, pool) ==
  /\ IsList(pool) /\ IsList(new) /\ Len(pool) <= Len(new)
  /\ \A i \in 1..Len(pool) : new[i] = pool[i]

\* A longer pool still fits the rows that were written before.
LEMMA FitsStays ==
  ASSUME NEW g, NEW row, NEW m \in Nat, NEW n \in Nat, m <= n, FitsHeader(g, row, m)
  PROVE  FitsHeader(g, row, n)
<1>1. 0..(m - 1) \subseteq 0..(n - 1)
  OBVIOUS
<1> DEFINE A == 0..(m - 1)
           B == 0..(n - 1)
<1> HIDE DEF A, B
<1>2. A \subseteq B
  BY <1>1 DEF A, B
<1>3. /\ row.in \in [1..Len(g.in) -> A]
      /\ row.out \in [1..OutLength(g, row.exception) -> A]
  BY DEF FitsHeader, A
<1>4. /\ row.in \in [1..Len(g.in) -> B]
      /\ row.out \in [1..OutLength(g, row.exception) -> B]
  BY <1>2, <1>3
<1> QED BY <1>4 DEF FitsHeader, B

\* Old indices mean the same when the pool has grown.
LEMMA ItemsStay ==
  ASSUME NEW text, NEW new, Extends(new.pool, text.pool), NEW keys, NEW m,
         NEW indices \in [1..m -> 0..(Len(text.pool) - 1)]
  PROVE  ItemsOf(new, keys, indices) = ItemsOf(text, keys, indices)
<1>1. DOMAIN indices = 1..m /\ Len(text.pool) \in Nat
  BY ListFacts DEF Extends
<1>2. ASSUME NEW n \in 1..m PROVE new.pool[indices[n] + 1] = text.pool[indices[n] + 1]
  <2>1. indices[n] \in 0..(Len(text.pool) - 1)
    OBVIOUS
  <2>2. indices[n] + 1 \in 1..Len(text.pool)
    BY <1>1, <2>1
  <2> QED BY <2>2 DEF Extends
<1> QED BY <1>1, <1>2 DEF ItemsOf

\* A row reads the same through a pool that has grown.
LEMMA ReadBackStays ==
  ASSUME NEW text, NEW new, Extends(new.pool, text.pool), NEW g, NEW row,
         FitsHeader(g, row, Len(text.pool))
  PROVE  ReadBack(new, g, row) = ReadBack(text, g, row)
  BY ItemsStay DEF FitsHeader, ReadBack

LEMMA GroupStays ==
  ASSUME NEW text, NEW new, Extends(new.pool, text.pool), NEW g,
         IsWholeGroup(g, Len(text.pool))
  PROVE  /\ GroupRows(new, g) = GroupRows(text, g)
         /\ IsWholeGroup(g, Len(new.pool))
<1>1. Len(text.pool) \in Nat /\ Len(new.pool) \in Nat /\ Len(text.pool) <= Len(new.pool)
  BY ListFacts DEF Extends
<1>2. \A j \in DOMAIN g.rows : /\ FitsHeader(g, g.rows[j], Len(text.pool))
                               /\ FitsHeader(g, g.rows[j], Len(new.pool))
  BY <1>1, FitsStays DEF IsWholeGroup
<1>3. \A j \in DOMAIN g.rows : ReadBack(new, g, g.rows[j]) = ReadBack(text, g, g.rows[j])
  BY <1>2, ReadBackStays
<1>4. /\ GroupRows(new, g) = [j \in DOMAIN g.rows |-> ReadBack(new, g, g.rows[j])]
      /\ GroupRows(text, g) = [j \in DOMAIN g.rows |-> ReadBack(text, g, g.rows[j])]
  BY DEF GroupRows, ReadBack
<1>5. GroupRows(new, g) = GroupRows(text, g)
  BY <1>3, <1>4
<1>6. IsWholeGroup(g, Len(new.pool))
  BY <1>2 DEF IsWholeGroup
<1> QED BY <1>5, <1>6

LEMMA GroupRowsList ==
  ASSUME NEW text, NEW g, IsList(g.rows)
  PROVE  /\ IsList(GroupRows(text, g)) /\ Len(GroupRows(text, g)) = Len(g.rows)
         /\ Len(g.rows) \in Nat
         /\ \A j \in 1..Len(g.rows) : GroupRows(text, g)[j] = ReadBack(text, g, g.rows[j])
<1> DEFINE r == GroupRows(text, g)
           n == Len(g.rows)
<1>1. n \in Nat /\ DOMAIN g.rows = 1..n
  BY ListFacts
<1>2. r = [j \in 1..n |-> ReadBack(text, g, g.rows[j])]
  BY <1>1 DEF GroupRows, ReadBack
<1> HIDE DEF r, n
<1>3. r = [j \in 1..n |-> r[j]]
  BY <1>2
<1>4. IsList(r) /\ Len(r) = n
  BY <1>1, <1>3, ListByPlaces
<1>5. \A j \in 1..n : r[j] = ReadBack(text, g, g.rows[j])
  BY <1>2
<1> QED BY <1>1, <1>4, <1>5 DEF r, n

Parts(text) == [i \in DOMAIN text.groups |-> GroupRows(text, text.groups[i])]

\* What is read from a text is what is read from its groups, one by one.
LEMMA ReadIsJoined ==
  ASSUME NEW text, IsWhole(text)
  PROVE  /\ RowsIn(text) = Joined(Parts(text), Len(text.groups))
         /\ \A i \in 1..Len(text.groups) :
              IsList(Parts(text)[i]) /\ Parts(text)[i] = GroupRows(text, text.groups[i])
         /\ Len(text.groups) \in Nat /\ DOMAIN text.groups = 1..Len(text.groups)
         /\ IsList(RowsIn(text))
<1> DEFINE n == Len(text.groups)
           P == Parts(text)
<1>1. n \in Nat /\ DOMAIN text.groups = 1..n
  BY ListFacts DEF IsWhole
<1>2. P = [i \in 1..n |-> GroupRows(text, text.groups[i])]
  BY <1>1 DEF Parts
<1>3. \A i \in 1..n : IsList(GroupRows(text, text.groups[i]))
  BY <1>1, GroupRowsList DEF IsWhole, IsWholeGroup
<1>4. RowsIn(text) = FlattenSeq(P)
  BY DEF RowsIn, Parts
<1> HIDE DEF P, n
<1>5. [i \in 1..n |-> P[i]] = P
  BY <1>2
<1>6. RowsIn(text) = Joined(P, n)
  BY <1>4, <1>5 DEF Joined
<1>7. \A i \in 1..n : IsList(P[i]) /\ P[i] = GroupRows(text, text.groups[i])
  BY <1>2, <1>3
<1>8. IsList(Joined(P, n))
  BY <1>1, <1>7, JoinedLists
<1> QED BY <1>1, <1>6, <1>7, <1>8 DEF P, n

\* One more group.
LEMMA GroupAdded ==
  ASSUME NEW text, IsWhole(text), NEW new, NEW g,
         new = [pool |-> new.pool, groups |-> Append(text.groups, g)],
         IsInjective(new.pool), Extends(new.pool, text.pool),
         IsWholeGroup(g, Len(new.pool))
  PROVE  /\ IsWhole(new)
         /\ RowsIn(new) = RowsIn(text) \o GroupRows(new, g)
         /\ IsList(GroupRows(new, g))
<1> DEFINE n == Len(text.groups)
           P == Parts(text)
           Q == Parts(new)
<1>1. /\ RowsIn(text) = Joined(P, n)
      /\ \A i \in 1..n : IsList(P[i]) /\ P[i] = GroupRows(text, text.groups[i])
      /\ n \in Nat /\ DOMAIN text.groups = 1..n
  BY ReadIsJoined
<1>2. /\ IsList(new.groups) /\ Len(new.groups) = n + 1
      /\ DOMAIN new.groups = 1..(n + 1) /\ new.groups[n + 1] = g
      /\ \A i \in 1..n : new.groups[i] = text.groups[i]
  <2>1. IsList(text.groups) /\ new.groups = Append(text.groups, g)
    BY DEF IsWhole
  <2> QED BY <2>1, ListAppend
<1>3. \A i \in 1..n : /\ GroupRows(new, text.groups[i]) = GroupRows(text, text.groups[i])
                      /\ IsWholeGroup(text.groups[i], Len(new.pool))
  BY <1>1, GroupStays DEF IsWhole
<1>4. \A i \in 1..(n + 1) : i \in 1..n \/ i = n + 1
  BY <1>1
<1>5. IsWhole(new)
  <2>1. \A i \in DOMAIN new.groups : IsWholeGroup(new.groups[i], Len(new.pool))
    BY <1>2, <1>3, <1>4
  <2> QED BY <1>2, <2>1 DEF IsWhole, Extends
<1>6. /\ RowsIn(new) = Joined(Q, n + 1)
      /\ \A i \in 1..(n + 1) : IsList(Q[i]) /\ Q[i] = GroupRows(new, new.groups[i])
  BY <1>2, <1>5, ReadIsJoined
<1> HIDE DEF P, Q, n
<1>7. Joined(Q, n + 1) = Joined(Q, n) \o Q[n + 1]
  <2> DEFINE N == n + 1
  <2>1. N \in Nat /\ n \in 0..(N - 1) /\ \A i \in 1..N : IsList(Q[i])
    BY <1>1, <1>6
  <2> HIDE DEF N
  <2>2. Joined(Q, n + 1) = Joined(Q, n) \o Q[n + 1]
    BY <2>1, JoinedLists
  <2> QED BY <2>2
<1>8. Joined(Q, n) = Joined(P, n)
  <2>1. \A i \in 1..n : Q[i] = P[i]
    BY <1>1, <1>2, <1>3, <1>4, <1>6
  <2> QED BY <2>1 DEF Joined
<1>9. n + 1 \in 1..(n + 1)
  BY <1>1
<1> QED BY <1>1, <1>2, <1>5, <1>6, <1>7, <1>8, <1>9 DEF P, Q, n

----------------------------------------------------------------------------
(* vectors: one row more in a text.                                        *)

IsVectorRow(row) == IsList(row.inputs) /\ IsList(row.outputs)

LEMMA ItemLists ==
  ASSUME NEW items, IsList(items)
  PROVE  /\ IsList(Schema(items)) /\ Len(Schema(items)) = Len(items)
         /\ IsList(Values(items)) /\ Len(Values(items)) = Len(items)
         /\ Len(items) \in Nat /\ DOMAIN items = 1..Len(items)
         /\ \A i \in 1..Len(items) :
              Schema(items)[i] = items[i].key /\ Values(items)[i] = items[i].value
<1> DEFINE n == Len(items)
           s == Schema(items)
           v == Values(items)
<1>1. n \in Nat /\ DOMAIN items = 1..n
  BY ListFacts
<1>2. s = [i \in 1..n |-> items[i].key] /\ v = [i \in 1..n |-> items[i].value]
  BY <1>1 DEF Schema, Values
<1> HIDE DEF s, v, n
<1>3. s = [i \in 1..n |-> s[i]] /\ v = [i \in 1..n |-> v[i]]
  BY <1>2
<1>4. IsList(s) /\ Len(s) = n /\ IsList(v) /\ Len(v) = n
  BY <1>1, <1>3, ListByPlaces
<1>5. \A i \in 1..n : s[i] = items[i].key /\ v[i] = items[i].value
  BY <1>2
<1> QED BY <1>1, <1>4, <1>5 DEF s, v, n

AreItems(items) ==
  IsList(items) /\ \A i \in 1..Len(items) : items[i] = Item(items[i].key, items[i].value)

LEMMA NormalizedItems ==
  ASSUME NEW items, IsList(items)
  PROVE  AreItems(Normalized(items)) /\ Len(Normalized(items)) = Len(items)
<1> DEFINE n == Len(items)
           r == Normalized(items)
<1>1. n \in Nat /\ DOMAIN items = 1..n
  BY ListFacts
<1>2. r = [i \in 1..n |-> Item(NormalizeStateKey(items[i].key), items[i].value)]
  BY <1>1 DEF Normalized
<1> HIDE DEF r, n
<1>3. r = [i \in 1..n |-> r[i]]
  BY <1>2
<1>4. IsList(r) /\ Len(r) = n
  BY <1>1, <1>3, ListByPlaces
<1>5. \A i \in 1..n : r[i] = Item(r[i].key, r[i].value)
  BY <1>2 DEF Item
<1> QED BY <1>4, <1>5 DEF AreItems, r, n

LEMMA OutputsAreItems ==
  ASSUME NEW row, IsVectorRow(row)
  PROVE  /\ AreItems(OutputsOf(row))
         /\ row.exception # "none" => Len(OutputsOf(row)) = 0
<1>1. CASE row.exception # "none"
  BY <1>1, EmptyList DEF OutputsOf, AreItems
<1>2. CASE row.exception = "none"
  BY <1>2, NormalizedItems DEF OutputsOf, IsVectorRow
<1> QED BY <1>1, <1>2

\* Items written through the pool are read back.
LEMMA ItemsReadBack ==
  ASSUME NEW text, IsList(text.pool), NEW items, AreItems(items),
         ToSet(Values(items)) \subseteq ToSet(text.pool)
  PROVE  /\ ItemsOf(text, Schema(items), Indices(text.pool, Values(items))) = items
         /\ Indices(text.pool, Values(items))
              \in [1..Len(items) -> 0..(Len(text.pool) - 1)]
<1> DEFINE v == Values(items)
           ix == Indices(text.pool, v)
           s == Schema(items)
           n == Len(items)
<1>1. /\ IsList(v) /\ Len(v) = n /\ n \in Nat
      /\ \A i \in 1..n : s[i] = items[i].key /\ v[i] = items[i].value
  BY ItemLists DEF AreItems
<1>2. /\ ix \in [1..Len(v) -> 0..(Len(text.pool) - 1)]
      /\ \A i \in 1..Len(v) : text.pool[ix[i] + 1] = v[i]
  BY <1>1, IndicesFind
<1>3. DOMAIN ix = 1..n /\ \A i \in 1..n : text.pool[ix[i] + 1] = items[i].value
  BY <1>1, <1>2
<1>4. /\ items = [i \in 1..n |-> items[i]]
      /\ \A i \in 1..n : items[i] = Item(items[i].key, items[i].value)
  BY ListFacts DEF AreItems
<1> HIDE DEF v, ix, s, n
<1>5. ItemsOf(text, s, ix) = [i \in 1..n |-> Item(s[i], text.pool[ix[i] + 1])]
  BY <1>3 DEF ItemsOf
<1>6. \A i \in 1..n : Item(s[i], text.pool[ix[i] + 1]) = items[i]
  BY <1>1, <1>3, <1>4
<1>7. ItemsOf(text, s, ix) = [i \in 1..n |-> items[i]]
  BY <1>5, <1>6
<1> QED BY <1>1, <1>2, <1>4, <1>7 DEF v, ix, s, n

\* What AddRow writes for a row.
NewPool(text, row) ==
  WithValues(text.pool, Values(Normalized(row.inputs)) \o Values(OutputsOf(row)))

RowText(text, row) ==
  [in |-> Indices(NewPool(text, row), Values(Normalized(row.inputs))),
   out |-> Indices(NewPool(text, row), Values(OutputsOf(row))),
   exception |-> row.exception]

\* The row that AddRow writes is read back as the row of the table.
LEMMA RowReadBack ==
  ASSUME NEW text, IsWhole(text), NEW row, IsVectorRow(row), NEW new,
         new.pool = NewPool(text, row),
         NEW g, KeyOf(g) = GroupKey(row)
  PROVE  /\ IsInjective(new.pool) /\ Extends(new.pool, text.pool)
         /\ FitsHeader(g, RowText(text, row), Len(new.pool))
         /\ ReadBack(new, g, RowText(text, row)) = AsRead(row)
<1> DEFINE in == Normalized(row.inputs)
           out == OutputsOf(row)
           a == Values(in)
           b == Values(out)
           ab == a \o b
           pool == new.pool
<1>1. /\ AreItems(in) /\ AreItems(out)
      /\ row.exception # "none" => Len(out) = 0
  BY NormalizedItems, OutputsAreItems DEF IsVectorRow
<1>2. IsList(a) /\ IsList(b) /\ IsList(ab) /\ ToSet(ab) = ToSet(a) \cup ToSet(b)
  <2>1. IsList(a) /\ IsList(b)
    BY <1>1, ItemLists DEF AreItems
  <2> HIDE DEF a, b
  <2> QED BY <2>1, ListConcat
<1>3. pool = WithValues(text.pool, ab)
  BY DEF NewPool
<1> HIDE DEF ab
<1>4. /\ IsList(pool) /\ IsInjective(pool) /\ Extends(pool, text.pool)
      /\ ToSet(pool) = ToSet(text.pool) \cup ToSet(ab)
  <2>1. IsList(text.pool) /\ IsInjective(text.pool)
    BY DEF IsWhole
  <2> QED BY <1>2, <1>3, <2>1, PoolGrows DEF Extends
<1>5. /\ ItemsOf(new, Schema(in), Indices(pool, a)) = in
      /\ Indices(pool, a) \in [1..Len(in) -> 0..(Len(pool) - 1)]
  BY <1>1, <1>2, <1>4, ItemsReadBack
<1>6. /\ ItemsOf(new, Schema(out), Indices(pool, b)) = out
      /\ Indices(pool, b) \in [1..Len(out) -> 0..(Len(pool) - 1)]
  BY <1>1, <1>2, <1>4, ItemsReadBack
<1>7. g.code = row.code /\ g.in = Schema(in) /\ g.out = Schema(out)
  BY DEF KeyOf, GroupKey
<1>8. Len(g.in) = Len(in) /\ Len(g.out) = Len(out)
  BY <1>1, <1>7, ItemLists DEF AreItems
<1>9. RowText(text, row) = [in |-> Indices(pool, a), out |-> Indices(pool, b),
                             exception |-> row.exception]
  BY DEF RowText
<1> HIDE DEF in, out, a, b, pool
<1>10. OutLength(g, row.exception) = Len(out)
  BY <1>1, <1>8 DEF OutLength
<1>11. FitsHeader(g, RowText(text, row), Len(pool))
  BY <1>5, <1>6, <1>8, <1>9, <1>10 DEF FitsHeader
<1>12. ReadBack(new, g, RowText(text, row)) = AsRead(row)
  BY <1>5, <1>6, <1>7, <1>9 DEF ReadBack, AsRead, in, out
<1> QED BY <1>4, <1>11, <1>12 DEF pool

\* One more row in a group.
Grown(g, r) == [g EXCEPT !.rows = Append(@, r)]

\* A group with one more row reads as before, and then that row.
LEMMA GroupGrows ==
  ASSUME NEW new, NEW g, NEW size, IsWholeGroup(g, size), NEW r, FitsHeader(g, r, size)
  PROVE  LET more == Grown(g, r)
         IN  /\ IsWholeGroup(more, size) /\ KeyOf(more) = KeyOf(g)
             /\ IsList(GroupRows(new, more)) /\ IsList(GroupRows(new, g))
             /\ \A x : Times(GroupRows(new, more), x) =
                         Times(GroupRows(new, g), x) + IF x = ReadBack(new, g, r) THEN 1 ELSE 0
<1> DEFINE rows == Append(g.rows, r)
           more == Grown(g, r)
           n == Len(g.rows)
           e == ReadBack(new, g, r)
           a == GroupRows(new, g)
           b == GroupRows(new, more)
<1>1. more = [code |-> g.code, in |-> g.in, out |-> g.out, rows |-> rows]
  BY DEF IsWholeGroup, Grown
<1>2. /\ IsList(rows) /\ Len(rows) = n + 1 /\ DOMAIN rows = 1..(n + 1) /\ rows[n + 1] = r
      /\ \A i \in 1..n : rows[i] = g.rows[i]
      /\ n \in Nat /\ DOMAIN g.rows = 1..n
  BY ListAppend, ListFacts DEF IsWholeGroup
<1> HIDE DEF more, rows
<1>3. more.code = g.code /\ more.in = g.in /\ more.out = g.out /\ more.rows = rows
  BY <1>1
<1>4. \A i \in 1..(n + 1) : i \in 1..n \/ i = n + 1
  BY <1>2
<1>5. \A j : FitsHeader(more, j, size) <=> FitsHeader(g, j, size)
  BY <1>3 DEF FitsHeader, OutLength
<1>6. IsWholeGroup(more, size)
  <2>1. \A j \in 1..(n + 1) : FitsHeader(more, rows[j], size)
    BY <1>2, <1>4, <1>5 DEF IsWholeGroup
  <2> QED BY <1>1, <1>2, <1>3, <2>1 DEF IsWholeGroup
<1>7. \A j : ReadBack(new, more, j) = ReadBack(new, g, j)
  BY <1>3 DEF ReadBack
<1>8. /\ IsList(a) /\ Len(a) = n /\ \A j \in 1..n : a[j] = ReadBack(new, g, g.rows[j])
  BY GroupRowsList DEF IsWholeGroup
<1>9. /\ IsList(b) /\ Len(b) = n + 1
      /\ \A j \in 1..(n + 1) : b[j] = ReadBack(new, g, rows[j])
  BY <1>2, <1>3, <1>7, GroupRowsList
<1> HIDE DEF a, b, e
<1>10. b = Append(a, e)
  <2> DEFINE c == Append(a, e)
  <2>1. IsList(c) /\ Len(c) = n + 1 /\ c[n + 1] = e /\ \A i \in 1..n : c[i] = a[i]
    BY <1>8, ListAppend
  <2> HIDE DEF c
  <2>2. n + 1 \in 1..(n + 1) /\ \A i \in 1..n : i \in 1..(n + 1)
    BY <1>2
  <2>3. \A j \in 1..(n + 1) : b[j] = c[j]
    BY <1>2, <1>4, <1>8, <1>9, <2>1, <2>2 DEF e
  <2>4. b = c
    BY <1>9, <2>1, <2>3, ListsEqual
  <2> QED BY <2>4 DEF c
<1>11. \A x : Times(b, x) = Times(a, x) + IF x = e THEN 1 ELSE 0
  BY <1>8, <1>10, TimesAppend
<1>12. KeyOf(more) = KeyOf(g)
  BY <1>3 DEF KeyOf
<1> QED BY <1>6, <1>8, <1>9, <1>11, <1>12 DEF more, a, b, e

\* After AddRow a text can still be read back, and holds one row more.
LEMMA RowAdded ==
  ASSUME NEW text, IsWhole(text), KeysApart(text), NEW row, IsVectorRow(row)
  PROVE  LET new == AddRow(text, row)
         IN  /\ IsWhole(new) /\ KeysApart(new)
             /\ \A x : Times(RowsIn(new), x) =
                         Times(RowsIn(text), x) + IF x = AsRead(row) THEN 1 ELSE 0
<1> DEFINE new == AddRow(text, row)
           r == RowText(text, row)
           key == GroupKey(row)
           one == [code |-> key.code, in |-> key.in, out |-> key.out, rows |-> <<r>>]
           groups == text.groups
           n == Len(groups)
           at == {i \in DOMAIN groups : KeyOf(groups[i]) = key}
           e == AsRead(row)
<1>1. /\ new = [pool |-> new.pool, groups |-> new.groups]
      /\ new.pool = NewPool(text, row)
      /\ new.groups = WithRow(groups, row, r)
  BY DEF AddRow, NewPool, RowText
<1>2. /\ at = {} => new.groups = Append(groups, one)
      /\ at # {} => new.groups = [i \in DOMAIN groups |->
                       IF i \in at THEN Grown(groups[i], r)
                                   ELSE groups[i]]
  BY <1>1 DEF WithRow, Grown
<1>3. /\ IsList(groups) /\ n \in Nat /\ DOMAIN groups = 1..n
      /\ \A i \in 1..n : IsWholeGroup(groups[i], Len(text.pool))
      /\ IsList(text.pool)
  BY ListFacts DEF IsWhole
<1>4. \A g : KeyOf(g) = key => /\ FitsHeader(g, r, Len(new.pool)) /\ ReadBack(new, g, r) = e
  BY <1>1, RowReadBack
<1>5. IsInjective(new.pool) /\ Extends(new.pool, text.pool)
  <2>1. \E g : KeyOf(g) = key
    <3>1. KeyOf(one) = key
      BY DEF KeyOf, GroupKey
    <3> QED BY <3>1
  <2> QED BY <1>1, <2>1, RowReadBack
<1>6. IsList(RowsIn(text))
  BY ReadIsJoined
<1> HIDE DEF new, r, e
<1>7. CASE at = {}
  <2>1. new = [pool |-> new.pool, groups |-> Append(groups, one)]
    BY <1>1, <1>2, <1>7
  <2>2. KeyOf(one) = key
    BY DEF KeyOf, GroupKey
  <2>3. IsWholeGroup(one, Len(new.pool))
    <3> DEFINE rr == <<r>>
    <3>1. IsList(rr) /\ DOMAIN rr = {1} /\ rr[1] = r
      BY TimesOne
    <3>2. IsList(key.in) /\ IsList(key.out)
      <4>1. AreItems(Normalized(row.inputs)) /\ AreItems(OutputsOf(row))
        BY NormalizedItems, OutputsAreItems DEF IsVectorRow
      <4> QED BY <4>1, ItemLists DEF GroupKey, AreItems
    <3>3. FitsHeader(one, r, Len(new.pool))
      BY <1>4, <2>2
    <3>4. one = [code |-> one.code, in |-> one.in, out |-> one.out, rows |-> one.rows]
          /\ one.rows = rr /\ one.in = key.in /\ one.out = key.out
      OBVIOUS
    <3> HIDE DEF one, rr
    <3> QED BY <3>1, <3>2, <3>3, <3>4 DEF IsWholeGroup
  <2> HIDE DEF one
  <2>4. /\ IsWhole(new) /\ RowsIn(new) = RowsIn(text) \o GroupRows(new, one)
        /\ IsList(GroupRows(new, one))
    BY <1>5, <2>1, <2>3, GroupAdded
  <2>5. GroupRows(new, one) = <<e>>
    <3>1. one.rows = <<r>> /\ DOMAIN <<r>> = 1..1 /\ <<r>>[1] = r
      BY DEF one
    <3>2. GroupRows(new, one) = [j \in 1..1 |-> ReadBack(new, one, <<r>>[j])]
      BY <3>1 DEF GroupRows, ReadBack
    <3>3. GroupRows(new, one) = [j \in 1..1 |-> e]
      BY <1>4, <2>2, <3>1, <3>2
    <3> QED BY <3>3
  <2>6. \A x : Times(RowsIn(new), x) = Times(RowsIn(text), x) + IF x = e THEN 1 ELSE 0
    <3> DEFINE o == <<e>>
    <3>1. IsList(o) /\ \A x : Times(o, x) = IF x = e THEN 1 ELSE 0
      BY TimesOne
    <3>2. RowsIn(new) = RowsIn(text) \o o
      BY <2>4, <2>5
    <3> HIDE DEF o
    <3> QED BY <1>6, <3>1, <3>2, TimesConcat
  <2>7. KeysApart(new)
    <3>1. /\ DOMAIN new.groups = 1..(n + 1) /\ new.groups[n + 1] = one
          /\ \A i \in 1..n : new.groups[i] = groups[i]
      BY <1>2, <1>3, <1>7, ListAppend DEF one
    <3>2. \A i \in 1..n : KeyOf(groups[i]) # key
      BY <1>3, <1>7
    <3>3. \A i \in 1..(n + 1) : i \in 1..n \/ i = n + 1
      BY <1>3
    <3>4. \A i, j \in 1..n : KeyOf(groups[i]) = KeyOf(groups[j]) => i = j
      BY <1>3 DEF KeysApart
    <3> HIDE DEF groups, n, key
    <3> QED BY <2>2, <3>1, <3>2, <3>3, <3>4 DEF KeysApart
  <2> QED BY <2>4, <2>6, <2>7 DEF new, e
<1>8. CASE at # {}
  <2>1. PICK k \in 1..n : KeyOf(groups[k]) = key
    BY <1>3, <1>8
  <2>2. at = {k}
    BY <1>3, <2>1 DEF KeysApart
  <2> DEFINE old == groups[k]
             more == Grown(old, r)
  <2>3. /\ DOMAIN new.groups = 1..n
        /\ new.groups[k] = more
        /\ \A i \in 1..n : i # k => new.groups[i] = groups[i]
        /\ new.groups = [i \in 1..n |-> new.groups[i]]
    BY <1>2, <1>3, <1>8, <2>2
  <2>4. /\ \A i \in 1..n : /\ IsWholeGroup(groups[i], Len(new.pool))
                           /\ GroupRows(new, groups[i]) = GroupRows(text, groups[i])
    BY <1>3, <1>5, GroupStays
  <2>5. FitsHeader(old, r, Len(new.pool)) /\ ReadBack(new, old, r) = e
    BY <1>4, <2>1
  <2>6. /\ IsWholeGroup(more, Len(new.pool)) /\ KeyOf(more) = KeyOf(old)
        /\ \A x : Times(GroupRows(new, more), x) =
                    Times(GroupRows(new, old), x) + IF x = ReadBack(new, old, r) THEN 1 ELSE 0
    <3>1. IsWholeGroup(old, Len(new.pool))
      BY <2>1, <2>4
    <3> DEFINE size == Len(new.pool)
    <3>2. IsWholeGroup(old, size) /\ FitsHeader(old, r, size)
      BY <2>5, <3>1
    <3> HIDE DEF old, size
    <3>3. IsWholeGroup(more, size) /\ KeyOf(more) = KeyOf(old)
      BY <3>2, GroupGrows
    <3>4. \A x : Times(GroupRows(new, more), x) =
                   Times(GroupRows(new, old), x) + IF x = ReadBack(new, old, r) THEN 1 ELSE 0
      BY <3>2, GroupGrows
    <3> QED BY <3>3, <3>4 DEF size
  <2> HIDE DEF more
  <2>7. IsList(new.groups) /\ Len(new.groups) = n
    BY <1>3, <2>3, ListByPlaces
  <2>8. IsWhole(new)
    <3>1. \A i \in 1..n : IsWholeGroup(new.groups[i], Len(new.pool))
      BY <2>3, <2>4, <2>6
    <3> QED BY <1>1, <1>5, <2>3, <2>7, <3>1 DEF IsWhole, Extends
  <2>9. KeysApart(new)
    <3>1. \A i \in 1..n : KeyOf(new.groups[i]) = KeyOf(groups[i])
      BY <2>3, <2>6
    <3>2. \A i, j \in 1..n : KeyOf(groups[i]) = KeyOf(groups[j]) => i = j
      BY <1>3 DEF KeysApart
    <3> QED BY <2>3, <3>1, <3>2 DEF KeysApart
  <2> DEFINE P == Parts(text)
             Q == Parts(new)
  <2>10. /\ RowsIn(text) = Joined(P, n) /\ RowsIn(new) = Joined(Q, n)
         /\ \A i \in 1..n : IsList(P[i]) /\ P[i] = GroupRows(text, groups[i])
         /\ \A i \in 1..n : IsList(Q[i]) /\ Q[i] = GroupRows(new, new.groups[i])
    <3>1. /\ RowsIn(text) = Joined(P, n)
          /\ \A i \in 1..n : IsList(P[i]) /\ P[i] = GroupRows(text, groups[i])
      BY ReadIsJoined
    <3>2. /\ RowsIn(new) = Joined(Q, n)
          /\ \A i \in 1..n : IsList(Q[i]) /\ Q[i] = GroupRows(new, new.groups[i])
      BY <2>7, <2>8, ReadIsJoined
    <3> QED BY <3>1, <3>2
  <2> HIDE DEF P, Q, old
  <2>11. ASSUME NEW x
         PROVE  Times(RowsIn(new), x) = Times(RowsIn(text), x) + IF x = e THEN 1 ELSE 0
    <3> DEFINE d == IF x = e THEN 1 ELSE 0
    <3>1. \A i \in 1..n : i # k => Q[i] = P[i]
      BY <2>3, <2>4, <2>10
    <3>2. Q[k] = GroupRows(new, more) /\ P[k] = GroupRows(new, old)
      BY <2>1, <2>3, <2>4, <2>10 DEF old
    <3>3. Times(Q[k], x) = Times(P[k], x) + d
      BY <2>5, <2>6, <3>2
    <3>4. d \in Nat
      OBVIOUS
    <3> HIDE DEF d
    <3>5. Times(Joined(Q, n), x) = Times(Joined(P, n), x) + d
      <4>1. \A i \in 1..n : IsList(P[i]) /\ IsList(Q[i])
        BY <2>10
      <4>2. n \in Nat
        BY <1>3
      <4> HIDE DEF n
      <4> QED BY <2>1, <3>1, <3>3, <3>4, <4>1, <4>2, JoinedMore
    <3> QED BY <2>10, <3>5 DEF d
  <2> QED BY <2>8, <2>9, <2>11 DEF new, e
<1> QED BY <1>7, <1>8

----------------------------------------------------------------------------
(* public: the items of one row.                                           *)

IsStateRow(row) == IsPublicRow(row) /\ IsList(row.inputs) /\ IsList(row.outputs)

\* The items of a state: one for each, the memory cell at its address.
LEMMA StateItemsList ==
  ASSUME NEW state, IsList(state)
  PROVE  /\ AreItems(StateItems(state)) /\ Len(StateItems(state)) = Len(state)
         /\ \A i \in 1..Len(state) : StateItems(state)[i] = StateItem(state[i])
<1> DEFINE n == Len(state)
           r == StateItems(state)
<1>1. n \in Nat /\ DOMAIN state = 1..n
  BY ListFacts
<1>2. r = [i \in 1..n |-> StateItem(state[i])]
  BY <1>1 DEF StateItems
<1> HIDE DEF r, n
<1>3. r = [i \in 1..n |-> r[i]]
  BY <1>2
<1>4. IsList(r) /\ Len(r) = n
  BY <1>1, <1>3, ListByPlaces
<1>5. \A raw : StateItem(raw) = Item(StateItem(raw).key, StateItem(raw).value)
  BY DEF StateItem, Item
<1>6. \A i \in 1..n : r[i] = StateItem(state[i]) /\ r[i] = Item(r[i].key, r[i].value)
  BY <1>2, <1>5
<1> QED BY <1>4, <1>6 DEF AreItems, r, n

\* The only memory that the state of a row lists is the cell at Mem0.
LEMMA ListedMemory ==
  ASSUME NEW row, IsStateRow(row), NEW item \in ToSet(StateItems(row.inputs)),
         IsMemoryKey(item.key)
  PROVE  item.key[2] = Mem0 /\ item.value.bits \subseteq 0..63
<1> DEFINE r == StateItems(row.inputs)
<1>1. /\ IsList(r) /\ Len(r) = Len(row.inputs)
      /\ \A i \in 1..Len(row.inputs) : r[i] = StateItem(row.inputs[i])
  BY StateItemsList DEF IsStateRow, AreItems
<1> HIDE DEF r
<1>2. PICK i \in 1..Len(row.inputs) : item = StateItem(row.inputs[i])
  <2>1. PICK i \in 1..Len(r) : r[i] = item
    BY <1>1, ListFacts DEF r
  <2> QED BY <1>1, <2>1
<1> DEFINE raw == row.inputs[i]
<1>3. ~ IsMemoryKey(raw.key) /\ raw.value.bits \subseteq 0..63
  <2>1. raw \in ToSet(row.inputs)
    BY ListFacts DEF IsStateRow
  <2> QED BY <2>1 DEF IsStateRow, IsPublicRow
<1>4. ~ IsMemoryKey(NormalizeStateKey(raw.key))
  <2>1. Len(<<"flags">>) = 1
    OBVIOUS
  <2> QED BY <1>3, <2>1 DEF NormalizeStateKey, IsMemoryKey
<1> HIDE DEF raw
<1> DEFINE key == NormalizeStateKey(raw.key)
<1>5. item.key = IF key = <<"mem0_value">> THEN MemoryKey(Mem0) ELSE key
  BY <1>2 DEF StateItem, Item, raw
<1>6. key = <<"mem0_value">> /\ item.key = MemoryKey(Mem0)
  BY <1>4, <1>5
<1>7. item.value = raw.value
  BY <1>2, <1>6 DEF StateItem, Item, raw
<1>8. item.key[2] = Mem0
  BY <1>6 DEF MemoryKey
<1> QED BY <1>3, <1>7, <1>8

\* Where the element lies that holds the bit at an offset.
ElementAt(element, offset) == Mem0 + (offset \div (8 * element)) * element

\* Floor division, also of a negative offset: the element and the bit in it.
LEMMA ElementOfBit ==
  ASSUME NEW element \in {2, 4, 8}, NEW offset \in Int
  PROVE  LET address == ElementAt(element, offset)
         IN  /\ address \in Mem0..(Mem0 + 8 - element) <=> offset \in 0..63
             /\ 8 * Mem0 + offset - 8 * address = (offset % (8 * element))
<1> DEFINE mem == Mem0
           address == ElementAt(element, offset)
           bits == 8 * element
<1>0. mem \in Nat
  BY ConvertersAssumption
<1>4. address = mem + (offset \div bits) * element
  BY DEF ElementAt
<1> HIDE DEF mem, address, bits
<1>1. CASE element = 2
  <2>1. bits = 16
    BY <1>1 DEF bits
  <2>2. address = mem + (offset \div 16) * 2
    BY <1>1, <1>4, <2>1
  <2>3. offset = 16 * (offset \div 16) + (offset % 16) /\ offset % 16 \in 0..15
        /\ offset \div 16 \in Int
    BY SMT
  <2> DEFINE q == offset \div 16
             r == offset % 16
  <2> HIDE DEF q, r
  <2>4. mem \in Nat /\ q \in Int /\ r \in 0..15 /\ offset = 16 * q + r /\ address = mem + q * 2
    BY <1>0, <2>2, <2>3 DEF q, r
  <2>5. 8 * mem + offset - 8 * address = r
    BY <2>4
  <2>6. (address \in mem..(mem + 8 - 2)) <=> (offset \in 0..63)
    BY <2>4
  <2> QED BY <1>1, <2>1, <2>5, <2>6 DEF r, mem, address, bits
<1>2. CASE element = 4
  <2>1. bits = 32
    BY <1>2 DEF bits
  <2>2. address = mem + (offset \div 32) * 4
    BY <1>2, <1>4, <2>1
  <2>3. offset = 32 * (offset \div 32) + (offset % 32) /\ offset % 32 \in 0..31
        /\ offset \div 32 \in Int
    BY SMT
  <2> DEFINE q == offset \div 32
             r == offset % 32
  <2> HIDE DEF q, r
  <2>4. mem \in Nat /\ q \in Int /\ r \in 0..31 /\ offset = 32 * q + r /\ address = mem + q * 4
    BY <1>0, <2>2, <2>3 DEF q, r
  <2>5. 8 * mem + offset - 8 * address = r
    BY <2>4
  <2>6. (address \in mem..(mem + 8 - 4)) <=> (offset \in 0..63)
    BY <2>4
  <2> QED BY <1>2, <2>1, <2>5, <2>6 DEF r, mem, address, bits
<1>3. CASE element = 8
  <2>1. bits = 64
    BY <1>3 DEF bits
  <2>2. address = mem + (offset \div 64) * 8
    BY <1>3, <1>4, <2>1
  <2>3. offset = 64 * (offset \div 64) + (offset % 64) /\ offset % 64 \in 0..63
        /\ offset \div 64 \in Int
    BY SMT
  <2> DEFINE q == offset \div 64
             r == offset % 64
  <2> HIDE DEF q, r
  <2>4. mem \in Nat /\ q \in Int /\ r \in 0..63 /\ offset = 64 * q + r /\ address = mem + q * 8
    BY <1>0, <2>2, <2>3 DEF q, r
  <2>5. 8 * mem + offset - 8 * address = r
    BY <2>4
  <2>6. (address \in mem..(mem + 8 - 8)) <=> (offset \in 0..63)
    BY <2>4
  <2> QED BY <1>3, <2>1, <2>5, <2>6 DEF r, mem, address, bits
<1> QED BY <1>1, <1>2, <1>3

\* Hidden memory is one element, where the tested bit is outside mem0 and 1.
LEMMA HiddenElement ==
  ASSUME NEW row, IsStateRow(row)
  PROVE  \/ /\ HiddenMemory(row) = <<>>
            /\ TestsOutside(row) => ~ Carry(row)
         \/ /\ TestsOutside(row) /\ Carry(row)
            /\ \E address, value :
                 /\ HiddenMemory(row) = <<Item(MemoryKey(address), value)>>
                 /\ 8 * Mem0 + row.offset - 8 * address \in value.bits
<1>1. CASE ~ (/\ row.mnemonic \in BitTests /\ row.element # 0 /\ row.width # 0
              /\ Raw(row.outputs, <<"flag">>) # {})
  <2>1. HiddenMemory(row) = <<>>
    BY <1>1 DEF HiddenMemory
  <2>2. Raw(row.outputs, <<"flag">>) = {} => ~ Carry(row)
    BY DEF Carry
  <2> QED BY <1>1, <2>1, <2>2 DEF TestsOutside
<1>2. CASE /\ row.mnemonic \in BitTests /\ row.element # 0 /\ row.width # 0
           /\ Raw(row.outputs, <<"flag">>) # {}
  <2> DEFINE bits == 8 * row.element
             address == ElementAt(row.element, row.offset)
             value == Value(row.element, {row.offset % bits})
  <2>1. /\ row.element \in {2, 4, 8} /\ row.offset \in Int /\ Mem0 \in Nat
        /\ Raw(row.inputs, <<"rbx">>) # {}
        /\ row.offset = SignExtend(UNION Raw(row.inputs, <<"rbx">>), row.width)
    BY <1>2, ConvertersAssumption DEF IsStateRow, IsPublicRow
  <2>2. row.exception = "none"
    <3>1. row.outputs = <<>> => Raw(row.outputs, <<"flag">>) = {}
      BY DEF Raw
    <3> QED BY <1>2, <3>1 DEF IsStateRow, IsPublicRow
  <2>3. TestsOutside(row) <=> row.offset \notin 0..63
    BY <1>2, <2>2 DEF TestsOutside
  <2>4. HiddenMemory(row) =
          IF address \in Mem0..(Mem0 + 8 - row.element) \/ ~ Carry(row) THEN <<>>
          ELSE <<Item(MemoryKey(address), value)>>
    BY <1>2, <2>1 DEF HiddenMemory, Carry, ElementAt
  <2>5. /\ address \in Mem0..(Mem0 + 8 - row.element) <=> row.offset \in 0..63
        /\ 8 * Mem0 + row.offset - 8 * address = (row.offset % bits)
    BY <2>1, ElementOfBit
  <2>6. row.offset % bits \in value.bits
    BY DEF Value
  <2> HIDE DEF address, value, bits
  <2> QED BY <2>3, <2>4, <2>5, <2>6
<1> QED BY <1>1, <1>2

----------------------------------------------------------------------------
(* public: the rows of one group.                                          *)

IsCase(rows) ==
  /\ IsList(rows) /\ rows # <<>>
  /\ \A i \in 1..Len(rows) : IsStateRow(rows[i]) /\ rows[i].code = rows[1].code

\* What a key refers to, in a list without duplicates.
LEMMA LookupFinds ==
  ASSUME NEW items, AreItems(items), ~ HasDuplicate(items)
  PROVE  /\ \A item \in ToSet(items) :
              item.key \in ToSet(Schema(items)) /\ Lookup(items, item.key) = {item.value}
         /\ \A key \in ToSet(Schema(items)) : \E item \in ToSet(items) : item.key = key
         /\ \A key : key \notin ToSet(Schema(items)) => Lookup(items, key) = {}
         /\ \A item \in ToSet(items) : item = Item(item.key, item.value)
<1> DEFINE s == Schema(items)
           n == Len(items)
<1>1. /\ IsList(s) /\ Len(s) = n /\ n \in Nat /\ DOMAIN items = 1..n
      /\ \A i \in 1..n : s[i] = items[i].key
  BY ItemLists DEF AreItems
<1>2. DOMAIN s = 1..n
  BY <1>1, ListFacts
<1>3. \A i, j \in 1..n : items[i].key = items[j].key => i = j
  BY <1>1, <1>2 DEF HasDuplicate, IsInjective
<1>4. \A item \in ToSet(items) : \E i \in 1..n : items[i] = item
  BY <1>1 DEF ToSet
<1>5. \A i \in 1..n : s[i] \in ToSet(s) /\ items[i] \in ToSet(items)
  BY <1>1, <1>2 DEF ToSet
<1>6. \A key : Lookup(items, key) = {items[i].value : i \in {i \in 1..n : items[i].key = key}}
  BY <1>1 DEF Lookup
<1>7. \A key \in ToSet(s) : \E i \in 1..n : s[i] = key
  BY <1>2 DEF ToSet
<1>8. ASSUME NEW item \in ToSet(items)
      PROVE  item.key \in ToSet(s) /\ Lookup(items, item.key) = {item.value}
  <2>1. PICK i \in 1..n : items[i] = item
    BY <1>4
  <2>2. {j \in 1..n : items[j].key = item.key} = {i}
    BY <1>3, <2>1
  <2> QED BY <1>1, <1>5, <1>6, <2>1, <2>2
<1>9. ASSUME NEW key, key \notin ToSet(s) PROVE Lookup(items, key) = {}
  <2>1. {i \in 1..n : items[i].key = key} = {}
    BY <1>1, <1>5, <1>9
  <2> QED BY <1>6, <2>1
<1>10. \A key \in ToSet(s) : \E item \in ToSet(items) : item.key = key
  BY <1>1, <1>5, <1>7
<1>11. \A item \in ToSet(items) : item = Item(item.key, item.value)
  BY <1>4 DEF AreItems
<1> QED BY <1>8, <1>9, <1>10, <1>11

LEMMA InputItemsList ==
  ASSUME NEW row, IsStateRow(row)
  PROVE  /\ AreItems(InputItems(row))
         /\ ToSet(InputItems(row)) = ToSet(StateItems(row.inputs)) \cup ToSet(HiddenMemory(row))
<1> DEFINE a == StateItems(row.inputs)
           b == HiddenMemory(row)
           ab == a \o b
<1>1. AreItems(a)
  BY StateItemsList DEF IsStateRow
<1>2. AreItems(b)
  <2>1. CASE b = <<>>
    BY <2>1, EmptyList DEF AreItems
  <2>2. CASE b # <<>>
    <3>1. PICK address, value : b = <<Item(MemoryKey(address), value)>>
      BY <2>2, HiddenElement
    <3> DEFINE e == Item(MemoryKey(address), value)
    <3>2. b = <<e>> /\ IsList(<<e>>) /\ Len(<<e>>) = 1 /\ <<e>>[1] = e
      BY <3>1, TimesOne
    <3>3. e = Item(e.key, e.value)
      BY DEF Item
    <3> HIDE DEF e, b
    <3> QED BY <3>2, <3>3 DEF AreItems
  <2> QED BY <2>1, <2>2
<1> HIDE DEF a, b
<1>3. /\ IsList(ab) /\ Len(ab) = Len(a) + Len(b) /\ Len(a) \in Nat /\ Len(b) \in Nat
      /\ \A i \in 1..Len(a) : ab[i] = a[i]
      /\ \A i \in 1..Len(b) : ab[Len(a) + i] = b[i]
      /\ ToSet(ab) = ToSet(a) \cup ToSet(b)
  <2>1. IsList(a) /\ IsList(b)
    BY <1>1, <1>2 DEF AreItems
  <2>2. Len(a) \in Nat /\ Len(b) \in Nat
    BY <2>1, ListFacts
  <2> QED BY <2>1, <2>2, ListConcat
<1> HIDE DEF ab
<1>4. ASSUME NEW i \in 1..Len(ab) PROVE ab[i] = Item(ab[i].key, ab[i].value)
  <2>1. CASE i \in 1..Len(a)
    BY <1>1, <1>3, <2>1 DEF AreItems
  <2>2. CASE i \notin 1..Len(a)
    <3>1. i - Len(a) \in 1..Len(b) /\ Len(a) + (i - Len(a)) = i
      BY <1>3, <2>2
    <3>2. ab[i] = b[i - Len(a)]
      BY <1>3, <3>1
    <3> QED BY <1>2, <3>1, <3>2 DEF AreItems
  <2> QED BY <2>1, <2>2
<1> QED BY <1>3, <1>4 DEF AreItems, ab, a, b, InputItems

LEMMA OutputItemsList ==
  ASSUME NEW row, IsStateRow(row)
  PROVE  /\ AreItems(OutputItems(row))
         /\ row.exception # "none" => OutputItems(row) = <<>>
<1>1. CASE row.exception # "none"
  BY <1>1, EmptyList DEF OutputItems, AreItems
<1>2. CASE row.exception = "none"
  BY <1>2, StateItemsList DEF OutputItems, IsStateRow
<1> QED BY <1>1, <1>2

\* append_schema makes a list of keys that has each key once.
LEMMA SchemaUnion ==
  ASSUME NEW n \in Nat, NEW lists, lists = [i \in 1..n |-> lists[i]],
         \A i \in 1..n : IsList(lists[i])
  PROVE  /\ IsList(UnionSchema(lists)) /\ IsInjective(UnionSchema(lists))
         /\ \A i \in 1..n : ToSet(lists[i]) \subseteq ToSet(UnionSchema(lists))
<1> DEFINE all == Joined(lists, n)
           none == <<>>
<1>1. IsList(all) /\ ToSet(all) = UNION {ToSet(lists[i]) : i \in 1..n}
  <2>1. /\ \A m \in 0..n : IsList(Joined(lists, m))
        /\ ToSet(Joined(lists, n)) = UNION {ToSet(lists[i]) : i \in 1..n}
    BY JoinedLists
  <2>2. n \in 0..n
    OBVIOUS
  <2> QED BY <2>1, <2>2
<1>2. UnionSchema(lists) = WithValues(none, all)
  BY DEF UnionSchema, Joined
<1>3. IsList(none) /\ IsInjective(none) /\ ToSet(none) = {}
  BY EmptyList DEF IsInjective
<1> HIDE DEF all, none
<1>4. /\ IsList(WithValues(none, all)) /\ IsInjective(WithValues(none, all))
      /\ ToSet(WithValues(none, all)) = ToSet(none) \cup ToSet(all)
  BY <1>1, <1>3, PoolGrows
<1> QED BY <1>1, <1>2, <1>3, <1>4

\* The headers that the rows of a test case share.
LEMMA CaseSchemas ==
  ASSUME NEW rows, IsCase(rows)
  PROVE  /\ IsList(InSchema(rows)) /\ IsInjective(InSchema(rows))
         /\ IsList(OutSchema(rows)) /\ IsInjective(OutSchema(rows))
         /\ \A i \in 1..Len(rows) :
              ToSet(Schema(InputItems(rows[i]))) \subseteq ToSet(InSchema(rows))
         /\ Len(rows) \in Nat \ {0} /\ DOMAIN rows = 1..Len(rows)
<1> DEFINE n == Len(rows)
           a == [i \in 1..n |-> Schema(InputItems(rows[i]))]
           b == [i \in 1..n |-> Schema(OutputItems(rows[i]))]
<1>1. n \in Nat \ {0} /\ DOMAIN rows = 1..n
  <2>1. n \in Nat /\ DOMAIN rows = 1..n /\ n # 0
    BY ListFacts, EmptyList DEF IsCase
  <2> QED BY <2>1
<1>2. \A i \in 1..n : IsList(Schema(InputItems(rows[i]))) /\ IsList(Schema(OutputItems(rows[i])))
  BY InputItemsList, OutputItemsList, ItemLists DEF IsCase, AreItems
<1>3. InSchema(rows) = UnionSchema(a) /\ OutSchema(rows) = UnionSchema(b)
  BY <1>1 DEF InSchema, OutSchema
<1>4. /\ a = [i \in 1..n |-> a[i]] /\ \A i \in 1..n : IsList(a[i])
      /\ b = [i \in 1..n |-> b[i]] /\ \A i \in 1..n : IsList(b[i])
      /\ \A i \in 1..n : a[i] = Schema(InputItems(rows[i]))
  BY <1>2
<1> HIDE DEF a, b, n
<1>5. n \in Nat
  BY <1>1
<1>6. /\ IsList(UnionSchema(a)) /\ IsInjective(UnionSchema(a))
      /\ \A i \in 1..n : ToSet(a[i]) \subseteq ToSet(UnionSchema(a))
  BY <1>4, <1>5, SchemaUnion
<1>7. IsList(UnionSchema(b)) /\ IsInjective(UnionSchema(b))
  BY <1>4, <1>5, SchemaUnion
<1> QED BY <1>1, <1>3, <1>4, <1>6, <1>7 DEF n

\* Values under the keys of a schema, written through the pool, are read back.
Keyed(keys, values) == [n \in DOMAIN values |-> Item(keys[n], values[n])]

\* Values that were written as indices are read back as items.
LEMMA ValuesReadBack ==
  ASSUME NEW text, IsList(text.pool), NEW values, IsList(values), NEW keys,
         ToSet(values) \subseteq ToSet(text.pool)
  PROVE  /\ ItemsOf(text, keys, Indices(text.pool, values)) = Keyed(keys, values)
         /\ Indices(text.pool, values) \in [1..Len(values) -> 0..(Len(text.pool) - 1)]
<1> DEFINE ix == Indices(text.pool, values)
           n == Len(values)
<1>1. /\ ix \in [1..n -> 0..(Len(text.pool) - 1)]
      /\ \A i \in 1..n : text.pool[ix[i] + 1] = values[i]
  BY IndicesFind
<1>2. DOMAIN values = 1..n
  BY ListFacts
<1> HIDE DEF ix, n
<1>3. DOMAIN ix = 1..n
  BY <1>1
<1>4. ItemsOf(text, keys, ix) = [i \in 1..n |-> Item(keys[i], text.pool[ix[i] + 1])]
  BY <1>3 DEF ItemsOf
<1>5. Keyed(keys, values) = [i \in 1..n |-> Item(keys[i], values[i])]
  BY <1>2 DEF Keyed
<1>6. ItemsOf(text, keys, ix) = Keyed(keys, values)
  BY <1>1, <1>4, <1>5
<1> QED BY <1>1, <1>6 DEF ix, n

InValues(rows, i) == FilledIn(rows, i, InSchema(rows))

OutValues(rows, i) ==
  IF rows[i].exception # "none" THEN <<>>
  ELSE [n \in DOMAIN OutSchema(rows) |->
          CHOOSE v \in Lookup(OutputItems(rows[i]), OutSchema(rows)[n]) : TRUE]

ReadRow(rows, i) ==
  [code |-> rows[1].code, exception |-> rows[i].exception,
   in |-> Keyed(InSchema(rows), InValues(rows, i)),
   out |-> Keyed(OutSchema(rows), OutValues(rows, i))]

\* A row has all its inputs, and besides them only zero memory.
LEMMA InputsFilled ==
  ASSUME NEW rows, IsCase(rows), IsWritable(rows), NEW i \in 1..Len(rows)
  PROVE  LET all == ToSet(InputItems(rows[i]))
             in == Keyed(InSchema(rows), InValues(rows, i))
         IN  /\ IsList(InValues(rows, i)) /\ Len(InValues(rows, i)) = Len(InSchema(rows))
             /\ ~ HasDuplicate(in) /\ all \subseteq ToSet(in)
             /\ \A item \in ToSet(in) \ all :
                  IsMemoryKey(item.key) /\ item.value.bits = {}
<1> DEFINE keys == InSchema(rows)
           v == InValues(rows, i)
           in == Keyed(keys, v)
           items == InputItems(rows[i])
           n == Len(keys)
<1>1. /\ IsList(keys) /\ IsInjective(keys) /\ ToSet(Schema(items)) \subseteq ToSet(keys)
      /\ i \in DOMAIN rows
  BY CaseSchemas
<1>2. n \in Nat /\ DOMAIN keys = 1..n
  BY <1>1, ListFacts
<1>3. AreItems(items)
  BY InputItemsList DEF IsCase
<1>4. /\ ~ HasDuplicate(items)
      /\ \A key \in ToSet(keys) : IsMemoryKey(key) \/ key \in ToSet(Schema(items))
  BY <1>1 DEF IsWritable
<1>5. v = [k \in 1..n |->
             IF Lookup(items, keys[k]) # {} THEN CHOOSE x \in Lookup(items, keys[k]) : TRUE
                                            ELSE InputDefault(rows, keys[k])]
  BY <1>2 DEF InValues, FilledIn
<1>6. /\ \A item \in ToSet(items) :
           item.key \in ToSet(Schema(items)) /\ Lookup(items, item.key) = {item.value}
      /\ \A key \in ToSet(Schema(items)) : \E item \in ToSet(items) : item.key = key
      /\ \A key : key \notin ToSet(Schema(items)) => Lookup(items, key) = {}
      /\ \A item \in ToSet(items) : item = Item(item.key, item.value)
  BY <1>3, <1>4, LookupFinds
<1> HIDE DEF keys, v, items, n
<1>7. IsList(v) /\ Len(v) = n /\ DOMAIN v = 1..n
  <2>1. v = [k \in 1..n |-> v[k]]
    BY <1>5
  <2> QED BY <1>2, <2>1, ListByPlaces
<1>8. in = [k \in 1..n |-> Item(keys[k], v[k])]
  BY <1>7 DEF Keyed
<1> HIDE DEF in
<1>9. DOMAIN in = 1..n /\ \A k \in 1..n : in[k].key = keys[k] /\ in[k] = Item(keys[k], v[k])
  BY <1>8 DEF Item
<1>10. \A x : {x} # {} /\ (CHOOSE y \in {x} : TRUE) = x
  OBVIOUS
<1>11. ~ HasDuplicate(in)
  <2>1. Schema(in) = [k \in 1..n |-> keys[k]]
    BY <1>9 DEF Schema
  <2>2. Schema(in) = keys
    BY <1>1, <2>1, ListFacts DEF n
  <2> QED BY <1>1, <2>2 DEF HasDuplicate
<1>12. ASSUME NEW item \in ToSet(items) PROVE item \in ToSet(in)
  <2>1. PICK k \in 1..n : keys[k] = item.key
    BY <1>1, <1>2, <1>6 DEF ToSet
  <2>2. Lookup(items, keys[k]) = {item.value}
    BY <1>6, <2>1
  <2>3. v[k] = item.value
    BY <1>5, <1>10, <2>2
  <2>4. in[k] = item
    BY <1>6, <1>9, <2>1, <2>3
  <2> QED BY <1>9, <2>4 DEF ToSet
<1>13. ASSUME NEW item \in ToSet(in), item \notin ToSet(items)
       PROVE  IsMemoryKey(item.key) /\ item.value.bits = {}
  <2>1. PICK k \in 1..n : in[k] = item
    BY <1>9 DEF ToSet
  <2>2. item = Item(keys[k], v[k]) /\ keys[k] \in ToSet(keys)
    BY <1>2, <1>9, <2>1 DEF ToSet
  <2>3. keys[k] \notin ToSet(Schema(items))
    <3> SUFFICES ASSUME keys[k] \in ToSet(Schema(items)) PROVE FALSE
      OBVIOUS
    <3>1. PICK other \in ToSet(items) : other.key = keys[k]
      BY <1>6
    <3>2. Lookup(items, keys[k]) = {other.value} /\ other = Item(other.key, other.value)
      BY <1>6, <3>1
    <3>3. v[k] = other.value
      BY <1>5, <1>10, <3>2
    <3> QED BY <1>13, <2>2, <3>1, <3>2, <3>3
  <2>4. v[k] = InputDefault(rows, keys[k])
    BY <1>5, <1>6, <2>3
  <2>5. v[k].bits = {}
    BY <2>4 DEF InputDefault, Value
  <2> QED BY <1>4, <2>2, <2>3, <2>5 DEF Item
<1> QED BY <1>7, <1>11, <1>12, <1>13 DEF keys, v, in, items, n

\* A row has its outputs and no others.
LEMMA OutputsChosen ==
  ASSUME NEW rows, IsCase(rows), IsWritable(rows), NEW i \in 1..Len(rows)
  PROVE  /\ IsList(OutValues(rows, i))
         /\ Len(OutValues(rows, i)) =
              IF rows[i].exception = "none" THEN Len(OutSchema(rows)) ELSE 0
         /\ ToSet(Keyed(OutSchema(rows), OutValues(rows, i))) = ToSet(OutputItems(rows[i]))
<1> DEFINE keys == OutSchema(rows)
           v == OutValues(rows, i)
           out == Keyed(keys, v)
           items == OutputItems(rows[i])
           n == Len(keys)
<1>1. CASE rows[i].exception # "none"
  <2>1. v = <<>>
    BY <1>1 DEF OutValues
  <2>2. items = <<>>
    BY <1>1 DEF OutputItems
  <2>3. DOMAIN out = {}
    BY <2>1 DEF Keyed
  <2>4. ToSet(out) = {}
    BY <2>3 DEF ToSet
  <2> HIDE DEF v, out, items
  <2>5. IsList(v) /\ Len(v) = 0 /\ ToSet(items) = {}
    BY <2>1, <2>2, EmptyList
  <2> QED BY <1>1, <2>4, <2>5 DEF v, out, items
<1>2. CASE rows[i].exception = "none"
  <2>1. IsList(keys) /\ i \in DOMAIN rows
    BY CaseSchemas
  <2>2. n \in Nat /\ DOMAIN keys = 1..n
    BY <2>1, ListFacts
  <2>3. AreItems(items)
    BY OutputItemsList DEF IsCase
  <2>4. ~ HasDuplicate(items) /\ ToSet(keys) = ToSet(Schema(items))
    BY <1>2, <2>1 DEF IsWritable
  <2>5. v = [k \in 1..n |-> CHOOSE x \in Lookup(items, keys[k]) : TRUE]
    BY <1>2, <2>2 DEF OutValues
  <2>6. /\ \A item \in ToSet(items) :
             item.key \in ToSet(Schema(items)) /\ Lookup(items, item.key) = {item.value}
        /\ \A key \in ToSet(Schema(items)) : \E item \in ToSet(items) : item.key = key
        /\ \A item \in ToSet(items) : item = Item(item.key, item.value)
    BY <2>3, <2>4, LookupFinds
  <2> HIDE DEF keys, v, items, n
  <2>7. IsList(v) /\ Len(v) = n /\ DOMAIN v = 1..n
    <3>1. v = [k \in 1..n |-> v[k]]
      BY <2>5
    <3> QED BY <2>2, <3>1, ListByPlaces
  <2>8. out = [k \in 1..n |-> Item(keys[k], v[k])]
    BY <2>7 DEF Keyed
  <2> HIDE DEF out
  <2>9. DOMAIN out = 1..n /\ \A k \in 1..n : out[k] = Item(keys[k], v[k])
    BY <2>8
  <2>10. \A x : (CHOOSE y \in {x} : TRUE) = x
    OBVIOUS
  <2>11. ASSUME NEW k \in 1..n PROVE \E item \in ToSet(items) : item.key = keys[k] /\ out[k] = item
    <3>1. keys[k] \in ToSet(keys)
      BY <2>2 DEF ToSet
    <3>2. PICK item \in ToSet(items) : item.key = keys[k]
      BY <2>4, <2>6, <3>1
    <3>3. Lookup(items, keys[k]) = {item.value} /\ item = Item(item.key, item.value)
      BY <2>6, <3>2
    <3>4. v[k] = item.value
      BY <2>5, <2>10, <3>3
    <3>5. out[k] = item
      BY <2>9, <3>2, <3>3, <3>4
    <3> QED BY <3>2, <3>5
  <2>12. ToSet(out) \subseteq ToSet(items)
    BY <2>9, <2>11 DEF ToSet
  <2>13. ASSUME NEW item \in ToSet(items) PROVE item \in ToSet(out)
    <3>1. item.key \in ToSet(keys)
      BY <2>4, <2>6
    <3>2. PICK k \in 1..n : keys[k] = item.key
      BY <2>2, <3>1 DEF ToSet
    <3>3. PICK other \in ToSet(items) : other.key = keys[k] /\ out[k] = other
      BY <2>11
    <3>4. other = Item(other.key, other.value) /\ Lookup(items, other.key) = {other.value}
      BY <2>6
    <3>5. item = Item(item.key, item.value) /\ Lookup(items, item.key) = {item.value}
      BY <2>6
    <3>6. other = item
      <4>1. {other.value} = {item.value}
        BY <3>2, <3>3, <3>4, <3>5
      <4>2. other.value = item.value
        BY <4>1
      <4> QED BY <3>2, <3>3, <3>4, <3>5, <4>2
    <3> QED BY <2>9, <3>3, <3>6 DEF ToSet
  <2> QED BY <1>2, <2>7, <2>12, <2>13 DEF keys, v, out, items, n
<1> QED BY <1>1, <1>2

\* What is read back of a row is the row, with the bit that it tests.
LEMMA RowIsMade ==
  ASSUME NEW rows, IsCase(rows), IsWritable(rows), NEW i \in 1..Len(rows)
  PROVE  IsMadeFrom(ReadRow(rows, i), rows[i])
<1> DEFINE row == rows[i]
           read == ReadRow(rows, i)
           in == Keyed(InSchema(rows), InValues(rows, i))
           listed == ToSet(StateItems(row.inputs))
           hidden == ToSet(HiddenMemory(row))
<1>1. /\ ~ HasDuplicate(in) /\ (listed \cup hidden) \subseteq ToSet(in)
      /\ \A item \in ToSet(in) \ (listed \cup hidden) :
           IsMemoryKey(item.key) /\ item.value.bits = {}
  BY InputsFilled, InputItemsList DEF IsCase
<1>2. IsStateRow(row) /\ row.code = rows[1].code
  BY DEF IsCase
<1>3. /\ read.code = row.code /\ read.exception = row.exception
      /\ read.in = in /\ ToSet(read.out) = ToSet(OutputItems(row))
  BY <1>2, OutputsChosen DEF ReadRow
<1>4. \A item \in listed : IsMemoryKey(item.key) =>
        item.key[2] = Mem0 /\ item.value.bits \subseteq 0..63
  BY <1>2, ListedMemory
<1>5. Mem0 \in Nat /\ (TestsOutside(row) => row.offset \in Int /\ row.offset \notin 0..63)
  BY <1>2, ConvertersAssumption DEF TestsOutside, IsStateRow, IsPublicRow
<1> HIDE DEF row, read, in, listed
<1>6. CASE HiddenMemory(row) = <<>> /\ (TestsOutside(row) => ~ Carry(row))
  <2>1. hidden = {}
    BY <1>6, EmptyList
  <2>2. TestsOutside(row) => ~ TestedBit(in, row)
    <3> SUFFICES ASSUME TestsOutside(row), NEW k \in DOMAIN in, IsMemoryKey(in[k].key),
                        8 * Mem0 + row.offset - 8 * in[k].key[2] \in in[k].value.bits
                 PROVE  FALSE
      BY DEF TestedBit
    <3>1. in[k] \in ToSet(in)
      BY DEF ToSet
    <3>2. in[k] \in listed
      BY <1>1, <2>1, <3>1
    <3>3. in[k].key[2] = Mem0 /\ in[k].value.bits \subseteq 0..63
      BY <1>4, <3>2
    <3>4. 8 * Mem0 + row.offset - 8 * Mem0 \in 0..63
      BY <3>3
    <3>5. 8 * Mem0 + row.offset - 8 * Mem0 = row.offset
      <4> DEFINE m == Mem0
                 o == row.offset
      <4>1. m \in Nat /\ o \in Int
        BY <1>5
      <4> HIDE DEF m, o
      <4>2. 8 * m + o - 8 * m = o
        BY <4>1
      <4> QED BY <4>2 DEF m, o
    <3> QED BY <1>5, <3>4, <3>5
  <2>3. TestsOutside(row) => (TestedBit(read.in, row) <=> Carry(row))
    BY <1>3, <1>6, <2>2
  <2> HIDE DEF hidden
  <2>4. /\ listed \subseteq ToSet(read.in)
        /\ \A item \in ToSet(read.in) \ listed : IsMemoryKey(item.key) /\ item.value.bits = {}
    BY <1>1, <1>3, <2>1
  <2>5. ~ HasDuplicate(read.in)
    BY <1>1, <1>3
  <2>6. IsMadeFrom(read, row)
    BY <1>3, <2>3, <2>4, <2>5 DEF IsMadeFrom, listed
  <2> QED BY <2>6 DEF read, row
<1>7. ASSUME NEW address, NEW value, TestsOutside(row), Carry(row),
             HiddenMemory(row) = <<Item(MemoryKey(address), value)>>,
             8 * Mem0 + row.offset - 8 * address \in value.bits
      PROVE  IsMadeFrom(read, row)
  <2> DEFINE e == Item(MemoryKey(address), value)
  <2>1. hidden = {e}
    BY <1>7 DEF ToSet
  <2>2. IsMemoryKey(e.key) /\ e.key[2] = address /\ e.value = value
    BY DEF Item, MemoryKey, IsMemoryKey
  <2> HIDE DEF e, hidden
  <2>3. PICK k \in DOMAIN in : in[k] = e
    BY <1>1, <2>1 DEF ToSet
  <2>4. TestedBit(in, row)
    BY <1>7, <2>2, <2>3 DEF TestedBit
  <2>5. \A item \in ToSet(in) \ listed : IsMemoryKey(item.key)
    BY <1>1, <2>1, <2>2
  <2> QED BY <1>1, <1>3, <1>7, <2>4, <2>5 DEF IsMadeFrom, listed
<1> QED BY <1>2, <1>6, <1>7, HiddenElement DEF read, row

\* What WithGroup writes for the rows of a test case.
GroupPool(text, rows) ==
  WithValues(text.pool,
             FlattenSeq([i \in DOMAIN rows |-> InValues(rows, i) \o OutValues(rows, i)]))

GroupOf(text, rows) ==
  LET pool == GroupPool(text, rows)
  IN  [code |-> rows[1].code, in |-> InSchema(rows), out |-> OutSchema(rows),
       rows |-> [i \in DOMAIN rows |->
                   [in |-> Indices(pool, InValues(rows, i)),
                    out |-> Indices(pool, OutValues(rows, i)),
                    exception |-> rows[i].exception]]]

\* All values of a group are in the pool it is written with.
LEMMA GroupPoolHolds ==
  ASSUME NEW text, IsWhole(text), NEW rows, IsCase(rows), IsWritable(rows)
  PROVE  LET pool == GroupPool(text, rows)
         IN  /\ IsInjective(pool) /\ Extends(pool, text.pool)
             /\ \A i \in 1..Len(rows) :
                  /\ IsList(InValues(rows, i)) /\ ToSet(InValues(rows, i)) \subseteq ToSet(pool)
                  /\ IsList(OutValues(rows, i)) /\ ToSet(OutValues(rows, i)) \subseteq ToSet(pool)
<1> DEFINE n == Len(rows)
           f == [i \in 1..n |-> InValues(rows, i) \o OutValues(rows, i)]
           all == Joined(f, n)
           pool == GroupPool(text, rows)
           old == text.pool
<1>1. n \in Nat /\ DOMAIN rows = 1..n
  BY CaseSchemas
<1>2. \A i \in 1..n : IsList(InValues(rows, i)) /\ IsList(OutValues(rows, i))
  BY InputsFilled, OutputsChosen
<1>3. ASSUME NEW i \in 1..n
      PROVE  IsList(f[i]) /\ ToSet(f[i]) = ToSet(InValues(rows, i)) \cup ToSet(OutValues(rows, i))
  <2> DEFINE a == InValues(rows, i)
             b == OutValues(rows, i)
  <2>1. IsList(a) /\ IsList(b) /\ f[i] = a \o b
    BY <1>2
  <2> HIDE DEF a, b, f
  <2>2. IsList(f[i]) /\ ToSet(f[i]) = ToSet(a) \cup ToSet(b)
    BY <2>1, ListConcat
  <2> QED BY <2>2 DEF a, b
<1>4. f = [i \in 1..n |-> f[i]]
  OBVIOUS
<1>5. pool = WithValues(old, FlattenSeq(f))
  BY <1>1 DEF GroupPool
<1> HIDE DEF f, pool, n
<1>6. pool = WithValues(old, all)
  BY <1>4, <1>5 DEF Joined
<1>7. IsList(all) /\ ToSet(all) = UNION {ToSet(f[i]) : i \in 1..n}
  <2>1. \A i \in 1..n : IsList(f[i])
    BY <1>3
  <2>2. /\ \A m \in 0..n : IsList(Joined(f, m))
        /\ ToSet(Joined(f, n)) = UNION {ToSet(f[i]) : i \in 1..n}
    BY <1>1, <2>1, JoinedLists
  <2>3. n \in 0..n
    BY <1>1
  <2> QED BY <2>2, <2>3
<1> HIDE DEF all, old
<1>8. IsList(old) /\ IsInjective(old)
  BY DEF IsWhole, old
<1>9. /\ IsList(pool) /\ IsInjective(pool) /\ Len(old) <= Len(pool)
      /\ \A i \in 1..Len(old) : pool[i] = old[i]
      /\ ToSet(pool) = ToSet(old) \cup ToSet(all)
  BY <1>6, <1>7, <1>8, PoolGrows
<1>10. \A i \in 1..n : /\ ToSet(InValues(rows, i)) \subseteq ToSet(pool)
                       /\ ToSet(OutValues(rows, i)) \subseteq ToSet(pool)
  BY <1>3, <1>7, <1>9
<1>11. Extends(pool, old)
  BY <1>8, <1>9 DEF Extends
<1> QED BY <1>2, <1>9, <1>10, <1>11 DEF pool, old, n

\* The rows of a new group are read back as they were filled in.
LEMMA GroupReadBack ==
  ASSUME NEW text, IsWhole(text), NEW rows, IsCase(rows), IsWritable(rows),
         NEW new, new.pool = GroupPool(text, rows)
  PROVE  LET g == GroupOf(text, rows)
         IN  /\ IsWholeGroup(g, Len(new.pool)) /\ Len(g.rows) = Len(rows)
             /\ Len(GroupRows(new, g)) = Len(rows)
             /\ \A i \in 1..Len(rows) : GroupRows(new, g)[i] = ReadRow(rows, i)
<1> DEFINE n == Len(rows)
           g == GroupOf(text, rows)
           pool == new.pool
           size == Len(new.pool)
<1>1. /\ n \in Nat /\ DOMAIN rows = 1..n
      /\ IsList(InSchema(rows)) /\ IsList(OutSchema(rows))
  BY CaseSchemas
<1>2. /\ IsList(pool)
      /\ \A i \in 1..n :
           /\ IsList(InValues(rows, i)) /\ ToSet(InValues(rows, i)) \subseteq ToSet(pool)
           /\ IsList(OutValues(rows, i)) /\ ToSet(OutValues(rows, i)) \subseteq ToSet(pool)
  BY GroupPoolHolds DEF Extends
<1>3. /\ g = [code |-> g.code, in |-> g.in, out |-> g.out, rows |-> g.rows]
      /\ g.code = rows[1].code /\ g.in = InSchema(rows) /\ g.out = OutSchema(rows)
      /\ g.rows = [i \in 1..n |-> [in |-> Indices(pool, InValues(rows, i)),
                                   out |-> Indices(pool, OutValues(rows, i)),
                                   exception |-> rows[i].exception]]
  BY <1>1 DEF GroupOf
<1> HIDE DEF g, pool, n, size
<1>4. IsList(g.rows) /\ Len(g.rows) = n /\ DOMAIN g.rows = 1..n
  <2>1. g.rows = [i \in 1..n |-> g.rows[i]]
    BY <1>3
  <2> QED BY <1>1, <2>1, ListByPlaces
<1>5. ASSUME NEW i \in 1..n
      PROVE  FitsHeader(g, g.rows[i], size) /\ ReadBack(new, g, g.rows[i]) = ReadRow(rows, i)
  <2> DEFINE a == InValues(rows, i)
             b == OutValues(rows, i)
             keys == InSchema(rows)
             kept == OutSchema(rows)
  <2>1. /\ g.rows[i].in = Indices(pool, a) /\ g.rows[i].out = Indices(pool, b)
        /\ g.rows[i].exception = rows[i].exception
    BY <1>3
  <2>2. /\ Len(a) = Len(keys)
        /\ Len(b) = IF rows[i].exception = "none" THEN Len(kept) ELSE 0
    BY InputsFilled, OutputsChosen DEF n
  <2>3. /\ IsList(a) /\ ToSet(a) \subseteq ToSet(new.pool) /\ IsList(new.pool)
        /\ IsList(b) /\ ToSet(b) \subseteq ToSet(new.pool)
    BY <1>2 DEF pool
  <2> HIDE DEF a, b, keys, kept
  <2>4. /\ ItemsOf(new, keys, Indices(new.pool, a)) = Keyed(keys, a)
        /\ Indices(new.pool, a) \in [1..Len(a) -> 0..(Len(new.pool) - 1)]
    BY <2>3, ValuesReadBack
  <2>5. /\ ItemsOf(new, kept, Indices(new.pool, b)) = Keyed(kept, b)
        /\ Indices(new.pool, b) \in [1..Len(b) -> 0..(Len(new.pool) - 1)]
    BY <2>3, ValuesReadBack
  <2>6. OutLength(g, g.rows[i].exception) = Len(b) /\ Len(g.in) = Len(a)
    BY <1>3, <2>1, <2>2 DEF OutLength, keys, kept
  <2>7. FitsHeader(g, g.rows[i], size)
    BY <2>1, <2>4, <2>5, <2>6 DEF FitsHeader, pool, size
  <2>8. ReadBack(new, g, g.rows[i]) = ReadRow(rows, i)
    BY <1>3, <2>1, <2>4, <2>5 DEF ReadBack, ReadRow, pool, a, b, keys, kept
  <2> QED BY <2>7, <2>8
<1>6. IsWholeGroup(g, size)
  BY <1>1, <1>3, <1>4, <1>5 DEF IsWholeGroup
<1>7. /\ Len(GroupRows(new, g)) = n
      /\ \A i \in 1..n : GroupRows(new, g)[i] = ReadRow(rows, i)
  BY <1>4, <1>5, GroupRowsList
<1> QED BY <1>4, <1>6, <1>7 DEF g, n, size

\* write_group adds a group: the rows before stay, its own come after them.
LEMMA GroupWritten ==
  ASSUME NEW text, IsWhole(text), NEW rows, IsCase(rows), IsWritable(rows)
  PROVE  LET new == WithGroup(text, rows)
         IN  /\ IsWhole(new)
             /\ Len(text.groups) \in Nat /\ Len(new.groups) = Len(text.groups) + 1
             /\ Len(rows) \in Nat
             /\ RowCount(text) \in Nat /\ RowCount(new) = RowCount(text) + Len(rows)
             /\ IsList(RowsIn(text)) /\ IsList(RowsIn(new))
             /\ Len(RowsIn(new)) = Len(RowsIn(text)) + Len(rows)
             /\ \A i \in 1..Len(RowsIn(text)) : RowsIn(new)[i] = RowsIn(text)[i]
             /\ \A i \in 1..Len(rows) :
                  IsMadeFrom(RowsIn(new)[Len(RowsIn(text)) + i], rows[i])
<1> DEFINE new == WithGroup(text, rows)
           g == GroupOf(text, rows)
           n == Len(text.groups)
           more == GroupRows(new, g)
           old == RowsIn(text)
<1>1. /\ new = [pool |-> new.pool, groups |-> Append(text.groups, g)]
      /\ new.pool = GroupPool(text, rows)
      /\ new.groups = Append(text.groups, g)
  BY DEF WithGroup, GroupOf, GroupPool, InValues, OutValues
<1> HIDE DEF new
<1>2. /\ IsWholeGroup(g, Len(new.pool)) /\ Len(g.rows) = Len(rows)
      /\ Len(more) = Len(rows)
      /\ \A i \in 1..Len(rows) : more[i] = ReadRow(rows, i)
  BY <1>1, GroupReadBack
<1>3. IsInjective(new.pool) /\ Extends(new.pool, text.pool)
  BY <1>1, GroupPoolHolds
<1> HIDE DEF g
<1>4. IsWhole(new) /\ RowsIn(new) = old \o more /\ IsList(more)
  BY <1>1, <1>2, <1>3, GroupAdded
<1>5. IsList(old) /\ Len(rows) \in Nat
  BY ReadIsJoined, CaseSchemas
<1>6. /\ IsList(new.groups) /\ Len(new.groups) = n + 1 /\ n \in Nat
      /\ DOMAIN new.groups = 1..(n + 1) /\ new.groups[n + 1] = g
      /\ \A i \in 1..n : new.groups[i] = text.groups[i]
      /\ DOMAIN text.groups = 1..n
  <2>1. IsList(text.groups)
    BY DEF IsWhole
  <2> QED BY <1>1, <2>1, ListAppend, ListFacts
<1>7. RowCount(text) \in Nat /\ RowCount(new) = RowCount(text) + Len(rows)
  <2> DEFINE a == [i \in DOMAIN text.groups |-> Len(text.groups[i].rows)]
             b == [i \in DOMAIN new.groups |-> Len(new.groups[i].rows)]
             d == Len(rows)
             N == n + 1
  <2>1. \A i \in 1..n : Len(text.groups[i].rows) \in Nat
    BY <1>6, ListFacts DEF IsWhole, IsWholeGroup
  <2>2. DOMAIN a = 1..n /\ \A i \in 1..n : a[i] = Len(text.groups[i].rows)
    BY <1>6
  <2>3. DOMAIN b = 1..(n + 1) /\ \A i \in 1..(n + 1) : b[i] = Len(new.groups[i].rows)
    BY <1>6
  <2> HIDE DEF a, b, n
  <2>4. GrowsBy(a, b, N, d)
    <3>1. IsFiniteSet(1..n)
      BY <1>6, FS_Interval
    <3>2. 1..(n + 1) = (1..n) \cup {N} /\ N \notin 1..n /\ N \in 1..(n + 1)
      BY <1>6
    <3>3. \A y \in 1..n : y \in 1..(n + 1)
      BY <1>6
    <3>4. d \in Nat /\ 0 + d = d
      BY <1>5
    <3>5. b[N] = d
      BY <1>2, <1>6, <2>3, <3>2
    <3>6. \A y \in 1..n : b[y] = a[y] /\ a[y] \in Nat
      BY <1>6, <2>1, <2>2, <2>3, <3>3
    <3> HIDE DEF N, d
    <3> QED BY <2>2, <2>3, <3>1, <3>2, <3>4, <3>5, <3>6 DEF GrowsBy
  <2> HIDE DEF N, d
  <2>5. Total(a) \in Nat /\ Total(b) = Total(a) + d
    BY <2>4, SumAdds
  <2> QED BY <2>5 DEF RowCount, Total, a, b, d
<1> HIDE DEF more, old, n
<1>8. /\ IsList(RowsIn(new)) /\ Len(RowsIn(new)) = Len(old) + Len(rows)
      /\ \A i \in 1..Len(old) : RowsIn(new)[i] = old[i]
      /\ \A i \in 1..Len(rows) : RowsIn(new)[Len(old) + i] = more[i]
  <2> DEFINE all == old \o more
  <2>1. IsList(old) /\ IsList(more)
    BY <1>4, <1>5
  <2>2. /\ IsList(all) /\ Len(all) = Len(old) + Len(more)
        /\ \A i \in 1..Len(old) : all[i] = old[i]
        /\ \A i \in 1..Len(more) : all[Len(old) + i] = more[i]
    BY <2>1, ListConcat
  <2>3. RowsIn(new) = all /\ Len(more) = Len(rows)
    BY <1>2, <1>4
  <2> HIDE DEF all
  <2> QED BY <2>2, <2>3
<1>9. \A i \in 1..Len(rows) : IsMadeFrom(RowsIn(new)[Len(old) + i], rows[i])
  BY <1>2, <1>8, RowIsMade
<1> QED BY <1>4, <1>5, <1>6, <1>7, <1>8, <1>9 DEF new, old, n

----------------------------------------------------------------------------
(* vectors: the rows of a stretch.                                         *)

\* What the assumptions say of the table in progress.
LEMMA TableFacts ==
  ASSUME job \in Jobs, input \in DOMAIN job.inputs
  PROVE  /\ IsList(job.inputs) /\ Len(job.inputs) \in Nat
         /\ input \in 1..Len(job.inputs) /\ DOMAIN job.inputs = 1..Len(job.inputs)
         /\ IsList(Rows) /\ Len(Rows) \in Nat /\ DOMAIN Rows = 1..Len(Rows)
         /\ \A i \in 1..Len(Rows) : Rows[i] \in ToSet(Rows) /\ IsVectorRow(Rows[i])
         /\ job.overwrite \in BOOLEAN /\ job.single \in BOOLEAN /\ job.limit \in Nat
         /\ job.tool \in {"vectors", "public"}
         /\ job.tool = "public" => Len(job.inputs) = 1
<1>1. /\ IsList(job.inputs) /\ IsList(Rows)
      /\ \A row \in ToSet(Rows) : IsVectorRow(row)
      /\ job.overwrite \in BOOLEAN /\ job.single \in BOOLEAN /\ job.limit \in Nat
      /\ job.tool \in {"vectors", "public"}
      /\ job.tool = "public" => Len(job.inputs) = 1
  BY ConvertersAssumption DEF Rows, Input, IsVectorRow
<1>2. /\ Len(job.inputs) \in Nat /\ DOMAIN job.inputs = 1..Len(job.inputs)
      /\ Len(Rows) \in Nat /\ DOMAIN Rows = 1..Len(Rows)
      /\ \A i \in 1..Len(Rows) : Rows[i] \in ToSet(Rows)
  BY <1>1, ListFacts
<1> QED BY <1>1, <1>2

LEMMA NoTextIsWhole ==
  /\ IsWhole(NoText) /\ KeysApart(NoText) /\ RowsIn(NoText) = <<>>
  /\ Len(NoText.groups) = 0 /\ RowCount(NoText) = 0
<1> DEFINE none == <<>>
<1>1. IsList(none) /\ Len(none) = 0 /\ DOMAIN none = {}
  BY EmptyList, ListFacts
<1>2. NoText = [pool |-> none, groups |-> none] /\ NoText.pool = none /\ NoText.groups = none
  BY DEF NoText
<1> HIDE DEF none
<1>3. IsWhole(NoText) /\ KeysApart(NoText)
  BY <1>1, <1>2 DEF IsWhole, IsInjective, KeysApart
<1>4. RowsIn(NoText) = <<>>
  <2>1. RowsIn(NoText) = Joined(Parts(NoText), 0)
    BY <1>1, <1>2, <1>3, ReadIsJoined
  <2> QED BY <2>1, JoinedSteps
<1>5. RowCount(NoText) = 0
  <2> DEFINE f == [i \in DOMAIN NoText.groups |-> Len(NoText.groups[i].rows)]
  <2>1. DOMAIN f = {}
    BY <1>1, <1>2
  <2> HIDE DEF f
  <2>2. Total(f) = 0
    BY <2>1, SumOfNone
  <2> QED BY <2>2 DEF RowCount, Total, f
<1> QED BY <1>1, <1>2, <1>3, <1>4, <1>5

LEMMA CountIsNumber ==
  ASSUME NEW text, IsWhole(text)
  PROVE  Len(text.groups) \in Nat /\ RowCount(text) \in Nat
<1> DEFINE n == Len(text.groups)
           f == [i \in DOMAIN text.groups |-> Len(text.groups[i].rows)]
<1>1. n \in Nat /\ DOMAIN text.groups = 1..n
  BY ListFacts DEF IsWhole
<1>2. \A i \in 1..n : Len(text.groups[i].rows) \in Nat
  BY <1>1, ListFacts DEF IsWhole, IsWholeGroup
<1>3. IsFiniteSet(1..n)
  BY <1>1, FS_Interval
<1>4. DOMAIN f = 1..n /\ \A i \in 1..n : f[i] = Len(text.groups[i].rows)
  BY <1>1
<1> HIDE DEF f, n
<1>5. IsFiniteSet(DOMAIN f) /\ \A x \in DOMAIN f : f[x] \in Nat
  BY <1>2, <1>3, <1>4
<1>6. Total(f) \in Nat
  BY <1>5, SumType, TotalIsSum
<1> QED BY <1>1, <1>6 DEF RowCount, Total, f, n

\* The rows from the a-th to the n-th, as they are read.
Stretch(rows, a, n) == [m \in 1..(n - a + 1) |-> AsRead(rows[a + m - 1])]

LEMMA StretchList ==
  ASSUME NEW rows, NEW n \in Nat, NEW a \in 1..(n + 1)
  PROVE  IsList(Stretch(rows, a, n)) /\ Len(Stretch(rows, a, n)) = n - a + 1
<1> DEFINE k == n - a + 1
           s == Stretch(rows, a, n)
<1>1. k \in Nat /\ s = [m \in 1..k |-> s[m]]
  BY DEF Stretch
<1> HIDE DEF s, k
<1>2. IsList(s) /\ Len(s) = k
  BY <1>1, ListByPlaces
<1> QED BY <1>2 DEF s, k

\* A stretch with one more row.
LEMMA StretchNext ==
  ASSUME NEW rows, NEW n \in Nat, NEW a \in 1..(n + 1), NEW x
  PROVE  Times(Stretch(rows, a, n + 1), x) =
           Times(Stretch(rows, a, n), x) + IF x = AsRead(rows[n + 1]) THEN 1 ELSE 0
<1> DEFINE s == Stretch(rows, a, n)
           t == Stretch(rows, a, n + 1)
           e == AsRead(rows[n + 1])
           k == n - a + 1
           se == Append(s, e)
<1>1. IsList(s) /\ Len(s) = k /\ k \in Nat
  BY StretchList
<1>2. IsList(t) /\ Len(t) = k + 1
  <2> DEFINE N == n + 1
  <2>1. N \in Nat /\ a \in 1..(N + 1) /\ N - a + 1 = k + 1
    OBVIOUS
  <2> HIDE DEF N, k
  <2>2. IsList(Stretch(rows, a, N)) /\ Len(Stretch(rows, a, N)) = N - a + 1
    BY <2>1, StretchList
  <2> QED BY <2>1, <2>2 DEF N
<1>3. t = [m \in 1..(k + 1) |-> AsRead(rows[a + m - 1])]
  BY DEF Stretch
<1>4. s = [m \in 1..k |-> AsRead(rows[a + m - 1])]
  BY DEF Stretch
<1>5. a + (k + 1) - 1 = n + 1
  OBVIOUS
<1> HIDE DEF s, t, e, k
<1>6. t[k + 1] = e
  BY <1>1, <1>3, <1>5 DEF e
<1>7. \A m \in 1..k : t[m] = s[m]
  BY <1>1, <1>3, <1>4
<1>8. /\ IsList(se) /\ Len(se) = k + 1 /\ se[k + 1] = e
      /\ \A m \in 1..k : se[m] = s[m]
  BY <1>1, ListAppend
<1>9. t = se
  <2> HIDE DEF se
  <2>1. \A m \in 1..(k + 1) : m \in 1..k \/ m = k + 1
    BY <1>1
  <2>2. \A m \in 1..(k + 1) : t[m] = se[m]
    BY <1>6, <1>7, <1>8, <2>1
  <2> QED BY <1>2, <1>8, <2>2, ListsEqual
<1>10. Times(se, x) = Times(s, x) + IF x = e THEN 1 ELSE 0
  BY <1>1, TimesAppend
<1> QED BY <1>9, <1>10 DEF s, t, e

\* A text that holds a stretch holds the one that is longer by a row.
LEMMA StretchGrows ==
  ASSUME NEW text, IsWhole(text), KeysApart(text), NEW rows, NEW n \in Nat,
         NEW a \in 1..(n + 1), ToBag(RowsIn(text)) = ToBag(Stretch(rows, a, n)),
         IsVectorRow(rows[n + 1])
  PROVE  /\ IsWhole(AddRow(text, rows[n + 1])) /\ KeysApart(AddRow(text, rows[n + 1]))
         /\ ToBag(RowsIn(AddRow(text, rows[n + 1]))) = ToBag(Stretch(rows, a, n + 1))
<1> DEFINE N == n + 1
           row == rows[N]
           new == AddRow(text, row)
           old == RowsIn(text)
           all == RowsIn(new)
<1>1. IsList(old)
  BY ReadIsJoined
<1>2. IsList(Stretch(rows, a, n)) /\ IsList(Stretch(rows, a, N))
  <2>1. N \in Nat /\ a \in 1..(N + 1)
    OBVIOUS
  <2> HIDE DEF N
  <2> QED BY <2>1, StretchList
<1>3. /\ IsWhole(new) /\ KeysApart(new)
      /\ \A x : Times(all, x) = Times(old, x) + IF x = AsRead(row) THEN 1 ELSE 0
  BY RowAdded
<1>4. IsList(all)
  BY <1>3, ReadIsJoined
<1>5. \A x : Times(old, x) = Times(Stretch(rows, a, n), x)
  BY <1>1, <1>2, TimesByBags
<1>6. \A x : Times(Stretch(rows, a, N), x) =
               Times(Stretch(rows, a, n), x) + IF x = AsRead(row) THEN 1 ELSE 0
  BY StretchNext
<1> HIDE DEF N, row, all, old
<1>7. \A x : Times(all, x) = Times(Stretch(rows, a, N), x)
  BY <1>3, <1>5, <1>6
<1>8. ToBag(all) = ToBag(Stretch(rows, a, N))
  BY <1>2, <1>4, <1>7, BagsByTimes
<1> QED BY <1>3, <1>8 DEF N, row, all

LEMMA StretchStarts ==
  ASSUME NEW rows, NEW n \in Nat
  PROVE  ToBag(RowsIn(NoText)) = ToBag(Stretch(rows, n + 1, n))
<1>1. Stretch(rows, n + 1, n) = <<>>
  <2> DEFINE a == n + 1
  <2>1. a \in 1..(n + 1) /\ n - a + 1 = 0
    OBVIOUS
  <2> HIDE DEF a
  <2>2. IsList(Stretch(rows, a, n)) /\ Len(Stretch(rows, a, n)) = 0
    BY <2>1, StretchList
  <2> QED BY <2>2, EmptyList DEF a
<1> QED BY <1>1, NoTextIsWhole

----------------------------------------------------------------------------
(* What is counted.                                                        *)

\* A new file is counted.
LEMMA FileCounted ==
  ASSUME NEW files, NEW count, AreCounted(files, count),
         \A path \in DOMAIN files : IsWhole(files[path].text),
         NEW place, place \notin DOMAIN files, NEW text, IsWhole(text), NEW more,
         more.files = count.files + 1, more.groups = count.groups + Len(text.groups),
         more.rows = count.rows + RowCount(text)
  PROVE  AreCounted(With(files, place, New(text)), more)
<1> DEFINE new == With(files, place, New(text))
           s == NewIn(files)
           t == NewIn(new)
           a == [path \in s |-> Len(files[path].text.groups)]
           b == [path \in t |-> Len(new[path].text.groups)]
           c == [path \in s |-> RowCount(files[path].text)]
           d == [path \in t |-> RowCount(new[path].text)]
<1>1. /\ DOMAIN new = DOMAIN files \cup {place} /\ new[place] = New(text)
      /\ \A path \in DOMAIN files : new[path] = files[path]
  BY DEF With
<1>2. New(text).age = "new" /\ New(text).text = text
  BY DEF New
<1> HIDE DEF new
<1>3. t = s \cup {place} /\ place \notin s
      /\ \A path \in s : path \in DOMAIN files /\ new[path] = files[path]
  BY <1>1, <1>2 DEF NewIn
<1>4. /\ IsFiniteSet(s) /\ count.files = Cardinality(s)
      /\ count.groups = Total(a) /\ count.rows = Total(c)
  BY DEF AreCounted
<1>5. /\ DOMAIN a = s /\ \A path \in s : a[path] \in Nat
      /\ DOMAIN c = s /\ \A path \in s : c[path] \in Nat
  BY <1>3, CountIsNumber
<1>6. Len(text.groups) \in Nat /\ RowCount(text) \in Nat
  BY CountIsNumber
<1>7. /\ DOMAIN b = s \cup {place} /\ \A path \in s \ {place} : b[path] = a[path]
      /\ b[place] = Len(text.groups)
  BY <1>1, <1>2, <1>3
<1>8. /\ DOMAIN d = s \cup {place} /\ \A path \in s \ {place} : d[path] = c[path]
      /\ d[place] = RowCount(text)
  BY <1>1, <1>2, <1>3
<1> HIDE DEF s, t, a, b, c, d
<1>9. IsFiniteSet(t) /\ Cardinality(t) = Cardinality(s) + 1
  BY <1>3, <1>4, FS_AddElement
<1>10. Total(b) = Total(a) + Len(text.groups)
  <2>1. GrowsBy(a, b, place, Len(text.groups))
    BY <1>3, <1>4, <1>5, <1>6, <1>7 DEF GrowsBy
  <2> QED BY <2>1, SumAdds
<1>11. Total(d) = Total(c) + RowCount(text)
  <2>1. GrowsBy(c, d, place, RowCount(text))
    BY <1>3, <1>4, <1>5, <1>6, <1>8 DEF GrowsBy
  <2> QED BY <2>1, SumAdds
<1>12. /\ more.files = Cardinality(t) /\ more.groups = Total(b) /\ more.rows = Total(d)
  BY <1>4, <1>9, <1>10, <1>11
<1>13. AreCounted(new, more)
  BY <1>9, <1>12 DEF AreCounted, t, b, d
<1> QED BY <1>13 DEF new

LEMMA SameCounted ==
  ASSUME NEW files, NEW count, AreCounted(files, count), NEW other,
         NewIn(other) = NewIn(files), \A path \in NewIn(files) : other[path] = files[path]
  PROVE  AreCounted(other, count)
<1>1. /\ [path \in NewIn(other) |-> Len(other[path].text.groups)]
           = [path \in NewIn(files) |-> Len(files[path].text.groups)]
      /\ [path \in NewIn(other) |-> RowCount(other[path].text)]
           = [path \in NewIn(files) |-> RowCount(files[path].text)]
  OBVIOUS
<1> QED BY <1>1 DEF AreCounted

\* A text in memory with one more group is counted.
LEMMA OpenCounted ==
  ASSUME NEW texts, NEW count, AreCountedOpen(texts, count),
         \A n \in DOMAIN texts : IsWhole(texts[n]),
         NEW name, NEW old, old = IF name \in DOMAIN texts THEN texts[name] ELSE NoText,
         NEW text, Len(text.groups) = Len(old.groups) + 1,
         NEW k \in Nat, RowCount(text) = RowCount(old) + k, NEW more,
         more.groups = count.groups + 1, more.rows = count.rows + k
  PROVE  AreCountedOpen(With(texts, name, text), more)
<1> DEFINE new == With(texts, name, text)
           place == <<".", name>>
           s == PathsOf(texts)
           t == PathsOf(new)
           a == [path \in s |-> Len(texts[path[2]].groups)]
           b == [path \in t |-> Len(new[path[2]].groups)]
           c == [path \in s |-> RowCount(texts[path[2]])]
           d == [path \in t |-> RowCount(new[path[2]])]
<1>1. /\ DOMAIN new = DOMAIN texts \cup {name} /\ new[name] = text
      /\ \A n \in DOMAIN texts \ {name} : new[n] = texts[n]
  BY DEF With
<1> HIDE DEF new
<1>2. /\ \A path \in s : path[2] \in DOMAIN texts /\ path = <<".", path[2]>>
      /\ \A n \in DOMAIN texts : <<".", n>> \in s
      /\ place[2] = name
  BY DEF PathsOf
<1>3. t = s \cup {place}
  BY <1>1 DEF PathsOf
<1>4. place \in s <=> name \in DOMAIN texts
  BY <1>2
<1>5. \A path \in s \ {place} : path[2] \in DOMAIN texts \ {name}
  BY <1>2
<1>6. IsFiniteSet(s) /\ count.groups = Total(a) /\ count.rows = Total(c)
  BY DEF AreCountedOpen
<1>7. /\ DOMAIN a = s /\ \A path \in s : a[path] \in Nat
      /\ DOMAIN c = s /\ \A path \in s : c[path] \in Nat
  BY <1>2, CountIsNumber
<1>8. /\ DOMAIN b = s \cup {place} /\ \A path \in s \ {place} : b[path] = a[path]
      /\ b[place] = Len(text.groups)
  BY <1>1, <1>2, <1>3, <1>5
<1>9. /\ DOMAIN d = s \cup {place} /\ \A path \in s \ {place} : d[path] = c[path]
      /\ d[place] = RowCount(text)
  BY <1>1, <1>2, <1>3, <1>5
<1>10. /\ Len(old.groups) = IF place \in s THEN a[place] ELSE 0
       /\ RowCount(old) = IF place \in s THEN c[place] ELSE 0
  <2>1. CASE name \in DOMAIN texts
    BY <1>2, <1>4, <2>1
  <2>2. CASE name \notin DOMAIN texts
    BY <1>4, <2>2, NoTextIsWhole
  <2> QED BY <2>1, <2>2
<1> HIDE DEF s, t, a, b, c, d, place
<1>11. IsFiniteSet(t)
  BY <1>3, <1>6, FS_AddElement
<1>12. Total(b) = Total(a) + 1
  <2>1. GrowsBy(a, b, place, 1)
    BY <1>6, <1>7, <1>8, <1>10 DEF GrowsBy
  <2> QED BY <2>1, SumAdds
<1>13. Total(d) = Total(c) + k
  <2>1. GrowsBy(c, d, place, k)
    BY <1>6, <1>7, <1>9, <1>10 DEF GrowsBy
  <2> QED BY <2>1, SumAdds
<1>14. more.groups = Total(b) /\ more.rows = Total(d)
  BY <1>6, <1>12, <1>13
<1>15. AreCountedOpen(new, more)
  BY <1>11, <1>14 DEF AreCountedOpen, t, b, d
<1> QED BY <1>15 DEF new

----------------------------------------------------------------------------
(* The parts of the invariant, action by action: types.                    *)

LEMMA SameTable ==
  ASSUME UNCHANGED <<job, input>>
  PROVE  /\ Rows' = Rows /\ OutputDir' = OutputDir /\ Converted' = Converted
         /\ \A i : DirOf(i)' = DirOf(i)
         /\ \A row : HandleFor(row)' = HandleFor(row)
         /\ NamesComeTogether' = NamesComeTogether
<1>1. Input' = Input
  BY DEF Input
<1>2. Rows' = Rows /\ Converted' = Converted
  BY <1>1 DEF Rows, Converted, LimitReached
<1> QED BY <1>1, <1>2 DEF OutputDir, DirOf, HandleFor, NamesComeTogether

LEMMA RemainingFiles ==
  ASSUME NEW removed
  PROVE  /\ DOMAIN Remaining(removed) = DOMAIN disk \ removed
         /\ \A path \in DOMAIN disk \ removed : Remaining(removed)[path] = disk[path]
  BY DEF Remaining

FlushOf(name) ==
  disk' = With(disk, <<OutputDir, name>>, New(open[name])) /\ totals' = Counting(open[name])

LEMMA FlushTypes ==
  ASSUME TypesInv, NEW name \in DOMAIN open, FlushOf(name)
  PROVE  FilesAreWhole' /\ TotalsType'
<1> DEFINE place == <<OutputDir, name>>
           text == open[name]
<1>1. IsWhole(text)
  BY DEF TypesInv, OpenIsWhole
<1>2. /\ DOMAIN disk' = DOMAIN disk \cup {place} /\ disk'[place] = New(text)
      /\ \A path \in DOMAIN disk \ {place} : disk'[path] = disk[path]
  BY DEF FlushOf, With
<1>3. place = <<place[1], place[2]>>
  OBVIOUS
<1>4. TotalsType'
  BY <1>1, CountIsNumber DEF TypesInv, TotalsType, FlushOf, Counting
<1> HIDE DEF place, text
<1>5. ASSUME NEW path \in DOMAIN disk'
      PROVE  /\ path = <<path[1], path[2]>>
             /\ disk'[path] = [age |-> disk'[path].age, text |-> disk'[path].text]
             /\ disk'[path].age \in {"old", "new"}
             /\ IsWhole(disk'[path].text)
  <2>1. CASE path = place
    BY <1>1, <1>2, <1>3, <2>1 DEF New
  <2>2. CASE path # place
    BY <1>2, <2>2 DEF TypesInv, FilesAreWhole
  <2> QED BY <2>1, <2>2
<1> QED BY <1>4, <1>5 DEF FilesAreWhole

\* What Flushed does: nothing before the first row, or the one text is written.
LEMMA FlushedIs ==
  ASSUME TypesInv, VectorsInv, job.tool = "vectors", pc = "rows", Flushed
  PROVE  \/ Consumed = 0 /\ open = <<>> /\ UNCHANGED <<disk, totals>>
         \/ Consumed # 0 /\ \E name \in DOMAIN open : DOMAIN open = {name} /\ FlushOf(name)
<1>1. CASE open = <<>>
  <2>1. Consumed = 0
    BY <1>1 DEF VectorsInv, OpenIsStretch
  <2> QED BY <1>1, <2>1 DEF Flushed
<1>2. CASE open # <<>>
  <2>1. Consumed # 0 /\ OpenIsStretch(Consumed)
    BY <1>2 DEF VectorsInv
  <2>2. PICK name \in DOMAIN open : FlushOf(name)
    BY <1>2 DEF Flushed, FlushOf
  <2>3. DOMAIN open = {name}
    BY <2>1 DEF OpenIsStretch
  <2> QED BY <2>1, <2>2, <2>3
<1> QED BY <1>1, <1>2

LEMMA FlushedTypes ==
  ASSUME TypesInv, VectorsInv, job.tool = "vectors", pc = "rows", Flushed
  PROVE  FilesAreWhole' /\ TotalsType'
<1>1. UNCHANGED <<disk, totals>> => FilesAreWhole' /\ TotalsType'
  BY DEF TypesInv, FilesAreWhole, TotalsType
<1> QED BY <1>1, FlushedIs, FlushTypes

LEMMA RemainingTypes ==
  ASSUME FilesAreWhole, NEW removed, disk' = Remaining(removed)
  PROVE  FilesAreWhole'
<1>1. /\ DOMAIN disk' = DOMAIN disk \ removed
      /\ \A path \in DOMAIN disk \ removed : disk'[path] = disk[path]
  BY RemainingFiles
<1> QED BY <1>1 DEF FilesAreWhole

LEMMA SameOpen ==
  ASSUME OpenIsWhole, UNCHANGED open
  PROVE  OpenIsWhole'
  BY DEF OpenIsWhole

LEMMA SameTotals ==
  ASSUME TotalsType, UNCHANGED totals
  PROVE  TotalsType'
  BY DEF TotalsType

LEMMA SameFiles ==
  ASSUME FilesAreWhole, UNCHANGED disk
  PROVE  FilesAreWhole'
  BY DEF FilesAreWhole

LEMMA PrepareTypes ==
  ASSUME TypesInv, PrepareOutputDir
  PROVE  TypesInv'
<1>1. /\ UNCHANGED <<job, input, open, case, totals>>
      /\ pc' \in {"failed", "rows"}
      /\ UNCHANGED todo \/ todo' = Rows
      /\ UNCHANGED disk \/ disk' = Remaining(Existing(OutputDir))
  BY DEF PrepareOutputDir, Fail, Rows
<1>2. Rows' = Rows
  BY <1>1, SameTable
<1>3. FilesAreWhole' /\ OpenIsWhole' /\ TotalsType'
  BY <1>1, RemainingTypes, SameFiles, SameOpen, SameTotals DEF TypesInv
<1>4. IsList(todo') /\ \A i \in DOMAIN todo' : todo'[i] \in ToSet(Rows')
  <2>1. IsList(Rows) /\ \A i \in DOMAIN Rows : Rows[i] \in ToSet(Rows)
    BY TableFacts DEF TypesInv
  <2> QED BY <1>1, <1>2, <2>1 DEF TypesInv
<1>5. IsList(case') /\ \A i \in DOMAIN case' : case'[i] \in ToSet(Rows')
  BY <1>1, <1>2 DEF TypesInv
<1> QED BY <1>1, <1>3, <1>4, <1>5 DEF TypesInv

LEMMA TailTypes ==
  ASSUME TypesInv, todo # <<>>
  PROVE  /\ IsList(Tail(todo)) /\ Head(todo) \in ToSet(Rows)
         /\ \A i \in DOMAIN Tail(todo) : Tail(todo)[i] \in ToSet(Rows)
<1>1. IsList(todo) /\ \A i \in DOMAIN todo : todo[i] \in ToSet(Rows)
  BY DEF TypesInv
<1>2. /\ Len(todo) # 0 /\ 1 \in DOMAIN todo /\ Head(todo) = todo[1]
      /\ IsList(Tail(todo)) /\ Len(Tail(todo)) = Len(todo) - 1
      /\ \A i \in 1..(Len(todo) - 1) : Tail(todo)[i] = todo[i + 1]
  BY <1>1, ListTail
<1>3. /\ Len(todo) \in Nat /\ DOMAIN todo = 1..Len(todo)
      /\ DOMAIN Tail(todo) = 1..(Len(todo) - 1)
  BY <1>1, <1>2, ListFacts
<1>4. \A i \in 1..(Len(todo) - 1) : i + 1 \in DOMAIN todo
  BY <1>3
<1> QED BY <1>1, <1>2, <1>3, <1>4

LEMMA VectorRowTypes ==
  ASSUME TypesInv, VectorsInv, VectorRow
  PROVE  TypesInv'
<1> DEFINE row == Head(todo)
           name == NameOf(row)
<1>1. /\ UNCHANGED <<job, input, case>> /\ job.tool = "vectors" /\ pc = "rows" /\ todo # <<>>
      /\ pc' \in {"failed", "rows"}
      /\ UNCHANGED todo \/ todo' = Tail(todo)
      /\ UNCHANGED open \/ open' = [n \in {name} |-> AddRow(Text(name), row)]
      /\ UNCHANGED <<disk, totals>> \/ Flushed
  BY DEF VectorRow, Fail, NameOf
<1>2. Rows' = Rows
  BY <1>1, SameTable
<1>3. FilesAreWhole' /\ TotalsType'
  BY <1>1, FlushedTypes, SameFiles, SameTotals DEF TypesInv
<1>4. IsList(todo') /\ \A i \in DOMAIN todo' : todo'[i] \in ToSet(Rows')
  BY <1>1, <1>2, TailTypes DEF TypesInv
<1>5. IsVectorRow(row)
  BY <1>1, TailTypes, ConvertersAssumption DEF TypesInv, IsVectorRow, Rows, Input
<1>6. IsWhole(Text(name)) /\ KeysApart(Text(name))
  <2>1. CASE name \in DOMAIN open
    <3>1. Consumed # 0
      BY <1>1, <2>1 DEF VectorsInv
    <3>2. OpenIsStretch(Consumed)
      BY <1>1, <3>1 DEF VectorsInv
    <3> QED BY <2>1, <3>2 DEF TypesInv, OpenIsWhole, Text, OpenIsStretch
  <2>2. CASE name \notin DOMAIN open
    BY <2>2, NoTextIsWhole DEF Text
  <2> QED BY <2>1, <2>2
<1>7. IsWhole(AddRow(Text(name), row))
  BY <1>5, <1>6, RowAdded
<1> HIDE DEF name, row
<1>8. OpenIsWhole'
  BY <1>1, <1>7, SameOpen DEF TypesInv, OpenIsWhole
<1>9. case' = <<>> /\ IsList(case') /\ \A i \in DOMAIN case' : case'[i] \in ToSet(Rows')
  BY <1>1, <1>2 DEF TypesInv
<1> QED BY <1>1, <1>3, <1>4, <1>8, <1>9 DEF TypesInv

LEMMA EndOfInputTypes ==
  ASSUME TypesInv, VectorsInv, EndOfInput
  PROVE  TypesInv'
<1>1. /\ UNCHANGED <<job, todo, case>> /\ job.tool = "vectors" /\ pc = "rows" /\ todo = <<>>
      /\ Flushed /\ open' = <<>> /\ case = <<>>
      /\ \/ input = Len(job.inputs) /\ pc' = "done" /\ input' = input
         \/ input # Len(job.inputs) /\ pc' = "prepare" /\ input' = input + 1
  BY DEF EndOfInput, TypesInv
<1>2. FilesAreWhole' /\ TotalsType'
  BY <1>1, FlushedTypes
<1>3. OpenIsWhole'
  BY <1>1 DEF OpenIsWhole
<1>4. input' \in DOMAIN job'.inputs
  BY <1>1, TableFacts DEF TypesInv
<1>5. /\ IsList(todo') /\ \A i \in DOMAIN todo' : todo'[i] \in ToSet(Rows')
      /\ IsList(case') /\ \A i \in DOMAIN case' : case'[i] \in ToSet(Rows')
  BY <1>1, EmptyList
<1> QED BY <1>1, <1>2, <1>3, <1>4, <1>5 DEF TypesInv

----------------------------------------------------------------------------
(* The stretch in memory, action by action.                                *)

LEMMA PrepareVectors ==
  ASSUME TypesInv, PrepareOutputDir
  PROVE  VectorsInv'
<1> SUFFICES ASSUME pc' = "rows" PROVE VectorsInv'
  BY DEF VectorsInv
<1>1. /\ UNCHANGED <<job, input, open>> /\ open = <<>> /\ todo' = Rows
  BY DEF PrepareOutputDir, Fail, TypesInv, Rows
<1>2. Rows' = Rows
  BY <1>1, SameTable
<1>3. Len(Rows) \in Nat
  BY TableFacts DEF TypesInv
<1> DEFINE r == Rows
<1> HIDE DEF r
<1>4. Rows' = r /\ todo' = r /\ Len(r) \in Nat
  BY <1>1, <1>2, <1>3 DEF r
<1>5. Consumed' = 0
  BY <1>4 DEF Consumed
<1>6. RestIsAfter(Consumed)'
  <2>1. \A i \in DOMAIN r : r[i] = r[0 + i]
    <3>1. DOMAIN r = 1..Len(r)
      BY TableFacts DEF TypesInv, r
    <3>2. \A i \in 1..Len(r) : 0 + i = i
      OBVIOUS
    <3> QED BY <3>1, <3>2
  <2>2. 0 \in 0..Len(r) /\ Len(r) = Len(r) - 0
    BY <1>4
  <2> QED BY <1>4, <1>5, <2>1, <2>2 DEF RestIsAfter
<1> QED BY <1>1, <1>5, <1>6 DEF VectorsInv

\* The row that is read next.
LEMMA NextRow ==
  ASSUME TypesInv, NEW n, RestIsAfter(n), todo # <<>>
  PROVE  /\ n \in Nat /\ n + 1 \in 1..Len(Rows) /\ Head(todo) = Rows[n + 1]
         /\ Len(Rows) \in Nat /\ Len(Tail(todo)) = Len(Rows) - (n + 1)
         /\ \A i \in DOMAIN Tail(todo) : Tail(todo)[i] = Rows[(n + 1) + i]
         /\ Len(todo) = Len(Rows) - n
<1>1. /\ IsList(todo) /\ Len(Rows) \in Nat
  BY TableFacts DEF TypesInv
<1>2. /\ Len(todo) # 0 /\ 1 \in DOMAIN todo /\ Head(todo) = todo[1]
      /\ IsList(Tail(todo)) /\ Len(Tail(todo)) = Len(todo) - 1
      /\ \A i \in 1..(Len(todo) - 1) : Tail(todo)[i] = todo[i + 1]
  BY <1>1, ListTail
<1>3. /\ Len(todo) \in Nat /\ DOMAIN todo = 1..Len(todo)
      /\ DOMAIN Tail(todo) = 1..(Len(todo) - 1)
  BY <1>1, <1>2, ListFacts
<1>4. /\ n \in 0..Len(Rows) /\ Len(todo) = Len(Rows) - n
      /\ \A i \in DOMAIN todo : todo[i] = Rows[n + i]
  BY DEF RestIsAfter
<1>5. n \in Nat /\ n + 1 \in 1..Len(Rows) /\ Len(Tail(todo)) = Len(Rows) - (n + 1)
  BY <1>1, <1>2, <1>3, <1>4
<1>6. ASSUME NEW i \in DOMAIN Tail(todo) PROVE Tail(todo)[i] = Rows[(n + 1) + i]
  <2>1. i \in 1..(Len(todo) - 1) /\ i + 1 \in DOMAIN todo /\ n + (i + 1) = (n + 1) + i
    BY <1>3, <1>5
  <2> QED BY <1>2, <1>4, <2>1
<1> QED BY <1>1, <1>2, <1>4, <1>5, <1>6

LEMMA RestNext ==
  ASSUME TypesInv, NEW n, RestIsAfter(n), todo # <<>>, todo' = Tail(todo), Rows' = Rows
  PROVE  RestIsAfter(n + 1)'
<1> DEFINE N == n + 1
           t == Tail(todo)
<1>1. /\ N \in 0..Len(Rows) /\ Len(t) = Len(Rows) - N
      /\ \A i \in DOMAIN t : t[i] = Rows[N + i]
  BY NextRow
<1> HIDE DEF N, t
<1>2. todo' = t
  BY DEF t
<1>3. RestIsAfter(N)'
  BY <1>1, <1>2 DEF RestIsAfter
<1> QED BY <1>3 DEF N

LEMMA VectorRowVectors ==
  ASSUME TypesInv, VectorsInv, VectorRow
  PROVE  VectorsInv'
<1> SUFFICES ASSUME pc' = "rows" PROVE VectorsInv'
  BY DEF VectorsInv
<1>0. PICK n : n = Consumed
  OBVIOUS
<1> DEFINE N == n + 1
           row == Rows[N]
           name == NameOf(row)
           text == AddRow(Text(name), row)
<1>1. /\ UNCHANGED <<job, input>> /\ job.tool = "vectors" /\ pc = "rows" /\ todo # <<>>
      /\ todo' = Tail(todo)
      /\ open' = [k \in {NameOf(Head(todo))} |-> AddRow(Text(NameOf(Head(todo))), Head(todo))]
  BY DEF VectorRow, Fail, NameOf
<1>2. RestIsAfter(n) /\ IF n = 0 THEN open = <<>> ELSE OpenIsStretch(n)
  BY <1>0, <1>1 DEF VectorsInv
<1>3. Rows' = Rows
  BY <1>1, SameTable
<1>4. /\ n \in Nat /\ N \in 1..Len(Rows) /\ Head(todo) = row /\ Len(Rows) \in Nat
      /\ Len(Tail(todo)) = Len(Rows) - N
  BY <1>1, <1>2, NextRow
<1>5. Consumed' = N
  BY <1>1, <1>3, <1>4 DEF Consumed
<1>6. RestIsAfter(N)'
  <2>1. RestIsAfter(n + 1)'
    BY <1>1, <1>2, <1>3, RestNext
  <2> QED BY <2>1
<1>7. DOMAIN open' = {name} /\ open'[name] = text
  BY <1>1, <1>4
<1>8. IsVectorRow(row)
  BY <1>4, TableFacts DEF TypesInv
<1> HIDE DEF text, name
<1>9. \E a \in 1..N :
         /\ \A m \in a..N : NameOf(Rows[m]) = name
         /\ a > 1 => NameOf(Rows[a - 1]) # name
         /\ KeysApart(text) /\ ToBag(RowsIn(text)) = ToBag(Stretch(Rows, a, N))
  <2>1. CASE name \in DOMAIN open
    <3>1. n # 0
      BY <1>2, <2>1
    <3>2. OpenIsStretch(n)
      BY <1>2, <3>1
    <3>3. PICK other \in DOMAIN open : /\ DOMAIN open = {other} /\ KeysApart(open[other])
           /\ \E a \in 1..n :
                /\ \A m \in a..n : NameOf(Rows[m]) = other
                /\ a > 1 => NameOf(Rows[a - 1]) # other
                /\ ToBag(RowsIn(open[other])) = ToBag(Stretch(Rows, a, n))
      BY <3>2 DEF OpenIsStretch, Stretch
    <3>4. other = name
      BY <2>1, <3>3
    <3>5. PICK a \in 1..n :
                /\ \A m \in a..n : NameOf(Rows[m]) = name
                /\ a > 1 => NameOf(Rows[a - 1]) # name
                /\ ToBag(RowsIn(open[name])) = ToBag(Stretch(Rows, a, n))
      BY <3>3, <3>4
    <3>6. IsWhole(open[name]) /\ KeysApart(open[name])
      BY <2>1, <3>3, <3>4 DEF TypesInv, OpenIsWhole
    <3>7. a \in 1..N
      BY <1>4
    <3>8. text = AddRow(open[name], Rows[n + 1])
      BY <2>1 DEF text, Text
    <3>9. KeysApart(text) /\ ToBag(RowsIn(text)) = ToBag(Stretch(Rows, a, N))
      BY <1>4, <1>8, <3>5, <3>6, <3>7, <3>8, StretchGrows
    <3>10. \A m \in a..N : NameOf(Rows[m]) = name
      <4>1. \A m \in a..N : m \in a..n \/ m = N
        BY <1>4
      <4> QED BY <3>5, <4>1 DEF name
    <3> QED BY <3>5, <3>7, <3>9, <3>10
  <2>2. CASE name \notin DOMAIN open
    <3>1. text = AddRow(NoText, Rows[n + 1])
      BY <2>2 DEF text, Text
    <3>2. N \in 1..(n + 1) /\ ToBag(RowsIn(NoText)) = ToBag(Stretch(Rows, N, n))
      BY <1>4, StretchStarts
    <3>3. IsVectorRow(Rows[n + 1]) /\ n \in Nat
      BY <1>4, <1>8
    <3>4. KeysApart(text) /\ ToBag(RowsIn(text)) = ToBag(Stretch(Rows, N, N))
      <4> DEFINE b == N
      <4>1. b \in 1..(n + 1) /\ ToBag(RowsIn(NoText)) = ToBag(Stretch(Rows, b, n))
        BY <3>2
      <4> HIDE DEF b
      <4>2. KeysApart(text) /\ ToBag(RowsIn(text)) = ToBag(Stretch(Rows, b, n + 1))
        BY <3>1, <3>3, <4>1, NoTextIsWhole, StretchGrows
      <4> QED BY <4>2 DEF b
    <3>5. \A m \in N..N : NameOf(Rows[m]) = name
      BY <1>4 DEF name
    <3>6. N > 1 => NameOf(Rows[N - 1]) # name
      <4> SUFFICES ASSUME N > 1 PROVE NameOf(Rows[n]) # name
        BY <1>4
      <4>1. OpenIsStretch(n) /\ n \in Nat \ {0}
        BY <1>2, <1>4
      <4>2. PICK other \in DOMAIN open : \E a \in 1..n : \A m \in a..n : NameOf(Rows[m]) = other
        BY <4>1 DEF OpenIsStretch
      <4>3. NameOf(Rows[n]) = other
        BY <4>1, <4>2
      <4> QED BY <2>2, <4>2, <4>3
    <3> QED BY <1>4, <3>4, <3>5, <3>6
  <2> QED BY <2>1, <2>2
<1>10. N # 0
  BY <1>4
<1>11. OpenIsStretch(N)'
  <2> HIDE DEF N, row
  <2>1. PICK a \in 1..N :
         /\ \A m \in a..N : NameOf(Rows[m]) = name
         /\ a > 1 => NameOf(Rows[a - 1]) # name
         /\ KeysApart(text) /\ ToBag(RowsIn(text)) = ToBag(Stretch(Rows, a, N))
    BY <1>9
  <2>2. /\ name \in DOMAIN open' /\ DOMAIN open' = {name}
        /\ KeysApart(open'[name])
        /\ ToBag(RowsIn(open'[name])) = ToBag(Stretch(Rows', a, N))
        /\ \A m \in a..N : NameOf(Rows'[m]) = name
        /\ a > 1 => NameOf(Rows'[a - 1]) # name
    BY <1>3, <1>7, <2>1
  <2> QED BY <2>1, <2>2 DEF OpenIsStretch, Stretch
<1> QED BY <1>5, <1>6, <1>10, <1>11 DEF VectorsInv

LEMMA EndOfInputVectors ==
  ASSUME EndOfInput
  PROVE  VectorsInv'
  BY DEF EndOfInput, VectorsInv

----------------------------------------------------------------------------
(* vectors: what is written, action by action.                             *)

StretchOf(j, path, text) ==
  \E i \in DOMAIN j.inputs :
    LET rows == j.inputs[i].rows
    IN  /\ (IF Len(j.inputs) > 1 THEN j.inputs[i].stem ELSE ".") = path[1]
        /\ \E a, b \in DOMAIN rows :
             /\ a <= b /\ IsStretch(rows, a, b, path[2])
             /\ ToBag(RowsIn(text)) = ToBag([n \in 1..(b - a + 1) |-> AsRead(rows[a + n - 1])])

LEMMA StretchStays ==
  ASSUME UNCHANGED job, NEW path, disk'[path] = disk[path], HoldsAStretch(path)
  PROVE  HoldsAStretch(path)'
<1>1. StretchOf(job, path, disk[path].text)
  BY DEF StretchOf, HoldsAStretch, DirOf
<1>2. StretchOf(job', path, disk'[path].text) => HoldsAStretch(path)'
  BY DEF StretchOf, HoldsAStretch, DirOf
<1> QED BY <1>1, <1>2

\* What flush writes is a stretch: the name before and the name after differ.
LEMMA FlushHolds ==
  ASSUME TypesInv, VectorsInv, job.tool = "vectors", pc = "rows", UNCHANGED job,
         Consumed # 0, NEW name \in DOMAIN open, DOMAIN open = {name}, FlushOf(name),
         todo # <<>> => NameOf(Head(todo)) # name, FilesHoldStretches
  PROVE  FilesHoldStretches'
<1> DEFINE place == <<OutputDir, name>>
<1>1. /\ DOMAIN disk' = DOMAIN disk \cup {place} /\ disk'[place] = New(open[name])
      /\ \A path \in DOMAIN disk \ {place} : disk'[path] = disk[path]
  BY DEF FlushOf, With
<1> SUFFICES ASSUME NEW path \in DOMAIN disk', disk'[path].age = "new"
             PROVE  HoldsAStretch(path)'
  BY DEF FilesHoldStretches
<1>2. CASE path # place
  <2>1. path \in DOMAIN disk /\ disk'[path] = disk[path]
    BY <1>1, <1>2
  <2>2. HoldsAStretch(path)
    BY <2>1 DEF FilesHoldStretches
  <2> QED BY <2>1, <2>2, StretchStays
<1>3. CASE path = place
  <2> DEFINE n == Consumed
  <2>1. OpenIsStretch(n) /\ RestIsAfter(n)
    BY DEF VectorsInv
  <2>2. /\ n \in 1..Len(Rows) /\ Len(Rows) \in Nat /\ DOMAIN Rows = 1..Len(Rows)
        /\ input \in DOMAIN job.inputs
    BY <2>1, TableFacts DEF RestIsAfter, TypesInv
  <2>3. PICK a \in 1..n :
           /\ \A m \in a..n : NameOf(Rows[m]) = name
           /\ a > 1 => NameOf(Rows[a - 1]) # name
           /\ ToBag(RowsIn(open[name]))
                = ToBag([m \in 1..(n - a + 1) |-> AsRead(Rows[a + m - 1])])
    BY <2>1 DEF OpenIsStretch
  <2>4. n < Len(Rows) => NameOf(Rows[n + 1]) # name
    <3>1. n < Len(Rows) => todo # <<>>
      <4>1. Len(todo) = Len(Rows) - n
        BY <2>1 DEF RestIsAfter
      <4> SUFFICES ASSUME todo = <<>> PROVE ~ (n < Len(Rows))
        OBVIOUS
      <4>2. Len(todo) = 0
        BY EmptyList
      <4>3. 0 = Len(Rows) - n
        BY <4>1, <4>2
      <4>4. n \in Nat
        BY <2>2
      <4>5. Len(Rows) \in Nat
        BY <2>2
      <4> HIDE DEF n
      <4> QED BY <4>3, <4>4, <4>5
    <3>2. todo # <<>> => Head(todo) = Rows[n + 1]
      BY <2>1, NextRow
    <3> QED BY <3>1, <3>2
  <2>5. disk'[path].text = open[name] /\ path[1] = OutputDir /\ path[2] = name
    BY <1>1, <1>3 DEF New
  <2>6. Rows = job.inputs[input].rows /\ DirOf(input) = OutputDir
    BY DEF Rows, Input, DirOf, OutputDir
  <2> HIDE DEF n
  <2>7. a \in DOMAIN Rows /\ n \in DOMAIN Rows /\ a <= n
    BY <2>2
  <2>8. IsStretch(Rows, a, n, name)
    BY <2>3, <2>4 DEF IsStretch, NameOf
  <2> DEFINE i == input
             rows == job.inputs[i].rows
             read == RowsIn(disk'[path].text)
  <2>9. /\ i \in DOMAIN job.inputs /\ DirOf(i) = path[1]
        /\ a \in DOMAIN rows /\ n \in DOMAIN rows /\ a <= n
        /\ IsStretch(rows, a, n, path[2])
        /\ ToBag(read) = ToBag([m \in 1..(n - a + 1) |-> AsRead(rows[a + m - 1])])
    BY <2>2, <2>3, <2>5, <2>6, <2>7, <2>8
  <2> HIDE DEF i
  <2>10. /\ DirOf(i) = IF Len(job.inputs) > 1 THEN job.inputs[i].stem ELSE "."
    BY DEF DirOf
  <2>11. \E j \in DOMAIN job'.inputs :
           LET all == job'.inputs[j].rows
           IN  /\ (IF Len(job'.inputs) > 1 THEN job'.inputs[j].stem ELSE ".") = path[1]
               /\ \E b, c \in DOMAIN all :
                    /\ b <= c /\ IsStretch(all, b, c, path[2])
                    /\ ToBag(read) = ToBag([m \in 1..(c - b + 1) |-> AsRead(all[b + m - 1])])
    BY <2>9, <2>10
  <2> QED BY <2>11 DEF HoldsAStretch, DirOf, IsStretch
<1> QED BY <1>2, <1>3

LEMMA SameFilesHold ==
  ASSUME job.tool = "vectors", UNCHANGED job, FilesHoldStretches,
         \A path \in DOMAIN disk' : path \in DOMAIN disk /\ disk'[path] = disk[path]
  PROVE  FilesHoldStretches'
<1> SUFFICES ASSUME NEW path \in DOMAIN disk', disk'[path].age = "new"
             PROVE  HoldsAStretch(path)'
  BY DEF FilesHoldStretches
<1> QED BY StretchStays DEF FilesHoldStretches

LEMMA PrepareHolds ==
  ASSUME PrepareOutputDir, FilesHoldStretches
  PROVE  FilesHoldStretches'
<1>1. /\ job.tool = "vectors" /\ UNCHANGED job
      /\ UNCHANGED disk \/ disk' = Remaining(Existing(OutputDir))
  BY DEF PrepareOutputDir
<1>2. \A path \in DOMAIN disk' : path \in DOMAIN disk /\ disk'[path] = disk[path]
  <2>1. CASE UNCHANGED disk
    BY <2>1
  <2>2. CASE disk' = Remaining(Existing(OutputDir))
    <3>1. /\ DOMAIN disk' = DOMAIN disk \ Existing(OutputDir)
          /\ \A path \in DOMAIN disk \ Existing(OutputDir) : disk'[path] = disk[path]
      BY <2>2, RemainingFiles
    <3> QED BY <3>1
  <2> QED BY <1>1, <2>1, <2>2
<1> QED BY <1>1, <1>2, SameFilesHold

LEMMA FlushedHolds ==
  ASSUME TypesInv, VectorsInv, job.tool = "vectors", pc = "rows", UNCHANGED job, Flushed,
         todo # <<>> => NameOf(Head(todo)) \notin DOMAIN open, FilesHoldStretches
  PROVE  FilesHoldStretches'
<1>1. CASE UNCHANGED disk
  BY <1>1, SameFilesHold
<1>2. ASSUME Consumed # 0, NEW name \in DOMAIN open, DOMAIN open = {name}, FlushOf(name)
      PROVE  FilesHoldStretches'
  BY <1>2, FlushHolds
<1> QED BY <1>1, <1>2, FlushedIs

LEMMA VectorRowHolds ==
  ASSUME TypesInv, VectorsInv, VectorRow, FilesHoldStretches
  PROVE  FilesHoldStretches'
<1>1. /\ job.tool = "vectors" /\ pc = "rows" /\ UNCHANGED job
      /\ UNCHANGED disk \/ (NameOf(Head(todo)) \notin DOMAIN open /\ Flushed)
  BY DEF VectorRow, NameOf
<1> QED BY <1>1, SameFilesHold, FlushedHolds

LEMMA EndOfInputHolds ==
  ASSUME TypesInv, VectorsInv, EndOfInput, FilesHoldStretches
  PROVE  FilesHoldStretches'
<1>1. /\ job.tool = "vectors" /\ pc = "rows" /\ UNCHANGED job /\ todo = <<>> /\ Flushed
  BY DEF EndOfInput
<1> QED BY <1>1, FlushedHolds

----------------------------------------------------------------------------
(* vectors: what the directories hold, action by action.                   *)

LEMMA FilledNow ==
  ASSUME DirectoriesFill
  PROVE  /\ \A i \in DOMAIN job.inputs : i < input \/ (i = input /\ pc = "done") =>
              \A path \in DOMAIN disk : path[1] = DirOf(i) => disk[path].age = "new"
         /\ \A path \in DOMAIN disk : disk[path].age = "new" =>
              \E i \in DOMAIN job.inputs :
                path[1] = DirOf(i) /\ (i < input \/ (i = input /\ pc # "prepare"))
         /\ pc = "rows" => \A path \in DOMAIN disk : path[1] = OutputDir =>
              /\ disk[path].age = "new" /\ path[2] \notin DOMAIN open
              /\ \E m \in 1..Consumed : NameOf(Rows[m]) = path[2]
  BY DEF DirectoriesFill, Existing, Written

LEMMA FilledNext ==
  ASSUME UNCHANGED job,
         \A i \in DOMAIN job.inputs : i < input' \/ (i = input' /\ pc' = "done") =>
           \A path \in DOMAIN disk' : path[1] = DirOf(i) => disk'[path].age = "new",
         \A path \in DOMAIN disk' : disk'[path].age = "new" =>
           \E i \in DOMAIN job.inputs :
             path[1] = DirOf(i) /\ (i < input' \/ (i = input' /\ pc' # "prepare")),
         pc' = "done" => input' = Len(job.inputs),
         pc' = "rows" => \A path \in DOMAIN disk' : path[1] = OutputDir' =>
           /\ disk'[path].age = "new" /\ path[2] \notin DOMAIN open'
           /\ \E m \in 1..Consumed' : NameOf(Rows'[m]) = path[2]
  PROVE  DirectoriesFill'
<1>1. \A i : DirOf(i)' = DirOf(i)
  BY DEF DirOf
<1>2. \A i \in DOMAIN job'.inputs : i < input' \/ (i = input' /\ pc' = "done") =>
        {path \in DOMAIN disk' : path[1] = DirOf(i)'}
          \subseteq {path \in DOMAIN disk' : disk'[path].age = "new"}
  BY <1>1
<1>3. \A path \in {path \in DOMAIN disk' : disk'[path].age = "new"} :
        \E i \in DOMAIN job'.inputs :
          path[1] = DirOf(i)' /\ (i < input' \/ (i = input' /\ pc' # "prepare"))
  BY <1>1
<1>4. pc' = "done" => input' = Len(job'.inputs)
  OBVIOUS
<1>5. pc' = "rows" => \A path \in {path \in DOMAIN disk' : path[1] = OutputDir'} :
           /\ path \in {q \in DOMAIN disk' : disk'[q].age = "new"}
           /\ path[2] \notin DOMAIN open'
           /\ \E m \in 1..Consumed' : NameOf(Rows'[m]) = path[2]
  OBVIOUS
<1> QED BY <1>2, <1>3, <1>4, <1>5 DEF DirectoriesFill, Existing, Written, NameOf

\* What flush writes is counted, when there is no file of the name.
LEMMA FlushCounts ==
  ASSUME TypesInv, WrittenIsCounted, NEW name \in DOMAIN open, FlushOf(name),
         <<OutputDir, name>> \notin DOMAIN disk
  PROVE  WrittenIsCounted'
<1> DEFINE place == <<OutputDir, name>>
           text == open[name]
           more == Counting(text)
<1>1. disk' = With(disk, place, New(text)) /\ totals' = more /\ place \notin DOMAIN disk
  BY DEF FlushOf
<1>2. /\ more.files = totals.files + 1 /\ more.groups = totals.groups + Len(text.groups)
      /\ more.rows = totals.rows + RowCount(text)
  BY DEF Counting
<1>3. /\ IsWhole(text) /\ \A path \in DOMAIN disk : IsWhole(disk[path].text)
      /\ AreCounted(disk, totals)
  BY DEF TypesInv, OpenIsWhole, FilesAreWhole, WrittenIsCounted
<1> HIDE DEF place, text, more
<1>4. AreCounted(With(disk, place, New(text)), more)
  BY <1>1, <1>2, <1>3, FileCounted
<1>5. AreCounted(disk', totals')
  BY <1>1, <1>4
<1> QED BY <1>5 DEF WrittenIsCounted, AreCounted, NewIn

\* No file that was written is in the directory of the next input.
LEMMA NextDirectory ==
  ASSUME TypesInv, job.tool = "vectors", pc = "prepare", NamesComeTogether, DirectoriesFill,
         NEW path \in DOMAIN disk, disk[path].age = "new"
  PROVE  path[1] # OutputDir
<1>1. PICK i \in DOMAIN job.inputs : path[1] = DirOf(i) /\ i < input
  BY FilledNow
<1>2. /\ DOMAIN job.inputs = 1..Len(job.inputs) /\ Len(job.inputs) \in Nat
      /\ input \in 1..Len(job.inputs)
  BY TableFacts DEF TypesInv
<1>3. i # input /\ Len(job.inputs) > 1 /\ i \in DOMAIN job.inputs /\ input \in DOMAIN job.inputs
  BY <1>1, <1>2
<1>4. job.inputs[i].stem # job.inputs[input].stem
  BY <1>3 DEF NamesComeTogether
<1>5. DirOf(i) = job.inputs[i].stem /\ OutputDir = job.inputs[input].stem
  BY <1>3 DEF DirOf, OutputDir, Input
<1> QED BY <1>1, <1>4, <1>5

LEMMA PrepareDirectories ==
  ASSUME TypesInv, PrepareOutputDir, DirectoriesInv
  PROVE  DirectoriesInv'
<1> SUFFICES ASSUME job.tool = "vectors", NamesComeTogether, pc' # "failed"
             PROVE  WrittenIsCounted' /\ DirectoriesFill'
  BY SameTable DEF DirectoriesInv, PrepareOutputDir
<1>1. /\ pc = "prepare" /\ pc' = "rows" /\ UNCHANGED <<job, input, open, totals>>
      /\ disk' = Remaining(Existing(OutputDir))
  BY DEF PrepareOutputDir, Fail
<1>2. WrittenIsCounted /\ DirectoriesFill
  BY <1>1 DEF DirectoriesInv
<1>3. /\ DOMAIN disk' = DOMAIN disk \ Existing(OutputDir)
      /\ \A path \in DOMAIN disk' : path \in DOMAIN disk /\ disk'[path] = disk[path]
      /\ \A path \in DOMAIN disk' : path[1] # OutputDir
      /\ \A path \in DOMAIN disk : path[1] # OutputDir => path \in DOMAIN disk'
  <2>1. /\ DOMAIN disk' = DOMAIN disk \ Existing(OutputDir)
        /\ \A path \in DOMAIN disk \ Existing(OutputDir) : disk'[path] = disk[path]
    BY <1>1, RemainingFiles
  <2> QED BY <2>1 DEF Existing
<1>4. \A path \in DOMAIN disk : disk[path].age = "new" => path[1] # OutputDir
  BY <1>1, <1>2, NextDirectory
<1>5. WrittenIsCounted'
  <2>1. AreCounted(disk, totals)
    BY <1>2 DEF WrittenIsCounted
  <2>2. NewIn(disk') = NewIn(disk) /\ \A path \in NewIn(disk) : disk'[path] = disk[path]
    BY <1>3, <1>4 DEF NewIn
  <2>3. AreCounted(disk', totals)
    BY <2>1, <2>2, SameCounted
  <2> QED BY <1>1, <2>3 DEF WrittenIsCounted, AreCounted, NewIn
<1>6. DirectoriesFill'
  <2>1. \A i \in DOMAIN job.inputs : i < input' \/ (i = input' /\ pc' = "done") =>
           \A path \in DOMAIN disk' : path[1] = DirOf(i) => disk'[path].age = "new"
    BY <1>1, <1>2, <1>3, FilledNow
  <2>2. \A path \in DOMAIN disk' : disk'[path].age = "new" =>
           \E i \in DOMAIN job.inputs :
             path[1] = DirOf(i) /\ (i < input' \/ (i = input' /\ pc' # "prepare"))
    BY <1>1, <1>2, <1>3, FilledNow
  <2>3. OutputDir' = OutputDir
    BY <1>1, SameTable
  <2>4. pc' = "rows" => \A path \in DOMAIN disk' : path[1] = OutputDir' =>
           /\ disk'[path].age = "new" /\ path[2] \notin DOMAIN open'
           /\ \E m \in 1..Consumed' : NameOf(Rows'[m]) = path[2]
    BY <1>3, <2>3
  <2>5. pc' # "done" /\ UNCHANGED job
    BY <1>1
  <2> QED BY <2>1, <2>2, <2>4, <2>5, FilledNext
<1> QED BY <1>5, <1>6

\* flush replaces no file and leaves the directory to its own files.
LEMMA FlushedDirectories ==
  ASSUME TypesInv, VectorsInv, job.tool = "vectors", pc = "rows", Flushed,
         WrittenIsCounted, DirectoriesFill
  PROVE  /\ WrittenIsCounted'
         /\ \A path \in DOMAIN disk : path \in DOMAIN disk' /\ disk'[path] = disk[path]
         /\ \A path \in DOMAIN disk' : path \notin DOMAIN disk =>
              /\ path[1] = OutputDir /\ disk'[path].age = "new" /\ path[2] \in DOMAIN open
              /\ \E m \in 1..Consumed : NameOf(Rows[m]) = path[2]
<1>1. CASE UNCHANGED <<disk, totals>>
  BY <1>1 DEF WrittenIsCounted, AreCounted, NewIn
<1>2. ASSUME Consumed # 0, NEW name \in DOMAIN open, DOMAIN open = {name}, FlushOf(name)
      PROVE  /\ WrittenIsCounted'
             /\ \A path \in DOMAIN disk : path \in DOMAIN disk' /\ disk'[path] = disk[path]
             /\ \A path \in DOMAIN disk' : path \notin DOMAIN disk =>
                  /\ path[1] = OutputDir /\ disk'[path].age = "new" /\ path[2] \in DOMAIN open
                  /\ \E m \in 1..Consumed : NameOf(Rows[m]) = path[2]
  <2> DEFINE place == <<OutputDir, name>>
  <2>1. place[1] = OutputDir /\ place[2] = name
    OBVIOUS
  <2>2. place \notin DOMAIN disk
    <3>1. place \in DOMAIN disk => place[2] \notin DOMAIN open
      BY <2>1, FilledNow
    <3> QED BY <1>2, <2>1, <3>1
  <2>3. /\ DOMAIN disk' = DOMAIN disk \cup {place} /\ disk'[place] = New(open[name])
        /\ \A path \in DOMAIN disk : disk'[path] = disk[path]
    BY <1>2, <2>2 DEF FlushOf, With
  <2>4. WrittenIsCounted'
    BY <1>2, <2>2, FlushCounts
  <2>5. \E m \in 1..Consumed : NameOf(Rows[m]) = name
    <3>1. OpenIsStretch(Consumed) /\ RestIsAfter(Consumed)
      BY <1>2 DEF VectorsInv
    <3>2. PICK a \in 1..Consumed : \A m \in a..Consumed : NameOf(Rows[m]) = name
      BY <1>2, <3>1 DEF OpenIsStretch
    <3>3. Consumed \in Nat
      BY <3>1 DEF RestIsAfter
    <3>4. a \in a..Consumed
      BY <3>2, <3>3
    <3> QED BY <3>2, <3>4
  <2>6. New(open[name]).age = "new"
    BY DEF New
  <2> HIDE DEF place
  <2> QED BY <1>2, <2>1, <2>3, <2>4, <2>5, <2>6
<1> QED BY <1>1, <1>2, FlushedIs

\* A name that comes now has not come before.
LEMMA NameIsNew ==
  ASSUME TypesInv, VectorsInv, job.tool = "vectors", pc = "rows", NamesComeTogether,
         todo # <<>>, NameOf(Head(todo)) \notin DOMAIN open
  PROVE  \A m \in 1..Consumed : NameOf(Rows[m]) # NameOf(Head(todo))
<1> DEFINE n == Consumed
           name == NameOf(Head(todo))
<1>1. RestIsAfter(n) /\ IF n = 0 THEN open = <<>> ELSE OpenIsStretch(n)
  BY DEF VectorsInv
<1>2. /\ n \in Nat /\ n + 1 \in 1..Len(Rows) /\ Len(Rows) \in Nat /\ name = NameOf(Rows[n + 1])
  BY <1>1, NextRow
<1>3. DOMAIN Rows = 1..Len(Rows) /\ Rows = job.inputs[input].rows /\ input \in DOMAIN job.inputs
  BY TableFacts DEF TypesInv, Rows, Input
<1> HIDE DEF n, name
<1> SUFFICES ASSUME NEW m \in 1..n, NameOf(Rows[m]) = name PROVE FALSE
  BY DEF n, name
<1>4. n # 0 /\ m \in DOMAIN Rows /\ n + 1 \in DOMAIN Rows /\ n \in m..(n + 1)
  BY <1>2, <1>3
<1>5. NameOf(Rows[n]) = name
  <2>1. \A a, b \in DOMAIN Rows : \A k \in a..b :
          NameOf(Rows[a]) = NameOf(Rows[b]) => NameOf(Rows[k]) = NameOf(Rows[a])
    <3> DEFINE rows == job.inputs[input].rows
    <3>1. \A a, b \in DOMAIN rows : \A k \in a..b :
            FileName[rows[a].mnemonic] = FileName[rows[b].mnemonic] =>
              FileName[rows[k].mnemonic] = FileName[rows[a].mnemonic]
      BY <1>3 DEF NamesComeTogether
    <3>2. Rows = rows
      BY <1>3
    <3> HIDE DEF rows
    <3> QED BY <3>1, <3>2 DEF NameOf
  <2> QED BY <1>2, <1>4, <2>1
<1>6. OpenIsStretch(n)
  BY <1>1, <1>4
<1>7. PICK other \in DOMAIN open : \E a \in 1..n : \A k \in a..n : NameOf(Rows[k]) = other
  BY <1>6 DEF OpenIsStretch
<1>8. NameOf(Rows[n]) = other
  BY <1>2, <1>4, <1>7
<1> QED BY <1>5, <1>7, <1>8 DEF name

LEMMA VectorRowDirectories ==
  ASSUME TypesInv, VectorsInv, VectorRow, DirectoriesInv
  PROVE  DirectoriesInv'
<1> DEFINE name == NameOf(Head(todo))
           n == Consumed
<1>1. /\ job.tool = "vectors" /\ pc = "rows" /\ UNCHANGED <<job, input>> /\ todo # <<>>
      /\ pc' # "failed" =>
           /\ pc' = "rows" /\ todo' = Tail(todo) /\ DOMAIN open' = {name}
           /\ IF name \in DOMAIN open THEN UNCHANGED <<disk, totals>> ELSE Flushed
  BY DEF VectorRow, Fail, NameOf
<1> SUFFICES ASSUME NamesComeTogether, pc' # "failed"
             PROVE  WrittenIsCounted' /\ DirectoriesFill'
  BY <1>1, SameTable DEF DirectoriesInv
<1>2. WrittenIsCounted /\ DirectoriesFill
  BY <1>1 DEF DirectoriesInv
<1>3. RestIsAfter(n) /\ (n # 0 => OpenIsStretch(n))
  BY <1>1 DEF VectorsInv
<1>4. n \in Nat /\ n + 1 \in 1..Len(Rows) /\ name = NameOf(Rows[n + 1]) /\ Len(Rows) \in Nat
      /\ Len(Tail(todo)) = Len(Rows) - (n + 1)
  BY <1>1, <1>3, NextRow
<1>5. Rows' = Rows /\ OutputDir' = OutputDir
  BY <1>1, SameTable
<1>6. Consumed' = n + 1
  <2>1. todo' = Tail(todo)
    BY <1>1
  <2>2. Consumed' = Len(Rows) - Len(Tail(todo))
    BY <1>5, <2>1 DEF Consumed
  <2> DEFINE k == Len(Tail(todo))
             r == Len(Rows)
  <2> HIDE DEF n, k, r
  <2>3. n \in Nat /\ r \in Nat /\ k = r - (n + 1) /\ Consumed' = r - k
    BY <1>4, <2>2 DEF k, r
  <2> QED BY <2>3
<1>7. /\ WrittenIsCounted'
      /\ \A path \in DOMAIN disk : path \in DOMAIN disk' /\ disk'[path] = disk[path]
      /\ \A path \in DOMAIN disk' : path \notin DOMAIN disk =>
           /\ path[1] = OutputDir /\ disk'[path].age = "new" /\ path[2] \in DOMAIN open
           /\ \E m \in 1..n : NameOf(Rows[m]) = path[2]
  <2>1. CASE name \in DOMAIN open
    BY <1>1, <1>2, <2>1 DEF WrittenIsCounted, AreCounted, NewIn
  <2>2. CASE name \notin DOMAIN open
    BY <1>1, <1>2, <2>2, FlushedDirectories
  <2> QED BY <2>1, <2>2
<1>8. ASSUME NEW path \in DOMAIN disk', path[1] = OutputDir
      PROVE  /\ disk'[path].age = "new" /\ path[2] # name
             /\ \E m \in 1..n : NameOf(Rows[m]) = path[2]
  <2>1. CASE path \in DOMAIN disk
    <3>1. /\ disk'[path].age = "new" /\ path[2] \notin DOMAIN open
          /\ \E m \in 1..n : NameOf(Rows[m]) = path[2]
      BY <1>1, <1>2, <1>7, <1>8, <2>1, FilledNow
    <3>2. name \notin DOMAIN open => path[2] # name
      BY <1>1, <3>1, NameIsNew
    <3> QED BY <3>1, <3>2
  <2>2. CASE path \notin DOMAIN disk
    <3>1. /\ disk'[path].age = "new" /\ path[2] \in DOMAIN open
          /\ \E m \in 1..n : NameOf(Rows[m]) = path[2]
      BY <1>7, <2>2
    <3>2. name \notin DOMAIN open
      BY <1>1, <2>2
    <3> QED BY <3>1, <3>2
  <2> QED BY <2>1, <2>2
<1>9. DirectoriesFill'
  <2> HIDE DEF n, name
  <2>1. \A i \in DOMAIN job.inputs : i < input' \/ (i = input' /\ pc' = "done") =>
           \A path \in DOMAIN disk' : path[1] = DirOf(i) => disk'[path].age = "new"
    BY <1>1, <1>2, <1>7, FilledNow
  <2>2. ASSUME NEW path \in DOMAIN disk', disk'[path].age = "new"
        PROVE  \E i \in DOMAIN job.inputs :
                 path[1] = DirOf(i) /\ (i < input' \/ (i = input' /\ pc' # "prepare"))
    <3>1. CASE path \in DOMAIN disk
      BY <1>1, <1>2, <1>7, <2>2, <3>1, FilledNow
    <3>2. CASE path \notin DOMAIN disk
      <4>1. path[1] = DirOf(input)
        BY <1>7, <3>2 DEF DirOf, OutputDir, Input
      <4> QED BY <1>1, <4>1 DEF TypesInv
    <3> QED BY <3>1, <3>2
  <2>3. pc' = "rows" => \A path \in DOMAIN disk' : path[1] = OutputDir' =>
           /\ disk'[path].age = "new" /\ path[2] \notin DOMAIN open'
           /\ \E m \in 1..Consumed' : NameOf(Rows'[m]) = path[2]
    <3> SUFFICES ASSUME NEW path \in DOMAIN disk', path[1] = OutputDir
                 PROVE  /\ disk'[path].age = "new" /\ path[2] \notin DOMAIN open'
                        /\ \E m \in 1..Consumed' : NameOf(Rows'[m]) = path[2]
      BY <1>5
    <3>1. \A m \in 1..n : m \in 1..(n + 1)
      BY <1>4
    <3> QED BY <1>1, <1>5, <1>6, <1>8, <3>1
  <2>4. pc' # "done" /\ UNCHANGED job
    BY <1>1
  <2> QED BY <2>1, <2>2, <2>3, <2>4, FilledNext
<1> QED BY <1>7, <1>9

LEMMA EndOfInputDirectories ==
  ASSUME TypesInv, VectorsInv, EndOfInput, DirectoriesInv
  PROVE  DirectoriesInv'
<1>1. /\ job.tool = "vectors" /\ pc = "rows" /\ UNCHANGED job /\ Flushed
      /\ \/ input = Len(job.inputs) /\ pc' = "done" /\ input' = input
         \/ input # Len(job.inputs) /\ pc' = "prepare" /\ input' = input + 1
  BY DEF EndOfInput
<1>2. NamesComeTogether' = NamesComeTogether
  BY <1>1 DEF NamesComeTogether
<1> SUFFICES ASSUME NamesComeTogether
             PROVE  WrittenIsCounted' /\ DirectoriesFill'
  BY <1>1, <1>2 DEF DirectoriesInv
<1>3. WrittenIsCounted /\ DirectoriesFill
  BY <1>1 DEF DirectoriesInv
<1>4. /\ WrittenIsCounted'
      /\ \A path \in DOMAIN disk : path \in DOMAIN disk' /\ disk'[path] = disk[path]
      /\ \A path \in DOMAIN disk' : path \notin DOMAIN disk =>
           path[1] = OutputDir /\ disk'[path].age = "new"
  BY <1>1, <1>3, FlushedDirectories
<1>5. DirOf(input) = OutputDir
  BY DEF DirOf, OutputDir, Input
<1>6. /\ input \in DOMAIN job.inputs /\ DOMAIN job.inputs = 1..Len(job.inputs)
      /\ Len(job.inputs) \in Nat
  BY TableFacts DEF TypesInv
<1>7. ASSUME NEW i \in DOMAIN job.inputs, i < input' \/ (i = input' /\ pc' = "done"),
             NEW path \in DOMAIN disk', path[1] = DirOf(i)
      PROVE  disk'[path].age = "new"
  <2>1. i < input \/ i = input
    BY <1>1, <1>6, <1>7
  <2>2. CASE path \notin DOMAIN disk
    BY <1>4, <2>2
  <2>3. CASE path \in DOMAIN disk /\ i < input
    BY <1>3, <1>4, <1>7, <2>3, FilledNow
  <2>4. CASE path \in DOMAIN disk /\ i = input
    BY <1>1, <1>3, <1>4, <1>5, <1>7, <2>4, FilledNow
  <2> QED BY <2>1, <2>2, <2>3, <2>4
<1>8. ASSUME NEW path \in DOMAIN disk', disk'[path].age = "new"
      PROVE  \E i \in DOMAIN job.inputs :
               path[1] = DirOf(i) /\ (i < input' \/ (i = input' /\ pc' # "prepare"))
  <2>1. PICK i \in DOMAIN job.inputs : path[1] = DirOf(i) /\ (i < input \/ i = input)
    <3>1. CASE path \in DOMAIN disk
      BY <1>3, <1>4, <1>8, <3>1, FilledNow
    <3>2. CASE path \notin DOMAIN disk
      BY <1>4, <1>5, <1>6, <3>2
    <3> QED BY <3>1, <3>2
  <2>2. i < input' \/ (i = input' /\ pc' # "prepare")
    BY <1>1, <1>6, <2>1
  <2> QED BY <2>1, <2>2
<1>9. (pc' = "done" => input' = Len(job.inputs)) /\ pc' # "rows"
  BY <1>1
<1>10. DirectoriesFill'
  BY <1>1, <1>7, <1>8, <1>9, FilledNext
<1> QED BY <1>4, <1>10

----------------------------------------------------------------------------
(* vectors: every row gets to a file, action by action.                    *)

\* The directory to fill next is not one that has been filled.
LEMMA OtherDirectory ==
  ASSUME job \in Jobs, input \in DOMAIN job.inputs, job.tool = "vectors", NamesComeTogether,
         NEW i \in DOMAIN job.inputs, i < input
  PROVE  DirOf(i) # OutputDir
<1>1. DOMAIN job.inputs = 1..Len(job.inputs) /\ Len(job.inputs) \in Nat
  BY TableFacts
<1>2. i # input /\ Len(job.inputs) > 1
  BY <1>1
<1>3. job.inputs[i].stem # job.inputs[input].stem
  BY <1>2 DEF NamesComeTogether
<1> QED BY <1>2, <1>3 DEF DirOf, OutputDir, Input

LEMMA PrepareNames ==
  ASSUME TypesInv, PrepareOutputDir, NamesInv
  PROVE  NamesInv'
<1> SUFFICES ASSUME job.tool = "vectors", NamesComeTogether, pc' # "failed"
             PROVE  NamesHaveFiles'
  BY SameTable DEF NamesInv, PrepareOutputDir
<1>1. /\ pc = "prepare" /\ pc' = "rows" /\ UNCHANGED <<job, input, open>>
      /\ todo' = Rows /\ disk' = Remaining(Existing(OutputDir))
  BY DEF PrepareOutputDir, Fail, Rows
<1>2. NamesHaveFiles
  BY <1>1 DEF NamesInv
<1>3. \A path \in DOMAIN disk : path[1] # OutputDir => path \in DOMAIN disk'
  BY <1>1, RemainingFiles DEF Existing
<1>4. ASSUME NEW i \in DOMAIN job.inputs, i < input, NEW row \in ToSet(job.inputs[i].rows)
      PROVE  <<DirOf(i), NameOf(row)>> \in DOMAIN disk'
  <2>1. <<DirOf(i), NameOf(row)>> \in DOMAIN disk
    BY <1>2, <1>4 DEF NamesHaveFiles
  <2>2. DirOf(i) # OutputDir
    BY <1>4, OtherDirectory DEF TypesInv
  <2> QED BY <1>3, <2>1, <2>2
<1>5. 1..Consumed' = {}
  <2>1. Rows' = Rows /\ Len(Rows) \in Nat
    BY <1>1, SameTable, TableFacts DEF TypesInv
  <2>2. Consumed' = Len(Rows) - Len(Rows)
    BY <1>1, <2>1 DEF Consumed
  <2>3. Consumed' = 0
    BY <2>1, <2>2
  <2> QED BY <2>3
<1>6. \A i : DirOf(i)' = DirOf(i)
  BY <1>1 DEF DirOf
<1> QED BY <1>1, <1>4, <1>5, <1>6 DEF NamesHaveFiles, NameOf

\* What flush empties from memory is on disk.
LEMMA FlushedNames ==
  ASSUME TypesInv, VectorsInv, job.tool = "vectors", pc = "rows", Flushed
  PROVE  /\ \A path \in DOMAIN disk : path \in DOMAIN disk'
         /\ \A name \in DOMAIN open : <<OutputDir, name>> \in DOMAIN disk'
<1>1. CASE open = <<>>
  BY <1>1 DEF Flushed
<1>2. CASE open # <<>>
  <2>1. PICK name \in DOMAIN open : disk' = With(disk, <<OutputDir, name>>, New(open[name]))
    BY <1>2 DEF Flushed
  <2>2. \E only : DOMAIN open = {only}
    BY <1>2 DEF VectorsInv, OpenIsStretch
  <2> QED BY <2>1, <2>2 DEF With
<1> QED BY <1>1, <1>2

LEMMA VectorRowNames ==
  ASSUME TypesInv, VectorsInv, VectorRow, NamesInv
  PROVE  NamesInv'
<1> DEFINE name == NameOf(Head(todo))
           n == Consumed
<1>1. /\ job.tool = "vectors" /\ pc = "rows" /\ UNCHANGED <<job, input>> /\ todo # <<>>
      /\ pc' # "failed" =>
           /\ pc' = "rows" /\ todo' = Tail(todo) /\ DOMAIN open' = {name}
           /\ IF name \in DOMAIN open THEN UNCHANGED disk ELSE Flushed
  BY DEF VectorRow, Fail, NameOf
<1> SUFFICES ASSUME NamesComeTogether, pc' # "failed" PROVE NamesHaveFiles'
  BY <1>1, SameTable DEF NamesInv
<1>2. NamesHaveFiles
  BY <1>1 DEF NamesInv
<1>3. /\ Rows' = Rows /\ OutputDir' = OutputDir /\ \A i : DirOf(i)' = DirOf(i)
  BY <1>1, SameTable DEF DirOf
<1>4. RestIsAfter(n) /\ (n # 0 => OpenIsStretch(n))
  BY <1>1 DEF VectorsInv
<1>5. n \in Nat /\ n + 1 \in 1..Len(Rows) /\ name = NameOf(Rows[n + 1]) /\ Len(Rows) \in Nat
      /\ Len(Tail(todo)) = Len(Rows) - (n + 1)
  BY <1>1, <1>4, NextRow
<1>6. Consumed' = n + 1
  <2>1. Consumed' = Len(Rows) - Len(Tail(todo))
    BY <1>1, <1>3 DEF Consumed
  <2> DEFINE k == Len(Tail(todo))
             r == Len(Rows)
  <2> HIDE DEF n, k, r
  <2>2. n \in Nat /\ r \in Nat /\ k = r - (n + 1) /\ Consumed' = r - k
    BY <1>5, <2>1 DEF k, r
  <2> QED BY <2>2
<1>7. \A path \in DOMAIN disk : path \in DOMAIN disk'
  BY <1>1, FlushedNames
<1>8. ASSUME NEW m \in 1..n
      PROVE  NameOf(Rows[m]) = name \/ <<OutputDir, NameOf(Rows[m])>> \in DOMAIN disk'
  <2>1. NameOf(Rows[m]) \in DOMAIN open \/ <<OutputDir, NameOf(Rows[m])>> \in DOMAIN disk
    BY <1>1, <1>2 DEF NamesHaveFiles
  <2>2. CASE name \in DOMAIN open
    <3>1. n # 0
      BY <1>5, <1>8
    <3>2. \E only \in DOMAIN open : DOMAIN open = {only}
      <4>1. OpenIsStretch(n)
        BY <1>4, <3>1
      <4> QED BY <4>1 DEF OpenIsStretch
    <3>3. NameOf(Rows[m]) \in DOMAIN open => NameOf(Rows[m]) = name
      BY <2>2, <3>2
    <3> QED BY <1>7, <2>1, <3>3
  <2>3. CASE name \notin DOMAIN open
    BY <1>1, <1>7, <2>1, <2>3, FlushedNames
  <2> QED BY <2>2, <2>3
<1> HIDE DEF n, name
<1>9. \A m \in 1..(n + 1) : NameOf(Rows[m]) = name \/ m \in 1..n
  BY <1>5
<1>10. \A m \in 1..Consumed' :
         NameOf(Rows[m]) \in DOMAIN open' \/ <<OutputDir, NameOf(Rows[m])>> \in DOMAIN disk'
  BY <1>1, <1>6, <1>8, <1>9
<1>11. \A i \in DOMAIN job.inputs : i < input =>
         \A row \in ToSet(job.inputs[i].rows) : <<DirOf(i), NameOf(row)>> \in DOMAIN disk'
  BY <1>2, <1>7 DEF NamesHaveFiles
<1> QED BY <1>1, <1>3, <1>10, <1>11 DEF NamesHaveFiles, NameOf

LEMMA EndOfInputNames ==
  ASSUME TypesInv, VectorsInv, EndOfInput, NamesInv
  PROVE  NamesInv'
<1>1. /\ job.tool = "vectors" /\ pc = "rows" /\ UNCHANGED job /\ Flushed /\ todo = <<>>
      /\ \/ input = Len(job.inputs) /\ pc' = "done" /\ input' = input
         \/ input # Len(job.inputs) /\ pc' = "prepare" /\ input' = input + 1
  BY DEF EndOfInput
<1>2. NamesComeTogether' = NamesComeTogether /\ \A i : DirOf(i)' = DirOf(i)
  BY <1>1 DEF NamesComeTogether, DirOf
<1> SUFFICES ASSUME NamesComeTogether PROVE NamesHaveFiles'
  BY <1>1, <1>2 DEF NamesInv
<1>3. NamesHaveFiles
  BY <1>1 DEF NamesInv
<1>4. /\ \A path \in DOMAIN disk : path \in DOMAIN disk'
      /\ \A name \in DOMAIN open : <<OutputDir, name>> \in DOMAIN disk'
  BY <1>1, FlushedNames
<1>5. /\ input \in DOMAIN job.inputs /\ DOMAIN job.inputs = 1..Len(job.inputs)
      /\ Len(job.inputs) \in Nat /\ Len(Rows) \in Nat /\ DOMAIN Rows = 1..Len(Rows)
  BY TableFacts DEF TypesInv
<1>6. Consumed = Len(Rows)
  <2>1. Len(todo) = 0
    BY <1>1, EmptyList
  <2> QED BY <1>5, <2>1 DEF Consumed
<1>7. ASSUME NEW row \in ToSet(Rows) PROVE <<OutputDir, NameOf(row)>> \in DOMAIN disk'
  <2>1. PICK m \in DOMAIN Rows : row = Rows[m]
    BY DEF ToSet
  <2>2. NameOf(row) \in DOMAIN open \/ <<OutputDir, NameOf(row)>> \in DOMAIN disk
    BY <1>1, <1>3, <1>5, <1>6, <2>1 DEF NamesHaveFiles
  <2> QED BY <1>4, <2>2
<1>8. DirOf(input) = OutputDir /\ Rows = job.inputs[input].rows
  BY DEF DirOf, OutputDir, Input, Rows
<1>9. ASSUME NEW i \in DOMAIN job.inputs, i < input' \/ (i = input' /\ pc' = "done"),
             NEW row \in ToSet(job.inputs[i].rows)
      PROVE  <<DirOf(i), NameOf(row)>> \in DOMAIN disk'
  <2>1. i < input \/ i = input
    BY <1>1, <1>5, <1>9
  <2>2. CASE i < input
    BY <1>3, <1>4, <1>9, <2>2 DEF NamesHaveFiles
  <2>3. CASE i = input
    BY <1>7, <1>8, <1>9, <2>3
  <2> QED BY <2>1, <2>2, <2>3
<1>10. pc' # "rows"
  BY <1>1
<1> QED BY <1>1, <1>2, <1>9, <1>10 DEF NamesHaveFiles, NameOf

----------------------------------------------------------------------------
(* public: types, action by action.                                        *)

\* What the assumptions say of the public corpus.
LEMMA PublicTable ==
  ASSUME job \in Jobs, input \in DOMAIN job.inputs, job.tool = "public"
  PROVE  /\ input = 1 /\ DOMAIN job.inputs = {1} /\ \A i \in DOMAIN job.inputs : DirOf(i) = "."
         /\ \A row \in ToSet(Rows) :
              /\ IsStateRow(row)
              /\ \A other \in ToSet(Rows) : other.case = row.case =>
                   other.mnemonic = row.mnemonic /\ other.code = row.code
<1>1. Len(job.inputs) = 1 /\ DOMAIN job.inputs = 1..Len(job.inputs) /\ IsList(Rows)
  BY TableFacts
<1>2. input = 1 /\ DOMAIN job.inputs = {1}
  BY <1>1
<1>3. \A i \in DOMAIN job.inputs : DirOf(i) = "."
  BY <1>1 DEF DirOf
<1>4. Rows = job.inputs[1].rows
  BY <1>2 DEF Rows, Input
<1>5. \A row \in ToSet(Rows) :
        /\ IsPublicRow(row)
        /\ \A other \in ToSet(Rows) : other.case = row.case =>
             other.mnemonic = row.mnemonic /\ other.code = row.code
  BY <1>4, PublicAssumption
<1>6. \A row \in ToSet(Rows) : IsList(row.inputs) /\ IsList(row.outputs)
  BY <1>2, <1>4, ConvertersAssumption
<1> QED BY <1>2, <1>3, <1>5, <1>6 DEF IsStateRow

\* The rows of the test case in progress can be written as one group.
LEMMA CaseIsGroup ==
  ASSUME TypesInv, PublicInv, job.tool = "public", pc = "rows", case # <<>>
  PROVE  IsCase(case) /\ \A i \in DOMAIN case : HandleFor(case[i]) = HandleFor(case[1])
<1>1. /\ IsList(case) /\ \A i \in DOMAIN case : case[i] \in ToSet(Rows)
      /\ \A i, j \in DOMAIN case : case[i].case = case[j].case
  BY DEF TypesInv, PublicInv, PublicRowsInv, LimitIsKept
<1>2. DOMAIN case = 1..Len(case) /\ 1 \in DOMAIN case
  BY <1>1, ListFacts, ListTail
<1>3. \A i \in DOMAIN case : /\ IsStateRow(case[i])
                             /\ case[i].mnemonic = case[1].mnemonic
                             /\ case[i].code = case[1].code
  BY <1>1, <1>2, PublicTable DEF TypesInv
<1> QED BY <1>1, <1>2, <1>3 DEF IsCase, HandleFor

\* What write_group does to memory and counts, or a failure.
LEMMA WriteGroupIs ==
  ASSUME TypesInv, IsCase(case), WriteGroup(case)
  PROVE  LET name == HandleFor(case[1])
         IN  /\ pc' \in {"failed", pc}
             /\ \/ pc' = "failed" /\ UNCHANGED <<open, totals>>
                \/ /\ UNCHANGED pc /\ IsWritable(case)
                   /\ open' = With(open, name, WithGroup(Text(name), case))
                   /\ totals'.files = totals.files /\ totals'.groups = totals.groups + 1
                   /\ totals'.rows = totals.rows + Len(case)
                   /\ TotalsType'
             /\ IsWhole(Text(name))
<1>1. IsWhole(Text(HandleFor(case[1])))
  BY NoTextIsWhole DEF Text, TypesInv, OpenIsWhole
<1>2. CASE ~ IsWritable(case)
  BY <1>1, <1>2 DEF WriteGroup
<1>3. CASE IsWritable(case)
  <2>1. totals \in [files : Nat, groups : Nat, rows : Nat] /\ Len(case) \in Nat
    BY CaseSchemas DEF TypesInv, TotalsType
  <2>2. /\ UNCHANGED pc
        /\ open' = With(open, HandleFor(case[1]), WithGroup(Text(HandleFor(case[1])), case))
        /\ totals' = [totals EXCEPT !.groups = @ + 1, !.rows = @ + Len(case)]
    BY <1>3 DEF WriteGroup
  <2>3. /\ totals'.files = totals.files /\ totals'.groups = totals.groups + 1
        /\ totals'.rows = totals.rows + Len(case)
        /\ totals' \in [files : Nat, groups : Nat, rows : Nat]
    <3> DEFINE k == Len(case)
    <3>1. /\ k \in Nat
          /\ totals' = [files |-> totals.files, groups |-> totals.groups + 1,
                        rows |-> totals.rows + k]
      BY <2>1, <2>2
    <3> HIDE DEF k
    <3>2. /\ totals'.files = totals.files /\ totals'.groups = totals.groups + 1
          /\ totals'.rows = totals.rows + k
      BY <3>1
    <3>3. totals' \in [files : Nat, groups : Nat, rows : Nat]
      BY <2>1, <3>1
    <3> QED BY <3>2, <3>3 DEF k
  <2> QED BY <1>1, <1>3, <2>2, <2>3 DEF TotalsType
<1> QED BY <1>2, <1>3

LEMMA WriteGroupTypes ==
  ASSUME TypesInv, IsCase(case), WriteGroup(case)
  PROVE  OpenIsWhole' /\ TotalsType'
<1> DEFINE name == HandleFor(case[1])
           text == WithGroup(Text(name), case)
<1>1. CASE UNCHANGED <<open, totals>>
  BY <1>1, SameOpen, SameTotals DEF TypesInv
<1>2. CASE IsWritable(case) /\ open' = With(open, name, text) /\ TotalsType'
  <2>1. IsWhole(text)
    BY <1>2, WriteGroupIs, GroupWritten
  <2> HIDE DEF name, text
  <2>2. /\ DOMAIN open' = DOMAIN open \cup {name} /\ open'[name] = text
        /\ \A n \in DOMAIN open \ {name} : open'[n] = open[n]
    BY <1>2 DEF With
  <2>3. OpenIsWhole'
    BY <2>1, <2>2 DEF OpenIsWhole, TypesInv
  <2> QED BY <1>2, <2>3
<1> QED BY <1>1, <1>2, WriteGroupIs

LEMMA EnterTypes ==
  ASSUME TypesInv, Enter
  PROVE  TypesInv'
<1>1. /\ UNCHANGED <<job, input, case, totals>> /\ job.tool = "public"
      /\ pc' \in {"failed", "rows"} /\ case = <<>>
      /\ UNCHANGED todo \/ todo' = Rows
      /\ UNCHANGED open \/ open' = [n \in {SingleFile[2]} |-> NoText]
      /\ UNCHANGED disk \/ disk' = Remaining(Existing("."))
  BY DEF Enter, Fail, Rows, TypesInv
<1>2. Rows' = Rows
  BY <1>1, SameTable
<1>3. FilesAreWhole' /\ TotalsType'
  BY <1>1, RemainingTypes, SameFiles, SameTotals DEF TypesInv
<1>4. OpenIsWhole'
  BY <1>1, NoTextIsWhole, SameOpen DEF TypesInv, OpenIsWhole
<1>5. IsList(todo') /\ \A i \in DOMAIN todo' : todo'[i] \in ToSet(Rows')
  <2>1. IsList(Rows) /\ \A i \in DOMAIN Rows : Rows[i] \in ToSet(Rows)
    BY TableFacts DEF TypesInv
  <2> QED BY <1>1, <1>2, <2>1 DEF TypesInv
<1>6. IsList(case') /\ \A i \in DOMAIN case' : case'[i] \in ToSet(Rows')
  BY <1>1, <1>2 DEF TypesInv
<1> QED BY <1>1, <1>3, <1>4, <1>5, <1>6 DEF TypesInv

LEMMA PublicRowTypes ==
  ASSUME TypesInv, PublicRow
  PROVE  TypesInv'
<1>1. /\ UNCHANGED <<job, disk, pc, input, open, totals>> /\ job.tool = "public"
      /\ todo # <<>> /\ pc = "rows"
      /\ \/ todo' = <<>> /\ UNCHANGED case
         \/ todo' = Tail(todo) /\ case' = Append(case, Head(todo))
  BY DEF PublicRow
<1>2. Rows' = Rows
  BY <1>1, SameTable
<1>3. FilesAreWhole' /\ OpenIsWhole' /\ TotalsType'
  BY <1>1, SameFiles, SameOpen, SameTotals DEF TypesInv
<1>4. IsList(todo') /\ \A i \in DOMAIN todo' : todo'[i] \in ToSet(Rows')
  <2>1. CASE todo' = <<>>
    BY <2>1, EmptyList
  <2>2. CASE todo' = Tail(todo)
    BY <1>1, <1>2, <2>2, TailTypes
  <2> QED BY <1>1, <2>1, <2>2
<1>5. IsList(case') /\ \A i \in DOMAIN case' : case'[i] \in ToSet(Rows')
  <2>1. CASE UNCHANGED case
    BY <1>2, <2>1 DEF TypesInv
  <2>2. CASE case' = Append(case, Head(todo))
    <3> DEFINE k == Len(case)
               e == Head(todo)
    <3>1. IsList(case) /\ DOMAIN case = 1..k /\ k \in Nat /\ e \in ToSet(Rows)
          /\ \A i \in 1..k : case[i] \in ToSet(Rows)
      BY <1>1, TailTypes, ListFacts DEF TypesInv
    <3>2. /\ IsList(case') /\ DOMAIN case' = 1..(k + 1) /\ case'[k + 1] = e
          /\ \A i \in 1..k : case'[i] = case[i]
      BY <2>2, <3>1, ListAppend
    <3> HIDE DEF k, e
    <3>3. \A i \in 1..(k + 1) : i \in 1..k \/ i = k + 1
      BY <3>1
    <3> QED BY <1>2, <3>1, <3>2, <3>3
  <2> QED BY <1>1, <2>1, <2>2
<1> QED BY <1>1, <1>3, <1>4, <1>5 DEF TypesInv

\* LastCase writes all rows of the case: the limit was kept while they came.
LEMMA LastRows ==
  ASSUME TypesInv, PublicInv, LastCase
  PROVE  WriteGroup(case)
<1> DEFINE n == totals.rows
           k == Len(case)
           room == job.limit - n
           rows == IF job.limit # 0 /\ k > room THEN SubSeq(case, 1, room) ELSE case
<1>1. WriteGroup(rows) /\ job.tool = "public" /\ pc = "rows"
  BY DEF LastCase
<1>2. job.limit # 0 => n + k <= job.limit
  BY <1>1 DEF PublicInv, PublicRowsInv, LimitIsKept
<1>3. n \in Nat /\ k \in Nat /\ job.limit \in Nat
  BY TableFacts, ListFacts DEF TypesInv, TotalsType
<1>4. rows = case
  <2> HIDE DEF n, k
  <2>1. job.limit # 0 => ~ (k > room)
    BY <1>2, <1>3
  <2> QED BY <2>1
<1> QED BY <1>1, <1>4

LEMMA WritingTypes ==
  ASSUME TypesInv, IsCase(case), WriteGroup(case), UNCHANGED <<job, disk, input>>,
         case' = <<>>, todo' \in {<<>>, todo}, pc = "rows", job.tool = "public"
  PROVE  TypesInv'
<1>1. Rows' = Rows
  BY SameTable
<1>2. FilesAreWhole' /\ OpenIsWhole' /\ TotalsType'
  BY WriteGroupTypes, SameFiles DEF TypesInv
<1>3. IsList(todo') /\ \A i \in DOMAIN todo' : todo'[i] \in ToSet(Rows')
  BY <1>1, EmptyList DEF TypesInv
<1>4. IsList(case') /\ \A i \in DOMAIN case' : case'[i] \in ToSet(Rows')
  BY <1>1, EmptyList DEF TypesInv
<1>5. pc' \in {"failed", "rows"}
  BY WriteGroupIs
<1> QED BY <1>2, <1>3, <1>4, <1>5 DEF TypesInv

LEMMA CaseEndsTypes ==
  ASSUME TypesInv, PublicInv, CaseEnds
  PROVE  TypesInv' /\ IsCase(case)
<1>1. /\ UNCHANGED <<job, disk, input>> /\ case' = <<>> /\ WriteGroup(case)
      /\ todo' \in {<<>>, todo} /\ pc = "rows" /\ job.tool = "public"
      /\ ~ IsSameCase(Head(todo))
  BY DEF CaseEnds
<1>2. case # <<>>
  BY <1>1 DEF IsSameCase
<1>3. IsCase(case)
  BY <1>1, <1>2, CaseIsGroup
<1> QED BY <1>1, <1>3, WritingTypes

LEMMA LastCaseTypes ==
  ASSUME TypesInv, PublicInv, LastCase
  PROVE  TypesInv' /\ IsCase(case)
<1>1. /\ UNCHANGED <<job, disk, input, todo>> /\ case' = <<>> /\ WriteGroup(case)
      /\ pc = "rows" /\ job.tool = "public" /\ case # <<>>
  BY LastRows DEF LastCase
<1>2. IsCase(case)
  BY <1>1, CaseIsGroup
<1> QED BY <1>1, <1>2, WritingTypes

LEMMA ExitFiles ==
  ASSUME Exit
  PROVE  /\ DOMAIN disk' = DOMAIN disk \cup PathsOf(open)
         /\ \A path \in PathsOf(open) :
              path[2] \in DOMAIN open /\ path[1] = "." /\ disk'[path] = New(open[path[2]])
         /\ \A path \in DOMAIN disk : path \in PathsOf(open) \/ disk'[path] = disk[path]
                                   \/ (path[1] = "." /\ path[2] \in DOMAIN open)
         /\ \A path \in PathsOf(open) : path = <<path[1], path[2]>>
  BY DEF Exit, PathsOf

\* There are as many paths to write as texts in memory.
LEMMA OpenIsFinite ==
  ASSUME IsFiniteSet(PathsOf(open))
  PROVE  /\ IsFiniteSet(DOMAIN open) /\ Cardinality(DOMAIN open) \in Nat
         /\ Cardinality(PathsOf(open)) = Cardinality(DOMAIN open)
<1> DEFINE S == DOMAIN open
           T == PathsOf(open)
           f == [path \in T |-> path[2]]
           g == [name \in S |-> <<".", name>>]
<1>1. T = {<<".", name>> : name \in S}
  BY DEF PathsOf
<1>2. f \in Bijection(T, S)
  <2>1. \A path \in T : path[2] \in S /\ path = <<".", path[2]>>
    BY <1>1
  <2>2. f \in [T -> S]
    BY <2>1
  <2>3. \A a, b \in T : f[a] = f[b] => a = b
    BY <2>1
  <2>4. \A name \in S : \E path \in T : f[path] = name
    <3> SUFFICES ASSUME NEW name \in S PROVE \E path \in T : f[path] = name
      OBVIOUS
    <3>1. <<".", name>> \in T
      BY <1>1
    <3> QED BY <3>1
  <2> HIDE DEF S, T, f
  <2> QED BY <2>2, <2>3, <2>4 DEF Bijection, Injection, Surjection, IsInjective
<1>3. IsFiniteSet(S) /\ Cardinality(S) = Cardinality(T)
  <2> HIDE DEF S, T, f
  <2>1. ExistsBijection(T, S)
    BY <1>2 DEF ExistsBijection
  <2> QED BY <2>1, FS_Bijection DEF T
<1>4. Cardinality(S) \in Nat
  BY <1>3, FS_CardinalityType
<1> QED BY <1>3, <1>4

LEMMA ExitTypes ==
  ASSUME TypesInv, PublicInv, Exit
  PROVE  TypesInv'
<1>1. /\ UNCHANGED <<job, input, todo, open, case>> /\ pc' = "done" /\ job.tool = "public"
      /\ totals' = [totals EXCEPT !.files = Cardinality(DOMAIN open)]
      /\ disk' = [path \in DOMAIN disk \cup PathsOf(open) |->
                    IF path[1] = "." /\ path[2] \in DOMAIN open THEN New(open[path[2]])
                                                                ELSE disk[path]]
  BY DEF Exit, PathsOf
<1>2. Rows' = Rows
  BY <1>1, SameTable
<1>3. FilesAreWhole'
  <2> SUFFICES ASSUME NEW path \in DOMAIN disk'
               PROVE  /\ path = <<path[1], path[2]>>
                      /\ disk'[path] = [age |-> disk'[path].age, text |-> disk'[path].text]
                      /\ disk'[path].age \in {"old", "new"}
                      /\ IsWhole(disk'[path].text)
    BY DEF FilesAreWhole
  <2>1. CASE path[1] = "." /\ path[2] \in DOMAIN open
    <3>1. disk'[path] = New(open[path[2]]) /\ IsWhole(open[path[2]])
      BY <1>1, <2>1 DEF TypesInv, OpenIsWhole
    <3>2. path = <<path[1], path[2]>>
      BY <1>1, <2>1, ExitFiles DEF TypesInv, FilesAreWhole
    <3> QED BY <3>1, <3>2 DEF New
  <2>2. CASE ~ (path[1] = "." /\ path[2] \in DOMAIN open)
    <3>1. path \in DOMAIN disk /\ disk'[path] = disk[path]
      BY <1>1, <2>2, ExitFiles
    <3> QED BY <3>1 DEF TypesInv, FilesAreWhole
  <2> QED BY <2>1, <2>2
<1>4. OpenIsWhole'
  BY <1>1, SameOpen DEF TypesInv
<1>5. TotalsType'
  <2> DEFINE k == Cardinality(DOMAIN open)
  <2>1. k \in Nat
    BY <1>1, OpenIsFinite DEF Exit, PublicInv, PublicRowsInv, OpenHoldsCases,
            OpenIsCounted, AreCountedOpen
  <2>2. totals \in [files : Nat, groups : Nat, rows : Nat]
    BY DEF TypesInv, TotalsType
  <2>3. totals' = [totals EXCEPT !.files = k]
    BY <1>1
  <2> HIDE DEF k
  <2>4. totals' \in [files : Nat, groups : Nat, rows : Nat]
    BY <2>1, <2>2, <2>3
  <2> QED BY <2>4 DEF TotalsType
<1>6. IsList(todo') /\ \A i \in DOMAIN todo' : todo'[i] \in ToSet(Rows')
  BY <1>1, <1>2 DEF TypesInv
<1>7. IsList(case') /\ \A i \in DOMAIN case' : case'[i] \in ToSet(Rows')
  BY <1>1, <1>2 DEF TypesInv
<1>8. /\ job' \in Jobs /\ pc' = "done" /\ input' \in DOMAIN job'.inputs
      /\ job'.tool = "public"
  BY <1>1 DEF TypesInv
<1> QED BY <1>3, <1>4, <1>6, <1>5, <1>8, <1>7 DEF TypesInv

----------------------------------------------------------------------------
(* public: the rows of a name, as the test cases are written.              *)

\* Of the first n rows, those at the places of P.
Selected(rows, P, n) == Only(SubSeq(rows, 1, n), P \cap 1..n)

LEMMA PartNext ==
  ASSUME NEW rows, IsList(rows), NEW n \in Nat, n + 1 <= Len(rows)
  PROVE  SubSeq(rows, 1, n + 1) = Append(SubSeq(rows, 1, n), rows[n + 1])
<1> DEFINE N == n + 1
           s == SubSeq(rows, 1, n)
           t == SubSeq(rows, 1, N)
           e == rows[N]
           se == Append(s, e)
<1>1. Len(rows) \in Nat /\ n \in 0..Len(rows) /\ N \in 0..Len(rows)
  BY ListFacts
<1>2. IsList(s) /\ Len(s) = n /\ \A i \in 1..n : s[i] = rows[i]
  BY <1>1, ListPart
<1>3. IsList(t) /\ Len(t) = N /\ \A i \in 1..N : t[i] = rows[i]
  <2> HIDE DEF N
  <2> QED BY <1>1, ListPart
<1>4. IsList(se) /\ Len(se) = N /\ se[N] = e /\ \A i \in 1..n : se[i] = rows[i]
  <2> HIDE DEF s, e
  <2>1. /\ IsList(Append(s, e)) /\ Len(Append(s, e)) = Len(s) + 1
        /\ Append(s, e)[Len(s) + 1] = e /\ \A i \in 1..Len(s) : Append(s, e)[i] = s[i]
    BY <1>2, ListAppend
  <2> QED BY <1>2, <2>1
<1>5. \A i \in 1..N : t[i] = se[i]
  <2> HIDE DEF s, t, se
  <2>1. \A i \in 1..N : i = N \/ i \in 1..n
    OBVIOUS
  <2> QED BY <1>3, <1>4, <2>1 DEF e
<1> HIDE DEF N, s, t, e, se
<1>6. t = se
  BY <1>3, <1>4, <1>5, ListsEqual
<1> QED BY <1>6 DEF N, s, t, e, se

LEMMA SelectedList ==
  ASSUME NEW rows, IsList(rows), NEW P, NEW n \in 0..Len(rows)
  PROVE  IsList(Selected(rows, P, n))
<1> DEFINE s == SubSeq(rows, 1, n)
           S == ToSet(s)
<1>1. IsList(s)
  BY ListPart
<1>2. s \in Seq(S)
  BY <1>1, ListFacts
<1> HIDE DEF s, S
<1>3. Only(s, P \cap 1..n) \in Seq(S)
  BY <1>2, OnlyType
<1>4. IsList(Only(s, P \cap 1..n))
  BY <1>3, ListByType
<1> QED BY <1>4 DEF Selected, s

LEMMA SelectedOfNone ==
  ASSUME NEW rows, IsList(rows), NEW P
  PROVE  Selected(rows, P, 0) = <<>>
<1> DEFINE s == SubSeq(rows, 1, 0)
           N == {}
<1>1. Len(rows) \in Nat /\ 0 \in 0..Len(rows)
  BY ListFacts
<1>2. IsList(s) /\ Len(s) = 0
  BY <1>1, ListPart
<1> HIDE DEF s
<1>3. s \in Seq(N)
  BY <1>2, EmptyList
<1> HIDE DEF N
<1>4. Only(s, P \cap 1..0) \in Seq(N)
  BY <1>3, OnlyType
<1>5. Only(s, P \cap 1..0) = <<>>
  BY <1>4 DEF N
<1> QED BY <1>5 DEF Selected, s

\* One row more is selected or is not.
LEMMA SelectedNext ==
  ASSUME NEW rows, IsList(rows), NEW P, NEW n \in Nat, n + 1 <= Len(rows)
  PROVE  Selected(rows, P, n + 1) = IF n + 1 \in P THEN Append(Selected(rows, P, n), rows[n + 1])
                                                   ELSE Selected(rows, P, n)
<1> DEFINE s == SubSeq(rows, 1, n)
           e == rows[n + 1]
           S == ToSet(rows)
           I == P \cap 1..n
           J == P \cap 1..(n + 1)
<1>1. Len(rows) \in Nat /\ n \in 0..Len(rows) /\ n + 1 \in 1..Len(rows)
  BY ListFacts
<1>2. IsList(s) /\ Len(s) = n /\ \A i \in 1..n : s[i] = rows[i]
  BY <1>1, ListPart
<1>3. s \in Seq(S) /\ e \in S
  <2>1. \A i \in 1..Len(rows) : rows[i] \in S
    BY ListFacts
  <2>2. s = [i \in 1..n |-> s[i]]
    BY <1>2, ListFacts
  <2>3. \A i \in 1..n : s[i] \in S
    BY <1>1, <1>2, <2>1
  <2> HIDE DEF s, S
  <2>4. s \in Seq(S)
    BY <2>2, <2>3
  <2> QED BY <1>1, <2>1, <2>4
<1>4. (\A i \in 1..Len(s) : i \in I <=> i \in J) /\ (Len(s) + 1 \in J <=> n + 1 \in P)
  BY <1>2
<1>5. SubSeq(rows, 1, n + 1) = Append(s, e)
  BY PartNext
<1> HIDE DEF s, e, S, I, J
<1>6. Only(Append(s, e), J) = IF n + 1 \in P THEN Append(Only(s, I), e) ELSE Only(s, I)
  BY <1>3, <1>4, OnlyAppend
<1> QED BY <1>5, <1>6 DEF Selected, s, e, I, J

\* k more rows, all of them at places of P: they come after those before.
IsFollowedBy(s, t, rows, n, k) ==
  /\ Len(t) = Len(s) + k
  /\ \A i \in 1..Len(s) : t[i] = s[i]
  /\ \A i \in 1..k : t[Len(s) + i] = rows[n + i]

LEMMA SelectedMore ==
  ASSUME NEW rows, IsList(rows), NEW P, NEW n \in Nat, NEW m \in Nat, n + m <= Len(rows),
         \A i \in 1..m : n + i \in P
  PROVE  IsFollowedBy(Selected(rows, P, n), Selected(rows, P, n + m), rows, n, m)
<1> DEFINE s == Selected(rows, P, n)
           t(k) == Selected(rows, P, n + k)
           T == {k \in Nat : k <= m => IsFollowedBy(s, t(k), rows, n, k)}
<1>1. Len(rows) \in Nat /\ \A k \in 0..m : n + k \in 0..Len(rows)
  BY ListFacts
<1>2. IsList(s) /\ \A k \in 0..m : IsList(t(k))
  BY <1>1, SelectedList
<1>3. Len(s) \in Nat
  BY <1>2, ListFacts
<1>4. 0 \in T
  <2>1. t(0) = s
    OBVIOUS
  <2> HIDE DEF s, t
  <2> QED BY <1>3, <2>1 DEF IsFollowedBy
<1>5. ASSUME NEW k \in Nat, k \in T PROVE k + 1 \in T
  <2> SUFFICES ASSUME k + 1 <= m PROVE IsFollowedBy(s, t(k + 1), rows, n, k + 1)
    OBVIOUS
  <2> DEFINE K == n + k
             e == rows[K + 1]
             tk == t(k)
             tn == t(k + 1)
             w == Len(s)
  <2>1. IsFollowedBy(s, tk, rows, n, k) /\ IsList(tk)
    BY <1>2, <1>5
  <2>2. K \in Nat /\ K + 1 <= Len(rows) /\ K + 1 \in P /\ n + (k + 1) = K + 1
    BY <1>1
  <2>3. tn = Append(tk, e)
    <3> HIDE DEF K
    <3>1. Selected(rows, P, K + 1) = Append(Selected(rows, P, K), rows[K + 1])
      BY <2>2, SelectedNext
    <3> QED BY <2>2, <3>1 DEF K
  <2> HIDE DEF s, t, e, tk, tn, w
  <2>4. /\ Len(tk) = w + k /\ Len(tn) = Len(tk) + 1 /\ tn[Len(tk) + 1] = e
        /\ \A i \in 1..Len(tk) : tn[i] = tk[i]
    BY <2>1, <2>3, ListAppend DEF IsFollowedBy, w
  <2>5. /\ Len(tn) = w + (k + 1) /\ tn[w + (k + 1)] = e /\ w \in Nat
        /\ \A i \in 1..(w + k) : tn[i] = tk[i]
    BY <1>3, <2>4 DEF w
  <2>6. \A i \in 1..w : tn[i] = s[i]
    BY <2>1, <2>5 DEF IsFollowedBy, w
  <2>7. ASSUME NEW i \in 1..(k + 1) PROVE tn[w + i] = rows[n + i]
    <3>1. CASE i = k + 1
      BY <2>2, <2>5, <3>1 DEF e
    <3>2. CASE i # k + 1
      <4>1. i \in 1..k /\ w + i \in 1..(w + k)
        BY <2>5, <3>2
      <4> QED BY <2>1, <2>5, <4>1 DEF IsFollowedBy, w
    <3> QED BY <3>1, <3>2
  <2> QED BY <2>5, <2>6, <2>7 DEF IsFollowedBy, w, tn, t
<1> HIDE DEF s, t
<1>6. \A k \in Nat : k \in T
  <2> HIDE DEF T
  <2> QED BY <1>4, <1>5, NumbersByInduction
<1>7. IsFollowedBy(s, t(m), rows, n, m)
  BY <1>6
<1> QED BY <1>7 DEF s, t

LEMMA SelectedSame ==
  ASSUME NEW rows, IsList(rows), NEW P, NEW n \in Nat, NEW m \in Nat, n + m <= Len(rows),
         \A i \in 1..m : n + i \notin P
  PROVE  Selected(rows, P, n + m) = Selected(rows, P, n)
<1> DEFINE t(k) == Selected(rows, P, n + k)
           T == {k \in Nat : k <= m => t(k) = t(0)}
<1>1. Len(rows) \in Nat
  BY ListFacts
<1>2. 0 \in T
  OBVIOUS
<1>3. ASSUME NEW k \in Nat, k \in T PROVE k + 1 \in T
  <2> SUFFICES ASSUME k + 1 <= m PROVE t(k + 1) = t(0)
    OBVIOUS
  <2> DEFINE K == n + k
  <2>1. K \in Nat /\ K + 1 <= Len(rows) /\ K + 1 \notin P /\ n + (k + 1) = K + 1 /\ t(k) = t(0)
    BY <1>1, <1>3
  <2> HIDE DEF K
  <2>2. Selected(rows, P, K + 1) = Selected(rows, P, K)
    BY <2>1, SelectedNext
  <2> QED BY <2>1, <2>2 DEF K
<1> HIDE DEF t
<1>4. \A k \in Nat : k \in T
  <2> HIDE DEF T
  <2> QED BY <1>2, <1>3, NumbersByInduction
<1>5. t(m) = t(0)
  BY <1>4
<1> QED BY <1>5 DEF t

PlacesFor(name) == {i \in 1..Len(Rows) : HandleFor(Rows[i]) = name}

LEMMA MineIsSelected ==
  ASSUME TypesInv, NEW n \in 0..Len(Rows), NEW name
  PROVE  Mine(n, name) = Selected(Rows, PlacesFor(name), n)
<1> DEFINE first == SubSeq(Rows, 1, n)
           I == {i \in DOMAIN first : HandleFor(first[i]) = name}
           J == PlacesFor(name) \cap 1..n
<1>1. IsList(Rows) /\ Len(Rows) \in Nat
  BY TableFacts DEF TypesInv
<1>2. IsList(first) /\ Len(first) = n /\ \A i \in 1..n : first[i] = Rows[i]
  BY <1>1, ListPart
<1>3. DOMAIN first = 1..n
  BY <1>2, ListFacts
<1>4. I = J
  <2> HIDE DEF first
  <2> QED BY <1>1, <1>2, <1>3 DEF PlacesFor
<1> QED BY <1>4 DEF Mine, Selected

\* A test case that is written: its rows come after those of its name, the rows
\* of other names are the same.
LEMMA CaseIsMine ==
  ASSUME TypesInv, NEW n \in Nat, NEW k \in Nat, n + k <= Len(Rows), NEW name,
         \A i \in 1..k : HandleFor(Rows[n + i]) = name
  PROVE  /\ IsFollowedBy(Mine(n, name), Mine(n + k, name), Rows, n, k)
         /\ \A other : other # name => Mine(n + k, other) = Mine(n, other)
         /\ \A other : IsList(Mine(n, other)) /\ IsList(Mine(n + k, other))
<1>1. IsList(Rows) /\ Len(Rows) \in Nat
  BY TableFacts DEF TypesInv
<1>2. n \in 0..Len(Rows) /\ n + k \in 0..Len(Rows)
  BY <1>1
<1>3. \A i \in 1..k : n + i \in 1..Len(Rows)
  BY <1>1
<1>4. \A other : Mine(n, other) = Selected(Rows, PlacesFor(other), n)
  BY <1>2, MineIsSelected
<1>5. \A other : Mine(n + k, other) = Selected(Rows, PlacesFor(other), n + k)
  <2> DEFINE m == n + k
  <2>1. m \in 0..Len(Rows)
    BY <1>2
  <2> HIDE DEF m
  <2>2. \A other : Mine(m, other) = Selected(Rows, PlacesFor(other), m)
    BY <2>1, MineIsSelected
  <2> QED BY <2>2 DEF m
<1>6. IsFollowedBy(Mine(n, name), Mine(n + k, name), Rows, n, k)
  <2>1. \A i \in 1..k : n + i \in PlacesFor(name)
    BY <1>3 DEF PlacesFor
  <2> QED BY <1>1, <1>4, <1>5, <2>1, SelectedMore
<1>7. ASSUME NEW other, other # name PROVE Mine(n + k, other) = Mine(n, other)
  <2>1. \A i \in 1..k : n + i \notin PlacesFor(other)
    BY <1>7 DEF PlacesFor
  <2> QED BY <1>1, <1>4, <1>5, <2>1, SelectedSame
<1>8. ASSUME NEW other PROVE IsList(Mine(n, other)) /\ IsList(Mine(n + k, other))
  BY <1>1, <1>2, <1>4, <1>5, SelectedList
<1> QED BY <1>6, <1>7, <1>8

----------------------------------------------------------------------------
(* public: what is in memory, action by action.                            *)

LEMMA NothingCounted ==
  ASSUME NEW texts, NEW count, count.groups = 0, count.rows = 0,
         texts = <<>> \/ texts = [n \in {SingleFile[2]} |-> NoText]
  PROVE  AreCountedOpen(texts, count)
<1> DEFINE s == PathsOf(texts)
           a == [path \in s |-> Len(texts[path[2]].groups)]
           b == [path \in s |-> RowCount(texts[path[2]])]
<1>1. CASE texts = <<>>
  <2>1. s = {} /\ IsFiniteSet(s)
    <3>1. DOMAIN texts = {}
      BY <1>1
    <3> QED BY <3>1, FS_EmptySet DEF PathsOf
  <2>2. Total(a) = 0 /\ Total(b) = 0
    BY <2>1, SumOfNone
  <2> QED BY <2>1, <2>2 DEF AreCountedOpen
<1>2. CASE texts = [n \in {SingleFile[2]} |-> NoText]
  <2>1. SingleFile = <<".", SingleFile[2]>>
    BY DEF SingleFile
  <2>2. s = {SingleFile} /\ IsFiniteSet(s)
    <3>1. s = {SingleFile}
      BY <1>2, <2>1 DEF PathsOf
    <3> QED BY <3>1, FS_Singleton
  <2>3. a = [path \in {SingleFile} |-> 0] /\ b = [path \in {SingleFile} |-> 0]
    BY <1>2, <2>2, NoTextIsWhole
  <2>4. Total([path \in {SingleFile} |-> 0]) = 0
    <3> DEFINE f == [path \in {} |-> 0]
               g == [path \in {SingleFile} |-> 0]
    <3>1. GrowsBy(f, g, SingleFile, 0)
      BY FS_EmptySet DEF GrowsBy
    <3>2. Total(f) = 0
      BY SumOfNone
    <3> HIDE DEF f, g
    <3>3. Total(g) = Total(f) + 0
      BY <3>1, SumAdds
    <3>4. Total(g) = 0
      BY <3>2, <3>3
    <3> QED BY <3>4 DEF g
  <2> QED BY <2>2, <2>3, <2>4 DEF AreCountedOpen
<1> QED BY <1>1, <1>2

\* At first no rows are due to a name.
LEMMA NoRowsYet ==
  ASSUME TypesInv, NEW name
  PROVE  Mine(0, name) = <<>>
<1>1. IsList(Rows) /\ 0 \in 0..Len(Rows)
  BY TableFacts DEF TypesInv
<1> QED BY <1>1, MineIsSelected, SelectedOfNone

LEMMA SameMine ==
  ASSUME UNCHANGED <<job, input>>, NEW n, NEW name
  PROVE  Mine(n, name)' = Mine(n, name)
<1> DEFINE f == SubSeq(Rows, 1, n)
<1>1. Rows' = Rows /\ \A row : HandleFor(row)' = HandleFor(row)
  BY SameTable
<1>2. f' = f
  BY <1>1
<1>3. {i \in DOMAIN f : HandleFor(f[i]) = name}' = {i \in DOMAIN f : HandleFor(f[i]) = name}
  <2> HIDE DEF f
  <2> QED BY <1>1, <1>2
<1> QED BY <1>2, <1>3 DEF Mine

LEMMA WholeTable ==
  ASSUME TypesInv, todo' = Rows, Rows' = Rows
  PROVE  RestIsAfter(0)'
<1> DEFINE r == Rows
<1>1. IsList(r) /\ DOMAIN r = 1..Len(r) /\ Len(r) \in Nat
  BY TableFacts DEF TypesInv
<1> HIDE DEF r
<1>2. Rows' = r /\ todo' = r
  BY DEF r
<1>3. 0 \in 0..Len(r) /\ Len(r) = Len(r) - 0 /\ \A i \in 1..Len(r) : 0 + i = i
  BY <1>1
<1> QED BY <1>1, <1>2, <1>3 DEF RestIsAfter

LEMMA EnterPublic ==
  ASSUME TypesInv, PublicInv, Enter
  PROVE  PublicInv' /\ Written' = {}
<1>1. /\ UNCHANGED <<job, input, case, totals>> /\ job.tool = "public" /\ pc = "prepare"
      /\ case = <<>> /\ open = <<>>
      /\ \/ pc' = "failed" /\ UNCHANGED disk
         \/ pc' = "rows" /\ todo' = Rows
  BY DEF Enter, Fail, Rows, TypesInv
<1>2. Written = {} /\ totals.groups = 0 /\ totals.rows = 0
  BY <1>1 DEF PublicInv
<1>3. CASE pc' = "failed" /\ UNCHANGED disk
  BY <1>1, <1>2, <1>3 DEF PublicInv, Written
<1>4. CASE pc' = "rows"
  <2>1. /\ IF job.single THEN UNCHANGED disk /\ open' = [n \in {SingleFile[2]} |-> NoText]
           ELSE disk' = Remaining(Existing(".")) /\ open' = <<>>
        /\ ~ Refused(IF job.single THEN {SingleFile} \cap DOMAIN disk ELSE Existing("."))
    BY <1>1, <1>4 DEF Enter, Fail
  <2>2. /\ \A path \in DOMAIN disk' : path \in DOMAIN disk /\ disk'[path] = disk[path]
        /\ ~ job.single => \A path \in DOMAIN disk' : path[1] # "."
    <3>1. CASE job.single
      BY <2>1, <3>1
    <3>2. CASE ~ job.single
      <4>1. /\ DOMAIN disk' = DOMAIN disk \ Existing(".")
            /\ \A path \in DOMAIN disk \ Existing(".") : disk'[path] = disk[path]
        BY <2>1, <3>2, RemainingFiles
      <4> QED BY <4>1 DEF Existing
    <3> QED BY <3>1, <3>2
  <2>3. Written' = {}
    BY <1>2, <2>2 DEF Written
  <2>4. NothingIsLost'
    <3>1. job.single => DOMAIN open' = {SingleFile[2]}
      BY <2>1
    <3>2. ~ job.single => Existing(".")' = {}
      BY <2>2 DEF Existing
    <3>3. job.single /\ ~ job.overwrite => SingleFile \notin DOMAIN disk'
      BY <2>1 DEF Refused
    <3> QED BY <1>1, <3>1, <3>2, <3>3 DEF NothingIsLost
  <2>5. Rows' = Rows /\ totals'.rows = 0 /\ totals'.groups = 0 /\ case' = <<>>
    BY <1>1, <1>2, SameTable
  <2>6. LimitIsKept'
    <3>1. RestIsAfter(0)'
      BY <1>1, <1>4, <2>5, WholeTable
    <3>2. Len(case') = 0 /\ DOMAIN case' = {}
      BY <2>5, EmptyList
    <3>3. Len(Rows') \in Nat /\ job' = job /\ job.limit \in Nat
      BY <1>1, <2>5, TableFacts DEF TypesInv
    <3>4. totals'.rows + Len(case') = 0
      BY <2>5, <3>2
    <3>5. RestIsAfter(totals.rows + Len(case))'
      BY <3>1, <3>4 DEF RestIsAfter
    <3> QED BY <3>2, <3>3, <3>4, <3>5 DEF LimitIsKept
  <2>7. OpenHoldsCases'
    <3>1. OpenIsCounted'
      <4>1. AreCountedOpen(open', totals')
        BY <2>1, <2>5, NothingCounted
      <4> QED BY <4>1 DEF OpenIsCounted
    <3>2. ASSUME NEW name \in DOMAIN open' PROVE Holds(open'[name], Mine(totals.rows, name)')
      <4>1. open'[name] = NoText
        BY <2>1, <3>2
      <4>2. Mine(0, name)' = <<>>
        BY <1>1, SameMine, NoRowsYet
      <4>3. Mine(totals.rows, name)' = <<>>
        BY <2>5, <4>2 DEF Mine
      <4>4. Holds(NoText, <<>>)
        BY NoTextIsWhole, EmptyList DEF Holds
      <4> QED BY <4>1, <4>3, <4>4
    <3> QED BY <2>5, <3>1, <3>2 DEF OpenHoldsCases
  <2> QED BY <1>4, <2>3, <2>4, <2>6, <2>7 DEF PublicInv, PublicRowsInv
<1> QED BY <1>1, <1>3, <1>4

LEMMA SameHoldsCases ==
  ASSUME UNCHANGED <<job, input, open, totals>>, OpenHoldsCases
  PROVE  OpenHoldsCases'
<1>1. OpenIsCounted'
  BY DEF OpenHoldsCases, OpenIsCounted
<1>2. Rows' = Rows /\ \A row : HandleFor(row)' = HandleFor(row)
  BY SameTable
<1>3. \A name : Mine(totals.rows, name)' = Mine(totals.rows, name)
  <2>1. PICK m : m = totals.rows /\ m = totals'.rows
    OBVIOUS
  <2>2. \A name : Mine(m, name)' = Mine(m, name)
    BY SameMine
  <2>3. \A name : Mine(totals.rows, name) = Mine(m, name)
    BY <2>1
  <2>4. \A name : Mine(totals.rows, name)' = Mine(m, name)'
    BY <2>1 DEF Mine
  <2> QED BY <2>2, <2>3, <2>4
<1> QED BY <1>1, <1>2, <1>3 DEF OpenHoldsCases

LEMMA SameNothingIsLost ==
  ASSUME UNCHANGED <<job, disk>>, DOMAIN open' = DOMAIN open \/ ~ job.single, NothingIsLost
  PROVE  NothingIsLost'
  BY DEF NothingIsLost, Existing

LEMMA PublicRowPublic ==
  ASSUME TypesInv, PublicInv, PublicRow
  PROVE  PublicInv'
<1>1. /\ UNCHANGED <<job, disk, pc, input, open, totals>> /\ job.tool = "public"
      /\ todo # <<>> /\ pc = "rows" /\ IsSameCase(Head(todo))
      /\ \/ LimitReached(RowsSoFar) /\ todo' = <<>> /\ UNCHANGED case
         \/ ~ LimitReached(RowsSoFar) /\ todo' = Tail(todo) /\ case' = Append(case, Head(todo))
  BY DEF PublicRow
<1>2. /\ Written = {} /\ NothingIsLost /\ LimitIsKept /\ OpenHoldsCases
  BY <1>1 DEF PublicInv, PublicRowsInv
<1>3. Written' = {} /\ NothingIsLost' /\ OpenHoldsCases'
  BY <1>1, <1>2, SameHoldsCases, SameNothingIsLost DEF Written
<1>4. Rows' = Rows
  BY <1>1, SameTable
<1>5. PICK r, k : r = totals.rows /\ k = Len(case)
  OBVIOUS
<1>6. r \in Nat /\ k \in Nat /\ job.limit \in Nat /\ IsList(case) /\ Len(Rows) \in Nat
      /\ DOMAIN case = 1..k
  BY <1>5, TableFacts, ListFacts DEF TypesInv, TotalsType
<1>7. /\ job.limit # 0 => r + k <= job.limit
      /\ r + k <= Len(Rows)
      /\ \A i \in DOMAIN case : case[i] = Rows[r + i]
      /\ \A i, j \in DOMAIN case : case[i].case = case[j].case
      /\ \/ RestIsAfter(r + k)
         \/ todo = <<>> /\ job.limit # 0 /\ r + k = job.limit
  BY <1>2, <1>5 DEF LimitIsKept
<1>8. LimitReached(RowsSoFar) <=> job.limit # 0 /\ r + k >= job.limit
  BY <1>5 DEF LimitReached, RowsSoFar
<1>9. CASE todo' = <<>> /\ UNCHANGED case /\ LimitReached(RowsSoFar)
  <2>1. job.limit # 0 /\ r + k = job.limit
    BY <1>6, <1>7, <1>8, <1>9
  <2>2. totals'.rows = r /\ Len(case') = k /\ case' = case /\ job' = job
    BY <1>1, <1>5, <1>9
  <2>3. LimitIsKept'
    BY <1>4, <1>7, <1>9, <2>1, <2>2 DEF LimitIsKept
  <2> QED BY <1>1, <1>3, <2>3 DEF PublicInv, PublicRowsInv
<1>10. CASE ~ LimitReached(RowsSoFar) /\ todo' = Tail(todo) /\ case' = Append(case, Head(todo))
  <2> DEFINE n == r + k
             e == Head(todo)
  <2>1. RestIsAfter(n)
    BY <1>1, <1>7
  <2> HIDE DEF n
  <2>2. n \in Nat /\ n + 1 \in 1..Len(Rows) /\ e = Rows[n + 1]
    BY <1>1, <2>1, NextRow
  <2>3. RestIsAfter(n + 1)'
    BY <1>1, <1>4, <1>10, <2>1, RestNext
  <2>4. /\ IsList(case') /\ Len(case') = k + 1 /\ DOMAIN case' = 1..(k + 1)
        /\ case'[k + 1] = e /\ \A i \in 1..k : case'[i] = case[i]
    <3> HIDE DEF e
    <3>1. case' = Append(case, e)
      BY <1>10 DEF e
    <3> QED BY <1>5, <1>6, <3>1, ListAppend
  <2> HIDE DEF e
  <2>5. \A i \in 1..(k + 1) : i \in 1..k \/ i = k + 1
    BY <1>6
  <2>6. \A i \in DOMAIN case' : case'[i] = Rows'[r + i]
    <3>1. n + 1 = r + (k + 1)
      BY <1>6 DEF n
    <3>2. \A i \in 1..k : case'[i] = Rows[r + i]
      BY <1>6, <1>7, <2>4
    <3>3. case'[k + 1] = Rows[r + (k + 1)]
      BY <2>2, <2>4, <3>1
    <3> QED BY <1>4, <2>4, <2>5, <3>2, <3>3
  <2>7. \A i, j \in DOMAIN case' : case'[i].case = case'[j].case
    <3>1. \A i \in 1..k : case[i].case = e.case
      BY <1>1, <1>6 DEF IsSameCase, e
    <3>2. \A i \in DOMAIN case' : case'[i].case = e.case
      BY <2>4, <2>5, <3>1
    <3> QED BY <3>2
  <2>8. totals'.rows + Len(case') = n + 1 /\ totals'.rows = r /\ job' = job
    <3>1. totals'.rows = r /\ job' = job /\ Len(case') = k + 1
      BY <1>1, <1>5, <2>4
    <3>2. r + (k + 1) = n + 1
      BY <1>6 DEF n
    <3> QED BY <3>1, <3>2
  <2>9. (job.limit # 0 => n + 1 <= job.limit) /\ n + 1 <= Len(Rows)
    BY <1>6, <1>8, <1>10, <2>2 DEF n
  <2>10. RestIsAfter(totals.rows + Len(case))'
    BY <2>3, <2>8 DEF RestIsAfter
  <2>11. LimitIsKept'
    BY <1>4, <2>6, <2>7, <2>8, <2>9, <2>10 DEF LimitIsKept
  <2> QED BY <1>1, <1>3, <2>11 DEF PublicInv, PublicRowsInv
<1> QED BY <1>1, <1>9, <1>10

\* A name that no row has had has no text, and no rows are due to it.
LEMMA TextHoldsMine ==
  ASSUME TypesInv, OpenHoldsCases, totals.rows \in 0..Len(Rows), NEW name
  PROVE  Holds(Text(name), Mine(totals.rows, name))
<1>1. CASE name \in DOMAIN open
  BY <1>1 DEF OpenHoldsCases, Text
<1>2. CASE name \notin DOMAIN open
  <2>1. PICK n : n = totals.rows
    OBVIOUS
  <2>2. IsList(Rows) /\ n \in 0..Len(Rows) /\ Len(Rows) \in Nat
    BY <2>1, TableFacts DEF TypesInv
  <2>3. \A i \in 1..n : 0 + i \notin PlacesFor(name)
    BY <1>2, <2>1 DEF OpenHoldsCases, PlacesFor
  <2>4. n \in Nat /\ 0 + n = n /\ 0 + n <= Len(Rows)
    BY <2>2
  <2>5. Selected(Rows, PlacesFor(name), 0 + n) = Selected(Rows, PlacesFor(name), 0)
    BY <2>2, <2>3, <2>4, SelectedSame
  <2>6. Selected(Rows, PlacesFor(name), n) = <<>>
    BY <2>2, <2>4, <2>5, SelectedOfNone
  <2>7. Mine(n, name) = <<>>
    BY <2>2, <2>6, MineIsSelected
  <2>8. Text(name) = NoText
    BY <1>2 DEF Text
  <2>9. Holds(NoText, <<>>)
    BY NoTextIsWhole, EmptyList DEF Holds
  <2> QED BY <2>1, <2>7, <2>8, <2>9
<1> QED BY <1>1, <1>2

\* The rows of a group come after those of its text.
HasMore(text, old, all, n, k) ==
  /\ IsList(RowsIn(text)) /\ Len(RowsIn(text)) = Len(RowsIn(old)) + k
  /\ \A i \in 1..Len(RowsIn(old)) : RowsIn(text)[i] = RowsIn(old)[i]
  /\ \A i \in 1..k : IsMadeFrom(RowsIn(text)[Len(RowsIn(old)) + i], all[n + i])

\* A text that held its rows holds them with those of the new group.
LEMMA MoreIsHeld ==
  ASSUME NEW text, NEW old, NEW mine, NEW more, NEW all, NEW n, NEW k \in Nat,
         Holds(old, mine), IsList(mine), IsList(more), IsFollowedBy(mine, more, all, n, k),
         HasMore(text, old, all, n, k)
  PROVE  Holds(text, more)
<1> DEFINE r == RowsIn(old)
           t == RowsIn(text)
           w == Len(mine)
<1>1. /\ Len(r) = w /\ \A i \in DOMAIN mine : IsMadeFrom(r[i], mine[i])
      /\ DOMAIN mine = 1..w /\ w \in Nat /\ DOMAIN more = 1..Len(more)
  BY ListFacts DEF Holds
<1>2. /\ Len(more) = w + k /\ \A i \in 1..w : more[i] = mine[i]
      /\ \A i \in 1..k : more[w + i] = all[n + i]
  BY DEF IsFollowedBy
<1>3. /\ Len(t) = w + k /\ \A i \in 1..w : t[i] = r[i]
      /\ \A i \in 1..k : IsMadeFrom(t[w + i], all[n + i])
  BY <1>1 DEF HasMore
<1> HIDE DEF r, t, w
<1>4. ASSUME NEW i \in 1..(w + k) PROVE IsMadeFrom(t[i], more[i])
  <2>1. CASE i \in 1..w
    BY <1>1, <1>2, <1>3, <2>1
  <2>2. CASE i \notin 1..w
    <3>1. PICK j \in 1..k : i = w + j
      <4>1. i - w \in 1..k /\ i = w + (i - w)
        BY <1>1, <2>2
      <4> QED BY <4>1
    <3> QED BY <1>2, <1>3, <3>1
  <2> QED BY <2>1, <2>2
<1> QED BY <1>1, <1>2, <1>3, <1>4 DEF Holds, t

\* When a test case is written, each text again holds the rows of its name.
LEMMA WritingHolds ==
  ASSUME TypesInv, LimitIsKept, OpenHoldsCases, IsCase(case), UNCHANGED <<job, input>>,
         \A i \in DOMAIN case : HandleFor(case[i]) = HandleFor(case[1]),
         IsWritable(case), totals'.groups = totals.groups + 1,
         totals'.rows = totals.rows + Len(case),
         open' = With(open, HandleFor(case[1]), WithGroup(Text(HandleFor(case[1])), case))
  PROVE  OpenHoldsCases'
<1>0. PICK n, k, name, old : n = totals.rows /\ k = Len(case) /\ name = HandleFor(case[1])
                             /\ old = Text(HandleFor(case[1]))
  OBVIOUS
<1> DEFINE text == WithGroup(old, case)
           N == n + k
<1>1. /\ n \in Nat /\ k \in Nat /\ DOMAIN case = 1..k /\ N <= Len(Rows) /\ Len(Rows) \in Nat
      /\ \A i \in 1..k : case[i] = Rows[n + i] /\ HandleFor(Rows[n + i]) = name
  <2>1. IsList(case) /\ n \in Nat /\ Len(Rows) \in Nat
    BY <1>0, TableFacts DEF TypesInv, TotalsType
  <2>2. k \in Nat /\ DOMAIN case = 1..k
    BY <1>0, <2>1, ListFacts
  <2> QED BY <1>0, <2>1, <2>2 DEF LimitIsKept
<1>2. IsWhole(old) /\ old = IF name \in DOMAIN open THEN open[name] ELSE NoText
  BY <1>0, NoTextIsWhole DEF Text, TypesInv, OpenIsWhole
<1>3. /\ Len(text.groups) = Len(old.groups) + 1
      /\ RowCount(text) = RowCount(old) + k
      /\ IsList(RowsIn(text)) /\ Len(RowsIn(text)) = Len(RowsIn(old)) + k
      /\ \A i \in 1..Len(RowsIn(old)) : RowsIn(text)[i] = RowsIn(old)[i]
      /\ \A i \in 1..k : IsMadeFrom(RowsIn(text)[Len(RowsIn(old)) + i], case[i])
  BY <1>0, <1>2, GroupWritten
<1> HIDE DEF text
<1>4. /\ open' = With(open, name, text) /\ DOMAIN open' = DOMAIN open \cup {name}
      /\ open'[name] = text /\ \A m \in DOMAIN open \ {name} : open'[m] = open[m]
  BY <1>0 DEF With, text
<1>5. /\ Rows' = Rows /\ \A row : HandleFor(row)' = HandleFor(row)
      /\ totals'.rows = N /\ totals'.groups = totals.groups + 1
  BY <1>0, SameTable
<1>6. OpenIsCounted'
  <2>1. AreCountedOpen(open, totals) /\ \A m \in DOMAIN open : IsWhole(open[m])
    BY DEF OpenHoldsCases, OpenIsCounted, TypesInv, OpenIsWhole
  <2>2. totals'.rows = totals.rows + k
    BY <1>0
  <2>3. /\ old = IF name \in DOMAIN open THEN open[name] ELSE NoText
        /\ Len(text.groups) = Len(old.groups) + 1 /\ RowCount(text) = RowCount(old) + k
        /\ k \in Nat /\ totals'.groups = totals.groups + 1
    BY <1>1, <1>2, <1>3, <1>5
  <2>4. AreCountedOpen(With(open, name, text), totals')
    BY <2>1, <2>2, <2>3, OpenCounted
  <2> QED BY <1>4, <2>4 DEF OpenIsCounted
<1>7. /\ IsFollowedBy(Mine(n, name), Mine(N, name), Rows, n, k)
      /\ \A other : other # name => Mine(N, other) = Mine(n, other)
      /\ \A other : IsList(Mine(n, other)) /\ IsList(Mine(N, other))
  BY <1>1, CaseIsMine
<1>8. \A other : Mine(totals.rows, other)' = Mine(N, other)
  <2>1. \A other : Mine(N, other)' = Mine(N, other)
    BY SameMine
  <2> QED BY <1>5, <2>1 DEF Mine
<1>9. Holds(text, Mine(N, name))
  <2>1. n \in 0..Len(Rows)
    BY <1>1
  <2>2. Holds(old, Mine(n, name))
    BY <1>0, <2>1, TextHoldsMine DEF Text
  <2>3. HasMore(text, old, Rows, n, k)
    BY <1>1, <1>3 DEF HasMore
  <2> HIDE DEF N
  <2> QED BY <1>1, <1>7, <2>2, <2>3, MoreIsHeld
<1> HIDE DEF N
<1>10. ASSUME NEW m \in DOMAIN open' PROVE Holds(open'[m], Mine(totals.rows, m)')
  <2>1. CASE m = name
    BY <1>4, <1>8, <1>9, <2>1
  <2>2. CASE m # name
    <3>1. m \in DOMAIN open /\ open'[m] = open[m]
      BY <1>4, <1>10, <2>2
    <3>2. Holds(open[m], Mine(n, m))
      BY <1>0, <3>1 DEF OpenHoldsCases
    <3> QED BY <1>7, <1>8, <2>2, <3>1, <3>2
  <2> QED BY <2>1, <2>2
<1>11. ASSUME NEW i \in 1..N PROVE HandleFor(Rows[i]) \in DOMAIN open'
  <2>1. CASE i \in 1..n
    BY <1>0, <1>4, <2>1 DEF OpenHoldsCases
  <2>2. CASE i \notin 1..n
    <3>1. i - n \in 1..k /\ n + (i - n) = i
      BY <1>1, <2>2 DEF N
    <3> QED BY <1>1, <1>4, <3>1
  <2> QED BY <2>1, <2>2
<1> QED BY <1>5, <1>6, <1>10, <1>11 DEF OpenHoldsCases

\* Writing a test case fails, or leaves each text with all rows of its name.
LEMMA CaseIsWritten ==
  ASSUME TypesInv, PublicInv, job.tool = "public", pc = "rows", case # <<>>, WriteGroup(case),
         UNCHANGED <<job, disk, input>>
  PROVE  \/ pc' = "failed"
         \/ /\ pc' = "rows" /\ totals'.rows = totals.rows + Len(case)
            /\ NothingIsLost' /\ OpenHoldsCases'
<1> DEFINE name == HandleFor(case[1])
<1>1. IsCase(case) /\ \A i \in DOMAIN case : HandleFor(case[i]) = name
  BY CaseIsGroup
<1>2. CASE pc' = "failed"
  BY <1>2
<1>3. CASE pc' # "failed"
  <2>1. /\ pc' = pc /\ IsWritable(case)
        /\ open' = With(open, name, WithGroup(Text(name), case))
        /\ totals'.groups = totals.groups + 1 /\ totals'.rows = totals.rows + Len(case)
    BY <1>1, <1>3, WriteGroupIs
  <2>2. NothingIsLost /\ LimitIsKept /\ OpenHoldsCases
    BY DEF PublicInv, PublicRowsInv
  <2>3. OpenHoldsCases'
    BY <1>1, <2>1, <2>2, WritingHolds
  <2>4. job.single => DOMAIN open' = DOMAIN open
    <3>1. DOMAIN open' = DOMAIN open \cup {name}
      BY <2>1 DEF With
    <3>2. job.single => name \in DOMAIN open
      BY <2>2 DEF NothingIsLost, HandleFor
    <3> QED BY <3>1, <3>2
  <2>5. NothingIsLost'
    BY <2>2, <2>4, SameNothingIsLost DEF NothingIsLost, Existing
  <2> QED BY <2>1, <2>3, <2>5
<1> QED BY <1>2, <1>3

\* The limit, when the case in progress has been written.
LEMMA LimitStays ==
  ASSUME TypesInv, LimitIsKept, UNCHANGED <<job, input>>, case' = <<>>,
         totals'.rows = totals.rows + Len(case),
         \/ UNCHANGED todo
         \/ LimitReached(totals.rows + Len(case)) /\ todo' = <<>>
  PROVE  LimitIsKept'
<1>1. PICK n : n = totals.rows + Len(case)
  OBVIOUS
<1>2. n \in Nat /\ job.limit \in Nat
  <2>1. totals.rows \in Nat /\ Len(case) \in Nat /\ job.limit \in Nat
    BY TableFacts, ListFacts DEF TypesInv, TotalsType
  <2> QED BY <1>1, <2>1
<1>3. /\ job.limit # 0 => n <= job.limit
      /\ n <= Len(Rows)
      /\ RestIsAfter(n) \/ (todo = <<>> /\ job.limit # 0 /\ n = job.limit)
  BY <1>1 DEF LimitIsKept
<1>4. Len(case') = 0 /\ DOMAIN case' = {}
  BY EmptyList
<1>5. totals'.rows + Len(case') = n /\ job' = job
  BY <1>1, <1>2, <1>4
<1>6. Rows' = Rows
  BY SameTable
<1>7. \/ RestIsAfter(totals.rows + Len(case))'
      \/ todo' = <<>> /\ job.limit # 0 /\ n = job.limit
  <2>1. CASE UNCHANGED todo
    BY <1>3, <1>5, <1>6, <2>1 DEF RestIsAfter
  <2>2. CASE LimitReached(n) /\ todo' = <<>>
    BY <1>2, <1>3, <2>2 DEF LimitReached
  <2> QED BY <1>1, <2>1, <2>2
<1> QED BY <1>3, <1>4, <1>5, <1>6, <1>7 DEF LimitIsKept

LEMMA WritingPublic ==
  ASSUME TypesInv, PublicInv, job.tool = "public", pc = "rows", case # <<>>, WriteGroup(case),
         UNCHANGED <<job, disk, input>>, case' = <<>>,
         \/ UNCHANGED todo
         \/ LimitReached(totals.rows + Len(case)) /\ todo' = <<>>
  PROVE  PublicInv' /\ Written' = {}
<1>1. Written = {} /\ LimitIsKept
  BY DEF PublicInv, PublicRowsInv
<1>2. Written' = {}
  BY <1>1 DEF Written
<1>3. CASE pc' = "failed"
  BY <1>2, <1>3 DEF PublicInv
<1>4. CASE /\ pc' = "rows" /\ totals'.rows = totals.rows + Len(case)
           /\ NothingIsLost' /\ OpenHoldsCases'
  <2>1. LimitIsKept'
    BY <1>1, <1>4, LimitStays
  <2> QED BY <1>2, <1>4, <2>1 DEF PublicInv, PublicRowsInv
<1> QED BY <1>3, <1>4, CaseIsWritten

LEMMA CaseEndsPublic ==
  ASSUME TypesInv, PublicInv, CaseEnds
  PROVE  PublicInv' /\ Written' = {}
<1>1. /\ UNCHANGED <<job, disk, input>> /\ case' = <<>> /\ WriteGroup(case)
      /\ pc = "rows" /\ job.tool = "public" /\ ~ IsSameCase(Head(todo))
      /\ \/ UNCHANGED todo
         \/ LimitReached(totals.rows + Len(case)) /\ todo' = <<>>
  BY DEF CaseEnds
<1>2. case # <<>>
  BY <1>1 DEF IsSameCase
<1> QED BY <1>1, <1>2, WritingPublic

LEMMA LastCasePublic ==
  ASSUME TypesInv, PublicInv, LastCase
  PROVE  PublicInv' /\ Written' = {}
<1>1. /\ UNCHANGED <<job, disk, input, todo>> /\ case' = <<>> /\ WriteGroup(case)
      /\ pc = "rows" /\ job.tool = "public" /\ case # <<>>
  BY LastRows DEF LastCase
<1> QED BY <1>1, WritingPublic

\* While rows are read nothing has been written.
LEMMA NothingHolds ==
  ASSUME Written' = {}
  PROVE  FilesHoldStretches'
<1>1. \A path \in DOMAIN disk' : disk'[path].age # "new"
  BY DEF Written
<1> QED BY <1>1 DEF FilesHoldStretches

----------------------------------------------------------------------------
(* public: the end of a run.                                               *)

\* All rows that the limit lets through have been written to memory.
LEMMA AllConverted ==
  ASSUME TypesInv, LimitIsKept, todo = <<>>, case = <<>>
  PROVE  /\ totals.rows \in 0..Len(Rows)
         /\ Converted = SubSeq(Rows, 1, totals.rows)
<1>1. PICK n, all, limit : n = totals.rows /\ all = Rows /\ limit = job.limit
  OBVIOUS
<1>2. /\ n \in Nat /\ limit \in Nat /\ IsList(all) /\ Len(all) \in Nat
      /\ Len(case) = 0 /\ Len(todo) = 0
  BY <1>1, EmptyList, TableFacts DEF TypesInv, TotalsType
<1>3. totals.rows + Len(case) = n
  BY <1>1, <1>2
<1>4. /\ limit # 0 => n <= limit
      /\ n <= Len(all)
      /\ RestIsAfter(n) \/ (limit # 0 /\ n = limit)
  BY <1>1, <1>3 DEF LimitIsKept
<1>5. n = Len(all) \/ (limit # 0 /\ n = limit)
  <2>1. RestIsAfter(n) => Len(todo) = Len(all) - n
    BY <1>1 DEF RestIsAfter
  <2> QED BY <1>2, <1>4, <2>1
<1>6. Converted = IF limit # 0 /\ Len(all) >= limit THEN SubSeq(all, 1, limit) ELSE all
  BY <1>1 DEF Converted, LimitReached, Rows
<1>7. SubSeq(all, 1, Len(all)) = all
  <2> DEFINE w == Len(all)
             s == SubSeq(all, 1, w)
  <2>1. w \in 0..Len(all)
    BY <1>2
  <2> HIDE DEF w
  <2>2. IsList(s) /\ Len(s) = w /\ \A i \in 1..w : s[i] = all[i]
    BY <1>2, <2>1, ListPart
  <2> HIDE DEF s
  <2>3. s = all
    BY <1>2, <2>2, ListsEqual DEF w
  <2> QED BY <2>3 DEF s, w
<1>8. Converted = SubSeq(all, 1, n)
  <2>1. CASE limit # 0 /\ Len(all) >= limit
    BY <1>2, <1>4, <1>5, <1>6, <2>1
  <2>2. CASE ~ (limit # 0 /\ Len(all) >= limit)
    BY <1>2, <1>4, <1>5, <1>6, <1>7, <2>2
  <2> QED BY <2>1, <2>2
<1> QED BY <1>1, <1>2, <1>4, <1>8

\* __exit__ writes the texts in memory and nothing else.
LEMMA ExitWrites ==
  ASSUME TypesInv, Exit, Written = {}
  PROVE  /\ NewIn(disk') = PathsOf(open) /\ Written' = PathsOf(open)
         /\ \A path \in PathsOf(open) :
              disk'[path].text = open[path[2]] /\ path[2] \in DOMAIN open
         /\ \A path \in DOMAIN disk' : path[1] = "." =>
              path \in PathsOf(open) \/ (path \in DOMAIN disk /\ path[2] \notin DOMAIN open)
         /\ \A path \in DOMAIN disk : path \notin PathsOf(open) => disk'[path] = disk[path]
<1>1. /\ DOMAIN disk' = DOMAIN disk \cup PathsOf(open)
      /\ \A path \in PathsOf(open) : path[2] \in DOMAIN open /\ disk'[path] = New(open[path[2]])
      /\ \A path \in DOMAIN disk : path \in PathsOf(open) \/ disk'[path] = disk[path]
                                \/ (path[1] = "." /\ path[2] \in DOMAIN open)
  BY ExitFiles
<1>2. ASSUME NEW path \in DOMAIN disk, path[1] = ".", path[2] \in DOMAIN open
      PROVE  path \in PathsOf(open)
  <2>1. path = <<path[1], path[2]>>
    BY DEF TypesInv, FilesAreWhole
  <2> QED BY <1>2, <2>1 DEF PathsOf
<1>3. \A path \in DOMAIN disk : path \notin PathsOf(open) => disk'[path] = disk[path]
  BY <1>1, <1>2
<1>4. \A path \in DOMAIN disk : disk[path].age # "new"
  BY DEF Written
<1>5. \A path \in PathsOf(open) : disk'[path].age = "new" /\ disk'[path].text = open[path[2]]
  BY <1>1 DEF New
<1>6. \A path \in DOMAIN disk' : disk'[path].age = "new" <=> path \in PathsOf(open)
  BY <1>1, <1>3, <1>4, <1>5
<1>7. {path \in DOMAIN disk' : disk'[path].age = "new"} = PathsOf(open)
  BY <1>1, <1>6
<1> QED BY <1>1, <1>2, <1>3, <1>5, <1>7 DEF NewIn, Written

\* Each file that __exit__ writes holds the rows of its name, up to the limit.
LEMMA ExitHolds ==
  ASSUME TypesInv, PublicInv, Exit
  PROVE  FilesHoldStretches'
<1>1. /\ UNCHANGED <<job, input, open>> /\ todo = <<>> /\ case = <<>>
      /\ job.tool = "public" /\ pc = "rows"
  BY DEF Exit
<1>2. Written = {} /\ LimitIsKept /\ OpenHoldsCases
  BY <1>1 DEF PublicInv, PublicRowsInv
<1>3. Converted' = Converted /\ \A row : HandleFor(row)' = HandleFor(row)
  BY <1>1, SameTable
<1>4. Converted = SubSeq(Rows, 1, totals.rows)
  BY <1>1, <1>2, AllConverted
<1> SUFFICES ASSUME NEW path \in DOMAIN disk', disk'[path].age = "new"
             PROVE  HoldsItsRows(path)'
  BY <1>1 DEF FilesHoldStretches
<1>5. path \in NewIn(disk')
  BY DEF NewIn
<1>6. path[2] \in DOMAIN open /\ disk'[path].text = open[path[2]]
  BY <1>2, <1>5, ExitWrites
<1> DEFINE name == path[2]
           rows == Only(Converted, {i \in DOMAIN Converted : HandleFor(Converted[i]) = name})
<1>7. rows' = rows
  <2> DEFINE f == Converted
  <2>1. f' = f
    BY <1>3
  <2> HIDE DEF f, name
  <2>2. {i \in DOMAIN f : HandleFor(f[i]) = path[2]}' = {i \in DOMAIN f : HandleFor(f[i]) = path[2]}
    BY <1>3, <2>1
  <2> QED BY <2>1, <2>2 DEF f, name
<1>8. rows = Mine(totals.rows, name)
  BY <1>4 DEF Mine
<1>9. Holds(open[name], rows)
  BY <1>2, <1>6, <1>8 DEF OpenHoldsCases
<1>10. HoldsItsRows(path)' <=> Holds(disk'[path].text, rows')
  BY DEF HoldsItsRows, Holds
<1> QED BY <1>6, <1>7, <1>9, <1>10

\* What the program reports at its end is what __exit__ has written.
LEMMA ExitReports ==
  ASSUME TypesInv, PublicInv, Exit
  PROVE  Reported'
<1>1. /\ UNCHANGED <<job, input, open>> /\ todo = <<>> /\ case = <<>>
      /\ job.tool = "public" /\ pc = "rows"
      /\ totals' = [totals EXCEPT !.files = Cardinality(DOMAIN open)]
  BY DEF Exit
<1>2. Written = {} /\ NothingIsLost /\ LimitIsKept /\ AreCountedOpen(open, totals)
  BY <1>1 DEF PublicInv, PublicRowsInv, OpenHoldsCases, OpenIsCounted
<1>3. /\ NewIn(disk') = PathsOf(open) /\ Written' = PathsOf(open)
      /\ \A path \in PathsOf(open) : disk'[path].text = open[path[2]]
      /\ \A path \in DOMAIN disk' : path[1] = "." => path \in PathsOf(open) \/ path \in DOMAIN disk
  BY <1>2, ExitWrites
<1>4. /\ totals'.files = Cardinality(PathsOf(open)) /\ totals'.groups = totals.groups
      /\ totals'.rows = totals.rows
  <2>1. Cardinality(PathsOf(open)) = Cardinality(DOMAIN open)
    BY <1>2, OpenIsFinite DEF AreCountedOpen
  <2>2. totals \in [files : Nat, groups : Nat, rows : Nat]
    BY DEF TypesInv, TotalsType
  <2> QED BY <1>1, <2>1, <2>2
<1>5. WrittenIsCounted'
  <2>1. /\ [path \in NewIn(disk') |-> Len(disk'[path].text.groups)]
             = [path \in PathsOf(open) |-> Len(open[path[2]].groups)]
        /\ [path \in NewIn(disk') |-> RowCount(disk'[path].text)]
             = [path \in PathsOf(open) |-> RowCount(open[path[2]])]
    BY <1>3
  <2>2. AreCounted(disk', totals')
    BY <1>2, <1>3, <1>4, <2>1 DEF AreCounted, AreCountedOpen
  <2> QED BY <2>2 DEF WrittenIsCounted
<1>6. ~ job.single => \A i \in DOMAIN job.inputs : Existing(DirOf(i))' \subseteq Written'
  <2> SUFFICES ASSUME ~ job.single, NEW i \in DOMAIN job.inputs, NEW path \in DOMAIN disk',
                      path[1] = DirOf(i)'
               PROVE  path \in PathsOf(open)
    BY <1>3 DEF Existing
  <2>1. path[1] = "."
    BY <1>1, PublicTable, SameTable DEF TypesInv
  <2>2. path \notin DOMAIN disk
    BY <1>2, <2>1 DEF NothingIsLost, Existing
  <2> QED BY <1>3, <2>1, <2>2
<1>7. totals'.rows = Len(Converted')
  <2>1. PICK n : n = totals.rows
    OBVIOUS
  <2>2. n \in 0..Len(Rows) /\ Converted = SubSeq(Rows, 1, n) /\ IsList(Rows)
    BY <1>1, <1>2, <2>1, AllConverted, TableFacts DEF TypesInv
  <2>3. Len(Converted) = n
    BY <2>2, ListPart
  <2> QED BY <1>1, <1>4, <2>1, <2>3, SameTable
<1> QED BY <1>1, <1>5, <1>6, <1>7 DEF Reported

----------------------------------------------------------------------------
(* The invariant holds at first and is kept by every step.                 *)

LEMMA InitHolds ==
  ASSUME Init
  PROVE  IInv
<1>1. /\ job \in Jobs /\ disk = [path \in job.existing |-> Old] /\ pc = "prepare" /\ input = 1
      /\ todo = <<>> /\ open = <<>> /\ case = <<>>
      /\ totals = [files |-> 0, groups |-> 0, rows |-> 0]
  BY DEF Init
<1>2. input \in DOMAIN job.inputs
  <2>1. IsList(job.inputs) /\ job.inputs # <<>>
    BY <1>1, ConvertersAssumption
  <2> QED BY <1>1, <2>1, ListTail
<1>3. Old = [age |-> "old", text |-> NoText]
  BY DEF Old
<1>4. FilesAreWhole
  <2> SUFFICES ASSUME NEW path \in DOMAIN disk
               PROVE  /\ path = <<path[1], path[2]>>
                      /\ disk[path] = [age |-> disk[path].age, text |-> disk[path].text]
                      /\ disk[path].age \in {"old", "new"}
                      /\ IsWhole(disk[path].text)
    BY DEF FilesAreWhole
  <2>1. path \in job.existing /\ disk[path] = Old
    BY <1>1
  <2>2. path = <<path[1], path[2]>>
    BY <1>1, <2>1, ConvertersAssumption
  <2> QED BY <1>3, <2>1, <2>2, NoTextIsWhole
<1>5. Written = {} /\ NewIn(disk) = {}
  BY <1>1, <1>3 DEF Written, NewIn
<1>6. TypesInv
  <2>1. IsList(todo) /\ IsList(case) /\ DOMAIN todo = {} /\ DOMAIN case = {}
    BY <1>1, EmptyList
  <2>2. OpenIsWhole
    BY <1>1 DEF OpenIsWhole
  <2>3. TotalsType
    BY <1>1 DEF TotalsType
  <2> QED BY <1>1, <1>2, <1>4, <2>1, <2>2, <2>3 DEF TypesInv
<1>7. VectorsInv
  BY <1>1 DEF VectorsInv
<1>8. DirectoriesInv
  <2>1. WrittenIsCounted
    <3> DEFINE a == [path \in NewIn(disk) |-> Len(disk[path].text.groups)]
               b == [path \in NewIn(disk) |-> RowCount(disk[path].text)]
    <3>1. IsFiniteSet(NewIn(disk)) /\ Cardinality(NewIn(disk)) = 0
      BY <1>5, FS_EmptySet
    <3>2. DOMAIN a = {} /\ DOMAIN b = {}
      BY <1>5
    <3>3. Total(a) = 0 /\ Total(b) = 0
      <4> HIDE DEF a, b
      <4> QED BY <3>2, SumOfNone
    <3> QED BY <1>1, <3>1, <3>3 DEF WrittenIsCounted, AreCounted
  <2>2. \A i \in DOMAIN job.inputs : ~ (i < input)
    BY <1>1, <1>2, TableFacts
  <2>3. DirectoriesFill
    BY <1>1, <1>5, <2>2 DEF DirectoriesFill
  <2> QED BY <2>1, <2>3 DEF DirectoriesInv
<1>9. PublicInv
  BY <1>1, <1>5 DEF PublicInv
<1>10. FilesHoldStretches
  BY <1>5 DEF FilesHoldStretches, Written
<1>11. NamesInv
  <2>1. \A i \in DOMAIN job.inputs : ~ (i < input)
    BY <1>1, <1>2, TableFacts
  <2> QED BY <1>1, <2>1 DEF NamesInv, NamesHaveFiles
<1> QED BY <1>1, <1>6, <1>7, <1>8, <1>9, <1>10, <1>11 DEF IInv

LEMMA VectorsStep ==
  ASSUME IInv, PrepareOutputDir \/ VectorRow \/ EndOfInput
  PROVE  IInv'
<1>1. job.tool = "vectors" /\ UNCHANGED job
  BY DEF PrepareOutputDir, VectorRow, EndOfInput
<1>2. TypesInv'
  BY PrepareTypes, VectorRowTypes, EndOfInputTypes DEF IInv
<1>3. VectorsInv'
  BY PrepareVectors, VectorRowVectors, EndOfInputVectors DEF IInv
<1>4. DirectoriesInv'
  BY PrepareDirectories, VectorRowDirectories, EndOfInputDirectories DEF IInv
<1>5. FilesHoldStretches'
  BY PrepareHolds, VectorRowHolds, EndOfInputHolds DEF IInv
<1>6. PublicInv'
  BY <1>1 DEF PublicInv
<1>7. NamesInv'
  BY PrepareNames, VectorRowNames, EndOfInputNames DEF IInv
<1> QED BY <1>1, <1>2, <1>3, <1>4, <1>5, <1>6, <1>7 DEF IInv

LEMMA PublicStep ==
  ASSUME IInv, Enter \/ PublicRow \/ CaseEnds \/ LastCase \/ Exit
  PROVE  IInv'
<1>1. job.tool = "public" /\ UNCHANGED job
  BY DEF Enter, PublicRow, CaseEnds, LastCase, Exit
<1>2. TypesInv'
  BY EnterTypes, PublicRowTypes, CaseEndsTypes, LastCaseTypes, ExitTypes DEF IInv
<1>3. VectorsInv' /\ DirectoriesInv' /\ NamesInv'
  BY <1>1 DEF VectorsInv, DirectoriesInv, NamesInv
<1>4. CASE Exit
  <2>1. pc' = "done"
    BY <1>4 DEF Exit
  <2>2. PublicInv'
    BY <2>1 DEF PublicInv
  <2> QED BY <1>2, <1>3, <1>4, <2>2, ExitHolds, ExitReports DEF IInv
<1>5. CASE Enter \/ PublicRow \/ CaseEnds \/ LastCase
  <2>1. PublicInv' /\ Written' = {}
    <3>1. CASE PublicRow
      <4>1. UNCHANGED disk /\ Written = {}
        BY <3>1 DEF PublicRow, IInv, PublicInv
      <4> QED BY <3>1, <4>1, PublicRowPublic DEF IInv, Written
    <3> QED BY <1>5, <3>1, EnterPublic, CaseEndsPublic, LastCasePublic DEF IInv
  <2>2. pc' # "done"
    <3>1. CASE Enter \/ PublicRow
      BY <3>1 DEF Enter, PublicRow, Fail
    <3>2. ASSUME CaseEnds \/ LastCase PROVE pc' # "done"
      <4>1. WriteGroup(case) /\ pc = "rows" /\ IsCase(case)
        BY <3>2, CaseEndsTypes, LastCaseTypes, LastRows DEF IInv, CaseEnds, LastCase
      <4> QED BY <4>1, WriteGroupIs DEF IInv
    <3> QED BY <1>5, <3>1, <3>2
  <2> QED BY <1>2, <1>3, <2>1, <2>2, NothingHolds DEF IInv
<1> QED BY <1>4, <1>5

LEMMA StutterStep ==
  ASSUME IInv, UNCHANGED vars
  PROVE  IInv'
<1>1. UNCHANGED <<job, disk, pc, input, todo, open, case, totals>>
  BY DEF vars
<1>2. /\ Rows' = Rows /\ OutputDir' = OutputDir /\ Converted' = Converted
      /\ (\A i : DirOf(i)' = DirOf(i)) /\ (\A row : HandleFor(row)' = HandleFor(row))
      /\ NamesComeTogether' = NamesComeTogether
  BY <1>1, SameTable
<1>3. Written' = Written /\ (\A dir : Existing(dir)' = Existing(dir)) /\ Consumed' = Consumed
  BY <1>1, <1>2 DEF Written, Existing, Consumed
<1>4. TypesInv'
  BY <1>1, <1>2 DEF IInv, TypesInv, FilesAreWhole, OpenIsWhole, TotalsType
<1>5. VectorsInv'
  <2>1. PICK n : n = Consumed
    OBVIOUS
  <2>2. RestIsAfter(n) => RestIsAfter(n)'
    BY <1>1, <1>2 DEF RestIsAfter
  <2>3. OpenIsStretch(n) => OpenIsStretch(n)'
    BY <1>1, <1>2 DEF OpenIsStretch
  <2>4. Consumed' = n
    BY <1>3, <2>1
  <2>5. RestIsAfter(Consumed)' <=> RestIsAfter(n)'
    BY <2>4 DEF RestIsAfter
  <2>6. OpenIsStretch(Consumed)' <=> OpenIsStretch(n)'
    BY <2>4 DEF OpenIsStretch
  <2> QED BY <1>1, <2>1, <2>2, <2>3, <2>4, <2>5, <2>6 DEF IInv, VectorsInv
<1>6. WrittenIsCounted' = WrittenIsCounted
  BY <1>1 DEF WrittenIsCounted
<1>7. DirectoriesInv'
  <2>1. DirectoriesFill => DirectoriesFill'
    BY <1>1, <1>2, <1>3 DEF DirectoriesFill
  <2> QED BY <1>1, <1>2, <1>6, <2>1 DEF IInv, DirectoriesInv
<1>8. PublicInv'
  <2>1. OpenHoldsCases => OpenHoldsCases'
    BY <1>1, SameHoldsCases
  <2>2. NothingIsLost => NothingIsLost'
    BY <1>1, SameNothingIsLost
  <2>3. LimitIsKept => LimitIsKept'
    BY <1>1, <1>2 DEF LimitIsKept, RestIsAfter
  <2> QED BY <1>1, <1>3, <2>1, <2>2, <2>3 DEF IInv, PublicInv, PublicRowsInv
<1>9. FilesHoldStretches'
  <2>1. \A path : HoldsItsRows(path) => HoldsItsRows(path)'
    <3> SUFFICES ASSUME NEW path, HoldsItsRows(path) PROVE HoldsItsRows(path)'
      OBVIOUS
    <3> DEFINE f == Converted
    <3>1. f' = f
      BY <1>2
    <3>2. {i \in DOMAIN f : HandleFor(f[i]) = path[2]}'
            = {i \in DOMAIN f : HandleFor(f[i]) = path[2]}
      <4> HIDE DEF f
      <4> QED BY <1>2, <3>1
    <3> QED BY <1>1, <3>1, <3>2 DEF HoldsItsRows
  <2>2. \A path : HoldsAStretch(path) /\ disk'[path] = disk[path] => HoldsAStretch(path)'
    BY <1>1, StretchStays
  <2> QED BY <1>1, <2>1, <2>2 DEF IInv, FilesHoldStretches
<1>10. Reported => Reported'
  BY <1>1, <1>2, <1>3, <1>6 DEF Reported
<1>11. NamesInv'
  <2>1. NamesHaveFiles => NamesHaveFiles'
    BY <1>1, <1>2, <1>3 DEF NamesHaveFiles, NameOf
  <2> QED BY <1>1, <1>2, <2>1 DEF IInv, NamesInv
<1> QED BY <1>1, <1>4, <1>5, <1>7, <1>8, <1>9, <1>10, <1>11 DEF IInv

LEMMA NextHolds ==
  ASSUME IInv, [Next]_vars
  PROVE  IInv'
  BY VectorsStep, PublicStep, StutterStep DEF Next

----------------------------------------------------------------------------
(* What follows.                                                           *)

\* A text that can be read back is one, as TypeOK has it.
LEMMA WholeIsText ==
  ASSUME NEW text, IsWhole(text)
  PROVE  IsText(text)
<1>1. IsInjective(text.pool) /\ DOMAIN text.groups = 1..Len(text.groups)
  BY ListFacts DEF IsWhole
<1>2. ASSUME NEW i \in DOMAIN text.groups, NEW j \in DOMAIN text.groups[i].rows
      PROVE  LET g == text.groups[i]
             IN  /\ g.rows[j].in \in [DOMAIN g.in -> 0..(Len(text.pool) - 1)]
                 /\ g.rows[j].exception = "none" =>
                      g.rows[j].out \in [DOMAIN g.out -> 0..(Len(text.pool) - 1)]
  <2> DEFINE g == text.groups[i]
  <2>1. IsWholeGroup(g, Len(text.pool))
    BY DEF IsWhole
  <2>2. /\ IsList(g.in) /\ IsList(g.out) /\ FitsHeader(g, g.rows[j], Len(text.pool))
    BY <2>1 DEF IsWholeGroup
  <2>3. DOMAIN g.in = 1..Len(g.in) /\ DOMAIN g.out = 1..Len(g.out)
    BY <2>2, ListFacts
  <2> HIDE DEF g
  <2>4. /\ g.rows[j].in \in [DOMAIN g.in -> 0..(Len(text.pool) - 1)]
        /\ g.rows[j].exception = "none" =>
             g.rows[j].out \in [DOMAIN g.out -> 0..(Len(text.pool) - 1)]
    BY <2>2, <2>3 DEF FitsHeader, OutLength
  <2> QED BY <2>4 DEF g
<1> QED BY <1>1, <1>2 DEF IsText

LEMMA TypesFollow == ASSUME IInv PROVE TypeOK
<1>1. TypesInv
  BY DEF IInv
<1>2. \A text \in Texts : IsWhole(text)
  BY <1>1 DEF Texts, TypesInv, FilesAreWhole, OpenIsWhole
<1>3. \A text \in Texts : IsText(text)
  BY <1>2, WholeIsText
<1>4. \A path \in DOMAIN disk : disk[path].age \in {"old", "new"}
  BY <1>1 DEF TypesInv, FilesAreWhole
<1> QED BY <1>1, <1>3, <1>4 DEF TypesInv, TypeOK, Rows, TotalsType

\* Where names come together, the rows of a name are the stretch that has it.
LEMMA StretchIsAll ==
  ASSUME NEW rows, IsList(rows), NEW name, NEW a \in DOMAIN rows, NEW b \in DOMAIN rows,
         a <= b, IsStretch(rows, a, b, name),
         \A i, j \in DOMAIN rows : \A n \in i..j :
           NameOf(rows[i]) = NameOf(rows[j]) => NameOf(rows[n]) = NameOf(rows[i])
  PROVE  RowsOf(rows, name) = [n \in 1..(b - a + 1) |-> rows[a + n - 1]]
<1> DEFINE P == {n \in DOMAIN rows : NameOf(rows[n]) = name}
<1>1. DOMAIN rows = 1..Len(rows) /\ Len(rows) \in Nat
  BY ListFacts
<1>2. /\ \A n \in a..b : NameOf(rows[n]) = name
      /\ a > 1 => NameOf(rows[a - 1]) # name
      /\ b < Len(rows) => NameOf(rows[b + 1]) # name
  BY DEF IsStretch, NameOf
<1>3. ASSUME NEW n \in DOMAIN rows, NameOf(rows[n]) = name PROVE n \in a..b
  <2>1. a \in a..b /\ b \in a..b
    BY <1>1
  <2>2. CASE n < a
    <3>1. a - 1 \in n..a /\ a > 1 /\ NameOf(rows[n]) = NameOf(rows[a])
      BY <1>1, <1>2, <1>3, <2>1, <2>2
    <3>2. NameOf(rows[a - 1]) = NameOf(rows[n])
      BY <3>1
    <3> QED BY <1>2, <1>3, <3>1, <3>2
  <2>3. CASE n > b
    <3>1. b + 1 \in b..n /\ b < Len(rows) /\ NameOf(rows[b]) = NameOf(rows[n])
      BY <1>1, <1>2, <1>3, <2>1, <2>3
    <3>2. NameOf(rows[b + 1]) = NameOf(rows[b])
      BY <3>1
    <3> QED BY <1>2, <1>3, <3>1, <3>2
  <2> QED BY <1>1, <2>2, <2>3
<1>4. \A n \in 1..Len(rows) : n \in P <=> n \in a..b
  BY <1>1, <1>2, <1>3
<1>5. a \in Nat \ {0} /\ b \in Nat /\ b <= Len(rows)
  BY <1>1
<1>6. RowsOf(rows, name) = Only(rows, P)
  BY DEF RowsOf, NameOf
<1> HIDE DEF P
<1>7. Ascending(P, Len(rows)) = Ascending(a..b, Len(rows))
  BY <1>1, <1>4, AscendingSame
<1>8. Ascending(a..b, Len(rows)) = [n \in 1..(b - a + 1) |-> a + n - 1]
  BY <1>1, <1>5, AscendingInterval
<1> DEFINE f == [n \in 1..(b - a + 1) |-> a + n - 1]
<1>9. Only(rows, P) = [n \in DOMAIN f |-> rows[f[n]]]
  BY <1>7, <1>8 DEF Only
<1>10. [n \in DOMAIN f |-> rows[f[n]]] = [n \in 1..(b - a + 1) |-> rows[a + n - 1]]
  OBVIOUS
<1> QED BY <1>6, <1>9, <1>10

\* From stretches to the rows of a name.
LEMMA FilesFollow == ASSUME IInv PROVE FilesHoldTheirRows
<1>1. job \in Jobs /\ FilesHoldStretches /\ job.tool \in {"vectors", "public"}
  BY TableFacts DEF IInv, TypesInv
<1>2. ASSUME NEW path \in Written
      PROVE  /\ job.tool = "public" => HoldsItsRows(path)
             /\ job.tool = "vectors" => HoldsAStretch(path)
  BY <1>1 DEF FilesHoldStretches, Written
<1>3. ASSUME NEW path \in Written, job.tool = "vectors", NamesComeTogether
      PROVE  HoldsItsName(path)
  <2> DEFINE read == RowsIn(disk[path].text)
  <2>1. PICK i \in DOMAIN job.inputs : DirOf(i) = path[1] /\
          \E a, b \in DOMAIN job.inputs[i].rows :
            /\ a <= b /\ IsStretch(job.inputs[i].rows, a, b, path[2])
            /\ ToBag(read)
                 = ToBag([n \in 1..(b - a + 1) |-> AsRead(job.inputs[i].rows[a + n - 1])])
    BY <1>2, <1>3 DEF HoldsAStretch
  <2> HIDE DEF read
  <2> DEFINE rows == job.inputs[i].rows
  <2>2. PICK a, b \in DOMAIN rows :
            /\ a <= b /\ IsStretch(rows, a, b, path[2])
            /\ ToBag(read) = ToBag([n \in 1..(b - a + 1) |-> AsRead(rows[a + n - 1])])
    BY <2>1
  <2>3. IsList(rows)
    BY <1>1, ConvertersAssumption
  <2>4. \A k, j \in DOMAIN rows : \A n \in k..j :
          NameOf(rows[k]) = NameOf(rows[j]) => NameOf(rows[n]) = NameOf(rows[k])
    BY <1>3 DEF NamesComeTogether, NameOf
  <2> HIDE DEF rows
  <2>5. RowsOf(rows, path[2]) = [n \in 1..(b - a + 1) |-> rows[a + n - 1]]
    <3>1. a <= b /\ IsStretch(rows, a, b, path[2])
      BY <2>2
    <3>2. PICK name : name = path[2]
      OBVIOUS
    <3>3. IsStretch(rows, a, b, name)
      BY <3>1, <3>2
    <3>4. RowsOf(rows, name) = [n \in 1..(b - a + 1) |-> rows[a + n - 1]]
      BY <2>3, <2>4, <3>1, <3>3, StretchIsAll
    <3> QED BY <3>2, <3>4
  <2> DEFINE own == RowsOf(rows, path[2])
  <2>6. [n \in DOMAIN own |-> AsRead(own[n])]
          = [n \in 1..(b - a + 1) |-> AsRead(rows[a + n - 1])]
    BY <2>5
  <2>7. ToBag(read) = ToBag([n \in DOMAIN own |-> AsRead(own[n])])
    BY <2>2, <2>6
  <2> QED BY <2>1, <2>7 DEF HoldsItsName, read, rows
<1> QED BY <1>2, <1>3 DEF FilesHoldTheirRows

LEMMA ReportFollows == ASSUME IInv PROVE ReportIsOnDisk
<1> SUFFICES ASSUME pc = "done", NamesComeTogether PROVE ReportIsOnDisk
  BY DEF ReportIsOnDisk
<1>1. /\ WrittenIsCounted
      /\ \A i \in DOMAIN job.inputs : ~ job.single => Existing(DirOf(i)) \subseteq Written
      /\ job.tool = "public" => totals.rows = Len(Converted)
  <2>1. CASE job.tool = "vectors"
    <3>1. WrittenIsCounted /\ DirectoriesFill
      BY <2>1 DEF IInv, DirectoriesInv
    <3>2. /\ input = Len(job.inputs)
          /\ \A i \in DOMAIN job.inputs :
               i < input \/ i = input => Existing(DirOf(i)) \subseteq Written
      BY <3>1 DEF DirectoriesFill
    <3>3. \A i \in DOMAIN job.inputs : i < input \/ i = input
      <4>1. DOMAIN job.inputs = 1..Len(job.inputs) /\ Len(job.inputs) \in Nat
        BY TableFacts DEF IInv, TypesInv
      <4> QED BY <3>2, <4>1
    <3> QED BY <2>1, <3>1, <3>2, <3>3
  <2>2. CASE job.tool = "public"
    BY <2>2 DEF IInv, Reported
  <2> QED BY <2>1, <2>2, TableFacts DEF IInv, TypesInv
<1>2. Written = NewIn(disk)
  BY DEF Written, NewIn
<1>4. ASSUME job.tool = "vectors" PROVE RowsHaveFiles
  <2>1. NamesHaveFiles /\ DirectoriesFill
    BY <1>4 DEF IInv, DirectoriesInv, NamesInv
  <2>2. DOMAIN job.inputs = 1..Len(job.inputs) /\ Len(job.inputs) \in Nat
    BY TableFacts DEF IInv, TypesInv
  <2> SUFFICES ASSUME NEW i \in DOMAIN job.inputs, NEW row \in ToSet(job.inputs[i].rows)
               PROVE  <<DirOf(i), NameOf(row)>> \in Written
    BY DEF RowsHaveFiles, NameOf
  <2>3. i < input \/ (i = input /\ pc = "done")
    BY <2>1, <2>2 DEF DirectoriesFill
  <2>4. <<DirOf(i), NameOf(row)>> \in DOMAIN disk
    BY <2>1, <2>3 DEF NamesHaveFiles
  <2>5. Existing(DirOf(i)) \subseteq Written
    BY <2>1, <2>3 DEF DirectoriesFill
  <2> QED BY <2>4, <2>5 DEF Existing
<1>3. /\ totals.files = Cardinality(Written)
      /\ totals.groups = Total([path \in Written |-> Len(disk[path].text.groups)])
      /\ totals.rows = Total([path \in Written |-> RowCount(disk[path].text)])
  BY <1>1, <1>2 DEF WrittenIsCounted, AreCounted
<1> QED BY <1>1, <1>3, <1>4 DEF ReportIsOnDisk, Total

IsKept(path) == path \in DOMAIN disk' /\ disk'[path] = disk[path]

\* A directory that is not refused without --overwrite is empty.
LEMMA EmptyDirectoryKept ==
  ASSUME NEW dir, ~ job.overwrite, ~ Refused(Existing(dir)), disk' = Remaining(Existing(dir))
  PROVE  \A path \in DOMAIN disk : IsKept(path)
<1>1. Existing(dir) = {}
  BY DEF Refused
<1>2. /\ DOMAIN disk' = DOMAIN disk \ Existing(dir)
      /\ \A path \in DOMAIN disk \ Existing(dir) : disk'[path] = disk[path]
  BY RemainingFiles
<1> QED BY <1>1, <1>2 DEF IsKept

\* No flush replaces a file.
LEMMA FlushedKeeps ==
  ASSUME IInv, job.tool = "vectors", pc = "rows", Flushed, NamesComeTogether
  PROVE  \A path \in DOMAIN disk : IsKept(path)
<1>1. WrittenIsCounted /\ DirectoriesFill
  BY DEF IInv, DirectoriesInv
<1> QED BY <1>1, FlushedDirectories DEF IInv, IsKept

\* Nothing that __exit__ writes was there before.
LEMMA ExitKeeps ==
  ASSUME IInv, Exit, ~ job.overwrite
  PROVE  \A path \in DOMAIN disk : IsKept(path)
<1>1. Written = {} /\ NothingIsLost
  BY DEF Exit, IInv, PublicInv, PublicRowsInv
<1>2. \A path \in DOMAIN disk : path \notin PathsOf(open) => disk'[path] = disk[path]
  BY <1>1, ExitWrites DEF IInv
<1>3. \A path \in DOMAIN disk : path \in DOMAIN disk'
  BY ExitFiles
<1>4. ASSUME NEW path \in DOMAIN disk, path \in PathsOf(open) PROVE FALSE
  <2>1. PICK name \in DOMAIN open : path = <<".", name>>
    BY <1>4 DEF PathsOf
  <2>2. CASE job.single
    BY <1>1, <1>4, <2>1, <2>2 DEF NothingIsLost, SingleFile
  <2>3. CASE ~ job.single
    BY <1>1, <1>4, <2>1, <2>3 DEF NothingIsLost, Existing
  <2> QED BY <2>2, <2>3
<1> QED BY <1>2, <1>3, <1>4 DEF IsKept

LEMMA StepKeeps ==
  ASSUME IInv, [Next]_vars, ~ job.overwrite, NamesComeTogether
  PROVE  \A path \in DOMAIN disk : path \in DOMAIN disk' /\ disk'[path] = disk[path]
<1>0. UNCHANGED disk => \A path \in DOMAIN disk : IsKept(path)
  BY DEF IsKept
<1>1. CASE PrepareOutputDir
  <2>1. UNCHANGED disk
        \/ (~ Refused(Existing(OutputDir)) /\ disk' = Remaining(Existing(OutputDir)))
    BY <1>1 DEF PrepareOutputDir
  <2> QED BY <1>0, <2>1, EmptyDirectoryKept DEF IsKept
<1>2. CASE VectorRow
  <2>1. job.tool = "vectors" /\ pc = "rows" /\ (UNCHANGED disk \/ Flushed)
    BY <1>2 DEF VectorRow
  <2> QED BY <1>0, <2>1, FlushedKeeps DEF IsKept
<1>3. CASE EndOfInput
  BY <1>3, FlushedKeeps DEF EndOfInput, IsKept
<1>4. CASE Enter
  <2>1. UNCHANGED disk \/ (~ Refused(Existing(".")) /\ disk' = Remaining(Existing(".")))
    BY <1>4 DEF Enter
  <2> QED BY <1>0, <2>1, EmptyDirectoryKept DEF IsKept
<1>5. CASE PublicRow \/ CaseEnds \/ LastCase \/ UNCHANGED vars
  BY <1>0, <1>5 DEF PublicRow, CaseEnds, LastCase, vars, IsKept
<1>6. CASE Exit
  BY <1>6, ExitKeeps DEF IsKept
<1> QED BY <1>1, <1>2, <1>3, <1>4, <1>5, <1>6 DEF Next

----------------------------------------------------------------------------
(* Theorems.                                                               *)

\* The inductive invariant: the texts in memory hold the stretch of rows in
\* progress (vectors), or all rows before the test case in progress (public),
\* what is written is counted, and the directories hold what the run has put
\* there (convert_one and convert).
THEOREM Invariance == Spec => []IInv
<1>1. Init => IInv
  BY InitHolds
<1>2. IInv /\ [Next]_vars => IInv'
  BY NextHolds
<1> QED BY <1>1, <1>2, PTL DEF Spec

\* Every index written into a text is one of its pool, however the pool has
\* grown since, no value is pooled twice, and each row has as many indices as
\* its header has keys (pool_index, intern, schema_indices).
THEOREM TypeCorrect == Spec => []TypeOK
<1>1. IInv => TypeOK
  BY TypesFollow
<1> QED BY <1>1, Invariance, PTL

\* Whatever fails and whenever: a file that is on disk holds all rows of its
\* name and no others, and each is read back as the row of the table (flush,
\* write_group, __exit__).  In convert_test_vectors.py this needs that names come
\* together; without that a file holds one whole stretch of rows of its name.
THEOREM FilesHold == Spec => []FilesHoldTheirRows
<1>1. IInv => FilesHoldTheirRows
  BY FilesFollow
<1> QED BY <1>1, Invariance, PTL

\* Where names come together, a completed run has counted the files, groups and
\* rows that are on disk, it leaves nothing else in the directories it has filled,
\* every row has its file, and the limit is met exactly (main of both programs).
THEOREM ReportsOnDisk == Spec => []ReportIsOnDisk
<1>1. IInv => ReportIsOnDisk
  BY ReportFollows
<1> QED BY <1>1, Invariance, PTL

\* Without --overwrite no step removes or replaces a file, when names come
\* together: it is enough to look at a directory before it is filled
\* (prepare_output_dir and __enter__).
THEOREM FilesAreKept == Spec => FilesStay
<1>1. IInv /\ [Next]_vars =>
        [~ job.overwrite /\ NamesComeTogether =>
           \A path \in DOMAIN disk :
             path \in DOMAIN disk' /\ disk'[path] = disk[path]]_vars
  BY StepKeeps
<1> QED BY <1>1, Invariance, PTL DEF Spec, FilesStay

=============================================================================
