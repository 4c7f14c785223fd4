---------------------------- MODULE DataTheorems ----------------------------
(***************************************************************************)
(* What the proofs about the models need of numbers and sequences.         *)
(* Induction is stated for a set of numbers and not for a predicate, so    *)
(* that the provers can use it: what the recursive functions and the folds *)
(* of the models compute is proved with it.                                *)
(***************************************************************************)
EXTENDS Integers, FiniteSets, SequenceParts, SequencesExt, TLAPS,
        WellFoundedInduction, FiniteSetTheorems

\* A set of numbers has a least element.
LEMMA LeastNumber ==
  ASSUME NEW T \in SUBSET Nat, T # {}
  PROVE  \E m \in T : \A k \in T : m <= k
<1> DEFINE Less == OpToRel(<, Nat)
<1>1. IsWellFoundedOn(Less, Nat)
  BY NatLessThanWellFounded
<1>2. PICK m \in T : \A k \in T : <<k, m>> \notin Less
  <2> HIDE DEF Less
  <2> QED BY <1>1, WFMin
<1>3. \A k \in T : ~ (k < m)
  BY <1>2 DEF OpToRel
<1> QED BY <1>3

\* A set of numbers that has 0, and with a number the next one, has all.
LEMMA NumbersByInduction ==
  ASSUME NEW T, 0 \in T, \A n \in Nat : n \in T => n + 1 \in T
  PROVE  \A n \in Nat : n \in T
<1> SUFFICES ASSUME Nat \ T # {} PROVE FALSE
  OBVIOUS
<1>1. PICK m \in Nat \ T : \A k \in Nat \ T : m <= k
  BY LeastNumber
<1>2. m # 0 /\ m - 1 \in Nat /\ m - 1 \notin Nat \ T
  BY <1>1
<1> QED BY <1>1, <1>2

----------------------------------------------------------------------------
(* Multiples of a number p that is not 0.                                  *)

\* The greatest multiple of p up to a.
Floor(p, a) == a - (a % p)

\* Division with remainder determines its remainder.
LEMMA Remainder ==
  ASSUME NEW p \in Nat \ {0}, NEW q \in Nat, NEW r \in 0 .. p - 1
  PROVE  (p * q + r) % p = r
  BY SMTT(30)

LEMMA Quotient ==
  ASSUME NEW p \in Nat \ {0}, NEW a \in Nat
  PROVE  \E q \in Nat : a = p * q + (a % p)
<1>1. a \div p \in Nat /\ a = p * (a \div p) + (a % p)
  OBVIOUS
<1> QED BY <1>1

LEMMA FloorAndRest ==
  ASSUME NEW p \in Nat \ {0}, NEW a \in Nat
  PROVE  /\ a % p \in 0 .. p - 1
         /\ Floor(p, a) \in Nat
         /\ Floor(p, a) <= a
         /\ a < Floor(p, a) + p
         /\ a = Floor(p, a) + (a % p)
<1>1. a % p \in 0 .. p - 1
  OBVIOUS
<1>2. PICK q \in Nat : a = p * q + (a % p)
  BY Quotient
<1>3. p * q \in Nat
  OBVIOUS
<1>4. Floor(p, a) = p * q
  BY <1>1, <1>2, <1>3 DEF Floor
<1> QED BY <1>1, <1>2, <1>3, <1>4 DEF Floor

LEMMA FloorIsMultiple ==
  ASSUME NEW p \in Nat \ {0}, NEW a \in Nat
  PROVE  Floor(p, a) % p = 0
<1>1. PICK q \in Nat : a = p * q + (a % p)
  BY Quotient
<1>2. p * q \in Nat /\ a % p \in 0 .. p - 1
  BY FloorAndRest
<1>3. Floor(p, a) = p * q + 0
  BY <1>1, <1>2 DEF Floor
<1>4. (p * q + 0) % p = 0
  BY Remainder
<1> QED BY <1>3, <1>4

\* Going on without coming to the next multiple.
LEMMA SameFloor ==
  ASSUME NEW p \in Nat \ {0}, NEW a \in Nat, NEW d \in Nat, (a % p) + d < p
  PROVE  (a + d) % p = (a % p) + d /\ Floor(p, a + d) = Floor(p, a)
<1>1. PICK q \in Nat : a = p * q + (a % p)
  BY Quotient
<1>2. p * q \in Nat /\ a % p \in 0 .. p - 1
  BY FloorAndRest
<1> DEFINE r == a % p
<1> HIDE DEF r
<1>3. r + d \in 0 .. p - 1 /\ r \in Nat
  BY <1>2 DEF r
<1>4. a + d = p * q + (r + d)
  BY <1>1, <1>2, <1>3 DEF r
<1>5. (a + d) % p = r + d
  BY <1>3, <1>4, Remainder
<1>6. Floor(p, a + d) = Floor(p, a)
  BY <1>2, <1>3, <1>5 DEF Floor, r
<1> QED BY <1>5, <1>6 DEF r

LEMMA MultiplesApart ==
  ASSUME NEW p \in Nat \ {0}, NEW b \in Nat, NEW c \in Nat, b % p = 0, c % p = 0, b < c
  PROVE  b + p <= c
<1>1. PICK q \in Nat : b = p * q + 0
  BY Quotient
<1>2. PICK s \in Nat : c = p * s + 0
  BY Quotient
<1>3. ASSUME s <= q PROVE FALSE
  <2>1. p * s <= p * q
    BY <1>3
  <2> QED BY <2>1, <1>1, <1>2
<1>4. q + 1 <= s
  BY <1>3
<1>5. p * (q + 1) <= p * s
  BY <1>4
<1>6. p * (q + 1) = p * q + p
  OBVIOUS
<1> QED BY <1>1, <1>2, <1>5, <1>6

LEMMA NextMultiple ==
  ASSUME NEW p \in Nat \ {0}, NEW b \in Nat, b % p = 0
  PROVE  (b + p) % p = 0
<1>1. PICK q \in Nat : b = p * q + 0
  BY Quotient
<1>2. b + p = p * (q + 1) + 0
  BY <1>1
<1>3. (p * (q + 1) + 0) % p = 0
  BY Remainder
<1> QED BY <1>2, <1>3

LEMMA FloorIsGreatest ==
  ASSUME NEW p \in Nat \ {0}, NEW a \in Nat, NEW b \in Nat, b % p = 0, b <= a
  PROVE  b <= Floor(p, a)
<1>1. ASSUME Floor(p, a) < b PROVE FALSE
  <2>1. Floor(p, a) + p <= b
    BY <1>1, MultiplesApart, FloorAndRest, FloorIsMultiple
  <2> QED BY <2>1, FloorAndRest
<1> QED BY <1>1, FloorAndRest

LEMMA FloorIsMonotone ==
  ASSUME NEW p \in Nat \ {0}, NEW a \in Nat, NEW b \in Nat, a <= b
  PROVE  Floor(p, a) <= Floor(p, b)
<1>1. Floor(p, a) \in Nat /\ Floor(p, a) % p = 0 /\ Floor(p, a) <= b
  BY FloorAndRest, FloorIsMultiple
<1> QED BY <1>1, FloorIsGreatest

----------------------------------------------------------------------------
(* Parts of a sequence.                                                    *)

\* The recursive function of Ascending exists, and for more numbers it is the
\* same on those before.
LEMMA AscendingSteps ==
  ASSUME NEW I
  PROVE  /\ Ascending(I, 0) = <<>>
         /\ \A n \in Nat : Ascending(I, n + 1) =
              IF n + 1 \in I THEN Append(Ascending(I, n), n + 1) ELSE Ascending(I, n)
<1> DEFINE Step(f, m) == IF m = 0 THEN <<>>
                         ELSE IF m \in I THEN Append(f[m - 1], m)
                         ELSE f[m - 1]
           IsUp(f, n) == f = [m \in 0..n |-> Step(f, m)]
           Up(n) == CHOOSE f : IsUp(f, n)
<1>1. \A n : Ascending(I, n) = Up(n)[n]
  BY DEF Ascending
<1>2. \A n \in Nat : \E f : IsUp(f, n)
  <2> DEFINE T == {n \in Nat : \E f : IsUp(f, n)}
  <2>1. 0 \in T
    <3> DEFINE f == [m \in 0..0 |-> <<>>]
    <3>1. IsUp(f, 0)
      OBVIOUS
    <3>2. \E g : IsUp(g, 0)
      <4> HIDE DEF IsUp, f
      <4> QED BY <3>1
    <3> QED BY <3>2
  <2>2. ASSUME NEW n \in Nat, n \in T PROVE n + 1 \in T
    <3>1. PICK f : IsUp(f, n)
      BY <2>2
    <3> DEFINE g == [m \in 0..(n + 1) |-> IF m <= n THEN f[m] ELSE Step(f, n + 1)]
    <3>2. \A m \in 0..(n + 1) : g[m] = Step(g, m)
      <4>1. \A m \in 0..n : f[m] = Step(f, m) /\ g[m] = f[m]
        <5>1. \A m \in 0..n : f[m] = Step(f, m)
          BY <3>1
        <5>2. \A m \in 0..n : g[m] = f[m]
          <6> HIDE DEF Step
          <6> QED OBVIOUS
        <5> HIDE DEF Step, g
        <5> QED BY <5>1, <5>2
      <4>2. ASSUME NEW m \in 0..n PROVE g[m] = Step(g, m)
        <5>1. m # 0 => m - 1 \in 0..n
          OBVIOUS
        <5>2. g[m] = f[m] /\ f[m] = Step(f, m)
          BY <4>1
        <5>3. m # 0 => g[m - 1] = f[m - 1]
          BY <4>1, <5>1
        <5> HIDE DEF g
        <5> QED BY <5>2, <5>3
      <4>3. g[n + 1] = Step(g, n + 1)
        <5>1. n + 1 \in 0..(n + 1) /\ ~ (n + 1 <= n) /\ n \in 0..n /\ n + 1 - 1 = n
          OBVIOUS
        <5>2. g[n + 1] = Step(f, n + 1)
          BY <5>1
        <5>3. g[n] = f[n] /\ n + 1 # 0
          BY <4>1, <5>1
        <5> HIDE DEF g
        <5> QED BY <5>1, <5>2, <5>3
      <4>4. \A m \in 0..(n + 1) : m \in 0..n \/ m = n + 1
        OBVIOUS
      <4> QED BY <4>2, <4>3, <4>4
    <3>3. IsUp(g, n + 1)
      <4> DEFINE h == [m \in 0..(n + 1) |-> Step(g, m)]
      <4>1. \A m \in 0..(n + 1) : g[m] = h[m]
        <5> HIDE DEF g, Step
        <5> QED BY <3>2
      <4> QED BY <4>1
    <3>4. \E h : IsUp(h, n + 1)
      <4> HIDE DEF IsUp, g
      <4> QED BY <3>3
    <3> HIDE DEF IsUp
    <3> QED BY <3>4
  <2> HIDE DEF T
  <2>3. \A n \in Nat : n \in T
    BY <2>1, <2>2, NumbersByInduction
  <2> QED BY <2>3 DEF T
<1>3. \A n \in Nat : IsUp(Up(n), n)
  <2> HIDE DEF IsUp
  <2> QED BY <1>2
<1> HIDE DEF Up
<1>4. \A n \in Nat : \A m \in 0..n : Up(n)[m] = Step(Up(n), m)
  BY <1>3
<1>5. \A n \in Nat : Up(n + 1)[n] = Up(n)[n]
  <2> SUFFICES ASSUME NEW n \in Nat PROVE Up(n + 1)[n] = Up(n)[n]
    OBVIOUS
  <2> DEFINE T == {m \in Nat : m <= n => Up(n + 1)[m] = Up(n)[m]}
  <2>1. 0 \in T
    BY <1>4
  <2>2. ASSUME NEW m \in Nat, m \in T PROVE m + 1 \in T
    <3>1. CASE m + 1 <= n
      <4>1. m + 1 \in 0..n /\ m + 1 \in 0..(n + 1) /\ m + 1 - 1 = m /\ m + 1 # 0
        BY <3>1
      <4>2. Up(n + 1)[m] = Up(n)[m]
        BY <2>2, <3>1
      <4>3. Up(n + 1)[m + 1] = Step(Up(n + 1), m + 1)
        BY <1>4, <4>1
      <4>4. Up(n)[m + 1] = Step(Up(n), m + 1)
        BY <1>4, <4>1
      <4> QED BY <4>1, <4>2, <4>3, <4>4
    <3> QED BY <3>1
  <2> HIDE DEF T
  <2>3. n \in T
    BY <2>1, <2>2, NumbersByInduction
  <2> QED BY <2>3 DEF T
<1>6. Ascending(I, 0) = <<>>
  BY <1>1, <1>4
<1>7. ASSUME NEW n \in Nat
      PROVE  Up(n + 1)[n + 1] =
               IF n + 1 \in I THEN Append(Up(n)[n], n + 1) ELSE Up(n)[n]
  <2>1. n + 1 \in 0..(n + 1) /\ n + 1 # 0 /\ n + 1 - 1 = n
    OBVIOUS
  <2>2. Up(n + 1)[n + 1] = Step(Up(n + 1), n + 1)
    BY <1>4, <2>1
  <2> QED BY <1>5, <2>1, <2>2
<1> QED BY <1>1, <1>6, <1>7

\* Every number of Ascending is one of the set.
LEMMA AscendingType ==
  ASSUME NEW I, NEW n \in Nat
  PROVE  Ascending(I, n) \in Seq(I \cap 1..n)
<1> DEFINE T == {m \in Nat : Ascending(I, m) \in Seq(I \cap 1..m)}
<1>1. 0 \in T
  <2>1. Ascending(I, 0) = <<>> /\ <<>> \in Seq(I \cap 1..0)
    BY AscendingSteps
  <2> QED BY <2>1
<1>2. ASSUME NEW m \in Nat, m \in T PROVE m + 1 \in T
  <2> DEFINE A == Ascending(I, m)
             S == I \cap 1..(m + 1)
  <2>1. A \in Seq(S)
    <3>1. A \in Seq(I \cap 1..m) /\ I \cap 1..m \subseteq S
      BY <1>2
    <3> HIDE DEF A, S
    <3> QED BY <3>1
  <2>2. Ascending(I, m + 1) = IF m + 1 \in I THEN Append(A, m + 1) ELSE A
    BY AscendingSteps
  <2>3. m + 1 \in I => m + 1 \in S
    OBVIOUS
  <2>4. Ascending(I, m + 1) \in Seq(S)
    <3> DEFINE e == m + 1
    <3> HIDE DEF A, S
    <3>1. e \in S => Append(A, e) \in Seq(S)
      <4> HIDE DEF e
      <4> QED BY <2>1
    <3> QED BY <2>1, <2>2, <2>3, <3>1
  <2> QED BY <2>4
<1> HIDE DEF T
<1>3. n \in T
  BY <1>1, <1>2, NumbersByInduction
<1> QED BY <1>3 DEF T

\* Ascending(I, n) depends on the numbers up to n alone.
LEMMA AscendingSame ==
  ASSUME NEW I, NEW J, NEW n \in Nat, \A i \in 1..n : i \in I <=> i \in J
  PROVE  Ascending(I, n) = Ascending(J, n)
<1> DEFINE T == {m \in Nat : m <= n => Ascending(I, m) = Ascending(J, m)}
<1>1. 0 \in T
  BY AscendingSteps
<1>2. ASSUME NEW m \in Nat, m \in T PROVE m + 1 \in T
  <2>1. CASE m + 1 <= n
    <3>1. m + 1 \in 1..n
      BY <2>1
    <3>2. m + 1 \in I <=> m + 1 \in J
      BY <3>1
    <3>3. Ascending(I, m) = Ascending(J, m)
      BY <1>2, <2>1
    <3>4. Ascending(I, m + 1) = Ascending(J, m + 1)
      BY <3>2, <3>3, AscendingSteps
    <3> QED BY <3>4
  <2> QED BY <2>1
<1> HIDE DEF T
<1>3. n \in T
  BY <1>1, <1>2, NumbersByInduction
<1> QED BY <1>3 DEF T

\* The numbers of an interval, one after the other.
LEMMA AscendingInterval ==
  ASSUME NEW a \in Nat \ {0}, NEW b \in Nat, a <= b, NEW n \in Nat, b <= n
  PROVE  Ascending(a..b, n) = [i \in 1..(b - a + 1) |-> a + i - 1]
<1> DEFINE upTo(m) == [i \in 1..(m - a + 1) |-> a + i - 1]
           T == {m \in Nat : m <= n =>
                  Ascending(a..b, m) = IF m < a THEN <<>>
                                       ELSE IF m <= b THEN upTo(m) ELSE upTo(b)}
<1>1. 0 \in T
  BY AscendingSteps
<1>2. ASSUME NEW m \in Nat, m \in T PROVE m + 1 \in T
  <2> SUFFICES ASSUME m + 1 <= n
               PROVE  Ascending(a..b, m + 1) = IF m + 1 < a THEN <<>>
                                               ELSE IF m + 1 <= b THEN upTo(m + 1) ELSE upTo(b)
    OBVIOUS
  <2>1. Ascending(a..b, m) = IF m < a THEN <<>> ELSE IF m <= b THEN upTo(m) ELSE upTo(b)
    BY <1>2
  <2>2. Ascending(a..b, m + 1) = IF m + 1 \in a..b THEN Append(Ascending(a..b, m), m + 1)
                                                  ELSE Ascending(a..b, m)
    BY AscendingSteps
  <2>3. CASE m + 1 < a
    BY <2>1, <2>2, <2>3
  <2>4. CASE m + 1 = a
    <3>1. Ascending(a..b, m + 1) = Append(<<>>, a)
      <4>1. m < a /\ m + 1 \in a..b
        BY <2>4
      <4>2. Ascending(a..b, m) = <<>>
        BY <2>1, <4>1, Zenon
      <4>3. Ascending(a..b, m + 1) = Append(Ascending(a..b, m), m + 1)
        BY <2>2, <4>1, Zenon
      <4> QED BY <2>4, <4>2, <4>3, Zenon
    <3>2. Append(<<>>, a) = <<a>>
      OBVIOUS
    <3>3. upTo(m + 1) = [i \in 1..1 |-> a + i - 1]
      BY <2>4
    <3>4. <<a>> = [i \in 1..1 |-> a + i - 1]
      OBVIOUS
    <3>5. Ascending(a..b, m + 1) = upTo(m + 1)
      BY <3>1, <3>2, <3>3, <3>4, Zenon
    <3>6. ~ (m + 1 < a) /\ m + 1 <= b
      BY <2>4
    <3> QED BY <3>5, <3>6, Zenon
  <2>5. CASE m >= a /\ m + 1 <= b
    <3>1. Ascending(a..b, m + 1) = Append(upTo(m), m + 1)
      <4>1. ~ (m < a) /\ m <= b /\ m + 1 \in a..b
        BY <2>5
      <4>2. Ascending(a..b, m) = upTo(m)
        BY <2>1, <4>1, Zenon
      <4>3. Ascending(a..b, m + 1) = Append(Ascending(a..b, m), m + 1)
        BY <2>2, <4>1, Zenon
      <4> QED BY <4>2, <4>3, Zenon
    <3>2. PICK k \in Nat : k = m - a + 1 /\ m + 1 = a + k
      BY <2>5
    <3>3. Append([i \in 1..k |-> a + i - 1], a + k) = [i \in 1..(k + 1) |-> a + i - 1]
      OBVIOUS
    <3>4. upTo(m + 1) = [i \in 1..(k + 1) |-> a + i - 1]
      BY <3>2
    <3>5. upTo(m) = [i \in 1..k |-> a + i - 1]
      BY <3>2
    <3>6. Ascending(a..b, m + 1) = upTo(m + 1)
      BY <3>1, <3>2, <3>3, <3>4, <3>5, Zenon
    <3>7. ~ (m + 1 < a) /\ m + 1 <= b
      BY <2>5
    <3> QED BY <3>6, <3>7, Zenon
  <2>6. CASE m >= b
    <3>1. m = b \/ ~ (m <= b)
      BY <2>6
    <3>2. ~ (m < a) /\ ~ (m + 1 < a) /\ ~ (m + 1 <= b) /\ m + 1 \notin a..b
      BY <2>6
    <3>3. Ascending(a..b, m) = upTo(b)
      BY <2>1, <3>1, <3>2, Zenon
    <3> QED BY <2>2, <3>2, <3>3, Zenon
  <2> QED BY <2>3, <2>4, <2>5, <2>6
<1> HIDE DEF T
<1>3. n \in T
  BY <1>1, <1>2, NumbersByInduction
<1>4. Ascending(a..b, n) = IF n <= b THEN upTo(n) ELSE upTo(b)
  BY <1>3 DEF T
<1> QED BY <1>4

\* The elements at some places.
LEMMA OnlyType ==
  ASSUME NEW S, NEW s \in Seq(S), NEW I
  PROVE  Only(s, I) \in Seq(S) /\ Len(Only(s, I)) = Len(Ascending(I, Len(s)))
<1> DEFINE chosen == Ascending(I, Len(s))
<1>1. Len(s) \in Nat /\ \A i \in 1..Len(s) : s[i] \in S
  OBVIOUS
<1>2. chosen \in Seq(I \cap 1..Len(s))
  BY <1>1, AscendingType
<1>3. Only(s, I) = [n \in DOMAIN chosen |-> s[chosen[n]]]
  BY DEF Only
<1> HIDE DEF chosen
<1>4. \A n \in 1..Len(chosen) : chosen[n] \in 1..Len(s)
  BY <1>2
<1>5. DOMAIN chosen = 1..Len(chosen) /\ Len(chosen) \in Nat
  BY <1>2
<1> QED BY <1>1, <1>3, <1>4, <1>5 DEF chosen

\* One element more.
LEMMA OnlyAppend ==
  ASSUME NEW S, NEW s \in Seq(S), NEW e \in S, NEW I, NEW J,
         \A i \in 1..Len(s) : i \in I <=> i \in J
  PROVE  Only(Append(s, e), J) =
           IF Len(s) + 1 \in J THEN Append(Only(s, I), e) ELSE Only(s, I)
<1> DEFINE n == Len(s)
           t == Append(s, e)
           a == Ascending(I, n)
           b == Ascending(J, n + 1)
<1>1. n \in Nat /\ Len(t) = n + 1 /\ t[n + 1] = e /\ \A i \in 1..n : t[i] = s[i]
  OBVIOUS
<1>2. Ascending(J, n) = a
  BY <1>1, AscendingSame
<1>3. b = IF n + 1 \in J THEN Append(a, n + 1) ELSE a
  BY <1>1, <1>2, AscendingSteps
<1>4. a \in Seq(1..n)
  <2>1. a \in Seq(I \cap 1..n) /\ I \cap 1..n \subseteq 1..n
    BY <1>1, AscendingType
  <2> HIDE DEF a
  <2> QED BY <2>1
<1>5. Only(t, J) = [i \in DOMAIN b |-> t[b[i]]]
  BY <1>1 DEF Only
<1>6. Only(s, I) = [i \in DOMAIN a |-> s[a[i]]]
  BY DEF Only
<1>7. Only(s, I) \in Seq(S)
  BY OnlyType
<1> HIDE DEF a, b, n, t
<1>8. \A i \in DOMAIN a : a[i] \in 1..n /\ t[a[i]] = s[a[i]]
  BY <1>1, <1>4
<1>9. CASE n + 1 \notin J
  BY <1>3, <1>5, <1>6, <1>8, <1>9 DEF n, t
<1>10. CASE n + 1 \in J
  <2> DEFINE m == Len(a)
  <2>1. b = Append(a, n + 1) /\ m \in Nat /\ DOMAIN a = 1..m
    BY <1>3, <1>4, <1>10
  <2>2. DOMAIN b = 1..(m + 1) /\ b[m + 1] = n + 1 /\ \A i \in 1..m : b[i] = a[i]
    BY <1>1, <1>4, <2>1
  <2> DEFINE o == Only(s, I)
  <2>3. Len(o) = m /\ \A i \in 1..m : o[i] = s[a[i]]
    BY <1>6, <1>7, <2>1
  <2>4. DOMAIN Append(o, e) = 1..(m + 1) /\ Append(o, e)[m + 1] = e
        /\ \A i \in 1..m : Append(o, e)[i] = o[i]
    <3> HIDE DEF o, m
    <3>1. o \in Seq(S)
      BY <1>7 DEF o
    <3> QED BY <3>1, <2>1, <2>3
  <2>5. Append(o, e) \in Seq(S)
    BY <1>7
  <2>6. Append(o, e) = [i \in 1..(m + 1) |-> Append(o, e)[i]]
    <3> DEFINE p == Append(o, e)
    <3>1. p \in Seq(S) /\ DOMAIN p = 1..(m + 1)
      BY <2>4, <2>5
    <3> HIDE DEF p, m
    <3>2. p = [i \in DOMAIN p |-> p[i]]
      BY <3>1
    <3>3. p = [i \in 1..(m + 1) |-> p[i]]
      BY <3>1, <3>2
    <3> QED BY <3>3 DEF p
  <2>7. \A i \in 1..(m + 1) : Append(o, e)[i] = t[b[i]]
    <3> HIDE DEF o, m
    <3>1. \A i \in 1..(m + 1) : i \in 1..m \/ i = m + 1
      BY <2>1
    <3> QED BY <1>1, <1>8, <2>1, <2>2, <2>3, <2>4, <3>1
  <2>8. Only(t, J) = Append(o, e)
    <3> HIDE DEF o, m
    <3> QED BY <1>5, <2>2, <2>6, <2>7
  <2> QED BY <1>10, <2>8 DEF n, t
<1> QED BY <1>9, <1>10 DEF n, t

\* Only elements at the places that are asked for.
LEMMA OnlySome ==
  ASSUME NEW S, NEW s \in Seq(S), NEW I, NEW T, \A i \in 1..Len(s) : i \in I => s[i] \in T
  PROVE  Only(s, I) \in Seq(T)
<1> DEFINE chosen == Ascending(I, Len(s))
<1>1. Len(s) \in Nat
  OBVIOUS
<1>2. chosen \in Seq(I \cap 1..Len(s))
  BY <1>1, AscendingType
<1>3. Only(s, I) = [n \in DOMAIN chosen |-> s[chosen[n]]]
  BY DEF Only
<1> HIDE DEF chosen
<1>4. DOMAIN chosen = 1..Len(chosen) /\ Len(chosen) \in Nat
  BY <1>2
<1>5. \A n \in 1..Len(chosen) : s[chosen[n]] \in T
  BY <1>2
<1> QED BY <1>3, <1>4, <1>5

\* The numbers up to n come first.
LEMMA AscendingPrefix ==
  ASSUME NEW I, NEW n \in Nat, NEW m \in Nat, n <= m
  PROVE  /\ Len(Ascending(I, n)) \in Nat /\ Len(Ascending(I, m)) \in Nat
         /\ Len(Ascending(I, n)) <= Len(Ascending(I, m))
         /\ \A i \in 1..Len(Ascending(I, n)) : Ascending(I, m)[i] = Ascending(I, n)[i]
<1> DEFINE a == Ascending(I, n)
           T == {d \in Nat : /\ Len(a) <= Len(Ascending(I, n + d))
                             /\ \A i \in 1..Len(a) : Ascending(I, n + d)[i] = a[i]}
<1>1. \A k \in Nat : Ascending(I, k) \in Seq(Nat) /\ Len(Ascending(I, k)) \in Nat
  <2> SUFFICES ASSUME NEW k \in Nat PROVE Ascending(I, k) \in Seq(Nat)
    OBVIOUS
  <2>1. Ascending(I, k) \in Seq(I \cap 1..k) /\ I \cap 1..k \subseteq Nat
    BY AscendingType
  <2> QED BY <2>1
<1>2. 0 \in T
  BY <1>1
<1>3. ASSUME NEW d \in Nat, d \in T PROVE d + 1 \in T
  <2> DEFINE k == n + d
             b == Ascending(I, k)
             c == Ascending(I, k + 1)
  <2>1. k \in Nat /\ n + (d + 1) = k + 1
    OBVIOUS
  <2>2. c = IF k + 1 \in I THEN Append(b, k + 1) ELSE b
    BY <2>1, AscendingSteps
  <2>3. Len(a) <= Len(b) /\ \A i \in 1..Len(a) : b[i] = a[i]
    BY <1>3
  <2>4. a \in Seq(Nat) /\ b \in Seq(Nat) /\ Len(a) \in Nat /\ Len(b) \in Nat
    BY <1>1, <2>1
  <2>5. Ascending(I, n + (d + 1)) = c
    BY <2>1
  <2> DEFINE e == k + 1
  <2> HIDE DEF a, b, c, k, e
  <2>6. c = Append(b, e) \/ c = b
    BY <2>2 DEF e
  <2>7. e \in Nat
    BY <2>1 DEF e
  <2>8. Len(b) <= Len(c) /\ \A i \in 1..Len(b) : c[i] = b[i]
    BY <2>4, <2>6, <2>7
  <2>9. Len(c) \in Nat
    BY <2>4, <2>6, <2>7
  <2>10. Len(a) <= Len(c) /\ \A i \in 1..Len(a) : c[i] = a[i]
    BY <2>3, <2>4, <2>8, <2>9
  <2> QED BY <2>5, <2>10
<1> HIDE DEF T, a
<1>4. \A d \in Nat : d \in T
  BY <1>2, <1>3, NumbersByInduction
<1>5. m - n \in T /\ n + (m - n) = m
  BY <1>4
<1>6. Len(a) <= Len(Ascending(I, m)) /\ \A i \in 1..Len(a) : Ascending(I, m)[i] = a[i]
  BY <1>5 DEF T
<1> QED BY <1>1, <1>6 DEF a

\* Where a number of the set comes.
LEMMA AscendingPlace ==
  ASSUME NEW I, NEW n \in Nat, NEW m \in Nat, n < m, n + 1 \in I
  PROVE  /\ Len(Ascending(I, n)) + 1 \in 1..Len(Ascending(I, m))
         /\ Ascending(I, m)[Len(Ascending(I, n)) + 1] = n + 1
         /\ Len(Ascending(I, n + 1)) = Len(Ascending(I, n)) + 1
<1> DEFINE a == Ascending(I, n)
           b == Ascending(I, n + 1)
<1>1. b = Append(a, n + 1)
  BY AscendingSteps
<1>2. a \in Seq(I \cap 1..n)
  BY AscendingType
<1>3. /\ Len(a) \in Nat /\ Len(b) = Len(a) + 1 /\ b[Len(a) + 1] = n + 1
  <2> HIDE DEF a
  <2> QED BY <1>1, <1>2
<1> HIDE DEF a, b
<1>4. /\ Len(Ascending(I, m)) \in Nat /\ Len(b) <= Len(Ascending(I, m))
      /\ \A i \in 1..Len(b) : Ascending(I, m)[i] = b[i]
  BY AscendingPrefix DEF b
<1> QED BY <1>3, <1>4 DEF a, b

\* What is in the elements at some places.
LEMMA RangeOfOnly ==
  ASSUME NEW S, NEW s \in Seq(S), NEW I
  PROVE  ToSet(Only(s, I)) = {s[i] : i \in I \cap 1..Len(s)}
<1> DEFINE n == Len(s)
           a == Ascending(I, n)
           o == Only(s, I)
<1>1. n \in Nat
  OBVIOUS
<1>2. a \in Seq(I \cap 1..n)
  BY <1>1, AscendingType
<1>3. o = [i \in DOMAIN a |-> s[a[i]]]
  BY DEF Only
<1>4. \A i \in I \cap 1..n : \E j \in DOMAIN a : a[j] = i
  <2> SUFFICES ASSUME NEW i \in I \cap 1..n PROVE \E j \in DOMAIN a : a[j] = i
    OBVIOUS
  <2> DEFINE k == i - 1
  <2>1. k \in Nat /\ k < n /\ k + 1 = i
    BY <1>1
  <2> HIDE DEF k
  <2>2. /\ Len(Ascending(I, k)) + 1 \in 1..Len(a)
        /\ a[Len(Ascending(I, k)) + 1] = i
    BY <1>1, <2>1, AscendingPlace
  <2>3. DOMAIN a = 1..Len(a)
    BY <1>2
  <2> QED BY <2>2, <2>3
<1>5. \A j \in DOMAIN a : a[j] \in I \cap 1..n
  BY <1>2
<1> HIDE DEF a, n
<1> QED BY <1>3, <1>4, <1>5 DEF ToSet, n

----------------------------------------------------------------------------
(* Sequences of sequences.                                                 *)

\* The first n of the sequences in f, one after the other.
Joined(f, n) == FlattenSeq([i \in 1..n |-> f[i]])

\* The recursive function of FlattenSeq exists, and for more sequences it is
\* the same on those before.
LEMMA JoinedSteps ==
  ASSUME NEW f
  PROVE  /\ Joined(f, 0) = <<>>
         /\ Joined(f, 1) = f[1]
         /\ \A n \in Nat \ {0} : Joined(f, n + 1) = Joined(f, n) \o f[n + 1]
<1> DEFINE Step(g, i) == IF i = 1 THEN f[i] ELSE g[i - 1] \o f[i]
           IsFlat(g, n) == g = [i \in 1..n |-> Step(g, i)]
           Flat(n) == CHOOSE g : IsFlat(g, n)
           first(n) == [i \in 1..n |-> f[i]]
<1>1. \A n \in Nat : first(n) \in Seq({f[i] : i \in 1..n}) /\ Len(first(n)) = n
  OBVIOUS
<1>2. \A n \in Nat : n # 0 => Joined(f, n) = Flat(n)[n]
  <2> SUFFICES ASSUME NEW n \in Nat, n # 0 PROVE Joined(f, n) = Flat(n)[n]
    OBVIOUS
  <2> DEFINE s == first(n)
             Same(g) == g = [i \in 1..Len(s) |-> IF i = 1 THEN s[i] ELSE g[i - 1] \o s[i]]
  <2>1. Len(s) = n
    BY <1>1
  <2>2. \A i \in 1..n : s[i] = f[i]
    OBVIOUS
  <2>3. Joined(f, n) = (CHOOSE g : Same(g))[Len(s)]
    <3>1. Joined(f, n) = FlattenSeq(s)
      BY DEF Joined
    <3> HIDE DEF s
    <3> QED BY <3>1, <2>1 DEF FlattenSeq
  <2>4. \A g : Same(g) <=> IsFlat(g, n)
    <3> HIDE DEF s
    <3> SUFFICES ASSUME NEW g PROVE Same(g) <=> IsFlat(g, n)
      OBVIOUS
    <3> DEFINE a == [i \in 1..Len(s) |-> IF i = 1 THEN s[i] ELSE g[i - 1] \o s[i]]
               b == [i \in 1..n |-> Step(g, i)]
    <3>1. a = b
      BY <2>1, <2>2
    <3> QED BY <3>1
  <2>5. (CHOOSE g : Same(g)) = Flat(n)
    <3> HIDE DEF Same, IsFlat
    <3> QED BY <2>4
  <2> QED BY <2>1, <2>3, <2>5
<1>3. \A n \in Nat : \E g : IsFlat(g, n)
  <2> DEFINE T == {n \in Nat : \E g : IsFlat(g, n)}
  <2>1. 0 \in T
    <3> DEFINE g == [i \in 1..0 |-> <<>>]
    <3>1. IsFlat(g, 0)
      OBVIOUS
    <3>2. \E h : IsFlat(h, 0)
      <4> HIDE DEF IsFlat, g
      <4> QED BY <3>1
    <3> QED BY <3>2
  <2>2. ASSUME NEW n \in Nat, n \in T PROVE n + 1 \in T
    <3>1. PICK g : IsFlat(g, n)
      BY <2>2
    <3> DEFINE h == [i \in 1..(n + 1) |-> IF i <= n THEN g[i] ELSE Step(g, n + 1)]
    <3>2. \A i \in 1..n : g[i] = Step(g, i)
      BY <3>1
    <3>3. \A i \in 1..n : h[i] = g[i]
      <4> HIDE DEF Step
      <4> QED OBVIOUS
    <3>4. h[n + 1] = Step(g, n + 1)
      <4> HIDE DEF Step
      <4> QED OBVIOUS
    <3> HIDE DEF h
    <3>5. \A i \in 1..n : Step(h, i) = Step(g, i)
      <4> SUFFICES ASSUME NEW i \in 1..n, i # 1 PROVE h[i - 1] = g[i - 1]
        OBVIOUS
      <4>1. i - 1 \in 1..n
        OBVIOUS
      <4> QED BY <3>3, <4>1
    <3>6. Step(h, n + 1) = Step(g, n + 1)
      <4> SUFFICES ASSUME n + 1 # 1 PROVE h[n + 1 - 1] = g[n + 1 - 1]
        OBVIOUS
      <4>1. n + 1 - 1 \in 1..n
        OBVIOUS
      <4> QED BY <3>3, <4>1
    <3>7. \A i \in 1..(n + 1) : h[i] = Step(h, i)
      <4> HIDE DEF Step
      <4>1. \A i \in 1..(n + 1) : i \in 1..n \/ i = n + 1
        OBVIOUS
      <4> QED BY <3>2, <3>3, <3>4, <3>5, <3>6, <4>1
    <3>8. IsFlat(h, n + 1)
      <4>1. h = [i \in 1..(n + 1) |-> h[i]]
        BY DEF h
      <4> DEFINE u == [i \in 1..(n + 1) |-> Step(h, i)]
      <4>2. h = u
        <5> HIDE DEF Step
        <5> QED BY <3>7, <4>1
      <4> QED BY <4>2
    <3>9. \E e : IsFlat(e, n + 1)
      <4> HIDE DEF IsFlat
      <4> QED BY <3>8
    <3> HIDE DEF IsFlat
    <3> QED BY <3>9
  <2> HIDE DEF T
  <2>3. \A n \in Nat : n \in T
    BY <2>1, <2>2, NumbersByInduction
  <2> QED BY <2>3 DEF T
<1>4. \A n \in Nat : IsFlat(Flat(n), n)
  <2> HIDE DEF IsFlat
  <2> QED BY <1>3
<1> HIDE DEF Flat
<1>5. \A n \in Nat : \A i \in 1..n : Flat(n)[i] = Step(Flat(n), i)
  <2> SUFFICES ASSUME NEW n \in Nat, NEW i \in 1..n PROVE Flat(n)[i] = Step(Flat(n), i)
    OBVIOUS
  <2>1. Flat(n) = [j \in 1..n |-> Step(Flat(n), j)]
    BY <1>4
  <2> HIDE DEF Step
  <2> QED BY <2>1
<1>10. \A g, k : k \in Nat \ {0} => Step(g, k + 1) = g[k] \o f[k + 1]
  <2> SUFFICES ASSUME NEW g, NEW k \in Nat \ {0} PROVE Step(g, k + 1) = g[k] \o f[k + 1]
    OBVIOUS
  <2> DEFINE j == k + 1
  <2>1. j # 1 /\ j - 1 = k
    OBVIOUS
  <2> HIDE DEF j
  <2>2. Step(g, j) = g[k] \o f[j]
    BY <2>1, Zenon
  <2> QED BY <2>2 DEF j
<1>6. ASSUME NEW n \in Nat, n # 0 PROVE Flat(n + 1)[n] = Flat(n)[n]
  <2> DEFINE T == {m \in Nat : m + 1 <= n => Flat(n + 1)[m + 1] = Flat(n)[m + 1]}
  <2>1. 0 \in T
    BY <1>5
  <2>2. ASSUME NEW m \in Nat, m \in T PROVE m + 1 \in T
    <3>1. CASE m + 1 + 1 <= n
      <4> DEFINE k == m + 1
      <4>1. /\ k + 1 \in 1..n /\ k + 1 \in 1..(n + 1) /\ k \in Nat \ {0} /\ k <= n
            /\ n + 1 \in Nat
        BY <3>1
      <4>2. Flat(n + 1)[k] = Flat(n)[k]
        BY <2>2, <4>1
      <4> HIDE DEF k, Step
      <4>3. Flat(n + 1)[k + 1] = Step(Flat(n + 1), k + 1)
        BY <1>5, <4>1
      <4>4. Flat(n)[k + 1] = Step(Flat(n), k + 1)
        BY <1>5, <4>1
      <4>5. Flat(n + 1)[k + 1] = Flat(n)[k + 1]
        BY <1>10, <4>1, <4>2, <4>3, <4>4
      <4> QED BY <4>5 DEF k
    <3> QED BY <3>1
  <2> HIDE DEF T
  <2>3. n - 1 \in T
    BY <1>6, <2>1, <2>2, NumbersByInduction
  <2> QED BY <1>6, <2>3 DEF T
<1>7. ASSUME NEW n \in Nat \ {0} PROVE Joined(f, n + 1) = Joined(f, n) \o f[n + 1]
  <2> HIDE DEF Step
  <2>1. n + 1 \in 1..(n + 1) /\ n + 1 # 0 /\ n + 1 \in Nat
    OBVIOUS
  <2>2. Flat(n + 1)[n + 1] = Step(Flat(n + 1), n + 1)
    BY <1>5, <2>1
  <2>3. Flat(n + 1)[n] = Flat(n)[n]
    BY <1>6
  <2>4. Joined(f, n + 1) = Flat(n + 1)[n + 1] /\ Joined(f, n) = Flat(n)[n]
    BY <1>2, <2>1
  <2>5. Step(Flat(n + 1), n + 1) = Flat(n + 1)[n] \o f[n + 1]
    BY <1>10
  <2> QED BY <2>2, <2>3, <2>4, <2>5
<1>8. Joined(f, 1) = f[1]
  <2>1. Flat(1)[1] = Step(Flat(1), 1)
    BY <1>5
  <2> QED BY <1>2, <2>1
<1>9. Joined(f, 0) = <<>>
  <2> DEFINE s == first(0)
  <2>1. Len(s) = 0 /\ s = <<>>
    BY <1>1
  <2> HIDE DEF s
  <2>2. Joined(f, 0) = FlattenSeq(s)
    BY DEF Joined, s
  <2> QED BY <2>1, <2>2 DEF FlattenSeq
<1> QED BY <1>7, <1>8, <1>9

\* A property of all elements of the sequences is one of all elements joined.
LEMMA JoinedType ==
  ASSUME NEW S, NEW f, NEW n \in Nat, \A i \in 1..n : f[i] \in Seq(S)
  PROVE  /\ Joined(f, n) \in Seq(S)
         /\ n # 0 => Joined(f, n) = Joined(f, n - 1) \o f[n]
<1> DEFINE T == {m \in Nat : m <= n => Joined(f, m) \in Seq(S)}
<1>1. 0 \in T
  <2>1. Joined(f, 0) = <<>> /\ <<>> \in Seq(S)
    BY JoinedSteps
  <2> QED BY <2>1
<1>2. ASSUME NEW m \in Nat, m \in T PROVE m + 1 \in T
  <2> SUFFICES ASSUME m + 1 <= n PROVE Joined(f, m + 1) \in Seq(S)
    OBVIOUS
  <2>1. m + 1 \in 1..n /\ Joined(f, m) \in Seq(S)
    BY <1>2
  <2>2. f[m + 1] \in Seq(S)
    BY <2>1
  <2>3. CASE m = 0
    BY <2>2, <2>3, JoinedSteps
  <2>4. CASE m # 0
    <3>1. Joined(f, m + 1) = Joined(f, m) \o f[m + 1]
      BY <2>4, JoinedSteps
    <3> DEFINE a == Joined(f, m)
               b == f[m + 1]
    <3>2. a \in Seq(S) /\ b \in Seq(S)
      BY <2>1, <2>2
    <3> HIDE DEF a, b
    <3>3. a \o b \in Seq(S)
      BY <3>2
    <3> QED BY <3>1, <3>3 DEF a, b
  <2> QED BY <2>3, <2>4
<1> HIDE DEF T
<1>3. \A m \in Nat : m \in T
  BY <1>1, <1>2, NumbersByInduction
<1>4. \A m \in 0..n : Joined(f, m) \in Seq(S)
  BY <1>3 DEF T
<1>5. n # 0 => Joined(f, n) = Joined(f, n - 1) \o f[n]
  <2>1. CASE n = 1
    <3>1. <<>> \o f[1] = f[1]
      BY <2>1
    <3> QED BY <2>1, <3>1, JoinedSteps
  <2>2. CASE n # 1 /\ n # 0
    <3>1. n - 1 \in Nat \ {0} /\ n - 1 + 1 = n
      BY <2>2
    <3> QED BY <3>1, JoinedSteps
  <2> QED BY <2>1, <2>2
<1>6. Joined(f, n) \in Seq(S)
  BY <1>4
<1> QED BY <1>5, <1>6

LEMMA Concatenated ==
  ASSUME NEW S, NEW s \in Seq(S), NEW t \in Seq(S)
  PROVE  /\ s \o t \in Seq(S) /\ Len(s \o t) = Len(s) + Len(t)
         /\ \A a \in 1..Len(s) : (s \o t)[a] = s[a]
         /\ \A a \in (Len(s) + 1)..(Len(s) + Len(t)) : (s \o t)[a] = t[a - Len(s)]
  OBVIOUS

\* No element of s is at two places.
AllApart(s) == \A a, b \in DOMAIN s : a # b => s[a] # s[b]

LEMMA ApartWhenBothAre ==
  ASSUME NEW S, NEW s \in Seq(S), NEW t \in Seq(S), AllApart(s), AllApart(t),
         ToSet(s) \cap ToSet(t) = {}
  PROVE  AllApart(s \o t)
<1> DEFINE st == s \o t
<1>1. /\ Len(s) \in Nat /\ Len(t) \in Nat /\ Len(st) = Len(s) + Len(t)
      /\ DOMAIN st = 1..(Len(s) + Len(t))
      /\ DOMAIN s = 1..Len(s) /\ DOMAIN t = 1..Len(t)
  BY Concatenated
<1>2. /\ \A a \in 1..Len(s) : st[a] = s[a]
      /\ \A a \in (Len(s) + 1)..(Len(s) + Len(t)) : st[a] = t[a - Len(s)]
  BY Concatenated
<1> HIDE DEF st
<1>3. \A a \in 1..Len(s) : st[a] \in ToSet(s)
  BY <1>1, <1>2 DEF ToSet
<1>4. ASSUME NEW a \in (Len(s) + 1)..(Len(s) + Len(t))
      PROVE  a - Len(s) \in 1..Len(t) /\ st[a] = t[a - Len(s)] /\ st[a] \in ToSet(t)
  <2>1. a - Len(s) \in 1..Len(t)
    BY <1>1
  <2>2. st[a] = t[a - Len(s)]
    BY <1>2
  <2> QED BY <1>1, <2>1, <2>2 DEF ToSet
<1>5. SUFFICES ASSUME NEW a \in DOMAIN st, NEW b \in DOMAIN st, a # b
               PROVE  st[a] # st[b]
  BY DEF AllApart, st
<1>6. CASE a <= Len(s) /\ b <= Len(s)
  <2>1. a \in 1..Len(s) /\ b \in 1..Len(s)
    BY <1>1, <1>6
  <2> QED BY <1>1, <1>2, <1>5, <2>1 DEF AllApart
<1>7. CASE a > Len(s) /\ b > Len(s)
  <2>1. a \in (Len(s) + 1)..(Len(s) + Len(t)) /\ b \in (Len(s) + 1)..(Len(s) + Len(t))
    BY <1>1, <1>7
  <2> DEFINE c == a - Len(s)
             d == b - Len(s)
  <2>2. c \in DOMAIN t /\ d \in DOMAIN t /\ st[a] = t[c] /\ st[b] = t[d]
    BY <1>1, <1>4, <2>1
  <2>3. c # d
    BY <1>1, <1>5, <2>1
  <2> HIDE DEF c, d
  <2> QED BY <2>2, <2>3 DEF AllApart
<1>8. CASE a <= Len(s) /\ b > Len(s)
  <2>1. a \in 1..Len(s) /\ b \in (Len(s) + 1)..(Len(s) + Len(t))
    BY <1>1, <1>8
  <2>2. st[a] \in ToSet(s) /\ st[b] \in ToSet(t)
    BY <1>3, <1>4, <2>1
  <2> QED BY <2>2
<1>9. CASE a > Len(s) /\ b <= Len(s)
  <2>1. b \in 1..Len(s) /\ a \in (Len(s) + 1)..(Len(s) + Len(t))
    BY <1>1, <1>9
  <2>2. st[b] \in ToSet(s) /\ st[a] \in ToSet(t)
    BY <1>3, <1>4, <2>1
  <2> QED BY <2>2
<1>10. a \in Nat /\ b \in Nat
  BY <1>1
<1> QED BY <1>1, <1>6, <1>7, <1>8, <1>9, <1>10

LEMMA RangeOfConcatenated ==
  ASSUME NEW S, NEW s \in Seq(S), NEW t \in Seq(S)
  PROVE  ToSet(s \o t) = ToSet(s) \cup ToSet(t)
<1> DEFINE st == s \o t
<1>1. /\ Len(s) \in Nat /\ Len(t) \in Nat
      /\ DOMAIN st = 1..(Len(s) + Len(t))
      /\ DOMAIN s = 1..Len(s) /\ DOMAIN t = 1..Len(t)
  BY Concatenated
<1>2. /\ \A a \in 1..Len(s) : st[a] = s[a]
      /\ \A a \in (Len(s) + 1)..(Len(s) + Len(t)) : st[a] = t[a - Len(s)]
  BY Concatenated
<1> HIDE DEF st
<1>3. ASSUME NEW a \in DOMAIN st PROVE st[a] \in ToSet(s) \cup ToSet(t)
  <2>1. CASE a \in 1..Len(s)
    BY <1>1, <1>2, <2>1 DEF ToSet
  <2>2. CASE a \in (Len(s) + 1)..(Len(s) + Len(t))
    <3>1. a - Len(s) \in DOMAIN t
      BY <1>1, <2>2
    <3> QED BY <1>2, <2>2, <3>1 DEF ToSet
  <2> QED BY <1>1, <2>1, <2>2
<1>4. ASSUME NEW a \in DOMAIN s PROVE s[a] \in ToSet(st)
  <2>1. a \in DOMAIN st /\ st[a] = s[a]
    BY <1>1, <1>2
  <2> QED BY <2>1 DEF ToSet
<1>5. ASSUME NEW a \in DOMAIN t PROVE t[a] \in ToSet(st)
  <2> DEFINE b == a + Len(s)
  <2>1. b \in (Len(s) + 1)..(Len(s) + Len(t)) /\ b \in DOMAIN st /\ b - Len(s) = a
    BY <1>1
  <2> HIDE DEF b
  <2>2. st[b] = t[a]
    BY <1>2, <2>1
  <2> QED BY <2>1, <2>2 DEF ToSet
<1>6. ToSet(st) = ToSet(s) \cup ToSet(t)
  BY <1>3, <1>4, <1>5 DEF ToSet
<1> QED BY <1>6 DEF st

\* One step of joining, also for the first sequence.
LEMMA JoinedNext ==
  ASSUME NEW S, NEW f, NEW n \in Nat, \A i \in 1..n : f[i] \in Seq(S), NEW m \in Nat, m < n
  PROVE  /\ Joined(f, m) \in Seq(S) /\ f[m + 1] \in Seq(S)
         /\ Joined(f, m + 1) = Joined(f, m) \o f[m + 1]
<1>1. Joined(f, m) \in Seq(S)
  <2>1. \A i \in 1..m : f[i] \in Seq(S)
    <3>1. \A i \in 1..m : i \in 1..n
      OBVIOUS
    <3> QED BY <3>1
  <2> QED BY <2>1, JoinedType
<1> DEFINE k == m + 1
<1>2. k \in Nat /\ k # 0 /\ k - 1 = m /\ k \in 1..n
  OBVIOUS
<1> HIDE DEF k
<1>3. \A i \in 1..k : f[i] \in Seq(S)
  BY <1>2
<1>4. Joined(f, k) = Joined(f, k - 1) \o f[k]
  BY <1>2, <1>3, JoinedType
<1>5. Joined(f, k) = Joined(f, m) \o f[k]
  BY <1>2, <1>4, Zenon
<1>6. f[k] \in Seq(S)
  BY <1>2
<1> QED BY <1>1, <1>5, <1>6 DEF k

\* Sequences that are apart, from each other too, are apart when they are joined.
LEMMA JoinedApart ==
  ASSUME NEW S, NEW f, NEW n \in Nat,
         \A i \in 1..n : f[i] \in Seq(S) /\ AllApart(f[i]),
         \A i, j \in 1..n : i # j => ToSet(f[i]) \cap ToSet(f[j]) = {}
  PROVE  AllApart(Joined(f, n))
<1> DEFINE T == {m \in Nat : m <= n =>
                   /\ AllApart(Joined(f, m))
                   /\ \A x \in ToSet(Joined(f, m)) : \E i \in 1..m : x \in ToSet(f[i])}
<1>1. 0 \in T
  <2>1. Joined(f, 0) = <<>> /\ DOMAIN <<>> = {}
    BY JoinedSteps
  <2> QED BY <2>1 DEF AllApart, ToSet
<1>2. ASSUME NEW m \in Nat, m \in T PROVE m + 1 \in T
  <2> SUFFICES ASSUME m + 1 <= n
               PROVE  /\ AllApart(Joined(f, m + 1))
                      /\ \A x \in ToSet(Joined(f, m + 1)) :
                           \E i \in 1..(m + 1) : x \in ToSet(f[i])
    OBVIOUS
  <2> DEFINE s == Joined(f, m)
             t == f[m + 1]
  <2>1. m + 1 \in 1..n /\ m < n
    OBVIOUS
  <2>2. /\ AllApart(s)
        /\ \A x \in ToSet(s) : \E i \in 1..m : x \in ToSet(f[i])
    BY <1>2, <2>1
  <2>3. s \in Seq(S) /\ t \in Seq(S) /\ Joined(f, m + 1) = s \o t /\ AllApart(t)
    BY <2>1, JoinedNext
  <2>4. ToSet(s) \cap ToSet(t) = {}
    <3> SUFFICES ASSUME NEW x \in ToSet(s), x \in ToSet(t) PROVE FALSE
      OBVIOUS
    <3>1. PICK i \in 1..m : x \in ToSet(f[i])
      BY <2>2
    <3>2. i \in 1..n /\ i # m + 1
      BY <2>1
    <3> QED BY <2>1, <3>1, <3>2
  <2>5. ToSet(s \o t) = ToSet(s) \cup ToSet(t)
    BY <2>3, RangeOfConcatenated
  <2>6. ASSUME NEW x \in ToSet(s \o t) PROVE \E i \in 1..(m + 1) : x \in ToSet(f[i])
    <3>1. CASE x \in ToSet(s)
      <4>1. PICK i \in 1..m : x \in ToSet(f[i])
        BY <2>2, <3>1
      <4>2. i \in 1..(m + 1)
        OBVIOUS
      <4> QED BY <4>1, <4>2
    <3>2. CASE x \in ToSet(t)
      <4>1. m + 1 \in 1..(m + 1)
        OBVIOUS
      <4> QED BY <3>2, <4>1
    <3> QED BY <2>5, <3>1, <3>2
  <2>7. AllApart(s \o t)
    BY <2>2, <2>3, <2>4, ApartWhenBothAre
  <2> HIDE DEF s, t
  <2> QED BY <2>3, <2>6, <2>7
<1> HIDE DEF T
<1>3. n \in T
  BY <1>1, <1>2, NumbersByInduction
<1> QED BY <1>3 DEF T

\* The sequences that are joined first come first.
LEMMA JoinedPrefix ==
  ASSUME NEW S, NEW f, NEW n \in Nat, \A i \in 1..n : f[i] \in Seq(S), NEW m \in Nat, m <= n
  PROVE  /\ Joined(f, m) \in Seq(S) /\ Len(Joined(f, m)) \in Nat
         /\ Len(Joined(f, n)) \in Nat
         /\ Len(Joined(f, m)) <= Len(Joined(f, n))
         /\ \A a \in 1..Len(Joined(f, m)) : Joined(f, n)[a] = Joined(f, m)[a]
<1> DEFINE s == Joined(f, m)
           T == {d \in Nat : m + d <= n =>
                   /\ Len(s) <= Len(Joined(f, m + d))
                   /\ \A a \in 1..Len(s) : Joined(f, m + d)[a] = s[a]}
<1>1. \A k \in Nat : k <= n => Joined(f, k) \in Seq(S) /\ Len(Joined(f, k)) \in Nat
  <2> SUFFICES ASSUME NEW k \in Nat, k <= n PROVE Joined(f, k) \in Seq(S)
    OBVIOUS
  <2>1. \A i \in 1..k : f[i] \in Seq(S)
    OBVIOUS
  <2> QED BY <2>1, JoinedType
<1>2. 0 \in T
  BY <1>1
<1>3. ASSUME NEW d \in Nat, d \in T PROVE d + 1 \in T
  <2> SUFFICES ASSUME m + (d + 1) <= n PROVE d + 1 \in T
    OBVIOUS
  <2> DEFINE k == m + d
             t == Joined(f, k)
             u == f[k + 1]
  <2>1. k \in Nat /\ k < n /\ k <= n /\ m + (d + 1) = k + 1
    OBVIOUS
  <2>2. t \in Seq(S) /\ u \in Seq(S) /\ Joined(f, k + 1) = t \o u
    BY <2>1, JoinedNext
  <2>3. Len(s) <= Len(t) /\ \A a \in 1..Len(s) : t[a] = s[a]
    BY <1>3, <2>1
  <2>4. Len(s) \in Nat /\ Len(t) \in Nat
    BY <1>1, <2>1
  <2> HIDE DEF k, t, u, s
  <2>5. Len(t \o u) = Len(t) + Len(u) /\ Len(u) \in Nat
        /\ \A a \in 1..Len(t) : (t \o u)[a] = t[a]
    BY <2>2, Concatenated
  <2>6. Len(s) <= Len(t \o u) /\ \A a \in 1..Len(s) : (t \o u)[a] = s[a]
    BY <2>3, <2>4, <2>5
  <2>7. Joined(f, m + (d + 1)) = t \o u
    BY <2>1, <2>2
  <2> QED BY <2>6, <2>7
<1> HIDE DEF T, s
<1>4. \A d \in Nat : d \in T
  BY <1>2, <1>3, NumbersByInduction
<1>5. n - m \in T /\ m + (n - m) = n
  BY <1>4
<1>6. Len(s) <= Len(Joined(f, n)) /\ \A a \in 1..Len(s) : Joined(f, n)[a] = s[a]
  BY <1>5 DEF T
<1> QED BY <1>1, <1>6 DEF s

\* What is in sequences that are joined.
LEMMA RangeOfJoined ==
  ASSUME NEW S, NEW f, NEW n \in Nat, \A i \in 1..n : f[i] \in Seq(S)
  PROVE  ToSet(Joined(f, n)) = UNION {ToSet(f[i]) : i \in 1..n}
<1> DEFINE Right(m) ==
             \A x : x \in ToSet(Joined(f, m)) <=> \E i \in 1..m : x \in ToSet(f[i])
           T == {m \in Nat : m <= n => Right(m)}
<1>1. 0 \in T
  <2>1. Joined(f, 0) = <<>> /\ ToSet(<<>>) = {}
    BY JoinedSteps DEF ToSet
  <2> QED BY <2>1
<1>2. ASSUME NEW m \in Nat, m \in T PROVE m + 1 \in T
  <2> SUFFICES ASSUME m + 1 <= n PROVE m + 1 \in T
    OBVIOUS
  <2> DEFINE s == Joined(f, m)
             t == f[m + 1]
  <2>0. m < n
    OBVIOUS
  <2>1. s \in Seq(S) /\ t \in Seq(S) /\ Joined(f, m + 1) = s \o t
    BY <2>0, JoinedNext
  <2>2. ToSet(s \o t) = ToSet(s) \cup ToSet(t)
    BY <2>1, RangeOfConcatenated
  <2>3. \A x : x \in ToSet(s) <=> \E i \in 1..m : x \in ToSet(f[i])
    BY <1>2
  <2>4. \A i : i \in 1..(m + 1) <=> i \in 1..m \/ i = m + 1
    OBVIOUS
  <2>5. t = f[m + 1]
    OBVIOUS
  <2> HIDE DEF s, t
  <2>6. ASSUME NEW x
        PROVE  x \in ToSet(s \o t) <=> \E i \in 1..(m + 1) : x \in ToSet(f[i])
    <3>1. x \in ToSet(s \o t) <=> x \in ToSet(s) \/ x \in ToSet(f[m + 1])
      BY <2>2, <2>5
    <3> QED BY <2>3, <2>4, <3>1
  <2>7. Right(m + 1)
    BY <2>1, <2>6
  <2> HIDE DEF Right
  <2> QED BY <2>7
<1> HIDE DEF T
<1>3. n \in T
  BY <1>1, <1>2, NumbersByInduction
<1> QED BY <1>3 DEF T

----------------------------------------------------------------------------
(* Sums of the values of a function over finite sets.                      *)

SumOn(f, t) == FoldFunctionOnSet(+, 0, f, t)

Chosen(t) == CHOOSE x \in t : TRUE

\* A function on the subsets of s with the equation of the fold.
IsSumming(it, f, s) ==
  it = [t \in SUBSET s |-> IF t = {} THEN 0 ELSE f[Chosen(t)] + it[t \ {Chosen(t)}]]

LEMMA FoldEquation ==
  ASSUME NEW it, NEW f, NEW s, IsSumming(it, f, s), NEW t \in SUBSET s
  PROVE  it[t] = IF t = {} THEN 0 ELSE f[Chosen(t)] + it[t \ {Chosen(t)}]
<1> DEFINE Step(u) == IF u = {} THEN 0 ELSE f[Chosen(u)] + it[u \ {Chosen(u)}]
<1>1. it = [u \in SUBSET s |-> Step(u)]
  BY DEF IsSumming
<1> HIDE DEF Step
<1>2. it[t] = Step(t)
  BY <1>1
<1> QED BY <1>2 DEF Step

\* A set that is not empty has one element more than what is left of it.
LEMMA OneLess ==
  ASSUME NEW t, IsFiniteSet(t), NEW x \in t
  PROVE  /\ IsFiniteSet(t \ {x}) /\ Cardinality(t) \in Nat /\ Cardinality(t) # 0
         /\ Cardinality(t \ {x}) = Cardinality(t) - 1
<1>1. IsFiniteSet(t \ {x}) /\ Cardinality(t \ {x}) = Cardinality(t) - 1
  BY FS_RemoveElement
<1>2. Cardinality(t) \in Nat /\ Cardinality(t) # 0
  BY FS_CardinalityType, FS_EmptySet
<1> QED BY <1>1, <1>2

LEMMA ChosenIsOne == ASSUME NEW t, t # {} PROVE Chosen(t) \in t
  BY DEF Chosen

\* Two such functions agree on finite sets that both have.
LEMMA FoldsAgree ==
  ASSUME NEW f, NEW it, NEW jt, NEW u, NEW v, IsSumming(it, f, u), IsSumming(jt, f, v),
         NEW t, t \subseteq u, t \subseteq v, IsFiniteSet(t)
  PROVE  it[t] = jt[t]
<1> DEFINE T == {n \in Nat : \A s \in SUBSET (u \cap v) :
                   IsFiniteSet(s) /\ Cardinality(s) = n => it[s] = jt[s]}
<1>1. 0 \in T
  <2> SUFFICES ASSUME NEW s \in SUBSET (u \cap v), IsFiniteSet(s), Cardinality(s) = 0
               PROVE  it[s] = jt[s]
    OBVIOUS
  <2>1. s = {}
    BY FS_EmptySet
  <2> QED BY <2>1, FoldEquation
<1>2. ASSUME NEW n \in Nat, n \in T PROVE n + 1 \in T
  <2> SUFFICES ASSUME NEW s \in SUBSET (u \cap v), IsFiniteSet(s), Cardinality(s) = n + 1
               PROVE  it[s] = jt[s]
    OBVIOUS
  <2>1. s # {}
    BY FS_EmptySet
  <2> DEFINE r == s \ {Chosen(s)}
  <2>2. IsFiniteSet(r) /\ Cardinality(r) = n
    BY <2>1, ChosenIsOne, OneLess
  <2>3. it[r] = jt[r]
    BY <1>2, <2>2
  <2>4. it[s] = f[Chosen(s)] + it[r] /\ jt[s] = f[Chosen(s)] + jt[r]
    <3> HIDE DEF T
    <3>1. s \in SUBSET u /\ s \in SUBSET v
      OBVIOUS
    <3>2. it[s] = IF s = {} THEN 0 ELSE f[Chosen(s)] + it[s \ {Chosen(s)}]
      BY <3>1, FoldEquation
    <3>3. jt[s] = IF s = {} THEN 0 ELSE f[Chosen(s)] + jt[s \ {Chosen(s)}]
      BY <3>1, FoldEquation
    <3> QED BY <2>1, <3>2, <3>3
  <2> QED BY <2>3, <2>4
<1> HIDE DEF T
<1>3. \A n \in Nat : n \in T
  BY <1>1, <1>2, NumbersByInduction
<1> QED BY <1>3, FS_CardinalityType DEF T

LEMMA SumIsFold ==
  ASSUME NEW f, NEW t PROVE SumOn(f, t) = (CHOOSE it : IsSumming(it, f, t))[t]
  BY DEF SumOn, FoldFunctionOnSet, MapThenFoldSet, IsSumming, Chosen

\* The fold exists on every finite set.
LEMMA FoldExists ==
  ASSUME NEW f, NEW t, IsFiniteSet(t)
  PROVE  \E it : IsSumming(it, f, t)
<1> DEFINE T == {n \in Nat : \A s : IsFiniteSet(s) /\ Cardinality(s) <= n
                               => \E it : IsSumming(it, f, s)}
<1>1. 0 \in T
  <2> SUFFICES ASSUME NEW s, IsFiniteSet(s), Cardinality(s) <= 0
               PROVE  \E it : IsSumming(it, f, s)
    OBVIOUS
  <2>1. s = {}
    BY FS_EmptySet, FS_CardinalityType
  <2> DEFINE it == [u \in SUBSET s |-> 0]
  <2>2. \A u \in SUBSET s : u = {}
    BY <2>1
  <2>3. IsSumming(it, f, s)
    BY <2>2 DEF IsSumming
  <2> QED BY <2>3
<1>2. ASSUME NEW n \in Nat, n \in T PROVE n + 1 \in T
  <2> SUFFICES ASSUME NEW s, IsFiniteSet(s), Cardinality(s) <= n + 1
               PROVE  \E it : IsSumming(it, f, s)
    OBVIOUS
  <2> DEFINE V(u) == (CHOOSE it : IsSumming(it, f, u))[u]
  <2>1. ASSUME NEW u \in SUBSET s, u # s
        PROVE  /\ IsFiniteSet(u) /\ \E it : IsSumming(it, f, u)
    <3>1. PICK x \in s : x \notin u
      BY <2>1
    <3>2. IsFiniteSet(s \ {x}) /\ Cardinality(s \ {x}) <= n /\ u \subseteq s \ {x}
      BY <3>1, OneLess
    <3>3. IsFiniteSet(u) /\ Cardinality(u) <= n
      BY <3>2, FS_Subset, FS_CardinalityType
    <3> QED BY <1>2, <3>3
  <2>2. ASSUME NEW u \in SUBSET s, u # s
        PROVE  V(u) = IF u = {} THEN 0 ELSE f[Chosen(u)] + V(u \ {Chosen(u)})
    <3> DEFINE it == CHOOSE g : IsSumming(g, f, u)
               c == Chosen(u)
    <3>1. IsSumming(it, f, u)
      BY <2>1, <2>2
    <3>2. it[u] = IF u = {} THEN 0 ELSE f[c] + it[u \ {c}]
      BY <3>1, FoldEquation
    <3>3. u # {} => it[u \ {c}] = V(u \ {c})
      <4> SUFFICES ASSUME u # {} PROVE it[u \ {c}] = V(u \ {c})
        OBVIOUS
      <4>1. u \ {c} \in SUBSET s /\ u \ {c} # s
        BY <2>2
      <4> DEFINE jt == CHOOSE g : IsSumming(g, f, u \ {c})
      <4>2. IsSumming(jt, f, u \ {c}) /\ IsFiniteSet(u \ {c})
        BY <2>1, <4>1
      <4> HIDE DEF it, jt, c
      <4>3. it[u \ {c}] = jt[u \ {c}]
        BY <3>1, <4>2, FoldsAgree
      <4> QED BY <4>3 DEF jt
    <3>4. V(u) = it[u]
      OBVIOUS
    <3> HIDE DEF V, it
    <3> QED BY <3>2, <3>3, <3>4
  <2> DEFINE W(u) == IF u = s THEN IF s = {} THEN 0 ELSE f[Chosen(s)] + V(s \ {Chosen(s)})
                              ELSE V(u)
             fold == [u \in SUBSET s |-> W(u)]
  <2>3. ASSUME NEW u \in SUBSET s
        PROVE  W(u) = IF u = {} THEN 0 ELSE f[Chosen(u)] + fold[u \ {Chosen(u)}]
    <3> HIDE DEF V
    <3>1. u # {} => fold[u \ {Chosen(u)}] = V(u \ {Chosen(u)})
      <4> SUFFICES ASSUME u # {} PROVE fold[u \ {Chosen(u)}] = V(u \ {Chosen(u)})
        OBVIOUS
      <4>1. u \ {Chosen(u)} \in SUBSET s /\ u \ {Chosen(u)} # s
        BY ChosenIsOne
      <4> QED BY <4>1
    <3> HIDE DEF fold
    <3> QED BY <2>2, <3>1
  <2>4. IsSumming(fold, f, s)
    <3> HIDE DEF W
    <3> DEFINE g == [u \in SUBSET s |->
                       IF u = {} THEN 0 ELSE f[Chosen(u)] + fold[u \ {Chosen(u)}]]
    <3>1. \A u \in SUBSET s : g[u] = W(u)
      BY <2>3
    <3>2. fold = g
      <4> HIDE DEF g
      <4>1. g = [u \in SUBSET s |-> g[u]]
        BY DEF g
      <4> QED BY <3>1, <4>1
    <3> QED BY <3>2 DEF IsSumming
  <2> HIDE DEF fold
  <2> QED BY <2>4
<1> HIDE DEF T
<1>3. \A n \in Nat : n \in T
  BY <1>1, <1>2, NumbersByInduction
<1> QED BY <1>3, FS_CardinalityType DEF T

\* The equation of the sum.
LEMMA SumSteps ==
  ASSUME NEW f, NEW t, IsFiniteSet(t)
  PROVE  SumOn(f, t) = IF t = {} THEN 0 ELSE f[Chosen(t)] + SumOn(f, t \ {Chosen(t)})
<1> DEFINE it == CHOOSE g : IsSumming(g, f, t)
           r == t \ {Chosen(t)}
           jt == CHOOSE g : IsSumming(g, f, r)
<1>1. IsSumming(it, f, t)
  BY FoldExists
<1>2. IsFiniteSet(r)
  BY FS_Subset
<1>3. IsSumming(jt, f, r)
  BY <1>2, FoldExists
<1>4. SumOn(f, t) = it[t] /\ SumOn(f, r) = jt[r]
  BY SumIsFold
<1> HIDE DEF it, jt
<1>5. it[t] = IF t = {} THEN 0 ELSE f[Chosen(t)] + it[r]
  BY <1>1, FoldEquation
<1>6. it[r] = jt[r]
  BY <1>1, <1>2, <1>3, FoldsAgree
<1> QED BY <1>4, <1>5, <1>6

\* Sums of numbers are numbers.
LEMMA SumType ==
  ASSUME NEW f, NEW t, IsFiniteSet(t), \A x \in t : f[x] \in Nat
  PROVE  SumOn(f, t) \in Nat
<1> DEFINE T == {n \in Nat : \A s \in SUBSET t : Cardinality(s) = n => SumOn(f, s) \in Nat}
<1>0. \A s \in SUBSET t : IsFiniteSet(s)
  BY FS_Subset
<1>1. 0 \in T
  <2> SUFFICES ASSUME NEW s \in SUBSET t, Cardinality(s) = 0
               PROVE  SumOn(f, s) \in Nat
    OBVIOUS
  <2>1. s = {}
    BY <1>0, FS_EmptySet
  <2>2. SumOn(f, {}) = 0
    <3>1. IsFiniteSet({})
      BY FS_EmptySet
    <3> QED BY <3>1, SumSteps
  <2> QED BY <2>1, <2>2
<1>2. ASSUME NEW n \in Nat, n \in T PROVE n + 1 \in T
  <2> SUFFICES ASSUME NEW s \in SUBSET t, Cardinality(s) = n + 1
               PROVE  SumOn(f, s) \in Nat
    OBVIOUS
  <2> DEFINE c == Chosen(s)
  <2>1. IsFiniteSet(s) /\ s # {}
    BY <1>0, FS_EmptySet
  <2>2. c \in s /\ SumOn(f, s) = f[c] + SumOn(f, s \ {c})
    BY <2>1, SumSteps, ChosenIsOne
  <2>3. s \ {c} \in SUBSET t /\ Cardinality(s \ {c}) = n
    BY <2>1, <2>2, OneLess
  <2> HIDE DEF c
  <2>4. f[c] \in Nat /\ SumOn(f, s \ {c}) \in Nat
    BY <1>2, <2>2, <2>3
  <2> QED BY <2>2, <2>4
<1> HIDE DEF T
<1>3. \A n \in Nat : n \in T
  BY <1>1, <1>2, NumbersByInduction
<1> QED BY <1>3, FS_CardinalityType DEF T

\* Any element may be taken out of a sum of numbers.
LEMMA SumWithout ==
  ASSUME NEW f, NEW t, IsFiniteSet(t), \A x \in t : f[x] \in Nat
  PROVE  \A x \in t : SumOn(f, t) = f[x] + SumOn(f, t \ {x})
<1> DEFINE T == {n \in Nat : \A s \in SUBSET t : Cardinality(s) = n =>
                   \A x \in s : SumOn(f, s) = f[x] + SumOn(f, s \ {x})}
<1>0. \A s \in SUBSET t : IsFiniteSet(s) /\ SumOn(f, s) \in Nat
  <2> SUFFICES ASSUME NEW s \in SUBSET t PROVE IsFiniteSet(s) /\ SumOn(f, s) \in Nat
    OBVIOUS
  <2>1. IsFiniteSet(s)
    BY FS_Subset
  <2> QED BY <2>1, SumType
<1>1. 0 \in T
  <2> SUFFICES ASSUME NEW s \in SUBSET t, Cardinality(s) = 0 PROVE s = {}
    OBVIOUS
  <2> QED BY <1>0, FS_EmptySet
<1>2. ASSUME NEW n \in Nat, n \in T PROVE n + 1 \in T
  <2> SUFFICES ASSUME NEW s \in SUBSET t, Cardinality(s) = n + 1
               PROVE  \A x \in s : SumOn(f, s) = f[x] + SumOn(f, s \ {x})
    OBVIOUS
  <2> DEFINE c == Chosen(s)
  <2>1. IsFiniteSet(s) /\ s # {}
    BY <1>0, FS_EmptySet
  <2>2. c \in s /\ SumOn(f, s) = f[c] + SumOn(f, s \ {c})
    BY <2>1, SumSteps, ChosenIsOne
  <2>3. \A x \in s : s \ {x} \in SUBSET t /\ Cardinality(s \ {x}) = n
    BY <2>1, OneLess
  <2>4. \A x \in s : \A y \in s \ {x} :
          SumOn(f, s \ {x}) = f[y] + SumOn(f, (s \ {x}) \ {y})
    BY <1>2, <2>3
  <2> HIDE DEF c
  <2>6. ASSUME NEW x \in s PROVE SumOn(f, s) = f[x] + SumOn(f, s \ {x})
    <3>1. CASE x = c
      BY <2>2, <3>1
    <3>2. CASE x # c
      <4> DEFINE r == (s \ {c}) \ {x}
      <4>1. r = (s \ {x}) \ {c}
        OBVIOUS
      <4>2. SumOn(f, s \ {c}) = f[x] + SumOn(f, r)
        BY <2>2, <2>4, <3>2
      <4>3. SumOn(f, s \ {x}) = f[c] + SumOn(f, r)
        BY <2>2, <2>4, <3>2, <4>1
      <4>4. SumOn(f, r) \in Nat /\ f[x] \in Nat /\ f[c] \in Nat
        <5>1. r \in SUBSET t
          OBVIOUS
        <5> HIDE DEF r
        <5> QED BY <1>0, <2>2, <5>1
      <4> HIDE DEF r
      <4> QED BY <2>2, <4>2, <4>3, <4>4
    <3> QED BY <3>1, <3>2
  <2> QED BY <2>6
<1> HIDE DEF T
<1>3. \A n \in Nat : n \in T
  BY <1>1, <1>2, NumbersByInduction
<1> QED BY <1>3, FS_CardinalityType DEF T

\* A sum depends on the values it is over.
LEMMA SumSame ==
  ASSUME NEW f, NEW g, NEW t, IsFiniteSet(t), \A x \in t : f[x] = g[x]
  PROVE  SumOn(f, t) = SumOn(g, t)
<1> DEFINE T == {n \in Nat : \A s \in SUBSET t :
                   Cardinality(s) = n => SumOn(f, s) = SumOn(g, s)}
<1>0. \A s \in SUBSET t : IsFiniteSet(s)
  BY FS_Subset
<1>1. 0 \in T
  <2> SUFFICES ASSUME NEW s \in SUBSET t, Cardinality(s) = 0
               PROVE  SumOn(f, s) = SumOn(g, s)
    OBVIOUS
  <2>1. s = {}
    BY <1>0, FS_EmptySet
  <2> QED BY <1>0, <2>1, SumSteps
<1>2. ASSUME NEW n \in Nat, n \in T PROVE n + 1 \in T
  <2> SUFFICES ASSUME NEW s \in SUBSET t, Cardinality(s) = n + 1
               PROVE  SumOn(f, s) = SumOn(g, s)
    OBVIOUS
  <2> DEFINE c == Chosen(s)
  <2>1. IsFiniteSet(s) /\ s # {}
    BY <1>0, FS_EmptySet
  <2>2. c \in s /\ SumOn(f, s) = f[c] + SumOn(f, s \ {c})
        /\ SumOn(g, s) = g[c] + SumOn(g, s \ {c})
    BY <2>1, SumSteps, ChosenIsOne
  <2>3. s \ {c} \in SUBSET t /\ Cardinality(s \ {c}) = n
    BY <2>1, <2>2, OneLess
  <2> HIDE DEF c
  <2>4. f[c] = g[c] /\ SumOn(f, s \ {c}) = SumOn(g, s \ {c})
    BY <1>2, <2>2, <2>3
  <2> QED BY <2>2, <2>4
<1> HIDE DEF T
<1>3. \A n \in Nat : n \in T
  BY <1>1, <1>2, NumbersByInduction
<1> QED BY <1>3, FS_CardinalityType DEF T

\* The sum over all a function is given for.
Total(f) == FoldFunction(+, 0, f)

LEMMA TotalIsSum == ASSUME NEW f PROVE Total(f) = SumOn(f, DOMAIN f)
  BY DEF Total, FoldFunction, SumOn

\* Counting one more of x, which may be new.
LEMMA SumCounts ==
  ASSUME NEW f, IsFiniteSet(DOMAIN f), \A y \in DOMAIN f : f[y] \in Nat,
         NEW x, NEW g, DOMAIN g = DOMAIN f \cup {x},
         \A y \in DOMAIN f \ {x} : g[y] = f[y],
         g[x] = IF x \in DOMAIN f THEN f[x] + 1 ELSE 1
  PROVE  Total(f) \in Nat /\ Total(g) = Total(f) + 1
<1> DEFINE D == DOMAIN f
           E == D \ {x}
<1>1. IsFiniteSet(D \cup {x}) /\ IsFiniteSet(E)
  BY FS_AddElement, FS_Subset
<1>2. Total(f) = SumOn(f, D) /\ Total(g) = SumOn(g, D \cup {x})
  BY TotalIsSum
<1>3. \A y \in D \cup {x} : g[y] \in Nat
  <2>1. x \in D => f[x] + 1 \in Nat
    OBVIOUS
  <2> QED BY <2>1
<1>4. SumOn(g, D \cup {x}) = g[x] + SumOn(g, E)
  <2>1. (D \cup {x}) \ {x} = E
    OBVIOUS
  <2> HIDE DEF E
  <2> QED BY <1>1, <1>3, <2>1, SumWithout
<1>5. SumOn(g, E) = SumOn(f, E) /\ SumOn(f, E) \in Nat /\ SumOn(f, D) \in Nat
  BY <1>1, SumSame, SumType
<1>6. x \in D => SumOn(f, D) = f[x] + SumOn(f, E)
  BY <1>1, SumWithout
<1>7. x \notin D => SumOn(f, D) = SumOn(f, E)
  <2>1. x \notin D => E = D
    OBVIOUS
  <2> HIDE DEF E, D
  <2> QED BY <2>1
<1>8. /\ x \in D => f[x] \in Nat /\ g[x] = f[x] + 1
      /\ x \notin D => g[x] = 1
  OBVIOUS
<1> HIDE DEF D, E
<1> QED BY <1>2, <1>4, <1>5, <1>6, <1>7, <1>8

\* The sum over nothing.
LEMMA SumOfNothing == Total(<<>>) = 0
<1>1. DOMAIN <<>> = {} /\ IsFiniteSet({})
  BY FS_EmptySet
<1>2. Total(<<>>) = SumOn(<<>>, {})
  BY <1>1, TotalIsSum
<1>3. SumOn(<<>>, {}) = 0
  BY <1>1, SumSteps
<1> QED BY <1>2, <1>3

----------------------------------------------------------------------------
(* Sequences whose elements have no common type.                           *)

LEMMA ListFacts ==
  ASSUME NEW s, IsList(s)
  PROVE  /\ Len(s) \in Nat /\ DOMAIN s = 1..Len(s)
         /\ s = [i \in 1..Len(s) |-> s[i]]
         /\ s \in Seq(ToSet(s))
         /\ \A x \in ToSet(s) : \E i \in 1..Len(s) : s[i] = x
         /\ \A i \in 1..Len(s) : s[i] \in ToSet(s)
<1> DEFINE S == ToSet(s)
<1>1. S = {s[i] : i \in DOMAIN s}
  BY DEF ToSet
<1>2. s \in Seq(S)
  BY <1>1 DEF IsList
<1> HIDE DEF S
<1>3. /\ Len(s) \in Nat /\ DOMAIN s = 1..Len(s)
      /\ s = [i \in 1..Len(s) |-> s[i]]
  BY <1>2
<1> QED BY <1>1, <1>2, <1>3 DEF S

LEMMA ListByType ==
  ASSUME NEW S, NEW s \in Seq(S)
  PROVE  IsList(s) /\ ToSet(s) \subseteq S
<1> DEFINE R == {s[i] : i \in DOMAIN s}
<1>1. DOMAIN s = 1..Len(s) /\ Len(s) \in Nat /\ s = [i \in 1..Len(s) |-> s[i]]
      /\ \A i \in 1..Len(s) : s[i] \in S
  OBVIOUS
<1>2. \A i \in 1..Len(s) : s[i] \in R
  BY <1>1
<1>3. R \subseteq S
  BY <1>1
<1> HIDE DEF R
<1>4. s \in Seq(R)
  <2> DEFINE n == Len(s)
  <2>1. n \in Nat /\ s = [i \in 1..n |-> s[i]] /\ \A i \in 1..n : s[i] \in R
    BY <1>1, <1>2
  <2> HIDE DEF n
  <2>2. s \in [1..n -> R]
    BY <2>1
  <2> QED BY <2>1, <2>2
<1> QED BY <1>3, <1>4 DEF IsList, R, ToSet

LEMMA ListByPlaces ==
  ASSUME NEW n \in Nat, NEW s, s = [i \in 1..n |-> s[i]]
  PROVE  IsList(s) /\ Len(s) = n /\ DOMAIN s = 1..n
<1> DEFINE R == {s[i] : i \in 1..n}
<1>1. \A i \in 1..n : s[i] \in R
  OBVIOUS
<1> HIDE DEF R
<1>2. s \in [1..n -> R]
  BY <1>1
<1>3. s \in Seq(R) /\ Len(s) = n /\ DOMAIN s = 1..n
  BY <1>2
<1> QED BY <1>3, ListByType

LEMMA ListAppend ==
  ASSUME NEW s, IsList(s), NEW e
  PROVE  /\ IsList(Append(s, e)) /\ Len(Append(s, e)) = Len(s) + 1
         /\ DOMAIN Append(s, e) = 1..(Len(s) + 1)
         /\ Append(s, e)[Len(s) + 1] = e
         /\ \A i \in 1..Len(s) : Append(s, e)[i] = s[i]
         /\ ToSet(Append(s, e)) = ToSet(s) \cup {e}
<1> DEFINE S == ToSet(s) \cup {e}
           t == Append(s, e)
<1>1. s \in Seq(ToSet(s)) /\ Len(s) \in Nat /\ DOMAIN s = 1..Len(s)
  BY ListFacts
<1>2. s \in Seq(S) /\ e \in S
  <2> DEFINE T == ToSet(s)
  <2>1. s \in Seq(T)
    BY <1>1
  <2> HIDE DEF T
  <2> QED BY <2>1 DEF T
<1> HIDE DEF S
<1>3. /\ t \in Seq(S) /\ Len(t) = Len(s) + 1 /\ DOMAIN t = 1..(Len(s) + 1)
      /\ t[Len(s) + 1] = e /\ \A i \in 1..Len(s) : t[i] = s[i]
  BY <1>1, <1>2
<1>4. IsList(t)
  BY <1>3, ListByType
<1>5. ToSet(t) = ToSet(s) \cup {e}
  <2> HIDE DEF t
  <2> DEFINE n == Len(s)
  <2>1. DOMAIN t = 1..(n + 1) /\ DOMAIN s = 1..n /\ n \in Nat /\ t[n + 1] = e
        /\ \A i \in 1..n : t[i] = s[i]
    BY <1>1, <1>3
  <2> HIDE DEF n
  <2>2. \A i \in 1..(n + 1) : i \in 1..n \/ i = n + 1
    BY <2>1
  <2> QED BY <2>1, <2>2 DEF ToSet
<1> QED BY <1>3, <1>4, <1>5

LEMMA ListConcat ==
  ASSUME NEW s, IsList(s), NEW t, IsList(t)
  PROVE  /\ IsList(s \o t) /\ Len(s \o t) = Len(s) + Len(t)
         /\ DOMAIN (s \o t) = 1..(Len(s) + Len(t))
         /\ \A i \in 1..Len(s) : (s \o t)[i] = s[i]
         /\ \A i \in 1..Len(t) : (s \o t)[Len(s) + i] = t[i]
         /\ ToSet(s \o t) = ToSet(s) \cup ToSet(t)
<1> DEFINE A == ToSet(s)
           B == ToSet(t)
           S == A \cup B
<1>1. s \in Seq(A) /\ t \in Seq(B) /\ Len(s) \in Nat /\ Len(t) \in Nat
  BY ListFacts
<1> HIDE DEF A, B
<1>2. s \in Seq(S) /\ t \in Seq(S)
  BY <1>1
<1> HIDE DEF S
<1>3. /\ s \o t \in Seq(S) /\ Len(s \o t) = Len(s) + Len(t)
      /\ \A i \in 1..Len(s) : (s \o t)[i] = s[i]
      /\ \A a \in (Len(s) + 1)..(Len(s) + Len(t)) : (s \o t)[a] = t[a - Len(s)]
  BY <1>2, Concatenated
<1>4. \A i \in 1..Len(t) : (s \o t)[Len(s) + i] = t[i]
  <2> TAKE i \in 1..Len(t)
  <2>1. Len(s) + i \in (Len(s) + 1)..(Len(s) + Len(t)) /\ Len(s) + i - Len(s) = i
    BY <1>1
  <2> QED BY <1>3, <2>1
<1>5. ToSet(s \o t) = ToSet(s) \cup ToSet(t)
  BY <1>2, RangeOfConcatenated
<1>6. IsList(s \o t)
  BY <1>3, ListByType
<1>7. DOMAIN (s \o t) = 1..(Len(s) + Len(t))
  BY <1>3, <1>6, ListFacts
<1> QED BY <1>3, <1>4, <1>5, <1>6, <1>7

LEMMA ListsEqual ==
  ASSUME NEW s, IsList(s), NEW t, IsList(t), Len(s) = Len(t),
         \A i \in 1..Len(s) : s[i] = t[i]
  PROVE  s = t
<1>1. s = [i \in 1..Len(s) |-> s[i]] /\ t = [i \in 1..Len(t) |-> t[i]]
  BY ListFacts
<1> QED BY <1>1

LEMMA ListPart ==
  ASSUME NEW s, IsList(s), NEW n \in 0..Len(s)
  PROVE  /\ IsList(SubSeq(s, 1, n)) /\ Len(SubSeq(s, 1, n)) = n
         /\ \A i \in 1..n : SubSeq(s, 1, n)[i] = s[i]
<1> DEFINE S == ToSet(s)
           p == SubSeq(s, 1, n)
<1>1. s \in Seq(S) /\ Len(s) \in Nat
  BY ListFacts
<1> HIDE DEF S
<1>2. p \in Seq(S) /\ Len(p) = n /\ \A i \in 1..n : p[i] = s[i]
  BY <1>1
<1> QED BY <1>2, ListByType

LEMMA ListTail ==
  ASSUME NEW s, IsList(s), s # <<>>
  PROVE  /\ Len(s) # 0 /\ 1 \in DOMAIN s /\ Head(s) = s[1]
         /\ IsList(Tail(s)) /\ Len(Tail(s)) = Len(s) - 1
         /\ \A i \in 1..(Len(s) - 1) : Tail(s)[i] = s[i + 1]
<1> DEFINE S == ToSet(s)
           p == Tail(s)
<1>1. s \in Seq(S) /\ Len(s) \in Nat /\ DOMAIN s = 1..Len(s)
  BY ListFacts
<1> HIDE DEF S
<1>2. Len(s) # 0 /\ Head(s) = s[1]
  BY <1>1
<1>3. p \in Seq(S) /\ Len(p) = Len(s) - 1 /\ \A i \in 1..(Len(s) - 1) : p[i] = s[i + 1]
  BY <1>1
<1>4. IsList(p)
  <2> HIDE DEF p
  <2> QED BY <1>3, ListByType
<1> QED BY <1>1, <1>2, <1>3, <1>4

LEMMA EmptyList ==
  /\ IsList(<<>>) /\ Len(<<>>) = 0 /\ ToSet(<<>>) = {}
  /\ \A s : IsList(s) /\ Len(s) = 0 => s = <<>>
<1>1. Len(<<>>) = 0 /\ \A S : <<>> \in Seq(S)
  OBVIOUS
<1>2. IsList(<<>>) /\ ToSet(<<>>) = {}
  BY <1>1 DEF IsList, ToSet
<1>3. ASSUME NEW s, IsList(s), Len(s) = 0 PROVE s = <<>>
  BY <1>1, <1>2, <1>3, ListsEqual
<1> QED BY <1>1, <1>2, <1>3

\* The numbers of a set come once.
LEMMA AscendingApart ==
  ASSUME NEW I, NEW n \in Nat
  PROVE  AllApart(Ascending(I, n))
<1> DEFINE T == {m \in Nat : AllApart(Ascending(I, m))}
<1>1. 0 \in T
  <2>1. DOMAIN <<>> = {}
    OBVIOUS
  <2> QED BY <2>1, AscendingSteps DEF AllApart
<1>2. ASSUME NEW m \in Nat, m \in T PROVE m + 1 \in T
  <2> DEFINE A == Ascending(I, m)
             B == Append(A, m + 1)
  <2>1. AllApart(A) /\ A \in Seq(I \cap 1..m)
    BY <1>2, AscendingType
  <2>2. Ascending(I, m + 1) = IF m + 1 \in I THEN B ELSE A
    BY AscendingSteps
  <2>3. IsList(A)
    BY <2>1, ListByType
  <2>4. /\ Len(A) \in Nat /\ DOMAIN A = 1..Len(A)
        /\ \A i \in 1..Len(A) : A[i] \in 1..m
    BY <2>1
  <2>5. /\ DOMAIN B = 1..(Len(A) + 1) /\ B[Len(A) + 1] = m + 1
        /\ \A i \in 1..Len(A) : B[i] = A[i]
    BY <2>3, ListAppend
  <2> HIDE DEF A, B
  <2>6. AllApart(B)
    <3> SUFFICES ASSUME NEW a \in DOMAIN B, NEW b \in DOMAIN B, a # b, B[a] = B[b]
                 PROVE  FALSE
      BY DEF AllApart
    <3>1. \A i \in DOMAIN B : i = Len(A) + 1 \/ (i \in 1..Len(A) /\ B[i] \in 1..m)
      BY <2>4, <2>5
    <3>2. a \in 1..Len(A) /\ b \in 1..Len(A)
      BY <2>5, <3>1
    <3> QED BY <2>1, <2>4, <2>5, <3>2 DEF AllApart
  <2> QED BY <2>1, <2>2, <2>6
<1> HIDE DEF T
<1>3. n \in T
  BY <1>1, <1>2, NumbersByInduction
<1> QED BY <1>3 DEF T

\* Elements of a list at places where they differ.
LEMMA OnlyApart ==
  ASSUME NEW s, IsList(s), NEW I, \A i, j \in I \cap 1..Len(s) : i # j => s[i] # s[j]
  PROVE  /\ IsList(Only(s, I)) /\ AllApart(Only(s, I))
         /\ ToSet(Only(s, I)) = {s[i] : i \in I \cap 1..Len(s)}
<1> DEFINE c == Ascending(I, Len(s))
           S == ToSet(s)
<1>1. Len(s) \in Nat /\ s \in Seq(S)
  BY ListFacts
<1>2. c \in Seq(I \cap 1..Len(s)) /\ AllApart(c)
  BY <1>1, AscendingType, AscendingApart
<1>3. Only(s, I) = [i \in DOMAIN c |-> s[c[i]]]
  BY DEF Only
<1> HIDE DEF S
<1>4. IsList(Only(s, I))
  <2>1. Only(s, I) \in Seq(S)
    BY <1>1, OnlyType
  <2> QED BY <2>1, ListByType
<1>5. ToSet(Only(s, I)) = {s[i] : i \in I \cap 1..Len(s)}
  BY <1>1, RangeOfOnly
<1>6. \A i \in DOMAIN c : c[i] \in I \cap 1..Len(s)
  BY <1>2
<1> HIDE DEF c
<1>7. AllApart(Only(s, I))
  <2> DEFINE o == Only(s, I)
  <2>1. DOMAIN o = DOMAIN c /\ \A i \in DOMAIN c : o[i] = s[c[i]]
    BY <1>3
  <2> HIDE DEF o
  <2>2. AllApart(o)
    BY <1>2, <1>6, <2>1 DEF AllApart
  <2> QED BY <2>2 DEF o
<1> QED BY <1>4, <1>5, <1>7

----------------------------------------------------------------------------
(* How often an element occurs.                                            *)

PlacesOf(s, x) == {i \in DOMAIN s : s[i] = x}

Times(s, x) == Cardinality(PlacesOf(s, x))

LEMMA PlacesFinite ==
  ASSUME NEW s, IsList(s), NEW x
  PROVE  /\ IsFiniteSet(PlacesOf(s, x)) /\ Times(s, x) \in Nat
         /\ PlacesOf(s, x) \subseteq 1..Len(s)
         /\ x \notin ToSet(s) => Times(s, x) = 0
         /\ x \in ToSet(s) => Times(s, x) # 0
<1>1. Len(s) \in Nat /\ DOMAIN s = 1..Len(s)
  BY ListFacts
<1>2. PlacesOf(s, x) \subseteq 1..Len(s) /\ IsFiniteSet(1..Len(s))
  BY <1>1, FS_Interval DEF PlacesOf
<1>3. IsFiniteSet(PlacesOf(s, x))
  BY <1>2, FS_Subset
<1>4. x \notin ToSet(s) <=> PlacesOf(s, x) = {}
  BY DEF PlacesOf, ToSet
<1> QED BY <1>2, <1>3, <1>4, FS_CardinalityType, FS_EmptySet DEF Times

LEMMA TimesConcat ==
  ASSUME NEW s, IsList(s), NEW t, IsList(t), NEW x
  PROVE  Times(s \o t, x) = Times(s, x) + Times(t, x)
<1> DEFINE P == PlacesOf(s, x)
           Q == PlacesOf(t, x)
           n == Len(s)
           R == {n + i : i \in Q}
           f == [i \in Q |-> n + i]
           st == s \o t
<1>1. /\ IsFiniteSet(P) /\ IsFiniteSet(Q) /\ P \subseteq 1..n /\ Q \subseteq 1..Len(t)
      /\ Cardinality(P) \in Nat /\ Cardinality(Q) \in Nat
  BY PlacesFinite DEF Times
<1>2. n \in Nat /\ Len(t) \in Nat /\ DOMAIN s = 1..n /\ DOMAIN t = 1..Len(t)
  BY ListFacts
<1>3. /\ DOMAIN st = 1..(n + Len(t))
      /\ \A i \in 1..n : st[i] = s[i]
      /\ \A i \in 1..Len(t) : st[n + i] = t[i]
  BY ListConcat
<1>4. PlacesOf(st, x) = P \cup R
  <2> HIDE DEF n, st
  <2>1. \A i \in 1..(n + Len(t)) : i \in 1..n \/ \E j \in 1..Len(t) : i = n + j
    <3> TAKE i \in 1..(n + Len(t))
    <3>1. i \notin 1..n => i - n \in 1..Len(t) /\ i = n + (i - n)
      BY <1>2
    <3> QED BY <3>1
  <2>2. \A i \in 1..n : i \in 1..(n + Len(t))
    BY <1>2
  <2>3. \A j \in 1..Len(t) : n + j \in 1..(n + Len(t))
    BY <1>2
  <2>4. \A i : i \in PlacesOf(st, x) <=> i \in 1..(n + Len(t)) /\ st[i] = x
    BY <1>3 DEF PlacesOf
  <2>5. /\ \A i : i \in P <=> i \in 1..n /\ s[i] = x
        /\ \A i : i \in Q <=> i \in 1..Len(t) /\ t[i] = x
    BY <1>2 DEF PlacesOf
  <2>6. \A i : i \in R <=> \E j \in Q : i = n + j
    OBVIOUS
  <2> HIDE DEF P, Q, R
  <2>7. PlacesOf(st, x) \subseteq P \cup R
    BY <1>3, <2>1, <2>4, <2>5, <2>6
  <2>8. P \cup R \subseteq PlacesOf(st, x)
    BY <1>3, <2>2, <2>3, <2>4, <2>5, <2>6
  <2> QED BY <2>7, <2>8
<1> HIDE DEF P, Q, st
<1>5. IsFiniteSet(R) /\ Cardinality(R) = Cardinality(Q)
  <2>1. f \in Bijection(Q, R)
    <3>1. f \in [Q -> R] /\ \A y \in R : \E i \in Q : f[i] = y
      OBVIOUS
    <3>2. \A a, b \in Q : f[a] = f[b] => a = b
      BY <1>1, <1>2
    <3> HIDE DEF f, R
    <3> QED BY <3>1, <3>2 DEF Bijection, Injection, Surjection, IsInjective
  <2> HIDE DEF f, R
  <2> QED BY <1>1, <2>1, FS_Bijection DEF ExistsBijection
<1>6. P \cap R = {}
  BY <1>1, <1>2
<1> HIDE DEF R, n
<1>7. Cardinality(P \cup R) = Cardinality(P) + Cardinality(R) - 0
  BY <1>1, <1>5, <1>6, FS_Union, FS_EmptySet
<1>8. Cardinality(PlacesOf(st, x)) = Cardinality(P) + Cardinality(Q)
  BY <1>1, <1>4, <1>5, <1>7
<1> QED BY <1>8 DEF Times, P, Q, st

LEMMA TimesOne ==
  ASSUME NEW e, NEW x
  PROVE  IsList(<<e>>) /\ Times(<<e>>, x) = IF x = e THEN 1 ELSE 0
<1> DEFINE o == <<e>>
<1>1. DOMAIN o = 1..1 /\ o[1] = e /\ o \in Seq({e})
  OBVIOUS
<1>2. PlacesOf(o, x) = IF x = e THEN {1} ELSE {}
  BY <1>1 DEF PlacesOf
<1>3. IsList(o)
  BY <1>1, ListByType
<1> QED BY <1>2, <1>3, FS_Singleton, FS_EmptySet DEF Times

LEMMA TimesNothing == ASSUME NEW x PROVE Times(<<>>, x) = 0
  BY EmptyList, PlacesFinite

LEMMA TimesAppend ==
  ASSUME NEW s, IsList(s), NEW e, NEW x
  PROVE  Times(Append(s, e), x) = Times(s, x) + IF x = e THEN 1 ELSE 0
<1> DEFINE o == <<e>>
<1>1. IsList(o) /\ Times(o, x) = (IF x = e THEN 1 ELSE 0) /\ Len(o) = 1 /\ o[1] = e
  BY TimesOne
<1>2. Append(s, e) = s \o o
  <2> HIDE DEF o
  <2> DEFINE a == Append(s, e)
             b == s \o o
             n == Len(s)
  <2>1. /\ IsList(a) /\ Len(a) = n + 1 /\ a[n + 1] = e /\ \A i \in 1..n : a[i] = s[i]
        /\ n \in Nat
    BY ListAppend, ListFacts
  <2>2. /\ IsList(b) /\ Len(b) = n + Len(o) /\ \A i \in 1..n : b[i] = s[i]
        /\ \A i \in 1..Len(o) : b[n + i] = o[i]
    <3>1. IsList(o)
      BY <1>1
    <3> HIDE DEF n, a
    <3>2. /\ IsList(s \o o) /\ Len(s \o o) = Len(s) + Len(o)
          /\ \A i \in 1..Len(s) : (s \o o)[i] = s[i]
      BY <3>1, ListConcat
    <3>3. \A i \in 1..Len(o) : (s \o o)[Len(s) + i] = o[i]
      BY <3>1, ListConcat
    <3> QED BY <3>2, <3>3 DEF n
  <2>3. b[n + 1] = e /\ Len(b) = n + 1
    <3>1. 1 \in 1..Len(o)
      BY <1>1
    <3> QED BY <1>1, <2>2, <3>1
  <2> HIDE DEF a, b, n
  <2>4. \A i \in 1..(n + 1) : i \in 1..n \/ i = n + 1
    BY <2>1
  <2>5. a = b
    BY <2>1, <2>2, <2>3, <2>4, ListsEqual
  <2> QED BY <2>5 DEF a, b
<1> HIDE DEF o
<1> QED BY <1>1, <1>2, TimesConcat

LEMMA BagsByTimes ==
  ASSUME NEW s, IsList(s), NEW t, IsList(t), \A x : Times(s, x) = Times(t, x)
  PROVE  ToBag(s) = ToBag(t)
<1>1. Range(s) = ToSet(s) /\ Range(t) = ToSet(t)
  BY DEF Range, ToSet
<1>2. ToSet(s) = ToSet(t)
  <2>1. \A x : x \in ToSet(s) <=> Times(s, x) # 0
    BY PlacesFinite
  <2>2. \A x : x \in ToSet(t) <=> Times(t, x) # 0
    BY PlacesFinite
  <2> QED BY <2>1, <2>2
<1>3. ToBag(s) = [x \in ToSet(s) |-> Times(s, x)] /\ ToBag(t) = [x \in ToSet(t) |-> Times(t, x)]
  BY <1>1 DEF ToBag, Times, PlacesOf
<1> QED BY <1>2, <1>3

LEMMA TimesByBags ==
  ASSUME NEW s, IsList(s), NEW t, IsList(t), ToBag(s) = ToBag(t), NEW x
  PROVE  Times(s, x) = Times(t, x)
<1>1. Range(s) = ToSet(s) /\ Range(t) = ToSet(t)
  BY DEF Range, ToSet
<1>2. ToBag(s) = [y \in ToSet(s) |-> Times(s, y)] /\ ToBag(t) = [y \in ToSet(t) |-> Times(t, y)]
  BY <1>1 DEF ToBag, Times, PlacesOf
<1>3. ToSet(s) = ToSet(t)
  BY <1>2
<1>4. CASE x \in ToSet(s)
  BY <1>2, <1>3, <1>4
<1>5. CASE x \notin ToSet(s)
  BY <1>3, <1>5, PlacesFinite
<1> QED BY <1>4, <1>5

----------------------------------------------------------------------------
(* Lists of lists.                                                         *)

\* Lists have a type in common.
LEMMA CommonType ==
  ASSUME NEW n \in Nat, NEW f, \A i \in 1..n : IsList(f[i])
  PROVE  \A i \in 1..n : f[i] \in Seq(UNION {ToSet(f[j]) : j \in 1..n})
<1> DEFINE S == UNION {ToSet(f[j]) : j \in 1..n}
<1> SUFFICES ASSUME NEW i \in 1..n PROVE f[i] \in Seq(S)
  OBVIOUS
<1> DEFINE s == f[i]
           T == ToSet(s)
<1>1. s \in Seq(T)
  BY ListFacts
<1>2. T \subseteq S
  OBVIOUS
<1> HIDE DEF s, S, T
<1>3. s \in Seq(S)
  BY <1>1, <1>2
<1> QED BY <1>3 DEF s

LEMMA JoinedLists ==
  ASSUME NEW n \in Nat, NEW f, \A i \in 1..n : IsList(f[i])
  PROVE  /\ \A m \in 0..n : IsList(Joined(f, m))
         /\ \A m \in 0..(n - 1) : Joined(f, m + 1) = Joined(f, m) \o f[m + 1]
         /\ Joined(f, 0) = <<>>
         /\ ToSet(Joined(f, n)) = UNION {ToSet(f[i]) : i \in 1..n}
<1> DEFINE S == UNION {ToSet(f[j]) : j \in 1..n}
<1>1. \A i \in 1..n : f[i] \in Seq(S)
  BY CommonType
<1> HIDE DEF S
<1>2. ASSUME NEW m \in 0..n PROVE IsList(Joined(f, m))
  <2>1. Joined(f, m) \in Seq(S)
    BY <1>1, JoinedPrefix
  <2> QED BY <2>1, ListByType
<1>3. ASSUME NEW m \in 0..(n - 1) PROVE Joined(f, m + 1) = Joined(f, m) \o f[m + 1]
  <2>1. m \in Nat /\ m < n
    OBVIOUS
  <2> QED BY <1>1, <2>1, JoinedNext
<1>4. ToSet(Joined(f, n)) = UNION {ToSet(f[i]) : i \in 1..n}
  BY <1>1, RangeOfJoined
<1> QED BY <1>2, <1>3, <1>4, JoinedSteps

\* One of the lists has d more of x.
LEMMA JoinedMore ==
  ASSUME NEW n \in Nat, NEW f, NEW g, \A i \in 1..n : IsList(f[i]) /\ IsList(g[i]),
         NEW x, NEW k \in 1..n, NEW d \in Nat,
         \A i \in 1..n : i # k => g[i] = f[i],
         Times(g[k], x) = Times(f[k], x) + d
  PROVE  Times(Joined(g, n), x) = Times(Joined(f, n), x) + d
<1> DEFINE D(m) == IF k <= m THEN d ELSE 0
           T == {m \in Nat : m <= n =>
                   Times(Joined(g, m), x) = Times(Joined(f, m), x) + D(m)}
<1>0. /\ \A m \in 0..n : IsList(Joined(f, m)) /\ IsList(Joined(g, m))
      /\ \A m \in 0..(n - 1) : /\ Joined(f, m + 1) = Joined(f, m) \o f[m + 1]
                               /\ Joined(g, m + 1) = Joined(g, m) \o g[m + 1]
      /\ Joined(f, 0) = <<>> /\ Joined(g, 0) = <<>>
  <2>1. \A i \in 1..n : IsList(f[i])
    OBVIOUS
  <2>2. \A i \in 1..n : IsList(g[i])
    OBVIOUS
  <2>3. /\ \A m \in 0..n : IsList(Joined(f, m))
        /\ \A m \in 0..(n - 1) : Joined(f, m + 1) = Joined(f, m) \o f[m + 1]
        /\ Joined(f, 0) = <<>>
    BY <2>1, JoinedLists
  <2>4. /\ \A m \in 0..n : IsList(Joined(g, m))
        /\ \A m \in 0..(n - 1) : Joined(g, m + 1) = Joined(g, m) \o g[m + 1]
        /\ Joined(g, 0) = <<>>
    BY <2>2, JoinedLists
  <2> QED BY <2>3, <2>4
<1>1. 0 \in T
  <2>1. Times(<<>>, x) = 0
    BY TimesNothing
  <2> QED BY <1>0, <2>1
<1>2. ASSUME NEW m \in Nat, m \in T PROVE m + 1 \in T
  <2> SUFFICES ASSUME m + 1 <= n
               PROVE  Times(Joined(g, m + 1), x) = Times(Joined(f, m + 1), x) + D(m + 1)
    OBVIOUS
  <2>1. m \in 0..n /\ m \in 0..(n - 1) /\ m + 1 \in 1..n
    OBVIOUS
  <2> DEFINE F == Joined(f, m)
             G == Joined(g, m)
             a == f[m + 1]
             b == g[m + 1]
  <2>2. IsList(F) /\ IsList(G) /\ IsList(a) /\ IsList(b)
    BY <1>0, <2>1
  <2>3. Joined(f, m + 1) = F \o a /\ Joined(g, m + 1) = G \o b
    BY <1>0, <2>1
  <2>4. Times(G, x) = Times(F, x) + D(m)
    BY <1>2
  <2>5. Times(b, x) = Times(a, x) + IF m + 1 = k THEN d ELSE 0
    <3>1. CASE m + 1 = k
      BY <3>1
    <3>2. CASE m + 1 # k
      <4>1. b = a
        BY <2>1, <3>2
      <4>2. Times(a, x) \in Nat
        BY <2>2, PlacesFinite
      <4> HIDE DEF a, b
      <4> QED BY <3>2, <4>1, <4>2
    <3> QED BY <3>1, <3>2
  <2>6. D(m + 1) = D(m) + IF m + 1 = k THEN d ELSE 0
    OBVIOUS
  <2> HIDE DEF F, G, a, b, D
  <2>7. Times(F \o a, x) = Times(F, x) + Times(a, x) /\ Times(G \o b, x) = Times(G, x) + Times(b, x)
    BY <2>2, TimesConcat
  <2>8. Times(F, x) \in Nat /\ Times(a, x) \in Nat
    BY <2>2, PlacesFinite
  <2>9. D(m) \in Nat
    BY DEF D
  <2> DEFINE u == IF m + 1 = k THEN d ELSE 0
             v == Times(F, x)
             w == Times(a, x)
             z == D(m)
  <2>10. u \in Nat /\ v \in Nat /\ w \in Nat /\ z \in Nat
    BY <2>8, <2>9
  <2>11. Times(G \o b, x) = (v + z) + (w + u)
    BY <2>4, <2>5, <2>7
  <2>12. Times(F \o a, x) = v + w /\ D(m + 1) = z + u
    BY <2>6, <2>7
  <2> HIDE DEF u, v, w, z
  <2>13. (v + z) + (w + u) = (v + w) + (z + u)
    BY <2>10
  <2> QED BY <2>3, <2>11, <2>12, <2>13
<1>3. D(n) = d
  OBVIOUS
<1> HIDE DEF T
<1>4. n \in T
  BY <1>1, <1>2, NumbersByInduction
<1> QED BY <1>3, <1>4 DEF T

----------------------------------------------------------------------------
(* Adding a number to one value of a function, which may be new, adds it   *)
(* to the sum.                                                             *)

GrowsBy(f, g, x, d) ==
  /\ IsFiniteSet(DOMAIN f) /\ \A y \in DOMAIN f : f[y] \in Nat
  /\ DOMAIN g = DOMAIN f \cup {x} /\ \A y \in DOMAIN f \ {x} : g[y] = f[y]
  /\ d \in Nat /\ g[x] = (IF x \in DOMAIN f THEN f[x] ELSE 0) + d

LEMMA SumAdds ==
  ASSUME NEW f, NEW g, NEW x, NEW d, GrowsBy(f, g, x, d)
  PROVE  Total(f) \in Nat /\ Total(g) = Total(f) + d
<1>0. /\ IsFiniteSet(DOMAIN f) /\ \A y \in DOMAIN f : f[y] \in Nat
      /\ DOMAIN g = DOMAIN f \cup {x} /\ \A y \in DOMAIN f \ {x} : g[y] = f[y]
      /\ d \in Nat /\ g[x] = (IF x \in DOMAIN f THEN f[x] ELSE 0) + d
  BY DEF GrowsBy
<1> DEFINE D == DOMAIN f
           E == D \ {x}
<1>1. IsFiniteSet(D \cup {x}) /\ IsFiniteSet(E)
  BY <1>0, FS_AddElement, FS_Subset
<1>2. Total(f) = SumOn(f, D) /\ Total(g) = SumOn(g, D \cup {x})
  BY <1>0, TotalIsSum
<1>3. \A y \in D \cup {x} : g[y] \in Nat
  <2>1. x \in D => f[x] + d \in Nat
    BY <1>0
  <2> QED BY <1>0, <2>1
<1>4. SumOn(g, D \cup {x}) = g[x] + SumOn(g, E)
  <2>1. (D \cup {x}) \ {x} = E
    OBVIOUS
  <2> HIDE DEF E
  <2> QED BY <1>0, <1>1, <1>3, <2>1, SumWithout
<1>5. SumOn(g, E) = SumOn(f, E) /\ SumOn(f, E) \in Nat /\ SumOn(f, D) \in Nat
  BY <1>0, <1>1, SumSame, SumType
<1>6. x \in D => SumOn(f, D) = f[x] + SumOn(f, E)
  BY <1>0, <1>1, SumWithout
<1>7. x \notin D => SumOn(f, D) = SumOn(f, E)
  <2>1. x \notin D => E = D
    OBVIOUS
  <2> HIDE DEF E, D
  <2> QED BY <2>1
<1>8. /\ x \in D => f[x] \in Nat /\ g[x] = f[x] + d
      /\ x \notin D => g[x] = d
  BY <1>0
<1> HIDE DEF D, E
<1> QED BY <1>0, <1>2, <1>4, <1>5, <1>6, <1>7, <1>8

\* A sum of no terms.
LEMMA SumOfNone == ASSUME NEW f, DOMAIN f = {} PROVE Total(f) = 0
<1>1. Total(f) = SumOn(f, {})
  BY TotalIsSum
<1>2. SumOn(f, {}) = 0
  BY SumSteps, FS_EmptySet
<1> QED BY <1>1, <1>2

=============================================================================
