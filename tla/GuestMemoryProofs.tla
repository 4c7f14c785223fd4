------------------------- MODULE GuestMemoryProofs --------------------------
(***************************************************************************)
(* Theorems about GuestMemory, for every page size, address space, set of  *)
(* buffers and bound on sizes.  The inductive invariant is IInv; each      *)
(* action has a lemma that it preserves it.                                *)
(***************************************************************************)
EXTENDS GuestMemory, DataTheorems

----------------------------------------------------------------------------
(* Pages and wrap-around; the rest of the proofs uses nothing else of % .   *)

\* An address lies on its page, at most a page size above its base.
LEMMA BaseAndOffset ==
  ASSUME NEW a \in Nat
  PROVE  /\ PageOffset(a) \in Offset
         /\ PageBase(a) \in Nat
         /\ PageBase(a) <= a
         /\ a < PageBase(a) + PageSize
         /\ a = PageBase(a) + PageOffset(a)
  BY FloorAndRest, PageSizeAssumption DEF PageOffset, PageBase, Floor, Offset

\* The base of a page is aligned.
LEMMA BaseIsAligned ==
  ASSUME NEW a \in Nat
  PROVE  PageOffset(PageBase(a)) = 0
  BY FloorIsMultiple, PageSizeAssumption DEF PageOffset, PageBase, Floor

\* Moving inside a page changes the offset and not the page.
LEMMA SamePage ==
  ASSUME NEW a \in Nat, NEW d \in Nat, PageOffset(a) + d < PageSize
  PROVE  /\ PageOffset(a + d) = PageOffset(a) + d
         /\ PageBase(a + d) = PageBase(a)
  BY SameFloor, PageSizeAssumption DEF PageOffset, PageBase, Floor

\* Between two aligned addresses lies at least a page.
LEMMA AlignedGap ==
  ASSUME NEW b \in Nat, NEW c \in Nat,
         PageOffset(b) = 0, PageOffset(c) = 0, b < c
  PROVE  b + PageSize <= c
  BY MultiplesApart, PageSizeAssumption DEF PageOffset

\* A page size above an aligned address is the next aligned address.
LEMMA NextPageIsAligned ==
  ASSUME NEW b \in Nat, PageOffset(b) = 0
  PROVE  PageOffset(b + PageSize) = 0
  BY NextMultiple, PageSizeAssumption DEF PageOffset

\* The base of an address is the greatest aligned address up to it.
LEMMA BaseIsGreatest ==
  ASSUME NEW a \in Nat, NEW b \in Nat, PageOffset(b) = 0, b <= a
  PROVE  b <= PageBase(a)
  BY FloorIsGreatest, PageSizeAssumption DEF PageOffset, PageBase, Floor

\* Every page lies inside the address space, whole.
LEMMA PageFits ==
  ASSUME NEW a \in Address
  PROVE  /\ PageBase(a) \in PageBases
         /\ PageBase(a) + PageSize <= MaxAddress + 1
<1>1. a \in Nat /\ PageBase(a) \in Nat /\ PageBase(a) <= a
      /\ PageBase(a) % PageSize = 0 /\ a <= MaxAddress /\ MaxAddress \in Nat
  BY BaseAndOffset, BaseIsAligned, MaxAddressAssumption DEF Address, PageOffset
<1>2. (MaxAddress + 1) % PageSize = 0
  BY MaxAddressAssumption
<1>3. PageBase(a) + PageSize <= MaxAddress + 1
  BY <1>1, <1>2, MultiplesApart, PageSizeAssumption
<1> QED BY <1>1, <1>3 DEF PageBases, Address, PageOffset

\* An address of the address space is not changed by the arithmetic of
\* uint64_t.
LEMMA WrapInside ==
  ASSUME NEW a \in Address
  PROVE  Wrap(a) = a
<1>1. a \in 0 .. (MaxAddress + 1) - 1 /\ MaxAddress + 1 \in Nat \ {0}
  BY MaxAddressAssumption DEF Address
<1>2. ((MaxAddress + 1) * 0 + a) % (MaxAddress + 1) = a
  BY <1>1, Remainder
<1>3. (MaxAddress + 1) * 0 + a = a
  BY <1>1
<1> QED BY <1>2, <1>3 DEF Wrap

----------------------------------------------------------------------------
(* The steps.                                                              *)

\* A chunk is not empty, not longer than what remains, and stays on its page.
LEMMA ChunkFacts ==
  ASSUME NEW a \in Nat, NEW n \in Nat \ {0}
  PROVE  /\ Chunk(a, n) \in 1..n
         /\ PageOffset(a) + Chunk(a, n) <= PageSize
<1>1. PageOffset(a) \in Offset
  BY BaseAndOffset
<1> QED
  BY <1>1, PageSizeAssumption DEF Chunk, Offset

\* All the addresses of a chunk lie on one page, at consecutive offsets.
LEMMA ChunkOnOnePage ==
  ASSUME NEW a \in Nat, NEW n \in Nat \ {0}, NEW i \in 0 .. Chunk(a, n) - 1
  PROVE  /\ PageBase(a + i) = PageBase(a)
         /\ PageOffset(a + i) = PageOffset(a) + i
<1>1. i \in Nat /\ PageOffset(a) + i < PageSize
  BY ChunkFacts, BaseAndOffset, PageSizeAssumption DEF Offset
<1> QED
  BY <1>1, SamePage

\* A range that passes the overflow test of the code fits the address space.
LEMMA NoOverflow ==
  ASSUME NEW a \in Address, NEW n \in Nat, n # 0, ~ Overflows(a, n)
  PROVE  a + n - 1 <= MaxAddress /\ a + n - 1 \in Address
  BY MaxAddressAssumption DEF Overflows, Address

\* The initial state satisfies the invariant.
LEMMA InitIInv == Init => IInv
<1> SUFFICES ASSUME Init PROVE IInv
  OBVIOUS
<1>1. 0 \in Address
  BY MaxAddressAssumption DEF Address
<1>2. TypeOK
  BY <1>1 DEF Init, TypeOK, NoFault, Fault, Faults, FaultKind, NoCall, Call,
              NoReturn, Returned
<1> QED
  BY <1>2 DEF Init, IInv, LoopInRange, CheckedSoFar, CopyIsAuthorised,
              MapKeepsToItsPages, CallFits, BufferFits, Accessing

\* SetFault leaves a fault of the right type.
LEMMA SetFaultType ==
  ASSUME TypeOK, NEW k \in FaultKind, NEW a \in Address, SetFault(k, a)
  PROVE  fault' \in Faults
  BY DEF TypeOK, SetFault, Fault, Faults

\* A call that returns leaves no loop running.
LEMMA ReturnIInv ==
  ASSUME TypeOK, NEW is \in {"ok", "refused"}, NEW bytes \in Seq(Byte),
         Return(is, bytes), fault' \in Faults,
         DOMAIN pages' \subseteq PageBases, pages' \in [DOMAIN pages' -> Page]
  PROVE  IInv'
<1>1. 0 \in Address
  BY MaxAddressAssumption DEF Address
<1>2. TypeOK'
  BY <1>1 DEF Return, TypeOK, NoCall, Call, Returned
<1>3. pc' = "idle" /\ out' = <<>>
  BY DEF Return
<1> QED
  BY <1>2, <1>3 DEF IInv, LoopInRange, CheckedSoFar, CopyIsAuthorised,
                    MapKeepsToItsPages, CallFits, BufferFits, Accessing

\* Zeros are bytes.
LEMMA ZerosType ==
  ASSUME NEW n \in Nat
  PROVE  Zeros(n) \in Seq(Byte) /\ <<>> \in Seq(Byte)
  BY ByteAssumption DEF Zeros

----------------------------------------------------------------------------
(* Map.                                                                    *)

LEMMA MapIInv ==
  ASSUME IInv, NEW a \in Address, NEW n \in 0..MaxSize, NEW g \in MapRights,
         Map(a, n, g)
  PROVE  IInv'
<1> USE DEF IInv
<1>1. TypeOK /\ Idle /\ n \in Nat /\ a \in Nat /\ <<>> \in Seq(Byte)
  BY CallerAssumption, ZerosType DEF Map, Address
<1>2. CASE n = 0
  <2>1. Return("ok", <<>>) /\ UNCHANGED <<pages, fault>>
    BY <1>2 DEF Map
  <2> QED
    BY <1>1, <2>1, ReturnIInv DEF TypeOK
<1>3. CASE n # 0 /\ Overflows(a, n)
  <2>1. /\ SetFault("BackendError", a)
        /\ Return("refused", <<>>)
        /\ UNCHANGED pages
    BY <1>3 DEF Map
  <2>2. fault' \in Faults
    BY <1>1, <2>1, SetFaultType DEF FaultKind
  <2> QED
    BY <1>1, <2>1, <2>2, ReturnIInv DEF TypeOK
<1>4. CASE n # 0 /\ ~ Overflows(a, n)
  <2>1. /\ pc' = "map"
        /\ call' = [name |-> "map", address |-> a, size |-> n,
                    buffer |-> <<>>, granted |-> g]
        /\ cur' = PageBase(a)
        /\ UNCHANGED <<pages, fault, left, out, ret>>
    BY <1>4 DEF Map
  <2>2. a + n - 1 <= MaxAddress /\ a + n - 1 \in Address
    BY <1>1, <1>4, NoOverflow
  <2>3. PageBase(a) \in PageBases /\ PageBase(a) \in Nat
    BY <1>1, PageFits, BaseAndOffset
  <2>4. TypeOK'
    BY <1>1, <2>1, <2>3, CallerAssumption DEF TypeOK, Call, PageBases
  <2>5. MapKeepsToItsPages'
    <3>1. LastPage' = PageBase(a + n - 1)
      BY <2>1 DEF LastPage
    <3>2. PageBase(a) <= PageBase(a + n - 1)
      <4>1. PageBase(a) <= a + n - 1 /\ PageOffset(PageBase(a)) = 0
        BY <1>1, <1>4, BaseAndOffset, BaseIsAligned
      <4>2. a + n - 1 \in Nat
        BY <1>1, <1>4
      <4> QED
        BY <4>1, <4>2, <2>3, BaseIsGreatest
    <3>3. \A b \in PageBases : ~ (PageBase(a) <= b /\ b < PageBase(a))
      BY <2>3 DEF PageBases, Address
    <3> QED
      BY <2>1, <2>3, <3>1, <3>2, <3>3 DEF MapKeepsToItsPages
  <2>6. CallFits'
    BY <1>1, <1>4, <2>1, <2>2 DEF CallFits
  <2>7. LoopInRange' /\ CheckedSoFar' /\ CopyIsAuthorised' /\ BufferFits'
    BY <1>1, <2>1 DEF LoopInRange, CheckedSoFar, CopyIsAuthorised, BufferFits,
                      Accessing, Idle
  <2> QED
    BY <2>4, <2>5, <2>6, <2>7
<1> QED
  BY <1>2, <1>3, <1>4

LEMMA MapPageIInv ==
  ASSUME IInv, MapPage
  PROVE  IInv'
<1> USE DEF IInv
<1>1. /\ pc = "map" /\ UNCHANGED fault
      /\ pages' = [b \in DOMAIN pages \cup {cur} |->
                     IF b = cur THEN MappedPage ELSE pages[b]]
  BY DEF MapPage
<1>2. /\ call \in Call /\ cur \in PageBases /\ cur \in Nat /\ cur \in Address
      /\ PageOffset(cur) = 0 /\ PageBase(call.address) <= cur
      /\ cur <= LastPage
  BY <1>1 DEF TypeOK, MapKeepsToItsPages, PageBases, Address
<1>3. MappedPage \in Page
  <2>1. ZeroBytes \in [Offset -> Byte]
    BY ByteAssumption DEF ZeroBytes
  <2>2. PageBase(cur) = cur
    BY <1>2 DEF PageBase
  <2>3. FindPage(cur) => pages[cur].bytes \in [Offset -> Byte]
    BY <2>2 DEF FindPage, TypeOK, Page
  <2> QED
    BY <1>2, <2>1, <2>3 DEF MappedPage, Page, Call
<1>4. DOMAIN pages' \subseteq PageBases /\ pages' \in [DOMAIN pages' -> Page]
  BY <1>1, <1>2, <1>3 DEF TypeOK
<1>5. CASE cur = LastPage
  <2>1. Return("ok", <<>>)
    BY <1>5 DEF MapPage
  <2> QED
    BY <1>1, <1>4, <2>1, ReturnIInv, ZerosType DEF TypeOK
<1>6. CASE cur # LastPage
  <2>1. /\ cur' = Wrap(cur + PageSize)
        /\ UNCHANGED <<pc, call, left, out, ret>>
    BY <1>6 DEF MapPage
  <2>2. /\ call.address \in Nat /\ call.size \in Nat /\ call.size >= 1
        /\ call.address + call.size - 1 \in Address
    BY <1>1, <1>2, MaxAddressAssumption DEF CallFits, Call, Address
  <2>3. LastPage \in PageBases /\ LastPage \in Nat /\ PageOffset(LastPage) = 0
    BY <2>2, PageFits DEF LastPage, PageBases, Address
  <2>4. cur + PageSize <= LastPage
    BY <1>2, <1>6, <2>3, AlignedGap
  <2>5. cur + PageSize \in Address /\ PageOffset(cur + PageSize) = 0
    <3>1. cur + PageSize \in Address
      BY <1>2, <2>3, <2>4, PageSizeAssumption, MaxAddressAssumption
         DEF PageBases, Address
    <3> QED
      BY <3>1, <1>2, NextPageIsAligned
  <2>6. cur' = cur + PageSize
    BY <2>1, <2>5, WrapInside
  <2>7. TypeOK'
    BY <1>1, <1>4, <2>1, <2>5, <2>6 DEF TypeOK
  <2>8. MapKeepsToItsPages'
    <3>1. cur' \in PageBases /\ cur' <= LastPage' /\ PageBase(call'.address) <= cur'
      BY <1>2, <2>1, <2>2, <2>4, <2>5, <2>6, BaseAndOffset, PageSizeAssumption
         DEF PageBases, LastPage
    <3>2. ASSUME NEW b \in PageBases, PageBase(call'.address) <= b, b < cur'
          PROVE  b \in DOMAIN pages' /\ pages'[b].rights = call'.granted
      <4>1. CASE b = cur
        BY <4>1, <1>1, <2>1 DEF MappedPage
      <4>2. CASE b < cur
        BY <4>2, <3>2, <1>1, <1>2, <2>1
           DEF MapKeepsToItsPages, PageBases, Address
      <4>3. CASE cur < b
        <5>1. cur + PageSize <= b
          BY <4>3, <1>2, AlignedGap DEF PageBases, Address
        <5> QED
          BY <5>1, <3>2, <2>6, <2>5 DEF PageBases, Address
      <4> QED
        BY <4>1, <4>2, <4>3, <1>2 DEF PageBases, Address
    <3> QED
      BY <3>1, <3>2 DEF MapKeepsToItsPages
  <2>9. CallFits'
    BY <2>1 DEF CallFits
  <2>10. LoopInRange' /\ CheckedSoFar' /\ CopyIsAuthorised' /\ BufferFits'
    BY <1>1, <2>1 DEF LoopInRange, CheckedSoFar, CopyIsAuthorised, BufferFits,
                      Accessing
  <2> QED
    BY <2>7, <2>8, <2>9, <2>10
<1> QED
  BY <1>5, <1>6

----------------------------------------------------------------------------
(* Read and Write.                                                         *)

LEMMA AccessIInv ==
  ASSUME IInv, NEW name \in {"read", "write"}, NEW a \in Address,
         NEW n \in Nat, NEW bytes \in Seq(Byte),
         name = "write" => Len(bytes) = n,
         Access(name, a, n, bytes)
  PROVE  IInv'
<1> USE DEF IInv
<1>1. TypeOK /\ Idle /\ a \in Nat /\ Zeros(n) \in Seq(Byte) /\ <<>> \in Seq(Byte)
  BY ZerosType DEF Access, Address
<1>2. CASE n = 0
  <2>1. Return("ok", <<>>) /\ UNCHANGED <<pages, fault>>
    BY <1>2 DEF Access
  <2> QED
    BY <1>1, <2>1, ReturnIInv DEF TypeOK
<1>3. CASE n # 0 /\ Overflows(a, n)
  <2>1. /\ SetFault("BackendError", a)
        /\ Return("refused", IF name = "read" THEN Zeros(n) ELSE <<>>)
        /\ UNCHANGED pages
    BY <1>3 DEF Access
  <2>2. fault' \in Faults
    BY <1>1, <2>1, SetFaultType DEF FaultKind
  <2>3. (IF name = "read" THEN Zeros(n) ELSE <<>>) \in Seq(Byte)
    BY <1>1
  <2> QED
    BY <1>1, <2>1, <2>2, <2>3, ReturnIInv DEF TypeOK
<1>4. CASE n # 0 /\ ~ Overflows(a, n)
  <2>1. /\ pc' = "check"
        /\ call' = [name |-> name, address |-> a, size |-> n,
                    buffer |-> bytes, granted |-> {}]
        /\ cur' = a
        /\ left' = n
        /\ UNCHANGED <<pages, fault, out, ret>>
    BY <1>4 DEF Access
  <2>2. a + n - 1 <= MaxAddress
    BY <1>4, NoOverflow
  <2>3. TypeOK'
    BY <1>1, <2>1 DEF TypeOK, Call
  <2>4. LoopInRange'
    BY <1>1, <1>4, <2>1, <2>2 DEF LoopInRange, Accessing, Done
  <2>5. CheckedSoFar'
    <3>1. RangeOf(a, n - n) = {}
      BY <1>1 DEF RangeOf
    <3> QED
      BY <2>1, <3>1 DEF CheckedSoFar, Done
  <2>6. BufferFits'
    BY <1>1, <2>1 DEF BufferFits, Accessing, Idle
  <2>7. CopyIsAuthorised' /\ MapKeepsToItsPages' /\ CallFits'
    BY <2>1 DEF CopyIsAuthorised, MapKeepsToItsPages, CallFits
  <2> QED
    BY <2>3, <2>4, <2>5, <2>6, <2>7
<1> QED
  BY <1>2, <1>3, <1>4

\* Whether an address grants an access is decided by its page.
LEMMA GrantsOnPage ==
  ASSUME NEW x, NEW y, NEW right, PageBase(x) = PageBase(y), Grants(y, right)
  PROVE  Grants(x, right)
  BY DEF Grants, FindPage

\* What both loops know about the chunk they are at.
LEMMA ChunkInCall ==
  ASSUME TypeOK, LoopInRange, Accessing
  PROVE  /\ call.address \in Nat /\ call.size \in Nat /\ MaxAddress \in Nat
         /\ Done \in Nat /\ cur \in Nat /\ cur \in Address
         /\ left \in Nat \ {0} /\ left <= call.size
         /\ cur = call.address + Done /\ Done + left = call.size
         /\ cur + left - 1 <= MaxAddress
         /\ Chunk(cur, left) \in 1..left
         /\ PageOffset(cur) \in Offset
         /\ PageOffset(cur) + Chunk(cur, left) <= PageSize
<1>1. /\ call.address \in Nat /\ call.size \in Nat /\ cur \in Nat
      /\ cur \in Address /\ MaxAddress \in Nat /\ left \in Nat \ {0}
      /\ left <= call.size
  BY MaxAddressAssumption DEF TypeOK, Call, Address, LoopInRange
<1>2. /\ cur = call.address + Done /\ Done = call.size - left
      /\ call.address + call.size - 1 <= MaxAddress
  BY DEF LoopInRange, Done
<1>3. /\ Chunk(cur, left) \in 1..left
      /\ PageOffset(cur) + Chunk(cur, left) <= PageSize
  BY <1>1, ChunkFacts
<1>4. PageOffset(cur) \in Offset
  BY <1>1, BaseAndOffset
<1>5. Done \in Nat /\ Done + left = call.size
  BY <1>1, <1>2
<1>6. cur + left - 1 <= MaxAddress
  BY <1>1, <1>2, <1>5
<1> QED
  BY <1>1, <1>2, <1>3, <1>4, <1>5, <1>6

\* If the loop is not at its last chunk, it moves on inside the range.
LEMMA AdvanceInRange ==
  ASSUME TypeOK, LoopInRange, Accessing, left # Chunk(cur, left), Advance,
         UNCHANGED <<pc, call>>
  PROVE  /\ LoopInRange' /\ cur' \in Address /\ left' \in Nat
         /\ cur' = cur + Chunk(cur, left)
         /\ Done' = Done + Chunk(cur, left)
<1> DEFINE c == Chunk(cur, left)
<1>1. c \in 1..left /\ c # left /\ cur + left - 1 <= MaxAddress
      /\ cur \in Nat /\ left \in Nat \ {0} /\ MaxAddress \in Nat
      /\ call.size \in Nat /\ call.address \in Nat /\ left <= call.size
      /\ Done = call.size - left /\ cur = call.address + Done
  BY ChunkInCall DEF Done
<1>2. cur + c \in Address
  BY <1>1 DEF Address
<1>3. cur' = cur + c /\ left' = left - c
  BY <1>2, WrapInside DEF Advance
<1>4. Done' = Done + c
  BY <1>1, <1>3 DEF Done
<1>5. left' \in 1..call.size /\ cur' = call.address + Done'
  <2> HIDE DEF c
  <2> QED
    BY <1>1, <1>3, <1>4
<1>6. LoopInRange'
  BY <1>5 DEF LoopInRange, Accessing
<1> QED
  BY <1>2, <1>3, <1>4, <1>5, <1>6

\* If all the bytes before the chunk are granted, and the page of the chunk
\* is, then all the bytes up to its end are.
LEMMA CheckedThroughChunk ==
  ASSUME TypeOK, LoopInRange, CheckedSoFar, pc = "check", Grants(cur, call.name)
  PROVE  \A a \in RangeOf(call.address, Done + Chunk(cur, left)) :
           Grants(a, call.name)
<1>0. Accessing
  BY DEF Accessing
<1> SUFFICES ASSUME NEW a \in RangeOf(call.address, Done + Chunk(cur, left))
             PROVE  Grants(a, call.name)
  OBVIOUS
<1>1. /\ a \in Nat /\ call.address <= a
      /\ a <= call.address + (Done + Chunk(cur, left)) - 1
  BY <1>0, ChunkInCall DEF RangeOf
<1>2. CASE a < cur
  <2>1. a \in RangeOf(call.address, Done)
    BY <1>0, <1>1, <1>2, ChunkInCall DEF RangeOf
  <2> QED
    BY <2>1 DEF CheckedSoFar
<1>3. CASE cur <= a
  <2>1. a - cur \in 0 .. Chunk(cur, left) - 1 /\ a = cur + (a - cur)
    BY <1>0, <1>1, <1>3, ChunkInCall
  <2>2. PageBase(cur + (a - cur)) = PageBase(cur)
    BY <1>0, <2>1, ChunkInCall, ChunkOnOnePage
  <2> QED
    BY <2>1, <2>2, GrantsOnPage
<1> QED
  BY <1>0, <1>1, <1>2, <1>3, ChunkInCall

LEMMA CheckChunkIInv ==
  ASSUME IInv, CheckChunk
  PROVE  IInv'
<1> USE DEF IInv
<1>1. pc = "check" /\ Accessing /\ UNCHANGED pages
  BY DEF CheckChunk, Accessing
<1>2. CASE ~ Grants(cur, call.name)
  <2>1. Refused /\ (SetFault("Unmapped", cur) \/ SetFault("Permission", cur))
    BY <1>2 DEF CheckChunk, Grants
  <2>2. fault' \in Faults
    BY <2>1, SetFaultType DEF TypeOK, FaultKind
  <2>3. (IF call.name = "read" THEN Zeros(call.size) ELSE <<>>) \in Seq(Byte)
    BY ZerosType DEF TypeOK, Call
  <2> QED
    BY <1>1, <2>1, <2>2, <2>3, ReturnIInv DEF TypeOK, Refused
<1>3. CASE Grants(cur, call.name) /\ left = Chunk(cur, left)
  <2>1. /\ pc' = "copy" /\ cur' = call.address /\ left' = call.size
        /\ UNCHANGED <<fault, call, out, ret, pages>>
    BY <1>3 DEF CheckChunk, Grants
  <2>2. call.size \in Nat /\ call.address \in Nat /\ call.address \in Address
    BY DEF TypeOK, Call, Address
  <2>3. TypeOK'
    BY <2>1, <2>2 DEF TypeOK
  <2>4. LoopInRange'
    BY <1>1, <2>1, <2>2, ChunkInCall DEF LoopInRange, Accessing, Done
  <2>5. CopyIsAuthorised'
    <3>1. Done + Chunk(cur, left) = call.size
      BY <1>1, <1>3, ChunkInCall
    <3>2. \A a \in RangeOf(call.address, call.size) : Grants(a, call.name)
      BY <1>1, <1>3, <3>1, CheckedThroughChunk
    <3> QED
      BY <2>1, <3>2 DEF CopyIsAuthorised, Grants, FindPage
  <2>6. BufferFits'
    <3>1. out = <<>> /\ call.size - call.size = 0
      BY <1>1, <2>2 DEF BufferFits
    <3> QED
      BY <1>1, <2>1, <3>1 DEF BufferFits, Accessing, Done
  <2>7. CheckedSoFar' /\ MapKeepsToItsPages' /\ CallFits'
    BY <2>1 DEF CheckedSoFar, MapKeepsToItsPages, CallFits
  <2> QED
    BY <2>3, <2>4, <2>5, <2>6, <2>7
<1>4. CASE Grants(cur, call.name) /\ left # Chunk(cur, left)
  <2>1. Advance /\ UNCHANGED <<fault, pc, call, out, ret, pages>>
    BY <1>4 DEF CheckChunk, Grants
  <2>2. LoopInRange' /\ cur' \in Address /\ left' \in Nat
        /\ Done' = Done + Chunk(cur, left)
    BY <1>1, <1>4, <2>1, AdvanceInRange
  <2>3. TypeOK'
    BY <2>1, <2>2 DEF TypeOK
  <2>4. CheckedSoFar'
    <3>1. \A a \in RangeOf(call.address, Done') : Grants(a, call.name)
      BY <1>1, <1>4, <2>2, CheckedThroughChunk
    <3> QED
      BY <2>1, <3>1 DEF CheckedSoFar, Grants, FindPage
  <2>5. BufferFits'
    BY <1>1, <2>1 DEF BufferFits, Accessing
  <2>6. CopyIsAuthorised' /\ MapKeepsToItsPages' /\ CallFits'
    BY <1>1, <2>1 DEF CopyIsAuthorised, MapKeepsToItsPages, CallFits
  <2> QED
    BY <2>2, <2>3, <2>4, <2>5, <2>6
<1> QED
  BY <1>2, <1>3, <1>4

\* The bytes of a chunk that a write stores are a page's worth of bytes.
LEMMA StoredType ==
  ASSUME TypeOK, LoopInRange, BufferFits, pc = "copy", call.name = "write",
         FindPage(cur)
  PROVE  Stored \in [Offset -> Byte]
<1>1. Accessing /\ Len(call.buffer) = call.size /\ call.buffer \in Seq(Byte)
  BY DEF Accessing, BufferFits, TypeOK, Call
<1>2. pages[PageBase(cur)].bytes \in [Offset -> Byte]
  BY DEF FindPage, TypeOK, Page
<1>3. ASSUME NEW o \in PageOffset(cur) .. (PageOffset(cur) + Chunk(cur, left) - 1)
      PROVE  call.buffer[Done + o - PageOffset(cur) + 1] \in Byte
  <2>1. /\ Done \in Nat /\ call.size \in Nat /\ left \in Nat
        /\ Done + left = call.size
        /\ Chunk(cur, left) \in 1..left
        /\ PageOffset(cur) \in 0 .. PageSize - 1
    BY <1>1, ChunkInCall DEF Offset
  <2>2. o \in Int /\ PageOffset(cur) <= o
        /\ o <= PageOffset(cur) + Chunk(cur, left) - 1
    BY <1>3, <2>1
  <2>3. Done + o - PageOffset(cur) + 1 \in 1..call.size
    BY <2>1, <2>2, PageSizeAssumption
  <2> QED
    BY <1>1, <2>3
<1> QED
  BY <1>2, <1>3 DEF Stored

\* A read's buffer grows by the length of the chunk, in bytes of the page.
LEMMA LoadedType ==
  ASSUME TypeOK, LoopInRange, pc = "copy", FindPage(cur)
  PROVE  /\ Loaded \in Seq(Byte)
         /\ Len(Loaded) = Len(out) + Chunk(cur, left)
<1> DEFINE n == Chunk(cur, left)
           tail == [i \in 1..n |-> pages[PageBase(cur)].bytes[PageOffset(cur) + i - 1]]
<1>1. Accessing /\ out \in Seq(Byte)
  BY DEF Accessing, TypeOK
<1>2. pages[PageBase(cur)].bytes \in [Offset -> Byte]
  BY DEF FindPage, TypeOK, Page
<1>3. n \in Nat /\ \A i \in 1..n : PageOffset(cur) + i - 1 \in Offset
  <2>1. n \in Nat /\ PageOffset(cur) \in Nat /\ PageOffset(cur) + n <= PageSize
    BY <1>1, ChunkInCall DEF Offset
  <2> HIDE DEF n
  <2> QED
    BY <2>1, PageSizeAssumption DEF Offset
<1>4. tail \in [1..n -> Byte]
  BY <1>2, <1>3
<1>5. tail \in Seq(Byte) /\ Len(tail) = n
  <2> HIDE DEF n, tail
  <2>1. tail \in Seq(Byte)
    BY <1>3, <1>4
  <2> QED
    BY <1>3, <1>4, <2>1 DEF tail
<1>6. Loaded = out \o tail
  BY DEF Loaded
<1> HIDE DEF tail, n
<1>7. Loaded \in Seq(Byte) /\ Len(Loaded) = Len(out) + n
  BY <1>1, <1>5, <1>6
<1> QED
  BY <1>7 DEF n

LEMMA CopyChunkIInv ==
  ASSUME IInv, CopyChunk
  PROVE  IInv'
<1> USE DEF IInv
<1>1. pc = "copy" /\ Accessing /\ UNCHANGED fault
  BY DEF CopyChunk, Accessing
<1>2. call.name \in {"read", "write"} /\ <<>> \in Seq(Byte)
  BY <1>1, ZerosType DEF LoopInRange, TypeOK
<1>3. FindPage(cur)
  <2>1. cur \in RangeOf(call.address, call.size)
    BY <1>1, ChunkInCall DEF RangeOf
  <2> QED
    BY <1>1, <2>1 DEF CopyIsAuthorised, Grants
<1>4. /\ DOMAIN pages' = DOMAIN pages
      /\ pages' \in [DOMAIN pages' -> Page]
      /\ \A b \in DOMAIN pages : pages'[b].rights = pages[b].rights
  <2>1. CASE call.name = "write"
    <3>1. pages' = [pages EXCEPT ![PageBase(cur)].bytes = Stored]
      BY <2>1 DEF CopyChunk
    <3>2. Stored \in [Offset -> Byte]
      BY <1>1, <1>3, <2>1, StoredType
    <3> QED
      BY <1>3, <3>1, <3>2 DEF TypeOK, Page, FindPage
  <2>2. CASE call.name = "read"
    BY <2>2 DEF CopyChunk, TypeOK
  <2> QED
    BY <1>2, <2>1, <2>2
<1>5. DOMAIN pages' \subseteq PageBases
  BY <1>4 DEF TypeOK
<1>6. Loaded \in Seq(Byte) /\ Len(Loaded) = Len(out) + Chunk(cur, left)
  BY <1>1, <1>3, LoadedType
<1>7. CASE left = Chunk(cur, left)
  <2>1. Return("ok", IF call.name = "read" THEN Loaded ELSE <<>>)
    BY <1>7 DEF CopyChunk
  <2>2. (IF call.name = "read" THEN Loaded ELSE <<>>) \in Seq(Byte)
    BY <1>2, <1>6
  <2> QED
    BY <1>1, <1>4, <1>5, <2>1, <2>2, ReturnIInv DEF TypeOK
<1>8. CASE left # Chunk(cur, left)
  <2>1. /\ Advance /\ UNCHANGED <<pc, call, ret, fault>>
        /\ out' = IF call.name = "read" THEN Loaded ELSE out
    BY <1>8 DEF CopyChunk
  <2>2. LoopInRange' /\ cur' \in Address /\ left' \in Nat
        /\ Done' = Done + Chunk(cur, left)
    BY <1>1, <1>8, <2>1, AdvanceInRange
  <2>3. TypeOK'
    BY <1>4, <1>5, <1>6, <2>1, <2>2 DEF TypeOK
  <2>4. CopyIsAuthorised'
    BY <1>4, <2>1 DEF CopyIsAuthorised, Grants, FindPage
  <2>5. BufferFits'
    BY <1>1, <1>6, <2>1, <2>2 DEF BufferFits, Accessing
  <2>6. CheckedSoFar' /\ MapKeepsToItsPages' /\ CallFits'
    BY <1>1, <2>1 DEF CheckedSoFar, MapKeepsToItsPages, CallFits
  <2> QED
    BY <2>2, <2>3, <2>4, <2>5, <2>6
<1> QED
  BY <1>7, <1>8

----------------------------------------------------------------------------
(* The calls without a loop, and the theorem.                              *)

\* Between calls nothing of the invariant but the types is at stake.
LEMMA IdleIInv ==
  ASSUME IInv, pc = "idle", UNCHANGED <<pc, call, cur, left, out>>,
         fault' \in Faults, ret' \in {ret, NoReturn}, pages' \in {pages, <<>>}
  PROVE  IInv'
<1>1. ret' \in [is : {"none", "ok", "refused"}, out : Seq(Byte)]
  <2>1. CASE ret' = ret
    BY <2>1 DEF IInv, TypeOK
  <2>2. CASE ret' = NoReturn
    <3>1. <<>> \in Seq(Byte)
      OBVIOUS
    <3> QED
      BY <2>2, <3>1 DEF NoReturn, Returned
  <2> QED
    BY <2>1, <2>2
<1>2. DOMAIN pages' \subseteq PageBases /\ pages' \in [DOMAIN pages' -> Page]
  <2>1. CASE pages' = pages
    BY <2>1 DEF IInv, TypeOK
  <2>2. CASE pages' = <<>>
    BY <2>2
  <2> QED
    BY <2>1, <2>2
<1>3. TypeOK'
  BY <1>1, <1>2 DEF IInv, TypeOK
<1> QED
  BY <1>3 DEF IInv, LoopInRange, CheckedSoFar, CopyIsAuthorised,
              MapKeepsToItsPages, CallFits, BufferFits, Accessing

LEMMA NextIInv == IInv /\ [Next]_vars => IInv'
<1> SUFFICES ASSUME IInv, [Next]_vars PROVE IInv'
  OBVIOUS
<1>0. TypeOK /\ NoFault \in Faults
  BY MaxAddressAssumption
     DEF IInv, NoFault, Fault, Faults, FaultKind, Address
<1>1. ASSUME NEW a \in Address, NEW n \in 0..MaxSize, NEW g \in MapRights,
             Map(a, n, g)
      PROVE  IInv'
  BY <1>1, MapIInv
<1>2. ASSUME NEW a \in Address, NEW b \in Buffers, Write(a, b)
      PROVE  IInv'
  <2>1. b \in Seq(Byte) /\ Len(b) \in Nat
    BY CallerAssumption
  <2> QED
    BY <1>2, <2>1, AccessIInv DEF Write
<1>3. ASSUME NEW a \in Address, NEW n \in 0..MaxSize, Read(a, n)
      PROVE  IInv'
  <2>1. n \in Nat /\ <<>> \in Seq(Byte)
    BY CallerAssumption
  <2> QED
    BY <1>3, <2>1, AccessIInv DEF Read
<1>4. ASSUME NEW a \in Address, SetUnsupported(a) PROVE IInv'
  <2>1. fault' \in Faults
    BY <1>0, <1>4, SetFaultType DEF SetUnsupported, FaultKind
  <2> QED
    BY <1>4, <2>1, IdleIInv DEF SetUnsupported, Idle
<1>5. CASE SetBackendError
  <2>1. fault' \in Faults
    BY <1>0, <1>5, SetFaultType, MaxAddressAssumption
       DEF SetBackendError, FaultKind, Address
  <2> QED
    BY <1>5, <2>1, IdleIInv DEF SetBackendError, Idle
<1>6. CASE ClearStatus
  BY <1>0, <1>6, IdleIInv DEF ClearStatus, Idle
<1>7. CASE Reset
  BY <1>0, <1>7, IdleIInv DEF Reset, Idle
<1>8. CASE MapPage
  BY <1>8, MapPageIInv
<1>9. CASE CheckChunk
  BY <1>9, CheckChunkIInv
<1>10. CASE CopyChunk
  BY <1>10, CopyChunkIInv
<1>11. CASE Consume
  <2>1. TypeOK'
    BY <1>0, <1>11 DEF Consume, TypeOK, NoReturn, Returned
  <2> QED
    BY <1>11, <2>1 DEF Consume, IInv, LoopInRange, CheckedSoFar,
                      CopyIsAuthorised, MapKeepsToItsPages, CallFits,
                      BufferFits, Accessing, Done, Grants, FindPage, LastPage
<1>12. CASE UNCHANGED vars
  BY <1>12 DEF vars, IInv, TypeOK, LoopInRange, CheckedSoFar,
               CopyIsAuthorised, MapKeepsToItsPages, CallFits, BufferFits,
               Accessing, Done, Grants, FindPage, LastPage
<1> QED
  BY <1>1, <1>2, <1>3, <1>4, <1>5, <1>6, <1>7, <1>8, <1>9, <1>10, <1>11, <1>12
     DEF Next, Begin, Iterate

\* The invariant holds in every reachable state.
THEOREM Invariance == Spec => []IInv
<1>1. Init => IInv
  BY InitIInv
<1>2. IInv /\ [Next]_vars => IInv'
  BY NextIInv
<1> QED
  BY <1>1, <1>2, PTL DEF Spec

\* The variables of guest_memory.cpp's loops keep their types: the page keys
\* stay aligned and inside the address space, and no loop leaves uint64_t.
THEOREM TypeCorrect == Spec => []TypeOK
<1>1. IInv => TypeOK
  BY DEF IInv
<1> QED
  BY <1>1, Invariance, PTL

\* Neither loop of an access leaves the range of its call or wraps around.
THEOREM LoopsStayInRange == Spec => []LoopInRange
<1>1. IInv => LoopInRange
  BY DEF IInv
<1> QED
  BY <1>1, Invariance, PTL

\* The copy loop finds a page that grants the access for every byte it moves:
\* it dereferences no null page, and an access is never half done.
THEOREM CopyAuthorised == Spec => []CopyIsAuthorised
<1>1. IInv => CopyIsAuthorised
  BY DEF IInv
<1> QED
  BY <1>1, Invariance, PTL

\* Map touches the pages of its range, from the first to the last, and no
\* other, so its loop, which ends on equality, meets its end.
THEOREM MapStaysOnItsPages == Spec => []MapKeepsToItsPages
<1>1. IInv => MapKeepsToItsPages
  BY DEF IInv
<1> QED
  BY <1>1, Invariance, PTL

----------------------------------------------------------------------------
(***************************************************************************)
(* GuestMemory implements FlatMemory: whatever the callers do, they cannot *)
(* tell the pages, the two loops and their chunks from a flat array on     *)
(* which every operation happens at once.                                  *)
(*                                                                         *)
(* A call takes effect in the flat memory at the step that settles it; the *)
(* steps of its loops before and after leave the flat memory alone.  Next  *)
(* to IInv that takes RInv: what a read has copied is what the memory      *)
(* holds, and the arguments of a call are those of a caller.               *)
(***************************************************************************)

\* A read has copied what the memory holds.
OutIsContents ==
  pc = "copy" /\ call.name = "read" =>
    \A i \in 1..Len(out) : out[i] = ByteAt(call.address + i - 1)

\* Nobody waits for an answer while a call runs, and its arguments are among
\* those the callers use.
CallIsCallers ==
  /\ pc # "idle" => ret = NoReturn
  /\ pc = "check" =>
       /\ call.name = "read" => call.size \in 0..MaxSize
       /\ call.name = "write" => call.buffer \in Buffers

RInv == OutIsContents /\ CallIsCallers

----------------------------------------------------------------------------
(* RInv is invariant, given IInv.                                          *)

LEMMA InitRInv == Init => RInv
  BY DEF Init, RInv, OutIsContents, CallIsCallers

\* What the copy loop of a read has after one more chunk.
LEMMA LoadedContents ==
  ASSUME IInv, RInv, pc = "copy", call.name = "read"
  PROVE  /\ Loaded \in Seq(Byte) /\ Len(Loaded) = Done + Chunk(cur, left)
         /\ \A i \in 1..Len(Loaded) : Loaded[i] = ByteAt(call.address + i - 1)
<1> DEFINE n == Chunk(cur, left)
           chunk == [i \in 1..n |-> pages[PageBase(cur)].bytes[PageOffset(cur) + i - 1]]
<1>1. Accessing /\ TypeOK /\ LoopInRange /\ out \in Seq(Byte) /\ Len(out) = Done
  BY DEF Accessing, IInv, TypeOK, BufferFits
<1>2. /\ n \in Nat /\ Done \in Nat /\ cur \in Nat /\ left \in Nat \ {0}
      /\ call.address \in Nat /\ cur = call.address + Done
  BY <1>1, ChunkInCall
<1>3. FindPage(cur)
  <2>1. cur \in RangeOf(call.address, call.size)
    BY <1>1, ChunkInCall DEF RangeOf
  <2> QED
    BY <2>1 DEF IInv, CopyIsAuthorised, Grants
<1>4. Loaded \in Seq(Byte) /\ Len(Loaded) = Done + n
  BY <1>1, <1>3, LoadedType
<1>5. ASSUME NEW i \in 1..n
      PROVE  chunk[i] = ByteAt(call.address + (Done + i) - 1)
  <2>1. i - 1 \in 0 .. n - 1 /\ call.address + (Done + i) - 1 = cur + (i - 1)
    BY <1>2
  <2>2. /\ PageBase(cur + (i - 1)) = PageBase(cur)
        /\ PageOffset(cur + (i - 1)) = PageOffset(cur) + (i - 1)
    BY <1>2, <2>1, ChunkOnOnePage
  <2>3. PageOffset(cur) + (i - 1) = PageOffset(cur) + i - 1
    BY <1>2, BaseAndOffset DEF Offset
  <2>4. ByteAt(cur + (i - 1)) = pages[PageBase(cur)].bytes[PageOffset(cur) + i - 1]
    BY <1>3, <2>2, <2>3 DEF ByteAt, FindPage
  <2> QED
    BY <2>1, <2>4
<1>6. chunk \in Seq(Byte) /\ Len(chunk) = n
  <2>1. pages[PageBase(cur)].bytes \in [Offset -> Byte]
    BY <1>1, <1>3 DEF FindPage, TypeOK, Page
  <2>2. \A i \in 1..n : PageOffset(cur) + i - 1 \in Offset
    <3>1. PageOffset(cur) \in Nat /\ PageOffset(cur) + n <= PageSize
      BY <1>1, ChunkInCall DEF Offset
    <3> HIDE DEF n
    <3> QED
      BY <1>2, <3>1, PageSizeAssumption DEF Offset
  <2>3. chunk \in [1..n -> Byte]
    BY <2>1, <2>2
  <2> HIDE DEF n, chunk
  <2>4. chunk \in Seq(Byte)
    BY <1>2, <2>3
  <2> QED
    BY <1>2, <2>3, <2>4 DEF chunk
<1>7. Loaded = out \o chunk
  BY DEF Loaded
<1>8. ASSUME NEW i \in 1..(Done + n)
      PROVE  Loaded[i] = ByteAt(call.address + i - 1)
  <2> HIDE DEF n, chunk
  <2>1. CASE i <= Done
    <3>1. Loaded[i] = out[i] /\ i \in 1..Len(out)
      BY <1>1, <1>2, <1>6, <1>7, <2>1
    <3> QED
      BY <3>1 DEF RInv, OutIsContents
  <2>2. CASE Done < i
    <3>1. i - Done \in 1..n /\ Done + (i - Done) = i
      BY <1>2, <2>2
    <3>2. i \in 1..(Len(out) + Len(chunk)) /\ i > Len(out)
      BY <1>1, <1>2, <1>6, <2>2
    <3>3. (out \o chunk)[i] = chunk[i - Len(out)]
      BY <1>1, <1>6, <3>2
    <3> QED
      BY <1>1, <1>5, <1>7, <3>1, <3>3
  <2> QED
    BY <1>2, <2>1, <2>2
<1> QED
  BY <1>4, <1>8

LEMMA NextRInv == IInv /\ RInv /\ [Next]_vars => RInv'
<1> SUFFICES ASSUME IInv, RInv, [Next]_vars PROVE RInv'
  OBVIOUS
<1>1. ASSUME pc' \in {"idle", "map"}, pc' = "map" => ret' = NoReturn
      PROVE  RInv'
  BY <1>1 DEF RInv, OutIsContents, CallIsCallers
<1>2. ASSUME NEW a \in Address, NEW n \in 0..MaxSize, NEW g \in MapRights,
             Map(a, n, g)
      PROVE  RInv'
  BY <1>1, <1>2 DEF Map, Return, Idle
<1>3. ASSUME NEW name \in {"read", "write"}, NEW a \in Address, NEW n \in Nat,
             NEW bytes \in Seq(Byte), Access(name, a, n, bytes),
             name = "read" => n \in 0..MaxSize,
             name = "write" => bytes \in Buffers
      PROVE  RInv'
  <2>1. CASE n = 0 \/ Overflows(a, n)
    BY <1>1, <1>3, <2>1 DEF Access, Return
  <2>2. CASE ~ (n = 0 \/ Overflows(a, n))
    <3>1. /\ pc' = "check" /\ ret' = NoReturn
          /\ call'.name = name /\ call'.size = n /\ call'.buffer = bytes
      BY <1>3, <2>2 DEF Access, Idle
    <3> QED
      BY <1>3, <3>1 DEF RInv, OutIsContents, CallIsCallers
  <2> QED
    BY <2>1, <2>2
<1>4. ASSUME NEW a \in Address, NEW b \in Buffers, Write(a, b) PROVE RInv'
  <2>1. b \in Seq(Byte) /\ Len(b) \in Nat
    BY CallerAssumption
  <2> QED
    BY <1>3, <1>4, <2>1 DEF Write
<1>5. ASSUME NEW a \in Address, NEW n \in 0..MaxSize, Read(a, n) PROVE RInv'
  <2>1. n \in Nat /\ <<>> \in Seq(Byte)
    BY CallerAssumption
  <2> QED
    BY <1>3, <1>5, <2>1 DEF Read
<1>6. ASSUME \/ \E a \in Address : SetUnsupported(a)
             \/ SetBackendError \/ ClearStatus \/ Reset
      PROVE  RInv'
  BY <1>1, <1>6 DEF SetUnsupported, SetBackendError, ClearStatus, Reset, Idle
<1>7. CASE MapPage
  BY <1>1, <1>7 DEF MapPage, Return, RInv, CallIsCallers
<1>8. CASE CheckChunk
  <2>1. pc = "check" /\ UNCHANGED pages
    BY <1>8 DEF CheckChunk
  <2>2. CASE Refused
    BY <1>1, <2>2 DEF Refused, Return
  <2>3. CASE pc' = "copy" /\ UNCHANGED <<call, out, ret>>
    <3>1. out = <<>> /\ 1..0 = {}
      BY <2>1 DEF IInv, BufferFits
    <3>2. \A i \in 1..Len(out) : FALSE
      BY <3>1
    <3> QED
      BY <2>1, <2>3, <3>2 DEF RInv, OutIsContents, CallIsCallers
  <2>4. CASE UNCHANGED <<pc, call, out, ret>>
    BY <2>1, <2>4 DEF RInv, OutIsContents, CallIsCallers
  <2> QED
    BY <1>8, <2>2, <2>3, <2>4 DEF CheckChunk
<1>9. CASE CopyChunk
  <2>1. pc = "copy"
    BY <1>9 DEF CopyChunk
  <2>2. CASE left = Chunk(cur, left)
    BY <1>1, <1>9, <2>2 DEF CopyChunk, Return
  <2>3. CASE left # Chunk(cur, left)
    <3>1. /\ UNCHANGED <<pc, call, ret>>
          /\ out' = IF call.name = "read" THEN Loaded ELSE out
      BY <1>9, <2>3 DEF CopyChunk
    <3>2. CASE call.name = "read"
      <4>1. UNCHANGED pages /\ out' = Loaded
        BY <1>9, <3>1, <3>2 DEF CopyChunk
      <4>2. \A i \in 1..Len(Loaded) : Loaded[i] = ByteAt(call.address + i - 1)
        BY <2>1, <3>2, LoadedContents
      <4>3. OutIsContents'
        BY <3>1, <4>1, <4>2 DEF OutIsContents, ByteAt, FindPage
      <4> QED
        BY <2>1, <3>1, <4>3 DEF RInv, CallIsCallers
    <3>3. CASE call.name # "read"
      BY <2>1, <3>1, <3>3 DEF RInv, OutIsContents, CallIsCallers
    <3> QED
      BY <3>2, <3>3
  <2> QED
    BY <2>2, <2>3
<1>10. CASE Consume
  BY <1>10
  DEF Consume, RInv, OutIsContents, CallIsCallers, ByteAt, FindPage
<1>11. CASE UNCHANGED vars
  BY <1>11
  DEF vars, RInv, OutIsContents, CallIsCallers, ByteAt, FindPage
<1> QED
  BY <1>2, <1>4, <1>5, <1>6, <1>7, <1>8, <1>9, <1>10, <1>11 DEF Next, Begin, Iterate

----------------------------------------------------------------------------
(* The flat memory seen through the pages.                                 *)

\* Both modules speak of the same addresses, faults and answers.
LEMMA SameTerms ==
  /\ Flat!Address = Address /\ Flat!NoFault = NoFault /\ Flat!NoReturn = NoReturn
  /\ \A a, n : Flat!RangeOf(a, n) = RangeOf(a, n)
  /\ \A a : Flat!PageBase(a) = PageBase(a)
  /\ \A k, a : Flat!Fault(k, a) = Fault(k, a)
  /\ \A is, bytes : Flat!Returned(is, bytes) = Returned(is, bytes)
  /\ \A n : Flat!Zeros(n) = Zeros(n)
  BY DEF Flat!Address, Address, Flat!NoFault, NoFault, Flat!NoReturn, NoReturn,
         Flat!RangeOf, RangeOf, Flat!PageBase, PageBase, Flat!PageOffset, PageOffset,
         Flat!Fault, Fault, Flat!Returned, Returned, Flat!Zeros, Zeros

\* What the pages alone say: the flat memory while no call is half done.
RestMapped == {a \in Address : FindPage(a)}

RestRights ==
  [a \in Address |-> IF FindPage(a) THEN pages[PageBase(a)].rights ELSE {}]

RestByte == [a \in Address |-> ByteAt(a)]

LEMMA AtRest ==
  ASSUME pc \in {"idle", "check"}
  PROVE  /\ FlatMapped = RestMapped /\ FlatRights = RestRights
         /\ FlatByte = RestByte /\ FlatRet = ret
  BY DEF FlatMapped, RestMapped, FlatRights, RestRights, FlatByte, RestByte, FlatRet,
         ToBeMapped, ToBeWritten

LEMMA AtRestNext ==
  ASSUME pc' \in {"idle", "check"}
  PROVE  /\ FlatMapped' = RestMapped' /\ FlatRights' = RestRights'
         /\ FlatByte' = RestByte' /\ FlatRet' = ret'
  BY DEF FlatMapped, RestMapped, FlatRights, RestRights, FlatByte, RestByte, FlatRet,
         ToBeMapped, ToBeWritten

LEMMA SamePages ==
  ASSUME UNCHANGED pages
  PROVE  UNCHANGED <<RestMapped, RestRights, RestByte>>
  BY DEF RestMapped, RestRights, RestByte, ByteAt, FindPage

LEMMA FlatInit == Init => Flat!Init
<1> SUFFICES ASSUME Init PROVE Flat!Init
  OBVIOUS
<1>1. DOMAIN pages = {} /\ pc = "idle" /\ fault = NoFault /\ ret = NoReturn
  BY DEF Init
<1>2. /\ FlatMapped = RestMapped /\ FlatRights = RestRights
      /\ FlatByte = RestByte /\ FlatRet = ret
  BY <1>1, AtRest
<1>3. /\ RestMapped = {} /\ RestRights = [a \in Address |-> {}]
      /\ RestByte = [a \in Address |-> 0]
  BY <1>1 DEF RestMapped, RestRights, RestByte, FindPage, ByteAt
<1> QED
  BY <1>1, <1>2, <1>3, SameTerms DEF Flat!Init

----------------------------------------------------------------------------
(* Map.                                                                    *)

\* The two forms of the overflow test agree.
LEMMA SameOverflow ==
  ASSUME NEW a \in Address, NEW n \in Nat
  PROVE  Overflows(a, n) <=> Flat!OutOfSpace(a, n)
  BY MaxAddressAssumption DEF Overflows, Flat!OutOfSpace, Address

\* The first fault wins, here and there.
LEMMA SameReport ==
  ASSUME NEW k, NEW a, SetFault(k, a)
  PROVE  Flat!Remember(k, a)
  BY SameTerms DEF SetFault, Flat!Remember

LEMMA FlatMap ==
  ASSUME IInv, NEW a \in Address, NEW n \in 0..MaxSize, NEW g \in MapRights,
         Map(a, n, g)
  PROVE  Flat!Next
<1>1. /\ pc = "idle" /\ ret = NoReturn /\ a \in Nat /\ n \in Nat
      /\ FlatMapped = RestMapped /\ FlatRights = RestRights
      /\ FlatByte = RestByte /\ FlatRet = ret
  BY AtRest, CallerAssumption DEF Map, Idle, Address
<1>2. UNCHANGED pages
  BY DEF Map
<1>3. UNCHANGED <<RestMapped, RestRights, RestByte>>
  BY <1>2, SamePages
<1>4. Flat!Map(a, n, g)
  <2>1. CASE n = 0
    <3>1. pc' = "idle" /\ ret' = Returned("ok", <<>>) /\ UNCHANGED fault
      BY <2>1 DEF Map, Return
    <3>2. FlatRet' = ret' /\ UNCHANGED <<FlatMapped, FlatRights, FlatByte>>
      BY <1>1, <1>3, <3>1, AtRestNext
    <3> QED
      BY <2>1, <3>1, <3>2, SameTerms DEF Flat!Map
  <2>2. CASE n # 0 /\ Overflows(a, n)
    <3>1. /\ pc' = "idle" /\ ret' = Returned("refused", <<>>)
          /\ SetFault("BackendError", a)
      BY <2>2 DEF Map, Return
    <3>2. FlatRet' = ret' /\ UNCHANGED <<FlatMapped, FlatRights, FlatByte>>
      BY <1>1, <1>3, <3>1, AtRestNext
    <3>3. Flat!OutOfSpace(a, n) /\ Flat!Remember("BackendError", a)
      BY <1>1, <2>2, <3>1, SameOverflow, SameReport
    <3> QED
      BY <2>2, <3>1, <3>2, <3>3, SameTerms DEF Flat!Map
  <2>3. CASE n # 0 /\ ~ Overflows(a, n)
    <3>1. /\ pc' = "map" /\ UNCHANGED <<pages, fault>>
          /\ call'.address = a /\ call'.size = n /\ call'.granted = g
          /\ cur' = PageBase(a)
      BY <2>3 DEF Map
    <3>2. LastPage' = PageBase(a + n - 1)
      BY <3>1 DEF LastPage
    <3>3. /\ a + n - 1 \in Nat /\ PageBase(a) \in Nat /\ PageBase(a + n - 1) \in Nat
      <4>1. a + n - 1 \in Nat
        BY <1>1, <2>3
      <4> QED
        BY <1>1, <4>1, BaseAndOffset
    <3>4. \A b \in Address : ToBeMapped(b)' <=> b \in Flat!Touched(a, n)
      <4>1. ASSUME NEW b \in Address
            PROVE  PageBase(b) \in PageBase(a)..PageBase(a + n - 1) <=>
                     PageBase(b) >= PageBase(a) /\ PageBase(b) <= PageBase(a + n - 1)
        <5>1. PageBase(b) \in Nat
          BY BaseAndOffset DEF Address
        <5> QED
          BY <3>3, <5>1
      <4> QED
        BY <3>1, <3>2, <4>1, SameTerms DEF ToBeMapped, Flat!Touched
    <3>5. Flat!Touched(a, n) \subseteq Address
      BY SameTerms DEF Flat!Touched
    <3>6. FlatMapped' = FlatMapped \cup Flat!Touched(a, n)
      <4>1. \A b : FindPage(b)' <=> FindPage(b)
        BY <3>1 DEF FindPage
      <4> QED
        BY <1>1, <3>4, <3>5, <4>1 DEF FlatMapped, RestMapped
    <3>7. FlatRights' = [b \in Address |-> IF b \in Flat!Touched(a, n)
                                             THEN g ELSE FlatRights[b]]
      <4>1. \A b \in Address :
              FlatRights[b] = IF FindPage(b) THEN pages[PageBase(b)].rights ELSE {}
        BY <1>1 DEF RestRights
      <4> QED
        BY <3>1, <3>4, <4>1 DEF FlatRights, FindPage
    <3>8. FlatByte' = FlatByte
      BY <1>1, <1>3, <3>1 DEF FlatByte, RestByte, ToBeWritten
    <3>9. FlatRet' = Returned("ok", <<>>)
      BY <3>1 DEF FlatRet
    <3>10. ~ Flat!OutOfSpace(a, n)
      BY <1>1, <2>3, SameOverflow
    <3> QED
      BY <2>3, <3>1, <3>6, <3>7, <3>8, <3>9, <3>10, SameTerms DEF Flat!Map
  <2> QED
    BY <2>1, <2>2, <2>3
<1>5. Flat!Operation
  BY <1>1, <1>4, SameTerms DEF Flat!Operation
<1> QED
  BY <1>5 DEF Flat!Next

\* One page more is mapped, and one page less has still to be.
LEMMA StillToBeMapped ==
  ASSUME IInv, MapPage, NEW a \in Address
  PROVE  /\ ToBeMapped(a) <=> PageBase(a) = cur \/ ToBeMapped(a)'
         /\ PageBase(a) = cur => ~ ToBeMapped(a)'
         /\ ToBeMapped(a)' => call' = call
<1>1. /\ pc = "map" /\ call \in Call /\ cur \in Nat /\ cur \in PageBases
      /\ PageOffset(cur) = 0 /\ cur <= LastPage
  BY DEF MapPage, IInv, TypeOK, MapKeepsToItsPages, PageBases, Address
<1>2. /\ call.address \in Nat /\ call.size \in Nat /\ call.size >= 1
      /\ call.address + call.size - 1 \in Address
  BY <1>1, MaxAddressAssumption DEF IInv, CallFits, Call, Address
<1>3. LastPage \in PageBases /\ LastPage \in Nat /\ PageOffset(LastPage) = 0
  BY <1>2, PageFits DEF LastPage, PageBases, Address
<1>4. PageBase(a) \in Nat /\ PageOffset(PageBase(a)) = 0
  BY BaseAndOffset, BaseIsAligned DEF Address
<1>5. ToBeMapped(a) <=> cur <= PageBase(a) /\ PageBase(a) <= LastPage
  BY <1>1, <1>3, <1>4 DEF ToBeMapped
<1>6. CASE cur = LastPage
  <2>1. pc' = "idle"
    BY <1>6 DEF MapPage, Return
  <2> QED
    BY <1>1, <1>4, <1>5, <1>6, <2>1 DEF ToBeMapped
<1>7. CASE cur # LastPage
  <2>1. cur' = Wrap(cur + PageSize) /\ UNCHANGED <<pc, call>>
    BY <1>7 DEF MapPage
  <2>2. cur + PageSize <= LastPage
    BY <1>1, <1>3, <1>7, AlignedGap
  <2>3. cur + PageSize \in Address
    BY <1>1, <1>3, <2>2, PageSizeAssumption, MaxAddressAssumption
       DEF PageBases, Address
  <2>4. cur' = cur + PageSize /\ LastPage' = LastPage
    BY <2>1, <2>3, WrapInside DEF LastPage
  <2>5. ToBeMapped(a)' <=> cur + PageSize <= PageBase(a) /\ PageBase(a) <= LastPage
    BY <1>1, <1>3, <1>4, <2>1, <2>4, PageSizeAssumption DEF ToBeMapped
  <2>6. cur < PageBase(a) => cur + PageSize <= PageBase(a)
    BY <1>1, <1>4, AlignedGap
  <2> QED
    BY <1>1, <1>3, <1>4, <1>5, <2>1, <2>2, <2>5, <2>6, PageSizeAssumption
<1> QED
  BY <1>6, <1>7

\* The flat memory was mapped when the loop began.
LEMMA MapPageIsSilent ==
  ASSUME IInv, MapPage
  PROVE  UNCHANGED Flat!flatVars
<1>1. /\ pc = "map" /\ UNCHANGED fault
      /\ pages' = [b \in DOMAIN pages \cup {cur} |->
                     IF b = cur THEN MappedPage ELSE pages[b]]
  BY DEF MapPage
<1>2. PageBase(cur) = cur
  BY <1>1 DEF PageBase, IInv, MapKeepsToItsPages, PageBases, Address
<1>3. pc' \in {"map", "idle"} /\ ~ (pc = "copy") /\ ~ (pc' = "copy")
  BY <1>1 DEF MapPage, Return
<1>4. \A a : /\ FindPage(a)' <=> FindPage(a) \/ PageBase(a) = cur
             /\ FindPage(a) /\ PageBase(a) # cur =>
                  pages'[PageBase(a)] = pages[PageBase(a)]
             /\ PageBase(a) = cur => pages'[PageBase(a)] = MappedPage
  BY <1>1 DEF FindPage
<1>5. FlatMapped' = FlatMapped
  BY <1>4, StillToBeMapped DEF FlatMapped
<1>6. ASSUME NEW a \in Address
      PROVE  /\ FlatRights'[a] = FlatRights[a]
             /\ FlatByte'[a] = FlatByte[a]
  <2>1. /\ ToBeMapped(a) <=> PageBase(a) = cur \/ ToBeMapped(a)'
        /\ PageBase(a) = cur => ~ ToBeMapped(a)'
        /\ ToBeMapped(a)' => call' = call
    BY StillToBeMapped
  <2>2. FlatByte'[a] = ByteAt(a)' /\ FlatByte[a] = ByteAt(a)
    BY <1>3 DEF FlatByte, ToBeWritten
  <2>3. /\ FlatRights'[a] = IF ToBeMapped(a)' THEN call'.granted
                            ELSE IF FindPage(a)' THEN pages'[PageBase(a)].rights
                            ELSE {}
        /\ FlatRights[a] = IF ToBeMapped(a) THEN call.granted
                           ELSE IF FindPage(a) THEN pages[PageBase(a)].rights
                           ELSE {}
    BY DEF FlatRights
  <2>4. CASE PageBase(a) = cur
    <3>1. MappedPage.rights = call.granted
      BY DEF MappedPage
    <3>2. PageOffset(a) \in Offset
      BY BaseAndOffset DEF Address
    <3>3. MappedPage.bytes[PageOffset(a)] = ByteAt(a)
      BY <1>2, <2>4, <3>2 DEF MappedPage, ByteAt, FindPage, ZeroBytes
    <3>4. ByteAt(a)' = MappedPage.bytes[PageOffset(a)]
      BY <1>4, <2>4 DEF ByteAt
    <3> QED
      BY <1>4, <2>1, <2>2, <2>3, <2>4, <3>1, <3>3, <3>4
  <2>5. CASE PageBase(a) # cur
    <3>1. ByteAt(a)' = ByteAt(a)
      BY <1>4, <2>5 DEF ByteAt
    <3> QED
      BY <1>4, <2>1, <2>2, <2>3, <2>5, <3>1
  <2> QED
    BY <2>4, <2>5
<1>7. FlatRights' = FlatRights /\ FlatByte' = FlatByte
  BY <1>6 DEF FlatRights, FlatByte
<1>8. FlatRet' = FlatRet
  <2>1. FlatRet = Returned("ok", <<>>)
    BY <1>1 DEF FlatRet
  <2>2. CASE pc' = "map"
    BY <2>1, <2>2 DEF FlatRet, Returned
  <2>3. CASE pc' = "idle"
    <3>1. ret' = Returned("ok", <<>>)
      BY <1>1, <2>3 DEF MapPage, Return
    <3> QED
      BY <2>1, <2>3, <3>1 DEF FlatRet
  <2> QED
    BY <1>3, <2>2, <2>3
<1> QED
  BY <1>1, <1>5, <1>7, <1>8 DEF Flat!flatVars

----------------------------------------------------------------------------
(* Read and Write: the overflow test, and the check loop.                  *)

\* The addresses of a call that CheckAccess would refuse.
LEMMA RefusedAddresses ==
  ASSUME IInv, pc = "check"
  PROVE  /\ Flat!Refused(call.address, call.size, call.name) =
              {a \in RangeOf(call.address, call.size) : ~ Grants(a, call.name)}
         /\ ~ Flat!OutOfSpace(call.address, call.size)
         /\ RangeOf(call.address, call.size) \subseteq Address
<1>1. Accessing /\ TypeOK /\ LoopInRange
  BY DEF Accessing, IInv
<1>2. /\ call.address \in Nat /\ call.size \in Nat /\ MaxAddress \in Nat
      /\ call.address + call.size - 1 <= MaxAddress
  BY <1>1, ChunkInCall DEF LoopInRange
<1>3. RangeOf(call.address, call.size) \subseteq Address
  BY <1>2 DEF RangeOf, Address
<1>4. FlatMapped = RestMapped /\ FlatRights = RestRights
  BY AtRest
<1>5. ASSUME NEW a \in Address
      PROVE  ~ Grants(a, call.name) <=>
               a \notin FlatMapped \/ call.name \notin FlatRights[a]
  BY <1>4 DEF Grants, RestMapped, RestRights
<1> QED
  BY <1>2, <1>3, <1>5, SameTerms DEF Flat!Refused, Flat!OutOfSpace

\* What the flat memory does when CheckAccess finds a byte it refuses.
LEMMA FlatRefuses ==
  ASSUME IInv, CheckChunk, ~ Grants(cur, call.name)
  PROVE  /\ Flat!Refuse(call.address, call.size, call.name)
         /\ ~ Flat!Allowed(call.address, call.size, call.name)
<1> DEFINE S == {a \in RangeOf(call.address, call.size) : ~ Grants(a, call.name)}
<1>1. pc = "check" /\ Accessing /\ TypeOK /\ LoopInRange /\ CheckedSoFar
  BY DEF CheckChunk, Accessing, IInv
<1>2. cur \in S /\ \A a \in S : cur <= a
  <2>1. /\ call.address \in Nat /\ call.size \in Nat /\ Done \in Nat /\ cur \in Nat
        /\ left \in Nat \ {0} /\ cur = call.address + Done /\ Done + left = call.size
    BY <1>1, ChunkInCall
  <2>2. cur \in RangeOf(call.address, call.size)
    BY <2>1 DEF RangeOf
  <2>3. ASSUME NEW a \in RangeOf(call.address, call.size), a < cur
        PROVE  Grants(a, call.name)
    <3>1. a \in RangeOf(call.address, Done)
      BY <2>1, <2>3 DEF RangeOf
    <3> QED
      BY <1>1, <3>1 DEF CheckedSoFar
  <2>4. \A a \in RangeOf(call.address, call.size) : a \in Nat
    BY <2>1 DEF RangeOf
  <2> QED
    BY <2>1, <2>2, <2>3, <2>4
<1>3. S \subseteq Int
  BY <1>1, RefusedAddresses, MaxAddressAssumption DEF Address
<1>4. Flat!Lowest(S) = cur
  <2>1. ASSUME NEW x \in S, \A b \in S : x <= b PROVE x = cur
    <3>1. x <= cur /\ cur <= x /\ x \in Int /\ cur \in Int
      BY <1>2, <1>3, <2>1
    <3> QED
      BY <3>1
  <2> HIDE DEF S
  <2> QED
    BY <1>2, <2>1 DEF Flat!Lowest
<1>5. /\ Flat!Refused(call.address, call.size, call.name) = S
      /\ ~ Flat!OutOfSpace(call.address, call.size)
  BY <1>1, RefusedAddresses
<1>6. Flat!Remember(IF cur \in FlatMapped THEN "Permission" ELSE "Unmapped", cur)
  <2>1. cur \in FlatMapped <=> FindPage(cur)
    <3>1. cur \in Address /\ FlatMapped = RestMapped
      BY <1>1, AtRest DEF TypeOK
    <3> QED
      BY <3>1 DEF RestMapped
  <2>2. CASE FindPage(cur)
    <3>1. SetFault("Permission", cur)
      BY <2>2 DEF CheckChunk
    <3> QED
      BY <2>1, <2>2, <3>1, SameReport
  <2>3. CASE ~ FindPage(cur)
    <3>1. SetFault("Unmapped", cur)
      BY <2>3 DEF CheckChunk
    <3> QED
      BY <2>1, <2>3, <3>1, SameReport
  <2> QED
    BY <2>2, <2>3
<1> HIDE DEF S
<1>7. Flat!Refuse(call.address, call.size, call.name)
  BY <1>4, <1>5, <1>6 DEF Flat!Refuse
<1>8. ~ Flat!Allowed(call.address, call.size, call.name)
  BY <1>2, <1>5 DEF Flat!Allowed
<1> QED
  BY <1>7, <1>8

\* The calls of the flat memory that an access stands for.
FlatAccess(name, a, n, bytes) ==
  \/ name = "read" /\ Flat!Read(a, n)
  \/ name = "write" /\ Flat!Write(a, bytes)

\* An access that is refused.
LEMMA RefusedAccess ==
  ASSUME NEW name \in {"read", "write"}, NEW a, NEW n \in Nat \ {0},
         NEW bytes \in Seq(Byte), name = "write" => Len(bytes) = n,
         UNCHANGED <<FlatMapped, FlatRights, FlatByte>>,
         FlatRet' = Returned("refused", IF name = "read" THEN Zeros(n) ELSE <<>>),
         ~ Flat!Allowed(a, n, name), Flat!Refuse(a, n, name)
  PROVE  FlatAccess(name, a, n, bytes)
<1>1. CASE name = "read"
  BY <1>1, SameTerms DEF FlatAccess, Flat!Read
<1>2. CASE name = "write"
  <2>1. bytes # <<>> /\ Len(bytes) = n
    BY <1>2
  <2> QED
    BY <1>2, <2>1, SameTerms DEF FlatAccess, Flat!Write
<1> QED
  BY <1>1, <1>2

\* An access is settled at once only when it is empty or leaves the address
\* space.
LEMMA AccessSettles ==
  ASSUME IInv, NEW name \in {"read", "write"}, NEW a \in Address, NEW n \in Nat,
         NEW bytes \in Seq(Byte), name = "write" => Len(bytes) = n,
         Access(name, a, n, bytes)
  PROVE  FlatAccess(name, a, n, bytes) \/ UNCHANGED Flat!flatVars
<1>1. /\ pc = "idle" /\ FlatMapped = RestMapped /\ FlatRights = RestRights
      /\ FlatByte = RestByte /\ FlatRet = ret
  BY AtRest DEF Access, Idle
<1>2. UNCHANGED <<RestMapped, RestRights, RestByte>>
  BY SamePages DEF Access
<1>3. CASE n = 0
  <2>1. pc' = "idle" /\ ret' = Returned("ok", <<>>) /\ UNCHANGED fault
    BY <1>3 DEF Access, Return
  <2>2. FlatRet' = ret' /\ UNCHANGED <<FlatMapped, FlatRights, FlatByte>>
    BY <1>1, <1>2, <2>1, AtRestNext
  <2>3. name = "write" => bytes = <<>>
    BY <1>3
  <2>4. CASE name = "read"
    BY <1>3, <2>1, <2>2, <2>4, SameTerms DEF FlatAccess, Flat!Read
  <2>5. CASE name = "write"
    BY <2>1, <2>2, <2>3, <2>5, SameTerms DEF FlatAccess, Flat!Write
  <2> QED
    BY <2>4, <2>5
<1>4. CASE n # 0 /\ Overflows(a, n)
  <2>1. /\ pc' = "idle" /\ SetFault("BackendError", a)
        /\ ret' = Returned("refused", IF name = "read" THEN Zeros(n) ELSE <<>>)
    BY <1>4 DEF Access, Return
  <2>2. FlatRet' = ret' /\ UNCHANGED <<FlatMapped, FlatRights, FlatByte>>
    BY <1>1, <1>2, <2>1, AtRestNext
  <2>3. Flat!OutOfSpace(a, n) /\ Flat!Remember("BackendError", a)
    BY <1>4, <2>1, SameOverflow, SameReport
  <2>4. ~ Flat!Allowed(a, n, name) /\ Flat!Refuse(a, n, name)
    BY <2>3 DEF Flat!Allowed, Flat!Refuse
  <2> QED
    BY <1>4, <2>1, <2>2, <2>4, RefusedAccess
<1>5. CASE n # 0 /\ ~ Overflows(a, n)
  <2>1. pc' = "check" /\ UNCHANGED <<fault, ret>>
    BY <1>5 DEF Access
  <2>2. UNCHANGED <<FlatMapped, FlatRights, FlatByte, FlatRet>>
    BY <1>1, <1>2, <2>1, AtRestNext
  <2> QED
    BY <2>1, <2>2 DEF Flat!flatVars
<1> QED
  BY <1>3, <1>4, <1>5

\* CheckAccess goes on, refuses the call, or has seen all of it.
LEMMA CheckSettles ==
  ASSUME IInv, CheckChunk
  PROVE  \/ FlatAccess(call.name, call.address, call.size, call.buffer)
         \/ UNCHANGED Flat!flatVars
<1>1. /\ pc = "check" /\ Accessing /\ TypeOK /\ LoopInRange /\ CheckedSoFar
      /\ UNCHANGED pages
  BY DEF CheckChunk, Accessing, IInv
<1>2. /\ FlatMapped = RestMapped /\ FlatRights = RestRights
      /\ FlatByte = RestByte /\ FlatRet = ret
  BY <1>1, AtRest
<1>3. UNCHANGED <<RestMapped, RestRights, RestByte>>
  BY <1>1, SamePages
<1>4. /\ call.name \in {"read", "write"} /\ call.address \in Nat
      /\ call.size \in Nat \ {0} /\ call.buffer \in Seq(Byte)
      /\ call.name = "write" => Len(call.buffer) = call.size
  BY <1>1, ChunkInCall DEF LoopInRange, TypeOK, Call, IInv, BufferFits
<1>5. CASE ~ Grants(cur, call.name)
  <2>1. Refused
    BY <1>5 DEF CheckChunk, Grants
  <2>2. /\ pc' = "idle"
        /\ ret' = Returned("refused",
                    IF call.name = "read" THEN Zeros(call.size) ELSE <<>>)
    BY <2>1 DEF Refused, Return
  <2>3. FlatRet' = ret' /\ UNCHANGED <<FlatMapped, FlatRights, FlatByte>>
    BY <1>2, <1>3, <2>2, AtRestNext
  <2> QED
    BY <1>4, <1>5, <2>2, <2>3, FlatRefuses, RefusedAccess
<1>6. CASE Grants(cur, call.name) /\ left = Chunk(cur, left)
  <2>1. /\ pc' = "copy" /\ cur' = call.address /\ left' = call.size
        /\ UNCHANGED <<fault, call, out, ret>>
    BY <1>6 DEF CheckChunk, Grants
  <2>2. Flat!Allowed(call.address, call.size, call.name)
    <3>1. Done + Chunk(cur, left) = call.size
      BY <1>1, <1>6, ChunkInCall
    <3>2. \A a \in RangeOf(call.address, call.size) : Grants(a, call.name)
      BY <1>1, <1>6, <3>1, CheckedThroughChunk
    <3> QED
      BY <1>1, <3>2, RefusedAddresses DEF Flat!Allowed
  <2>3. UNCHANGED <<FlatMapped, FlatRights>>
    BY <1>1, <1>2, <1>3, <2>1
    DEF FlatMapped, FlatRights, RestMapped, RestRights, ToBeMapped
  <2>4. \A a : ByteAt(a)' = ByteAt(a)
    BY <1>1 DEF ByteAt, FindPage
  <2>5. RangeOf(call.address, call.size) \subseteq Address
    BY <1>1, RefusedAddresses
  <2>6. CASE call.name = "read"
    <3>1. FlatByte' = FlatByte
      BY <1>2, <1>3, <2>1, <2>6 DEF FlatByte, RestByte, ToBeWritten
    <3>2. FlatRet' = Returned("ok", [i \in 1..call.size |-> ByteAt(call.address + i - 1)])
      BY <2>1, <2>4, <2>6 DEF FlatRet
    <3>3. \A i \in 1..call.size : call.address + i - 1 \in Address
      BY <1>4, <2>5 DEF RangeOf
    <3>4. Flat!Contents(call.address, call.size) =
            [i \in 1..call.size |-> ByteAt(call.address + i - 1)]
      BY <1>2, <3>3 DEF Flat!Contents, RestByte
    <3>5. Flat!Read(call.address, call.size)
      BY <1>4, <2>1, <2>2, <2>3, <2>6, <3>1, <3>2, <3>4, SameTerms DEF Flat!Read
    <3> QED
      BY <2>6, <3>5 DEF FlatAccess
  <2>7. CASE call.name = "write"
    <3>1. Len(call.buffer) = call.size /\ call.buffer # <<>>
      BY <1>4, <2>7
    <3>2. \A a : ToBeWritten(a)' <=> a \in RangeOf(call.address, call.size)
      <4>1. call.address + Done' = call.address
        BY <1>4, <2>1 DEF Done
      <4> QED
        BY <2>1, <2>7, <4>1 DEF ToBeWritten
    <3>3. FlatByte' = [a \in Address |->
                         IF a \in RangeOf(call.address, call.size)
                           THEN call.buffer[a - call.address + 1] ELSE FlatByte[a]]
      BY <1>2, <2>1, <2>4, <3>2 DEF FlatByte, RestByte
    <3>4. FlatRet' = Returned("ok", <<>>)
      BY <2>1, <2>7 DEF FlatRet
    <3>5. Flat!Write(call.address, call.buffer)
      BY <2>1, <2>2, <2>3, <2>7, <3>1, <3>3, <3>4, SameTerms DEF Flat!Write
    <3> QED
      BY <2>7, <3>5 DEF FlatAccess
  <2> QED
    BY <1>4, <2>6, <2>7
<1>7. CASE Grants(cur, call.name) /\ left # Chunk(cur, left)
  <2>1. pc' = "check" /\ UNCHANGED <<fault, ret>>
    BY <1>1, <1>7 DEF CheckChunk, Grants
  <2>2. UNCHANGED <<FlatMapped, FlatRights, FlatByte, FlatRet>>
    BY <1>2, <1>3, <2>1, AtRestNext
  <2> QED
    BY <2>1, <2>2 DEF Flat!flatVars
<1> QED
  BY <1>5, <1>6, <1>7

----------------------------------------------------------------------------
(* The copy loop: the flat memory is already as it will be in the end.     *)

\* What the pages hold and grant after a step of the copy loop.
LEMMA CopyFacts ==
  ASSUME IInv, CopyChunk
  PROVE  /\ pc = "copy" /\ pc' \in {"copy", "idle"} /\ fault' = fault
         /\ call.name \in {"read", "write"} /\ FindPage(cur)
         /\ call.address \in Nat /\ call.size \in Nat /\ Done \in Nat /\ cur \in Nat
         /\ left \in Nat \ {0} /\ Chunk(cur, left) \in 1..left
         /\ cur = call.address + Done /\ Done + left = call.size
         /\ DOMAIN pages' = DOMAIN pages
         /\ \A b \in DOMAIN pages : pages'[b].rights = pages[b].rights
<1>1. pc = "copy" /\ Accessing /\ TypeOK /\ LoopInRange /\ UNCHANGED fault
      /\ pc' \in {"copy", "idle"}
  BY DEF CopyChunk, Return, Accessing, IInv
<1>2. /\ call.address \in Nat /\ call.size \in Nat /\ Done \in Nat /\ cur \in Nat
      /\ left \in Nat \ {0} /\ Chunk(cur, left) \in 1..left
      /\ cur = call.address + Done /\ Done + left = call.size
      /\ call.name \in {"read", "write"}
  BY <1>1, ChunkInCall DEF LoopInRange
<1>3. FindPage(cur)
  <2>1. cur \in RangeOf(call.address, call.size)
    BY <1>2 DEF RangeOf
  <2> QED
    BY <1>1, <2>1 DEF IInv, CopyIsAuthorised, Grants
<1>4. /\ DOMAIN pages' = DOMAIN pages
      /\ \A b \in DOMAIN pages : pages'[b].rights = pages[b].rights
  <2>1. CASE call.name = "write"
    <3>1. pages' = [pages EXCEPT ![PageBase(cur)].bytes = Stored]
      BY <2>1 DEF CopyChunk
    <3> QED
      BY <1>1, <1>3, <3>1 DEF TypeOK, Page, FindPage
  <2>2. CASE call.name = "read"
    BY <2>2 DEF CopyChunk
  <2> QED
    BY <1>2, <2>1, <2>2
<1> QED
  BY <1>1, <1>2, <1>3, <1>4

\* What is written next is written where and as it was to be.
LEMMA StoredWhereDue ==
  ASSUME IInv, CopyChunk, call.name = "write", NEW a \in Address
  PROVE  FlatByte'[a] = FlatByte[a]
<1> DEFINE n == Chunk(cur, left)
<1>1. /\ pc = "copy" /\ pc' \in {"copy", "idle"} /\ FindPage(cur)
      /\ call.address \in Nat /\ call.size \in Nat /\ Done \in Nat /\ cur \in Nat
      /\ left \in Nat \ {0} /\ n \in 1..left /\ a \in Nat
      /\ cur = call.address + Done /\ Done + left = call.size
      /\ DOMAIN pages' = DOMAIN pages
  BY CopyFacts DEF Address
<1>2. /\ FlatByte'[a] = IF ToBeWritten(a)' THEN call'.buffer[a - call'.address + 1]
                                          ELSE ByteAt(a)'
      /\ FlatByte[a] = IF ToBeWritten(a) THEN call.buffer[a - call.address + 1]
                                        ELSE ByteAt(a)
  BY DEF FlatByte
<1>3. ToBeWritten(a) <=> cur <= a /\ a <= cur + left - 1
  BY <1>1 DEF ToBeWritten, RangeOf
<1>4. /\ ToBeWritten(a)' <=> cur + n <= a /\ a <= cur + left - 1
      /\ ToBeWritten(a)' => call' = call
  <2>1. CASE left = n
    <3>1. pc' = "idle"
      BY <2>1 DEF CopyChunk, Return
    <3> HIDE DEF n
    <3> QED
      BY <1>1, <2>1, <3>1 DEF ToBeWritten
  <2>2. CASE left # n
    <3>1. Advance /\ UNCHANGED <<pc, call>>
      BY <2>2 DEF CopyChunk
    <3>2. Accessing /\ TypeOK /\ LoopInRange
      BY <1>1 DEF Accessing, IInv
    <3>3. Done' = Done + n
      BY <2>2, <3>1, <3>2, AdvanceInRange
    <3>4. left' = left - n
      BY <3>1 DEF Advance
    <3> HIDE DEF n
    <3> QED
      BY <1>1, <3>1, <3>3, <3>4 DEF ToBeWritten, RangeOf
  <2> QED
    BY <2>1, <2>2
<1>5. /\ pages'[PageBase(cur)].bytes = Stored
      /\ \A b \in DOMAIN pages : b # PageBase(cur) => pages'[b] = pages[b]
  <2>1. pages' = [pages EXCEPT ![PageBase(cur)].bytes = Stored]
    BY DEF CopyChunk
  <2>2. pages[PageBase(cur)] \in Page
    BY <1>1 DEF FindPage, IInv, TypeOK
  <2> QED
    BY <1>1, <2>1, <2>2 DEF FindPage, Page
<1>6. /\ PageOffset(a) \in Offset /\ a = PageBase(a) + PageOffset(a)
      /\ PageOffset(cur) \in Offset /\ cur = PageBase(cur) + PageOffset(cur)
      /\ PageBase(a) \in Nat /\ PageBase(cur) \in Nat
      /\ PageOffset(a) \in Nat /\ PageOffset(cur) \in Nat
  BY <1>1, BaseAndOffset DEF Offset
<1>7. CASE cur <= a /\ a <= cur + n - 1
  <2>1. a - cur \in 0 .. n - 1 /\ cur + (a - cur) = a
    <3> HIDE DEF n
    <3> QED
      BY <1>1, <1>7
  <2>2. PageBase(a) = PageBase(cur) /\ PageOffset(a) = PageOffset(cur) + (a - cur)
    BY <1>1, <2>1, ChunkOnOnePage
  <2>3. ByteAt(a)' = Stored[PageOffset(a)]
    BY <1>1, <1>5, <2>2 DEF ByteAt, FindPage
  <2>4. PageOffset(a) \in PageOffset(cur) .. (PageOffset(cur) + n - 1)
    <3> HIDE DEF n
    <3> QED
      BY <1>1, <1>6, <2>1, <2>2
  <2>5. Stored[PageOffset(a)] = call.buffer[Done + PageOffset(a) - PageOffset(cur) + 1]
    BY <1>6, <2>4 DEF Stored
  <2>6. Done + PageOffset(a) - PageOffset(cur) + 1 = a - call.address + 1
    BY <1>1, <1>6, <2>2
  <2>7. ToBeWritten(a) /\ ~ ToBeWritten(a)'
    <3> HIDE DEF n
    <3> QED
      BY <1>1, <1>3, <1>4, <1>7
  <2> QED
    BY <1>2, <2>3, <2>5, <2>6, <2>7
<1>8. CASE ~ (cur <= a /\ a <= cur + n - 1)
  <2>1. ByteAt(a)' = ByteAt(a)
    <3>1. CASE PageBase(a) = PageBase(cur)
      <4>1. PageOffset(a) \notin PageOffset(cur) .. (PageOffset(cur) + n - 1)
        <5> HIDE DEF n
        <5> QED
          BY <1>1, <1>6, <1>8, <3>1
      <4>2. Stored[PageOffset(a)] = pages[PageBase(cur)].bytes[PageOffset(a)]
        BY <1>6, <4>1 DEF Stored
      <4> QED
        BY <1>1, <1>5, <3>1, <4>2 DEF ByteAt, FindPage
    <3>2. CASE PageBase(a) # PageBase(cur)
      BY <1>1, <1>5, <3>2 DEF ByteAt, FindPage
    <3> QED
      BY <3>1, <3>2
  <2>2. ToBeWritten(a)' <=> ToBeWritten(a)
    <3> HIDE DEF n
    <3> QED
      BY <1>1, <1>3, <1>4, <1>8
  <2> QED
    BY <1>2, <1>4, <2>1, <2>2
<1> QED
  BY <1>7, <1>8

LEMMA CopyChunkIsSilent ==
  ASSUME IInv, RInv, CopyChunk
  PROVE  UNCHANGED Flat!flatVars
<1>1. /\ pc = "copy" /\ pc' \in {"copy", "idle"} /\ fault' = fault
      /\ call.name \in {"read", "write"} /\ FindPage(cur)
      /\ call.address \in Nat /\ call.size \in Nat /\ Done \in Nat
      /\ left \in Nat \ {0} /\ Done + left = call.size
      /\ DOMAIN pages' = DOMAIN pages
      /\ \A b \in DOMAIN pages : pages'[b].rights = pages[b].rights
  BY CopyFacts
<1>2. UNCHANGED <<FlatMapped, FlatRights>>
  BY <1>1 DEF FlatMapped, FlatRights, ToBeMapped, FindPage
<1>3. CASE call.name = "read"
  <2>1. UNCHANGED pages
    BY <1>3 DEF CopyChunk
  <2>2. \A a : ByteAt(a)' = ByteAt(a)
    BY <2>1 DEF ByteAt, FindPage
  <2>3. CASE left # Chunk(cur, left)
    <3>1. UNCHANGED <<pc, call>>
      BY <2>3 DEF CopyChunk
    <3>2. FlatByte' = FlatByte
      BY <1>1, <1>3, <2>2, <3>1 DEF FlatByte, ToBeWritten
    <3>3. FlatRet' = FlatRet
      BY <1>1, <1>3, <2>2, <3>1 DEF FlatRet
    <3> QED
      BY <1>1, <1>2, <3>2, <3>3 DEF Flat!flatVars
  <2>4. CASE left = Chunk(cur, left)
    <3>1. pc' = "idle" /\ ret' = Returned("ok", Loaded)
      BY <1>3, <2>4 DEF CopyChunk, Return
    <3>2. FlatByte' = FlatByte
      BY <1>1, <1>3, <2>2, <3>1 DEF FlatByte, ToBeWritten
    <3>3. /\ Loaded \in Seq(Byte) /\ Len(Loaded) = call.size
          /\ \A i \in 1..call.size : Loaded[i] = ByteAt(call.address + i - 1)
      BY <1>1, <1>3, <2>4, LoadedContents
    <3>4. Loaded = [i \in 1..call.size |-> ByteAt(call.address + i - 1)]
      <4>1. Loaded = [i \in 1..call.size |-> Loaded[i]]
        BY <3>3
      <4> QED
        BY <3>3, <4>1
    <3>5. FlatRet' = FlatRet
      BY <1>1, <1>3, <3>1, <3>4 DEF FlatRet
    <3> QED
      BY <1>1, <1>2, <3>2, <3>5 DEF Flat!flatVars
  <2> QED
    BY <2>3, <2>4
<1>4. CASE call.name = "write"
  <2>1. FlatByte' = FlatByte
    BY <1>4, StoredWhereDue DEF FlatByte
  <2>2. FlatRet = Returned("ok", <<>>)
    BY <1>1, <1>4 DEF FlatRet
  <2>3. FlatRet' = Returned("ok", <<>>)
    <3>1. CASE left # Chunk(cur, left)
      <4>1. UNCHANGED <<pc, call>>
        BY <3>1 DEF CopyChunk
      <4> QED
        BY <1>1, <1>4, <4>1 DEF FlatRet, Returned
    <3>2. CASE left = Chunk(cur, left)
      <4>1. pc' = "idle" /\ ret' = Returned("ok", <<>>)
        BY <1>4, <3>2 DEF CopyChunk, Return
      <4> QED
        BY <4>1 DEF FlatRet
    <3> QED
      BY <3>1, <3>2
  <2> QED
    BY <1>1, <1>2, <2>1, <2>2, <2>3 DEF Flat!flatVars
<1> QED
  BY <1>1, <1>3, <1>4

----------------------------------------------------------------------------
(* The theorems.                                                           *)

\* The calls without a loop, and the caller going on.
LEMMA FlatCalls ==
  ASSUME IInv, RInv,
         \/ \E a \in Address : SetUnsupported(a)
         \/ SetBackendError \/ ClearStatus \/ Reset \/ Consume
  PROVE  Flat!Next
<1>1. pc = "idle" /\ pc' = "idle"
  BY DEF SetUnsupported, SetBackendError, ClearStatus, Reset, Consume, Idle,
         RInv, CallIsCallers
<1>2. /\ FlatMapped = RestMapped /\ FlatRights = RestRights
      /\ FlatByte = RestByte /\ FlatRet = ret
      /\ FlatMapped' = RestMapped' /\ FlatRights' = RestRights'
      /\ FlatByte' = RestByte' /\ FlatRet' = ret'
  BY <1>1, AtRest, AtRestNext
<1>3. UNCHANGED pages => UNCHANGED <<FlatMapped, FlatRights, FlatByte>>
  BY <1>2, SamePages
<1>4. ASSUME NEW a \in Address, SetUnsupported(a) PROVE Flat!Next
  <2>1. Flat!SetUnsupported(a)
    BY <1>2, <1>3, <1>4, SameReport DEF SetUnsupported, Flat!SetUnsupported
  <2>2. Flat!Operation
    BY <1>2, <1>4, <2>1, SameTerms DEF SetUnsupported, Idle, Flat!Operation
  <2> QED
    BY <2>2 DEF Flat!Next
<1>5. CASE SetBackendError
  <2>1. Flat!SetBackendError
    BY <1>2, <1>3, <1>5, SameReport DEF SetBackendError, Flat!SetBackendError
  <2>2. Flat!Operation
    BY <1>2, <1>5, <2>1, SameTerms DEF SetBackendError, Idle, Flat!Operation
  <2> QED
    BY <2>2 DEF Flat!Next
<1>6. CASE ClearStatus
  <2>1. Flat!ClearStatus
    BY <1>2, <1>3, <1>6, SameTerms DEF ClearStatus, Flat!ClearStatus
  <2>2. Flat!Operation
    BY <1>2, <1>6, <2>1, SameTerms DEF ClearStatus, Idle, Flat!Operation
  <2> QED
    BY <2>2 DEF Flat!Next
<1>7. CASE Reset
  <2>1. DOMAIN pages' = {}
    BY <1>7 DEF Reset
  <2>2. /\ RestMapped' = {} /\ RestRights' = [a \in Address |-> {}]
        /\ RestByte' = [a \in Address |-> 0]
    BY <2>1 DEF RestMapped, RestRights, RestByte, FindPage, ByteAt
  <2>3. Flat!Reset
    BY <1>2, <1>7, <2>2, SameTerms DEF Reset, Flat!Reset
  <2>4. Flat!Operation
    BY <1>2, <1>7, <2>3, SameTerms DEF Reset, Idle, Flat!Operation
  <2> QED
    BY <2>4 DEF Flat!Next
<1>8. CASE Consume
  <2>1. Flat!Consume
    BY <1>2, <1>3, <1>8, SameTerms DEF Consume, Flat!Consume
  <2> QED
    BY <2>1 DEF Flat!Next
<1> QED
  BY <1>4, <1>5, <1>6, <1>7, <1>8

\* A call of the flat memory that the callers make.
LEMMA FlatAccessIsNext ==
  ASSUME NEW name, NEW a \in Address, NEW n, NEW bytes, FlatRet = NoReturn,
         name = "read" => n \in 0..MaxSize,
         name = "write" => bytes \in Buffers,
         FlatAccess(name, a, n, bytes)
  PROVE  Flat!Next
<1>1. Flat!Operation
  BY SameTerms DEF FlatAccess, Flat!Operation
<1> QED
  BY <1>1 DEF Flat!Next

\* Every step is a step of the flat memory or is not seen there.
LEMMA FlatNext == IInv /\ RInv /\ [Next]_vars => [Flat!Next]_(Flat!flatVars)
<1> SUFFICES ASSUME IInv, RInv, [Next]_vars
             PROVE  Flat!Next \/ UNCHANGED Flat!flatVars
  OBVIOUS
<1>1. ASSUME NEW a \in Address, NEW n \in 0..MaxSize, NEW g \in MapRights,
             Map(a, n, g)
      PROVE  Flat!Next
  BY <1>1, FlatMap
<1>2. pc = "idle" \/ pc = "check" => FlatRet = ret
  BY AtRest
<1>3. ASSUME NEW a \in Address, NEW b \in Buffers, Write(a, b)
      PROVE  Flat!Next \/ UNCHANGED Flat!flatVars
  <2>1. b \in Seq(Byte) /\ Len(b) \in Nat
    BY CallerAssumption
  <2>2. FlatAccess("write", a, Len(b), b) \/ UNCHANGED Flat!flatVars
    BY <1>3, <2>1, AccessSettles DEF Write
  <2>3. FlatRet = NoReturn
    BY <1>2, <1>3 DEF Write, Access, Idle
  <2> QED
    BY <2>2, <2>3, FlatAccessIsNext
<1>4. ASSUME NEW a \in Address, NEW n \in 0..MaxSize, Read(a, n)
      PROVE  Flat!Next \/ UNCHANGED Flat!flatVars
  <2>1. n \in Nat /\ <<>> \in Seq(Byte)
    BY CallerAssumption
  <2>2. FlatAccess("read", a, n, <<>>) \/ UNCHANGED Flat!flatVars
    BY <1>4, <2>1, AccessSettles DEF Read
  <2>3. FlatRet = NoReturn
    BY <1>2, <1>4 DEF Read, Access, Idle
  <2> QED
    BY <2>2, <2>3, FlatAccessIsNext
<1>5. ASSUME \/ \E a \in Address : SetUnsupported(a)
             \/ SetBackendError \/ ClearStatus \/ Reset \/ Consume
      PROVE  Flat!Next
  BY <1>5, FlatCalls
<1>6. CASE MapPage
  BY <1>6, MapPageIsSilent
<1>7. CASE CheckChunk
  <2>1. pc = "check" /\ call.address \in Address
    BY <1>7 DEF CheckChunk, IInv, TypeOK, Call
  <2>2. FlatRet = NoReturn
    BY <1>2, <2>1 DEF RInv, CallIsCallers
  <2>3. /\ call.name = "read" => call.size \in 0..MaxSize
        /\ call.name = "write" => call.buffer \in Buffers
    BY <2>1 DEF RInv, CallIsCallers
  <2> QED
    BY <1>7, <2>1, <2>2, <2>3, CheckSettles, FlatAccessIsNext
<1>8. CASE CopyChunk
  BY <1>8, CopyChunkIsSilent
<1>9. CASE UNCHANGED vars
  BY <1>9
  DEF vars, Flat!flatVars, FlatMapped, FlatRights, FlatByte, FlatRet, ToBeMapped,
      ToBeWritten, ByteAt, FindPage, Done, LastPage
<1> QED
  BY <1>1, <1>3, <1>4, <1>5, <1>6, <1>7, <1>8, <1>9 DEF Next, Begin, Iterate

\* What a read has copied so far is what it will return.
THEOREM ReadsCopyContents == Spec => []RInv
  BY InitRInv, NextRInv, Invariance, PTL DEF Spec

\* The paged memory behaves as the flat one: accesses across pages are all or
\* nothing, the report names the lowest byte refused, the first report stays,
\* and mapping a page again keeps its bytes.
THEOREM Refinement == Spec => ImplementsFlatMemory
  BY FlatInit, FlatNext, ReadsCopyContents, Invariance,
     PTL DEF Spec, ImplementsFlatMemory, Flat!Spec

=============================================================================
