---------------------------- MODULE GuestMemory -----------------------------
(***************************************************************************)
(* guest_memory.cpp: the sparse, page-based memory of one test row.        *)
(*                                                                         *)
(* Pages are created by Map and hold their bytes and one permission mask.  *)
(* Read and Write walk the range twice, page by page: CheckAccess looks    *)
(* for a page that is missing or does not grant the access, and only when  *)
(* it has seen the whole range does the copy loop move bytes, a chunk per  *)
(* page, through the page pointers it takes for granted.  The first fault  *)
(* is kept until the status is cleared.                                    *)
(*                                                                         *)
(* One step of this model is one iteration of one of these loops.  The     *)
(* null-buffer tests of Read and Write are left out: no caller can pass a  *)
(* null pointer with a size above 0.                                       *)
(***************************************************************************)
EXTENDS GuestAddress

CONSTANTS
  Buffers,    \* the byte strings the callers write
  MaxSize,    \* bounds the sizes the callers read or map
  MapRights   \* the permission masks the callers map with

ASSUME CallerAssumption ==
  /\ Buffers \subseteq Seq(Byte)
  /\ MaxSize \in Nat
  /\ MapRights \subseteq SUBSET Right

VARIABLES
  pages,  \* pages_: page base -> its bytes and permissions
  fault,  \* last_fault_
  pc,     \* "idle" between calls, else the loop that is running
  call,   \* the call in progress: its name and arguments
  cur,    \* current_address, or page_address in Map
  left,   \* remaining
  out,    \* the bytes a read has copied so far
  ret     \* what the call just ended returned, until its caller has used it

vars == <<pages, fault, pc, call, cur, left, out, ret>>

Page == [bytes : [Offset -> Byte], rights : SUBSET Right]

NoCall == [name |-> "none", address |-> 0, size |-> 0,
           buffer |-> <<>>, granted |-> {}]

Call == [name : {"none", "map", "read", "write"}, address : Address,
         size : Nat, buffer : Seq(Byte), granted : SUBSET Right]

Returned(is, bytes) == [is |-> is, out |-> bytes]

NoReturn == Returned("none", <<>>)

Zeros(n) == [i \in 1..n |-> 0]

TypeOK ==
  /\ DOMAIN pages \subseteq PageBases
  /\ pages \in [DOMAIN pages -> Page]
  /\ fault \in Faults
  /\ pc \in {"idle", "map", "check", "copy"}
  /\ call \in Call
  /\ cur \in Address
  /\ left \in Nat
  /\ out \in Seq(Byte)
  /\ ret \in [is : {"none", "ok", "refused"}, out : Seq(Byte)]

Init ==
  /\ pages = <<>>
  /\ fault = NoFault
  /\ pc = "idle"
  /\ call = NoCall
  /\ cur = 0
  /\ left = 0
  /\ out = <<>>
  /\ ret = NoReturn

----------------------------------------------------------------------------
(* Helpers of the loops.                                                   *)

SetFault(kind, address) ==
  fault' = IF fault = NoFault THEN Fault(kind, address) ELSE fault

FindPage(address) == PageBase(address) \in DOMAIN pages

Grants(address, right) ==
  /\ FindPage(address)
  /\ right \in pages[PageBase(address)].rights

\* A defect: the chunk may run past the end of the page.
ChunkFromPageStart(address, remaining) ==
  IF remaining <= PageSize THEN remaining ELSE PageSize

\* std::min(remaining, kPageSize - offset)
Chunk(address, remaining) ==
  LET room == PageSize - PageOffset(address)
  IN  IF remaining <= room THEN remaining ELSE room

\* The caller is free to make a call.
Idle == pc = "idle" /\ ret = NoReturn

\* The call is over, with this answer and, for a read, these bytes.
Return(is, bytes) ==
  /\ ret' = Returned(is, bytes)
  /\ pc' = "idle"
  /\ call' = NoCall
  /\ cur' = 0
  /\ left' = 0
  /\ out' = <<>>

\* A refused read hands zeros to its caller, a refused write or map nothing.
Refused == Return("refused", IF call.name = "read" THEN Zeros(call.size) ELSE <<>>)

----------------------------------------------------------------------------
(* Map.                                                                    *)

\* A defect: the end of the range is not rounded down to its page.
LastByte == call.address + call.size - 1

LastPage == PageBase(call.address + call.size - 1)

Map(address, size, granted) ==
  /\ Idle
  /\ IF size = 0 THEN
       Return("ok", <<>>) /\ UNCHANGED <<pages, fault>>
     ELSE IF Overflows(address, size) THEN
       /\ SetFault("BackendError", address)
       /\ Return("refused", <<>>)
       /\ UNCHANGED pages
     ELSE
       /\ pc' = "map"
       /\ call' = [name |-> "map", address |-> address, size |-> size,
                   buffer |-> <<>>, granted |-> granted]
       /\ cur' = PageBase(address)
       /\ UNCHANGED <<pages, fault, left, out, ret>>

\* A defect: the bytes of a page numbered from 1.
ZeroBytesFromOne == [o \in 1..PageSize |-> 0]

ZeroBytes == [o \in Offset |-> 0]

\* A defect: mapping a page again starts it from zeros.
ClearedPage == [bytes |-> ZeroBytes, rights |-> call.granted]

\* pages_[page_address] creates a page of zeros, or finds the one there is.
MappedPage ==
  [bytes  |-> IF FindPage(cur) THEN pages[cur].bytes ELSE ZeroBytes,
   rights |-> call.granted]

MapPage ==
  /\ pc = "map"
  /\ pages' = [b \in DOMAIN pages \cup {cur} |->
                 IF b = cur THEN MappedPage ELSE pages[b]]
  /\ IF cur = LastPage
       THEN Return("ok", <<>>)
       ELSE /\ cur' = Wrap(cur + PageSize)
            /\ UNCHANGED <<pc, call, left, out, ret>>
  /\ UNCHANGED fault

----------------------------------------------------------------------------
(* Read and Write: the overflow test and the start of CheckAccess, its     *)
(* loop, the copy loop.                                                    *)

Access(name, address, size, bytes) ==
  /\ Idle
  /\ IF size = 0 THEN
       Return("ok", <<>>) /\ UNCHANGED <<pages, fault>>
     ELSE IF Overflows(address, size) THEN
       /\ SetFault("BackendError", address)
       /\ Return("refused", IF name = "read" THEN Zeros(size) ELSE <<>>)
       /\ UNCHANGED pages
     ELSE
       /\ pc' = "check"
       /\ call' = [name |-> name, address |-> address, size |-> size,
                   buffer |-> bytes, granted |-> {}]
       /\ cur' = address
       /\ left' = size
       /\ UNCHANGED <<pages, fault, out, ret>>

Read(address, size) == Access("read", address, size, <<>>)

Write(address, bytes) == Access("write", address, Len(bytes), bytes)

Advance ==
  /\ left' = left - Chunk(cur, left)
  /\ cur' = Wrap(cur + Chunk(cur, left))

CheckChunk ==
  /\ pc = "check"
  /\ IF ~ FindPage(cur) THEN
       SetFault("Unmapped", cur) /\ Refused
     ELSE IF ~ Grants(cur, call.name) THEN
       SetFault("Permission", cur) /\ Refused
     ELSE IF left = Chunk(cur, left) THEN  \* the whole range is allowed
       /\ pc' = "copy"
       /\ cur' = call.address
       /\ left' = call.size
       /\ UNCHANGED <<fault, call, out, ret>>
     ELSE
       /\ Advance
       /\ UNCHANGED <<fault, pc, call, out, ret>>
  /\ UNCHANGED pages

\* How many bytes the copy loop has moved before this iteration.
Done == call.size - left

\* memcpy into the page: the bytes of the buffer from Done on, at the offset
\* of cur.
Stored ==
  [o \in Offset |->
     IF o \in PageOffset(cur) .. (PageOffset(cur) + Chunk(cur, left) - 1)
       THEN call.buffer[Done + o - PageOffset(cur) + 1]
       ELSE pages[PageBase(cur)].bytes[o]]

\* memcpy out of the page.
Loaded ==
  out \o [i \in 1..Chunk(cur, left) |->
            pages[PageBase(cur)].bytes[PageOffset(cur) + i - 1]]

CopyChunk ==
  /\ pc = "copy"
  /\ IF call.name = "write"
       THEN pages' = [pages EXCEPT ![PageBase(cur)].bytes = Stored]
       ELSE UNCHANGED pages
  /\ IF left = Chunk(cur, left) THEN
       Return("ok", IF call.name = "read" THEN Loaded ELSE <<>>)
     ELSE
       /\ Advance
       /\ out' = IF call.name = "read" THEN Loaded ELSE out
       /\ UNCHANGED <<pc, call, ret>>
  /\ UNCHANGED fault

----------------------------------------------------------------------------
(* The calls without a loop.                                               *)

SetUnsupported(address) ==
  /\ Idle
  /\ SetFault("Unsupported", address)
  /\ UNCHANGED <<pages, pc, call, cur, left, out, ret>>

SetBackendError ==
  /\ Idle
  /\ SetFault("BackendError", 0)
  /\ UNCHANGED <<pages, pc, call, cur, left, out, ret>>

ClearStatus ==
  /\ Idle
  /\ fault' = NoFault
  /\ UNCHANGED <<pages, pc, call, cur, left, out, ret>>

Reset ==
  /\ Idle
  /\ pages' = <<>>
  /\ fault' = NoFault
  /\ UNCHANGED <<pc, call, cur, left, out, ret>>

----------------------------------------------------------------------------

\* The caller has its answer and goes on.
Consume ==
  /\ ret # NoReturn
  /\ ret' = NoReturn
  /\ UNCHANGED <<pages, fault, pc, call, cur, left, out>>

Begin ==
  \/ \E a \in Address, n \in 0..MaxSize, g \in MapRights : Map(a, n, g)
  \/ \E a \in Address, b \in Buffers : Write(a, b)
  \/ \E a \in Address, n \in 0..MaxSize : Read(a, n)
  \/ \E a \in Address : SetUnsupported(a)
  \/ SetBackendError
  \/ ClearStatus
  \/ Reset

Iterate == MapPage \/ CheckChunk \/ CopyChunk

Next == Begin \/ Iterate \/ Consume

\* A call that has begun runs on: the code is sequential, and nothing in a
\* loop waits.
Fairness == WF_vars(Iterate)

Spec == Init /\ [][Next]_vars /\ Fairness

(* Properties.                                                             *)

Accessing == pc \in {"check", "copy"}

\* Both loops keep inside the range of their call and agree with it on how
\* far they are: current_address never wraps past the end of the address
\* space, and `remaining` never goes below zero.
LoopInRange ==
  Accessing =>
    /\ call.name \in {"read", "write"}
    /\ left \in 1..call.size
    /\ call.address + call.size - 1 <= MaxAddress
    /\ cur = call.address + Done

\* The copy loop dereferences the page it finds without a test: when it runs,
\* every byte of the range, those still to come included, lies on a page that
\* exists and grants the access.  So no null page is dereferenced and no
\* access moves only a part of its bytes.
CopyIsAuthorised ==
  pc = "copy" =>
    \A a \in RangeOf(call.address, call.size) : Grants(a, call.name)

\* Map runs from the first page of its range to the last, both included, and
\* the pages behind it carry the new permissions.  The loop ends on equality,
\* so running past the last page once would run for ever.
MapKeepsToItsPages ==
  pc = "map" =>
    /\ cur \in PageBases
    /\ PageBase(call.address) <= cur
    /\ cur <= LastPage
    /\ \A b \in PageBases :
         PageBase(call.address) <= b /\ b < cur =>
           b \in DOMAIN pages /\ pages[b].rights = call.granted

\* What makes the above inductive: how far CheckAccess has come, that Map's
\* range passed the overflow test, and that the buffers have the size the
\* loops take them to have.
CheckedSoFar ==
  pc = "check" => \A a \in RangeOf(call.address, Done) : Grants(a, call.name)

CallFits ==
  pc = "map" =>
    /\ call.name = "map"
    /\ call.size >= 1
    /\ call.address + call.size - 1 <= MaxAddress

BufferFits ==
  /\ pc # "copy" => out = <<>>
  /\ pc = "copy" /\ call.name = "read" => Len(out) = Done
  /\ Accessing /\ call.name = "write" => Len(call.buffer) = call.size

IInv ==
  /\ TypeOK
  /\ LoopInRange
  /\ CheckedSoFar
  /\ CopyIsAuthorised
  /\ MapKeepsToItsPages
  /\ CallFits
  /\ BufferFits

\* Every call that begins returns, at the top of the address space too.
CallsReturn == pc # "idle" ~> pc = "idle"

----------------------------------------------------------------------------
(* GuestMemory implements FlatMemory.  A call takes effect in the abstract *)
(* memory at the step that settles it: the refusal, the end of CheckAccess *)
(* for an access that is allowed, the end of the overflow test for Map.    *)
(* What its loop has still to do is already done there.                    *)

ToBeMapped(a) == pc = "map" /\ PageBase(a) \in cur..LastPage

ToBeWritten(a) ==
  /\ pc = "copy"
  /\ call.name = "write"
  /\ a \in RangeOf(call.address + Done, left)

ByteAt(a) == IF FindPage(a) THEN pages[PageBase(a)].bytes[PageOffset(a)] ELSE 0

FlatMapped == {a \in Address : FindPage(a) \/ ToBeMapped(a)}

FlatRights ==
  [a \in Address |-> IF ToBeMapped(a) THEN call.granted
                     ELSE IF FindPage(a) THEN pages[PageBase(a)].rights
                     ELSE {}]

FlatByte ==
  [a \in Address |-> IF ToBeWritten(a) THEN call.buffer[a - call.address + 1]
                     ELSE ByteAt(a)]

FlatRet ==
  IF pc = "map" \/ (pc = "copy" /\ call.name = "write") THEN Returned("ok", <<>>)
  ELSE IF pc = "copy"
    THEN Returned("ok", [i \in 1..call.size |-> ByteAt(call.address + i - 1)])
  ELSE ret

Flat == INSTANCE FlatMemory
          WITH mapped <- FlatMapped, rights <- FlatRights, byte <- FlatByte,
               report <- fault, ret <- FlatRet

\* Whatever the callers do, they cannot tell the paged memory from the flat
\* one: accesses across pages are all or nothing, the report names the lowest
\* byte refused, the first report stays, mapping a page again keeps its bytes.
ImplementsFlatMemory == Flat!Spec

=============================================================================
