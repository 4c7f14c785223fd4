----------------------------- MODULE FlatMemory -----------------------------
(***************************************************************************)
(* What GuestMemory promises its callers: a flat array of bytes in which   *)
(* every operation happens at once.  There are no pages here except in     *)
(* the granularity of Map, no loops and no half-done access: a read or a   *)
(* write either moves all of its bytes or touches none of them and         *)
(* reports the lowest address it was refused, and only the first refusal   *)
(* since the status was last cleared is remembered.                        *)
(***************************************************************************)
EXTENDS GuestAddress

CONSTANTS
  Buffers,    \* the byte strings the callers write
  MaxSize,    \* the largest size the callers read or map
  MapRights   \* the permission masks the callers map with

VARIABLES
  mapped,  \* the addresses that belong to a page
  rights,  \* what each address allows
  byte,    \* what each address holds
  report,  \* the first fault
  ret      \* what the last call returned, and the bytes it read

flatVars == <<mapped, rights, byte, report, ret>>

Returned(is, out) == [is |-> is, out |-> out]

NoReturn == Returned("none", <<>>)

Zeros(n) == [i \in 1..n |-> 0]

TypeOK ==
  /\ mapped \subseteq Address
  /\ rights \in [Address -> SUBSET Right]
  /\ byte \in [Address -> Byte]
  /\ report \in Faults
  /\ ret \in [is : {"none", "ok", "refused"}, out : Seq(Byte)]

Init ==
  /\ mapped = {}
  /\ rights = [a \in Address |-> {}]
  /\ byte = [a \in Address |-> 0]
  /\ report = NoFault
  /\ ret = NoReturn

\* The first fault wins: a later one leaves no trace.
Remember(kind, address) ==
  report' = IF report = NoFault THEN Fault(kind, address) ELSE report

----------------------------------------------------------------------------

Refused(address, size, right) ==
  {a \in RangeOf(address, size) : a \notin mapped \/ right \notin rights[a]}

OutOfSpace(address, size) == address + size - 1 > MaxAddress

Lowest(S) == CHOOSE a \in S : \A b \in S : a <= b

(***************************************************************************)
(* The report of an access that is not allowed.                            *)
(***************************************************************************)
Refuse(address, size, right) ==
  IF OutOfSpace(address, size)
    THEN Remember("BackendError", address)
    ELSE LET a == Lowest(Refused(address, size, right))
         IN  Remember(IF a \in mapped THEN "Permission" ELSE "Unmapped", a)

Allowed(address, size, right) ==
  /\ ~ OutOfSpace(address, size)
  /\ Refused(address, size, right) = {}

----------------------------------------------------------------------------

\* The pages a range touches, whole.
Touched(address, size) ==
  {a \in Address : /\ PageBase(a) >= PageBase(address)
                   /\ PageBase(a) <= PageBase(address + size - 1)}

Map(address, size, granted) ==
  IF size = 0 THEN
    /\ ret' = Returned("ok", <<>>)
    /\ UNCHANGED <<mapped, rights, byte, report>>
  ELSE IF OutOfSpace(address, size) THEN
    /\ ret' = Returned("refused", <<>>)
    /\ Remember("BackendError", address)
    /\ UNCHANGED <<mapped, rights, byte>>
  ELSE
    /\ ret' = Returned("ok", <<>>)
    /\ mapped' = mapped \cup Touched(address, size)
    /\ rights' = [a \in Address |-> IF a \in Touched(address, size)
                                      THEN granted ELSE rights[a]]
    /\ UNCHANGED <<byte, report>>

Write(address, bytes) ==
  IF bytes = <<>> THEN
    /\ ret' = Returned("ok", <<>>)
    /\ UNCHANGED <<mapped, rights, byte, report>>
  ELSE IF Allowed(address, Len(bytes), "write") THEN
    /\ ret' = Returned("ok", <<>>)
    /\ byte' = [a \in Address |-> IF a \in RangeOf(address, Len(bytes))
                                    THEN bytes[a - address + 1] ELSE byte[a]]
    /\ UNCHANGED <<mapped, rights, report>>
  ELSE
    /\ ret' = Returned("refused", <<>>)
    /\ Refuse(address, Len(bytes), "write")
    /\ UNCHANGED <<mapped, rights, byte>>

Contents(address, size) == [i \in 1..size |-> byte[address + i - 1]]

Read(address, size) ==
  IF size = 0 THEN
    /\ ret' = Returned("ok", <<>>)
    /\ UNCHANGED <<mapped, rights, byte, report>>
  ELSE IF Allowed(address, size, "read") THEN
    /\ ret' = Returned("ok", Contents(address, size))
    /\ UNCHANGED <<mapped, rights, byte, report>>
  ELSE
    /\ ret' = Returned("refused", Zeros(size))
    /\ Refuse(address, size, "read")
    /\ UNCHANGED <<mapped, rights, byte>>

SetUnsupported(address) ==
  /\ Remember("Unsupported", address)
  /\ UNCHANGED <<mapped, rights, byte, ret>>

SetBackendError ==
  /\ Remember("BackendError", 0)
  /\ UNCHANGED <<mapped, rights, byte, ret>>

ClearStatus ==
  /\ report' = NoFault
  /\ UNCHANGED <<mapped, rights, byte, ret>>

Reset ==
  /\ mapped' = {}
  /\ rights' = [a \in Address |-> {}]
  /\ byte' = [a \in Address |-> 0]
  /\ report' = NoFault
  /\ UNCHANGED ret

\* The caller has its answer and goes on.
Consume ==
  /\ ret # NoReturn
  /\ ret' = NoReturn
  /\ UNCHANGED <<mapped, rights, byte, report>>

Operation ==
  /\ ret = NoReturn
  /\ \/ \E a \in Address, n \in 0..MaxSize, g \in MapRights : Map(a, n, g)
     \/ \E a \in Address, b \in Buffers : Write(a, b)
     \/ \E a \in Address, n \in 0..MaxSize : Read(a, n)
     \/ \E a \in Address : SetUnsupported(a)
     \/ SetBackendError
     \/ ClearStatus
     \/ Reset

Next == Operation \/ Consume

Spec == Init /\ [][Next]_flatVars

=============================================================================
