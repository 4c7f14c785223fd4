---------------------------- MODULE GuestAddress ----------------------------
(***************************************************************************)
(* Addresses, pages and faults of the guest address space, shared by the   *)
(* page-level model (GuestMemory) and the byte-level one (FlatMemory).     *)
(*                                                                         *)
(* The code uses 64-bit addresses and 4 KiB pages; here an address is a    *)
(* number of 0..MaxAddress and the arithmetic of uint64_t is arithmetic    *)
(* modulo MaxAddress + 1, which the page size divides.                     *)
(***************************************************************************)
EXTENDS Integers, Sequences, FiniteSets

CONSTANTS
  PageSize,    \* kPageSize
  MaxAddress,  \* numeric_limits<uint64_t>::max()
  Byte         \* the values of a byte of guest memory

ASSUME PageSizeAssumption == PageSize \in Nat \ {0}
ASSUME MaxAddressAssumption ==
  /\ MaxAddress \in Nat
  /\ (MaxAddress + 1) % PageSize = 0
ASSUME ByteAssumption == 0 \in Byte

Address == 0 .. MaxAddress

\* What uint64_t arithmetic makes of a number.
Wrap(x) == x % (MaxAddress + 1)

PageOffset(address) == address % PageSize

PageBase(address) == address - PageOffset(address)

Offset == 0 .. PageSize - 1

PageBases == {a \in Address : PageOffset(a) = 0}

(***************************************************************************)
(* The addresses of a range of `size` bytes that fits the address space,   *)
(* and the test, in the form the code computes it, that one does not.      *)
(***************************************************************************)
RangeOf(address, size) == address .. (address + size - 1)

\* A defect: the test is forgotten.
NeverOverflows(address, size) == FALSE

Overflows(address, size) == address > MaxAddress - (size - 1)

\* MemoryPermissions, a bit mask in the code.
Right == {"read", "write", "execute"}

FaultKind == {"None", "Unmapped", "Permission", "Unsupported", "BackendError"}

\* std::optional<MemoryFault>.  The size, the operation and the wording of a
\* fault only reach the diagnostics.
Fault(kind, address) == [kind |-> kind, address |-> address]

NoFault == Fault("None", 0)

Faults == [kind : FaultKind, address : Address]

=============================================================================
