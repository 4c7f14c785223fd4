CONSTANTS
  Bit = {0, 1, 3, 4, 5, 6, 7, 8, 10, 11}
  Name = {"rax", "RAX", "rip", "rcx", "flags", "eflags", "x87status", "cr0",
          "xmm0", "XMM0", "ymm0", "st0", "xmm99", "gdtr"}
  Canonical <- MCCanonical
  KeyOrder <- MCKeyOrder
  General = {"rax", "rcx", "rip"}
  ByteStateKey = {"st0", "xmm0", "xmm99", "ymm0"}
  ByteRegister <- MCByteRegister
  Longest = 3
  Rows <- MCRows
SPECIFICATION Spec
INVARIANT
  ByteVectorsAreCompared
CHECK_DEADLOCK FALSE
