------------------------------ MODULE SkipRules ------------------------------
(***************************************************************************)
(* Which rows are not executed, and why: XedDecoder::Decode                *)
(* (xed_metadata.cpp) and PreExecutionSkip with the predicates it asks     *)
(* (tester_main.cpp).  They are functions of the instruction, of its text  *)
(* and of the row; the first pass of Run asks them with a row that has     *)
(* nothing but its instruction.                                            *)
(***************************************************************************)
EXTENDS Integers, Sequences, SequencesExt

(***************************************************************************)
(* An instruction is what XED makes of its bytes (external).  An operand   *)
(* in memory is the set of what is done to it, empty for the address of    *)
(* LEA and the like.                                                       *)
(***************************************************************************)
Accesses == {"read", "write"}

Instructions ==
  [bytes : Nat, decodes : BOOLEAN, length : Nat, iclass : STRING,
   extension : {"X87", "other"}, category : {"IO", "X87", "other"},
   memoryOperands : SUBSET SUBSET Accesses]

\* The text of an instruction with at most two operands: a scalar register of
\* some width, or anything else, which has width 64 as a destination.
Operands == [register : STRING, width : {16, 32, 64}]

NoRegister == "none"

Texts == [mnemonic : STRING, destination : Operands, source : Operands]

\* The value of an x87 register: its exponent, whether the integer bit is set,
\* and whether some bit below it is.
StackValues == [exponent : 0..32767, integer : BOOLEAN, fraction : BOOLEAN]

(***************************************************************************)
(* What the rules look at in a row: the low halves of initial_state for    *)
(* scalar registers, the x87 registers of initial_bytes, which of its four *)
(* maps name an MMX register, whether it lists memory and whether it       *)
(* expects an exception.                                                   *)
(***************************************************************************)
StateMaps == {"initial_state", "initial_bytes", "final_state", "final_bytes"}

\* A row that the first pass makes up from a header.
HeaderOnly ==
  [scalars |-> <<>>, stack |-> {}, mmx |-> {}, cells |-> FALSE,
   exception |-> FALSE]

----------------------------------------------------------------------------
(* XedDecoder::Decode.                                                     *)

Undecoded ==
  [ok |-> FALSE, length |-> 0, iclass |-> "", extension |-> "", category |-> "",
   memoryOperands |-> {}]

Decode(i) ==
  IF i.bytes \in 1..15 /\ i.decodes
    THEN [ok |-> TRUE, length |-> i.length, iclass |-> i.iclass,
          extension |-> i.extension, category |-> i.category,
          memoryOperands |-> i.memoryOperands]
    ELSE Undecoded

LengthDiffers(i) == Decode(i).ok /\ Decode(i).length # i.bytes

----------------------------------------------------------------------------
(* The predicates.                                                         *)

RequiresMemoryOracle(metadata) ==
  \E operand \in metadata.memoryOperands : operand # {}

\* An exponent of 0 is zero or a denormal; the largest, infinity or a NaN;
\* with any other the integer bit has to be set.
IsUnsupportedX87StackValue(v) ==
  IF v.exponent = 0 THEN v.integer \/ v.fraction
                    ELSE v.exponent # 32767 /\ ~ v.integer

MovesStackValues ==
  {"FXCH", "FABS", "FCHS", "FST", "FCMOVB", "FCMOVBE", "FCMOVE", "FCMOVNB",
   "FCMOVNBE", "FCMOVNE", "FCMOVNU", "FCMOVU"}

LeavesStackValues ==
  {"FXAM", "FNSTSW", "FNINIT", "FNCLEX", "FDECSTP", "FINCSTP", "FFREE", "FFREEP"}

IsFpuUnsupported(metadata, row) ==
  CASE metadata.iclass \in MovesStackValues ->
         \E v \in row.stack : IsUnsupportedX87StackValue(v)
    [] metadata.iclass \in LeavesStackValues -> FALSE
    [] OTHER -> metadata.extension = "X87" \/ metadata.category = "X87"

UsesMmxState(row) == row.mmx # {}

Privileged ==
  {"CLI", "STI", "HLT", "IN", "OUT", "INSB", "INSW", "INSD", "OUTSB", "OUTSW",
   "OUTSD", "LGDT", "LIDT", "LLDT", "LTR", "LMSW", "CLTS", "INVLPG", "WBINVD",
   "RDMSR", "WRMSR", "SWAPGS", "XSETBV", "CLAC", "STAC"}

IsPrivilegedOrIoUnsupported(metadata) ==
  metadata.category = "IO" \/ metadata.iclass \in Privileged

IsEnvironmentReadUnsupported(metadata) ==
  metadata.iclass \in {"RDTSC", "RDTSCP", "RDPMC", "RDPRU", "RDRAND", "RDSEED",
                       "RDPID", "RDGSBASE"}

\* The selector an LAR or LSL reads, as a set of at most one: that of its
\* source, when this is a register and the row lists it.
DescriptorSourceSelector(text, row) ==
  {row.scalars[k] : k \in {text.source.register} \cap DOMAIN row.scalars}

VariableSelectors == {80, 81}

\* A defect: a selector that is not known counts as one that varies.
UnknownVaries(text, row) ==
  \/ DescriptorSourceSelector(text, row) = {}
  \/ DescriptorSourceSelector(text, row) \cap VariableSelectors # {}

\* Without a source, any register of the row may be the selector.
HasVariableDescriptorSelector(text, row) ==
  LET selectors == IF DescriptorSourceSelector(text, row) # {}
                     THEN DescriptorSourceSelector(text, row)
                     ELSE {row.scalars[k] : k \in DOMAIN row.scalars}
  IN  selectors \cap VariableSelectors # {}

\* The low half of LAR's result does not vary for selector 0x50.
IsDescriptorStateUnsupported(metadata, text, row) ==
  /\ metadata.iclass \in {"LAR", "LSL"}
  /\ ~ /\ metadata.iclass = "LAR"
       /\ DescriptorSourceSelector(text, row) = {80}
       /\ text.destination.width = 16
  /\ HasVariableDescriptorSelector(text, row)

IsExpectedExceptionUnsupported(metadata, row) ==
  row.exception /\ metadata.iclass \notin {"DIV", "IDIV"}

----------------------------------------------------------------------------

NoSkip == "none"

\* The reason a row is skipped for.  The two lists of iclasses that end the
\* function, of approximate floating point and of SHA, are empty.
PreExecutionSkip(i, text, row, memoryStateMissing) ==
  LET metadata == Decode(i)
  IN  IF ~ metadata.ok THEN "xed_decode_failed"
      ELSE IF LengthDiffers(i) THEN "xed_length_mismatch"
      ELSE IF memoryStateMissing THEN "memory_state_missing"
      ELSE IF IsFpuUnsupported(metadata, row) THEN "fpu_state_unsupported"
      ELSE IF UsesMmxState(row) THEN "mmx_state_unsupported"
      ELSE IF IsPrivilegedOrIoUnsupported(metadata) THEN "privileged_or_io_unsupported"
      ELSE IF IsEnvironmentReadUnsupported(metadata) THEN "environment_read_unsupported"
      ELSE IF IsDescriptorStateUnsupported(metadata, text, row)
        THEN "descriptor_state_unsupported"
      ELSE IF IsExpectedExceptionUnsupported(metadata, row)
        THEN "expected_exception_unsupported"
      ELSE IF metadata.iclass = "CMPXCHG16B" THEN "atomic128_unsupported"
      ELSE IF metadata.iclass = "POPFQ" THEN "popfq_flag_state_unsupported"
      ELSE NoSkip

=============================================================================
