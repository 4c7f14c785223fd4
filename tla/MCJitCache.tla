----------------------------- MODULE MCJitCache -----------------------------
(* Two rows that share an opcode at different addresses, and a third.      *)
EXTENDS JitCache

MCKeys == {[address |-> 1, opcode |-> "a"],
           [address |-> 2, opcode |-> "a"],
           [address |-> 1, opcode |-> "b"]}

=============================================================================
