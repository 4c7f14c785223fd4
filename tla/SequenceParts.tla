---------------------------- MODULE SequenceParts ----------------------------
(***************************************************************************)
(* Parts of a sequence, in their order.  As recursive functions, so that   *)
(* they can be proved about.                                               *)
(***************************************************************************)
EXTENDS Integers, Sequences

\* s is a sequence, of whatever.
IsList(s) == s \in Seq({s[i] : i \in DOMAIN s})

\* The numbers of I from 1 to n.
Ascending(I, n) ==
  LET upTo[m \in 0..n] == IF m = 0 THEN <<>>
                          ELSE IF m \in I THEN Append(upTo[m - 1], m)
                          ELSE upTo[m - 1]
  IN  upTo[n]

\* The elements of s at the places in I.
Only(s, I) ==
  LET chosen == Ascending(I, Len(s)) IN [n \in DOMAIN chosen |-> s[chosen[n]]]

=============================================================================
