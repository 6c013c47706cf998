------------------------------ MODULE Selection ------------------------------
(***************************************************************************)
(* What a loop leaves that copies the entries of a list for which a        *)
(* condition holds.  It is SelectSeq over a set instead of a predicate, as *)
(* a recursive function, which can be reasoned about.                      *)
(***************************************************************************)
EXTENDS Integers, Sequences

(* The members of a set among those of a sequence, in their order.          *)
Filtered(s, set) ==
  LET c[i \in 0 .. Len(s)] ==
        IF i = 0 THEN <<>> ELSE IF s[i] \in set THEN Append(c[i - 1], s[i]) ELSE c[i - 1]
  IN c[Len(s)]
=============================================================================
