------------------------------ MODULE Vectors ------------------------------
(***************************************************************************)
(* Operations of Rust's Vec on sequences.                                  *)
(***************************************************************************)
EXTENDS Integers, Sequences

\* Vec::retain: the elements of s that are in kept, in their order.
retain(s, kept) ==
    LET upto[i \in 0..Len(s)] ==
            IF i = 0 THEN <<>>
            ELSE IF s[i] \in kept THEN Append(upto[i - 1], s[i]) ELSE upto[i - 1]
    IN  upto[Len(s)]
============================================================================
