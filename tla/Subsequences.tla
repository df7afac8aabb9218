---------------------------- MODULE Subsequences ----------------------------
(***************************************************************************)
(* What is left of a list when a loop takes out, or passes over, some of   *)
(* its items.  The loops of the source test each item in turn; here the    *)
(* test is given as the set of positions that stay.                        *)
(***************************************************************************)
EXTENDS Integers, Sequences

\* The items of s at the positions in I, in their order.
Subsequence(s, I) ==
    LET upto[n \in 0..Len(s)] ==
            IF n = 0 THEN << >>
            ELSE IF n \in I THEN Append(upto[n - 1], s[n]) ELSE upto[n - 1]
    IN  upto[Len(s)]
=============================================================================
