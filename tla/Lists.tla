------------------------------- MODULE Lists -------------------------------
(***************************************************************************)
(* What the Go code does to slices in a loop.                              *)
(***************************************************************************)
EXTENDS Integers, Sequences

\* The elements of a list that are in a set, in their order.
Kept(list, set) ==
  LET kept[i \in 0..Len(list)] ==
        IF i = 0 THEN <<>>
        ELSE IF list[i] \in set THEN Append(kept[i - 1], list[i]) ELSE kept[i - 1]
  IN  kept[Len(list)]
=============================================================================
